SPECIFICATION FairSpec
CONSTANTS
    redis = redis
    valkey = valkey
    other = other
    Foreign = Foreign
    None = None
    Images <- MCImages
    Build <- MCBuild
    Servers <- MCServers
INVARIANTS
    LoadedServes
    DiesOnlyOfMissing
PROPERTIES
    LoadsWhereItFits
