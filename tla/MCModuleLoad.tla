----------------------------- MODULE MCModuleLoad -----------------------------
(* Images and servers for TLC. *)
EXTENDS ModuleLoad, TLC

CONSTANTS redis, valkey, other

MCImages == {redis, valkey, other}
MCBuild == redis :> "redis" @@ valkey :> "valkey" @@ other :> "valkey"

Of(forRedis, forValkey) == "redis" :> forRedis @@ "valkey" :> forValkey

\* Redis knows one prefix and Valkey both; an early server lacks what came later,
\* the test of names included; and one lacks a function that the command calls.
MCServers ==
    {Of(ValkeyTable, {}),
     Of(ValkeyTable, ValkeyTable),
     Of(Needed \cup Values, Needed \cup Values),
     Of(ValkeyTable \ {"ReplicateVerbatim"}, ValkeyTable \ {"CreateCommand"})}
=============================================================================
