------------------------------ MODULE ModuleLoad ------------------------------
(***************************************************************************)
(* How the module gets into a server and out of it: RedisModule_OnLoad     *)
(* (src/src/lib.rs:118-148) and, under it, the Init of the vendored header *)
(* that the image was built with, redismodule.h or valkeymodule.h.         *)
(*                                                                         *)
(* An image calls the server through function pointers.  Init asks the     *)
(* server for each of them by name, and ignores whether it is known: the   *)
(* pointer then stays null, and the server dies when it is called.  The    *)
(* names have the prefix of the build, so an image finds no function in a  *)
(* server that knows only the other prefix.                                *)
(*                                                                         *)
(* A function is known here by its name without the prefix.  The functions *)
(* that this program never calls are one name for each part of the header  *)
(* they are declared in.  The server is external: it loads one module at a *)
(* time, in its main thread, and runs no command meanwhile; it knows a     *)
(* module by name once OnLoad has succeeded; it has one owner for a        *)
(* command name.  Other modules may own cl.throttle.                       *)
(***************************************************************************)
EXTENDS Integers

CONSTANTS
    None,
    Images,    \* the shared objects that may be loaded
    Build,     \* which header each is built with
    Servers,   \* the functions that servers export under either prefix
    Foreign    \* a module of somebody else with a command of the same name

-----------------------------------------------------------------------------
(* The tables of function pointers, in the order in which valkeymodule.h   *)
(* declares them.  It fetches them in almost the same order: a few of the  *)
(* functions that are never called come one part later.                    *)

SetUp == {"CreateCommand", "SetModuleAttribs", "IsModuleNameBusy", "ReplyWithLongLong"}

Commands ==
    {"OpenKey", "CloseKey", "CreateString", "FreeString", "StringPtrLen",
     "ReplyWithError", "ReplyWithArray", "ReplicateVerbatim", "StringSet",
     "StringDMA", "SetExpire"}

Values == {"data types"}
Reports == {"dictionaries and reports"}
Waiting == {"blocked clients and the cluster"}
Users == {"users and memory"}
Engines == {"configuration and engines"}

ValkeyTable == SetUp \cup Commands \cup Values \cup Reports \cup Waiting \cup Users \cup Engines

\* redismodule.h is older: no test of the module's name, and fewer functions of
\* the first parts only.
RedisTable ==
    (SetUp \ {"IsModuleNameBusy"}) \cup Commands \cup Values \cup Reports \cup Waiting

\* What cl.throttle calls in a release build (a debug build also logs), and what
\* OnLoad calls.
Called == {"ReplyWithLongLong"} \cup Commands
Needed == Called \cup {"CreateCommand", "SetModuleAttribs"}

Server == [{"redis", "valkey"} -> SUBSET ValkeyTable]

ASSUME LoadAssumption ==
    /\ Build \in [Images -> {"redis", "valkey"}]
    /\ Servers \subseteq Server
    /\ None \notin Images /\ Foreign \notin Images /\ None # Foreign

VARIABLES
    exports,   \* the server that runs
    pointers,  \* which pointers of each image are not null
    loading,   \* the image whose OnLoad runs, or None
    at,        \* how far its OnLoad is
    loaded,    \* the images whose OnLoad succeeded
    owner,     \* the module that owns the command cl.throttle, or None
    down       \* the image that called a null pointer, or None

vars == <<exports, pointers, loading, at, loaded, owner, down>>

-----------------------------------------------------------------------------
\* A server starts without this module.
Started ==
    /\ pointers' = [i \in Images |-> {}]
    /\ loading' = None
    /\ at' = "idle"
    /\ loaded' = {}
    /\ owner' \in {None, Foreign}
    /\ down' = None

Init ==
    /\ exports \in Servers
    /\ pointers = [i \in Images |-> {}]
    /\ loading = None
    /\ at = "idle"
    /\ loaded = {}
    /\ owner \in {None, Foreign}
    /\ down = None

\* A call of f through the table of i would be a call of a null pointer.
IsNull(i, f) == f \notin pointers[i]

Crash(i) ==
    /\ down' = i
    /\ loading' = None
    /\ at' = "idle"
    /\ UNCHANGED <<exports, pointers, loaded, owner>>

Running(i, stage) == down = None /\ loading = i /\ at = stage

Proceed(stage) ==
    /\ at' = stage
    /\ UNCHANGED <<exports, loading, loaded, owner, down>>

\* OnLoad returns an error: the server forgets the module.  An image that was
\* already in stays in, and its pointers with it.
Refuse(i) ==
    /\ loading' = None
    /\ at' = "idle"
    /\ pointers' = [pointers EXCEPT ![i] = IF i \in loaded THEN @ ELSE {}]
    /\ UNCHANGED <<exports, loaded, owner, down>>

-----------------------------------------------------------------------------
\* MODULE LOAD.  An image that is in, or that the loader kept in memory when it
\* was unloaded, still has its pointers; the table of a new one is null.
Load(i) ==
    /\ down = None /\ loading = None
    /\ loading' = i
    /\ at' = "setup"
    /\ \E kept \in IF i \in loaded THEN {pointers[i]} ELSE {{}, pointers[i]} :
          pointers' = [pointers EXCEPT ![i] = kept]
    /\ UNCHANGED <<exports, loaded, owner, down>>

\* GET_API for each of the names: the server sets the pointers it knows.
Fetch(i, names) ==
    pointers' = [pointers EXCEPT ![i] = @ \cup (names \cap exports[Build[i]])]

FetchRedis(i) ==
    /\ Running(i, "setup") /\ Build[i] = "redis"
    /\ Fetch(i, RedisTable)
    /\ Proceed("name")

FetchSetUp(i) ==
    /\ Running(i, "setup") /\ Build[i] = "valkey"
    /\ Fetch(i, SetUp)
    /\ Proceed("commands")

\* Mutant of FetchCommands: the line for one of the functions is missing.
FetchTooFew(i) ==
    /\ Running(i, "commands")
    /\ Fetch(i, Commands \ {"SetExpire"})
    /\ Proceed("data")

FetchCommands(i) ==
    /\ Running(i, "commands")
    /\ Fetch(i, Commands)
    /\ Proceed("data")

FetchData(i) ==
    /\ Running(i, "data")
    /\ Fetch(i, Values \cup Reports)
    /\ Proceed("rest")

\* Mutant of FetchRest: a function that the server does not know is an error.
FetchAllOrFail(i) ==
    /\ Running(i, "rest")
    /\ IF Engines \subseteq exports[Build[i]]
       THEN Fetch(i, Waiting \cup Users \cup Engines) /\ Proceed("name")
       ELSE Refuse(i)

FetchRest(i) ==
    /\ Running(i, "rest")
    /\ Fetch(i, Waiting \cup Users \cup Engines)
    /\ Proceed("name")

\* Both builds call the module redis-cell, and the server asks for the name of
\* those that are in.  The Redis header has no such test.
NameIsBusy(i) ==
    /\ Build[i] = "valkey"
    /\ ~IsNull(i, "IsModuleNameBusy")
    /\ loaded # {}

SetModuleAttribs(i) ==
    /\ Running(i, "name")
    /\ \/ /\ NameIsBusy(i)
          /\ Refuse(i)
       \/ /\ ~NameIsBusy(i) /\ IsNull(i, "SetModuleAttribs")
          /\ Crash(i)
       \/ /\ ~NameIsBusy(i) /\ ~IsNull(i, "SetModuleAttribs")
          /\ Proceed("command")
          /\ UNCHANGED pointers

Succeed(i) ==
    /\ owner' = i
    /\ loaded' = loaded \cup {i}
    /\ loading' = None
    /\ at' = "idle"
    /\ UNCHANGED <<exports, pointers, down>>

\* Mutant of CreateCommand: OnLoad ignores that the command was not created.
CreateCommandUnchecked(i) ==
    /\ Running(i, "command")
    /\ IF IsNull(i, "CreateCommand") THEN Crash(i)
       ELSE IF owner = None THEN Succeed(i)
       ELSE /\ loaded' = loaded \cup {i}
            /\ loading' = None /\ at' = "idle"
            /\ UNCHANGED <<exports, pointers, owner, down>>

CreateCommand(i) ==
    /\ Running(i, "command")
    /\ \/ /\ IsNull(i, "CreateCommand")
          /\ Crash(i)
       \/ /\ ~IsNull(i, "CreateCommand") /\ owner # None
          /\ Refuse(i)
       \/ /\ ~IsNull(i, "CreateCommand") /\ owner = None
          /\ Succeed(i)

\* A client calls cl.throttle and the command comes to a null pointer.  With all
\* its pointers a command leaves all this as it is.
RunCommand(i) ==
    /\ down = None /\ loading = None
    /\ owner = i
    /\ \E f \in Called : IsNull(i, f)
    /\ Crash(i)

-----------------------------------------------------------------------------
\* MODULE UNLOAD of an image, and the coming and going of the other module.
Unload(i) ==
    /\ down = None /\ loading = None
    /\ i \in loaded
    /\ loaded' = loaded \ {i}
    /\ owner' = IF owner = i THEN None ELSE owner
    /\ UNCHANGED <<exports, pointers, loading, at, down>>

Others ==
    /\ down = None /\ loading = None
    /\ owner \in {None, Foreign}
    /\ owner' = IF owner = None THEN Foreign ELSE None
    /\ UNCHANGED <<exports, pointers, loading, at, loaded, down>>

\* The server is stopped, or died, and it or another version is started.
Restart ==
    /\ loading = None
    /\ exports' \in Servers
    /\ Started

OnLoad(i) ==
    \/ FetchRedis(i) \/ FetchSetUp(i) \/ FetchCommands(i) \/ FetchData(i) \/ FetchRest(i)
    \/ SetModuleAttribs(i) \/ CreateCommand(i)

Next ==
    \/ \E i \in Images : Load(i) \/ OnLoad(i) \/ RunCommand(i) \/ Unload(i)
    \/ Others
    \/ Restart

Spec == Init /\ [][Next]_vars

\* OnLoad is straight-line code in the main thread.
FairSpec == Spec /\ \A i \in Images : WF_vars(OnLoad(i))

-----------------------------------------------------------------------------
\* One load at a time, and every image knows only functions its header declares.
TypeOK ==
    /\ exports \in Servers
    /\ pointers \in [Images -> SUBSET ValkeyTable]
    /\ loading \in Images \cup {None}
    /\ at \in {"idle", "setup", "commands", "data", "rest", "name", "command"}
    /\ (at = "idle") = (loading = None)
    /\ loaded \subseteq Images
    /\ owner \in Images \cup {None, Foreign}
    /\ down \in Images \cup {None}

\* A server that exports all that the image calls.
Fits(i) == Needed \subseteq exports[Build[i]]

\* A module that is in serves cl.throttle, it alone, and no module that is out is
\* asked to, through failed loads, repeated loads, unloads and name clashes: the
\* OnLoad of an image that could not register the command reports it
\* (lib.rs:130-145), and the server never keeps a module without its command.
LoadedServes == loaded = {owner} \cap Images

\* Whatever the order of loads, unloads and restarts, nothing but a server that
\* lacks a needed function makes an image call a null pointer.
DiesOnlyOfMissing == down # None => ~Fits(down)

\* On a server that has what it needs, and where the command name is free, a
\* load succeeds, although functions it never calls may be missing and Init
\* says nothing of it.
LoadsWhereItFits ==
    \A i \in Images :
        (loading = i /\ owner = None /\ Fits(i)) ~> (i \in loaded)
=============================================================================
