------------------------------ MODULE LoadProofs ------------------------------
(***************************************************************************)
(* Whatever images are loaded into whatever servers, in any order: a       *)
(* module that is in serves its command, and the server dies of this       *)
(* module only when it lacks a function the module needs.                  *)
(*                                                                         *)
(* The invariant adds to the two properties what the table of an image     *)
(* holds while its OnLoad runs and after it: every needed function that    *)
(* the server exports, of those that Init has come to.                     *)
(***************************************************************************)
EXTENDS ModuleLoad, TLAPS

\* Of the given functions, the table of i has all that the server e exports.
Holds(table, e, i, names) == names \cap e[Build[i]] \subseteq table[i]

Fetched ==
    /\ at = "commands" => Holds(pointers, exports, loading, Needed \cap SetUp)
    /\ at \in {"data", "rest", "name", "command"} =>
          Holds(pointers, exports, loading, Needed)
    /\ \A i \in loaded : Holds(pointers, exports, i, Needed)

LoadInv == TypeOK /\ LoadedServes /\ Fetched /\ DiesOnlyOfMissing

-----------------------------------------------------------------------------
\* Each header declares what is needed, and fetches it before it is called.
LEMMA NeededIsDeclared ==
    /\ Needed \subseteq RedisTable
    /\ Needed \subseteq SetUp \cup Commands
    /\ Called \subseteq Needed
    /\ "CreateCommand" \in Needed /\ "SetModuleAttribs" \in Needed
    /\ RedisTable \subseteq ValkeyTable
    /\ SetUp \cup Commands \subseteq ValkeyTable
    /\ Values \cup Reports \subseteq ValkeyTable
    /\ Waiting \cup Users \cup Engines \subseteq ValkeyTable
<1>1. Needed \subseteq SetUp \cup Commands
  BY DEF Needed, Called, SetUp, Commands
<1>2. Needed \subseteq RedisTable
  <2>1. Needed \subseteq (SetUp \ {"IsModuleNameBusy"}) \cup Commands
    BY DEF Needed, Called, SetUp, Commands
  <2>. QED  BY <2>1 DEF RedisTable
<1>3. /\ Called \subseteq Needed
      /\ "CreateCommand" \in Needed /\ "SetModuleAttribs" \in Needed
  BY DEF Needed
<1>4. /\ RedisTable \subseteq ValkeyTable
      /\ SetUp \cup Commands \subseteq ValkeyTable
      /\ Values \cup Reports \subseteq ValkeyTable
      /\ Waiting \cup Users \cup Engines \subseteq ValkeyTable
  BY DEF RedisTable, ValkeyTable
<1>. QED  BY <1>1, <1>2, <1>3, <1>4

\* What is null is not exported: the server does not fit (lib.rs:118-148).
LEMMA NullIsMissing ==
    ASSUME NEW i \in Images, NEW f \in Needed, IsNull(i, f),
           Holds(pointers, exports, i, Needed)
    PROVE  ~Fits(i)
BY DEF IsNull, Holds, Fits

\* A server that has started has nothing of this module.
LEMMA InitInv == Init => LoadInv
<1> SUFFICES ASSUME Init PROVE LoadInv
  OBVIOUS
<1>1. TypeOK
  BY LoadAssumption DEF Init, TypeOK
<1>2. LoadedServes /\ Fetched /\ DiesOnlyOfMissing
  BY LoadAssumption DEF Init, LoadedServes, Fetched, DiesOnlyOfMissing
<1>. QED  BY <1>1, <1>2 DEF LoadInv

-----------------------------------------------------------------------------
\* The server dies of i in OnLoad or in the command.
LEMMA CrashStep ==
    ASSUME LoadInv, NEW i \in Images, Crash(i), ~Fits(i)
    PROVE  LoadInv'
<1>1. TypeOK'
  BY DEF Crash, LoadInv, TypeOK
<1>2. LoadedServes' /\ Fetched'
  BY DEF Crash, LoadInv, LoadedServes, Fetched, Holds
<1>3. DiesOnlyOfMissing'
  BY DEF Crash, LoadInv, DiesOnlyOfMissing, Fits
<1>. QED  BY <1>1, <1>2, <1>3 DEF LoadInv

\* OnLoad of i returns an error.
LEMMA RefuseStep ==
    ASSUME LoadInv, NEW i \in Images, Refuse(i)
    PROVE  LoadInv'
<1>1. TypeOK'
  BY DEF Refuse, LoadInv, TypeOK
<1>2. \A j \in loaded : pointers'[j] = pointers[j]
  BY DEF Refuse, LoadInv, TypeOK
<1>3. Fetched'
  BY <1>2 DEF Refuse, LoadInv, Fetched, Holds
<1>4. LoadedServes' /\ DiesOnlyOfMissing'
  BY DEF Refuse, LoadInv, LoadedServes, DiesOnlyOfMissing, Fits
<1>. QED  BY <1>1, <1>3, <1>4 DEF LoadInv

\* Init fetches some more of the table of i.
LEMMA FetchStep ==
    ASSUME LoadInv, NEW i \in Images, NEW names \in SUBSET ValkeyTable,
           NEW from \in {"setup", "commands", "data", "rest"},
           NEW to \in {"commands", "data", "rest", "name"},
           Running(i, from), Fetch(i, names), Proceed(to),
           to = "commands" => Needed \cap SetUp \subseteq names,
           to # "commands" => \/ from # "setup" /\ from # "commands"
                              \/ Needed \subseteq names
                              \/ from = "commands" /\ Needed \ SetUp \subseteq names
    PROVE  LoadInv'
<1>1. /\ pointers' \in [Images -> SUBSET ValkeyTable]
      /\ pointers'[i] = pointers[i] \cup (names \cap exports[Build[i]])
      /\ \A j \in Images : pointers[j] \subseteq pointers'[j]
  BY DEF Fetch, LoadInv, TypeOK
<1>2. loading = i /\ at = from /\ loading' = i /\ at' = to
  BY DEF Running, Proceed
<1>3. /\ exports' = exports /\ loaded' = loaded
      /\ owner' = owner /\ down' = down
  BY DEF Proceed
<1>4. TypeOK'
  BY <1>1, <1>2, <1>3, LoadAssumption DEF LoadInv, TypeOK
<1>5. \A j \in loaded : Holds(pointers', exports', j, Needed)
  BY <1>1, <1>3 DEF LoadInv, Fetched, Holds, TypeOK
<1>6. to = "commands" => Holds(pointers', exports', i, Needed \cap SetUp)
  BY <1>1, <1>3 DEF Holds
<1>7. to # "commands" => Holds(pointers', exports', i, Needed)
  <2>1. CASE from = "commands"
    <3>1. Holds(pointers, exports, i, Needed \cap SetUp)
      BY <1>2, <2>1 DEF LoadInv, Fetched
    <3>. QED  BY <1>1, <1>3, <2>1, <3>1 DEF Holds
  <2>2. CASE from = "data" \/ from = "rest"
    <3>1. Holds(pointers, exports, i, Needed)
      BY <1>2, <2>2 DEF LoadInv, Fetched
    <3>. QED  BY <1>1, <1>3, <3>1 DEF Holds
  <2>3. CASE from = "setup"
    BY <1>1, <1>3, <2>3 DEF Holds
  <2>. QED  BY <2>1, <2>2, <2>3
<1>8. Fetched'
  BY <1>2, <1>3, <1>5, <1>6, <1>7 DEF Fetched
<1>9. LoadedServes' /\ DiesOnlyOfMissing'
  BY <1>3 DEF LoadInv, LoadedServes, DiesOnlyOfMissing, Fits
<1>. QED  BY <1>4, <1>8, <1>9 DEF LoadInv

-----------------------------------------------------------------------------
\* Init comes to the name of the module (valkeymodule.h:2541-2542).
LEMMA NameStep ==
    ASSUME LoadInv, NEW i \in Images, SetModuleAttribs(i)
    PROVE  LoadInv'
<1>1. loading = i /\ at = "name" /\ Holds(pointers, exports, i, Needed)
  BY DEF SetModuleAttribs, Running, LoadInv, Fetched
<1>2. CASE Refuse(i)
  BY <1>2, RefuseStep
<1>3. CASE IsNull(i, "SetModuleAttribs") /\ Crash(i)
  BY <1>1, <1>3, NeededIsDeclared, NullIsMissing, CrashStep
<1>4. CASE Proceed("command") /\ UNCHANGED pointers
  <2>1. TypeOK'
    BY <1>1, <1>4, LoadAssumption DEF Proceed, LoadInv, TypeOK
  <2>2. Fetched'
    BY <1>1, <1>4 DEF Proceed, LoadInv, Fetched
  <2>3. LoadedServes' /\ DiesOnlyOfMissing'
    BY <1>4 DEF Proceed, LoadInv, LoadedServes, DiesOnlyOfMissing, Fits
  <2>. QED  BY <2>1, <2>2, <2>3 DEF LoadInv
<1>. QED  BY <1>2, <1>3, <1>4 DEF SetModuleAttribs

\* OnLoad registers the command, or fails (lib.rs:129-147).
LEMMA CommandStep ==
    ASSUME LoadInv, NEW i \in Images, CreateCommand(i)
    PROVE  LoadInv'
<1>1. Holds(pointers, exports, i, Needed)
  BY DEF CreateCommand, Running, LoadInv, Fetched
<1>2. CASE IsNull(i, "CreateCommand") /\ Crash(i)
  BY <1>1, <1>2, NeededIsDeclared, NullIsMissing, CrashStep
<1>3. CASE Refuse(i)
  BY <1>3, RefuseStep
<1>4. CASE owner = None /\ Succeed(i)
  <2>1. loaded = {} /\ loaded' = {i} /\ owner' = i
    BY <1>4, LoadAssumption DEF Succeed, LoadInv, LoadedServes
  <2>2. TypeOK'
    BY <1>4, <2>1, LoadAssumption DEF Succeed, LoadInv, TypeOK
  <2>3. Fetched'
    BY <1>1, <1>4, <2>1 DEF Succeed, Fetched
  <2>4. LoadedServes' /\ DiesOnlyOfMissing'
    BY <1>4, <2>1 DEF Succeed, LoadInv, LoadedServes, DiesOnlyOfMissing, Fits
  <2>. QED  BY <2>2, <2>3, <2>4 DEF LoadInv
<1>. QED  BY <1>2, <1>3, <1>4 DEF CreateCommand

-----------------------------------------------------------------------------
\* Every step of the server and of the images keeps the invariant.
LEMMA LoadStep == LoadInv /\ [Next]_vars => LoadInv'
<1> SUFFICES ASSUME LoadInv, [Next]_vars PROVE LoadInv'
  OBVIOUS
<1>1. ASSUME NEW i \in Images, Load(i) PROVE LoadInv'
  <2>1. /\ pointers' \in [Images -> SUBSET ValkeyTable]
        /\ \A j \in loaded : pointers'[j] = pointers[j]
    BY <1>1 DEF Load, LoadInv, TypeOK
  <2>2. TypeOK'
    BY <1>1, <2>1, LoadAssumption DEF Load, LoadInv, TypeOK
  <2>3. Fetched'
    BY <1>1, <2>1 DEF Load, LoadInv, Fetched, Holds
  <2>4. LoadedServes' /\ DiesOnlyOfMissing'
    BY <1>1 DEF Load, LoadInv, LoadedServes, DiesOnlyOfMissing, Fits
  <2>. QED  BY <2>2, <2>3, <2>4 DEF LoadInv
<1>2. ASSUME NEW i \in Images, FetchRedis(i) PROVE LoadInv'
  BY <1>2, NeededIsDeclared, FetchStep DEF FetchRedis
<1>3. ASSUME NEW i \in Images, FetchSetUp(i) PROVE LoadInv'
  BY <1>3, NeededIsDeclared, FetchStep DEF FetchSetUp
<1>4. ASSUME NEW i \in Images, FetchCommands(i) PROVE LoadInv'
  BY <1>4, NeededIsDeclared, FetchStep DEF FetchCommands
<1>5. ASSUME NEW i \in Images, FetchData(i) PROVE LoadInv'
  BY <1>5, NeededIsDeclared, FetchStep DEF FetchData
<1>6. ASSUME NEW i \in Images, FetchRest(i) PROVE LoadInv'
  BY <1>6, NeededIsDeclared, FetchStep DEF FetchRest
<1>7. ASSUME NEW i \in Images, RunCommand(i) PROVE LoadInv'
  <2>1. PICK f \in Called : IsNull(i, f)
    BY <1>7 DEF RunCommand
  <2>2. Holds(pointers, exports, i, Needed)
    BY <1>7 DEF RunCommand, LoadInv, LoadedServes, Fetched
  <2>. QED  BY <1>7, <2>1, <2>2, NeededIsDeclared, NullIsMissing, CrashStep DEF RunCommand
<1>8. ASSUME NEW i \in Images, Unload(i) PROVE LoadInv'
  <2>1. loaded = {i} /\ owner = i /\ loaded' = {} /\ owner' = None
    BY <1>8 DEF Unload, LoadInv, LoadedServes
  <2>2. TypeOK'
    BY <1>8, <2>1 DEF Unload, LoadInv, TypeOK
  <2>3. LoadedServes' /\ Fetched' /\ DiesOnlyOfMissing'
    BY <1>8, <2>1, LoadAssumption
       DEF Unload, LoadInv, LoadedServes, Fetched, DiesOnlyOfMissing, Fits, TypeOK
  <2>. QED  BY <2>2, <2>3 DEF LoadInv
<1>9. CASE Others
  <2>1. TypeOK'
    BY <1>9 DEF Others, LoadInv, TypeOK
  <2>2. LoadedServes' /\ Fetched' /\ DiesOnlyOfMissing'
    BY <1>9, LoadAssumption
       DEF Others, LoadInv, LoadedServes, Fetched, DiesOnlyOfMissing, Fits
  <2>. QED  BY <2>1, <2>2 DEF LoadInv
<1>10. CASE Restart
  <2>1. TypeOK'
    BY <1>10 DEF Restart, Started, TypeOK
  <2>2. LoadedServes' /\ Fetched' /\ DiesOnlyOfMissing'
    BY <1>10, LoadAssumption
       DEF Restart, Started, LoadedServes, Fetched, DiesOnlyOfMissing
  <2>. QED  BY <2>1, <2>2 DEF LoadInv
<1>11. CASE UNCHANGED vars
  BY <1>11 DEF vars, LoadInv, TypeOK, LoadedServes, Fetched, DiesOnlyOfMissing, Fits
<1>. QED
  BY <1>1, <1>2, <1>3, <1>4, <1>5, <1>6, <1>7, <1>8, <1>9, <1>10, <1>11,
     NameStep, CommandStep DEF Next, OnLoad

\* So it holds always.
LEMMA LoadInvariant == Spec => []LoadInv
BY InitInv, LoadStep, PTL DEF Spec

\* A module that is in serves cl.throttle, and no other module of this program is
\* in (lib.rs:118-148).
THEOREM WhatIsLoadedServes == Spec => []LoadedServes
<1>1. LoadInv => LoadedServes
  BY DEF LoadInv
<1>. QED  BY <1>1, LoadInvariant, PTL

\* A null pointer is called only in a server without a needed function
\* (valkeymodule.h:2167-2543, redismodule.h:208-316).
THEOREM NullOnlyIfMissing == Spec => []DiesOnlyOfMissing
<1>1. LoadInv => DiesOnlyOfMissing
  BY DEF LoadInv
<1>. QED  BY <1>1, LoadInvariant, PTL
=============================================================================
