-------------------------------- MODULE Store --------------------------------
(***************************************************************************)
(* The atomic operations of the Store trait (src/src/cell/store.rs), as    *)
(* functions of the entry stored at a key and of the instant of the call.  *)
(* Each operation returns the entry it leaves and the result it reports.   *)
(*                                                                         *)
(* StoreKind selects the implementation: "redis" for InternalRedisStore,   *)
(* whose keys expire, "memory" for MemoryStore, which ignores every TTL.   *)
(***************************************************************************)
EXTENDS CellTime

CONSTANTS
    None,       \* no value, no expiry
    StoreKind

ASSUME StoreAssumption ==
    /\ None \notin Int
    /\ StoreKind \in {"redis", "memory"}

\* What a key holds: the theoretical arrival time (the decimal string of a
\* u64) and the millisecond after which Redis drops it.  An expired entry is
\* kept here until it is overwritten, but no operation can see it.
Entry  == [tat : U64 \cup {None}, expire : Int \cup {None}]
Absent == [tat |-> None, expire |-> None]

\* Redis drops a key once its clock, in milliseconds, is past the expiry.
IsLive(e, t) ==
    /\ e.tat # None
    /\ e.expire # None => t \div Ms <= e.expire

\* Mutant of Visible: a key keeps being read after its expiry.
StaleVisible(e, t) == e.tat

\* RedisKey::read / HashMap::get.
Visible(e, t) == IF IsLive(e, t) THEN e.tat ELSE None

-----------------------------------------------------------------------------
\* RedisModule_SetExpire refuses a negative number of milliseconds, except -1
\* (REDISMODULE_NO_EXPIRE), which removes the expiry.
NO_EXPIRE == -1
ExpireRefused(ttl) == WholeMilliseconds(ttl) < NO_EXPIRE

\* Mutant of SetExpire: the TTL is one millisecond short.
ShortSetExpire(e, ttl, t) ==
    [e EXCEPT !.expire = t \div Ms + WholeMilliseconds(ttl) - 1]

SetExpire(e, ttl, t) ==
    IF StoreKind = "memory" \/ ExpireRefused(ttl) THEN e
    ELSE [e EXCEPT !.expire = IF WholeMilliseconds(ttl) = NO_EXPIRE THEN None
                              ELSE t \div Ms + WholeMilliseconds(ttl)]

Outcome(e, result, ttl) ==
    [entry  |-> e,
     result |-> IF StoreKind = "redis" /\ ExpireRefused(ttl) THEN "error"
                ELSE result]

\* Mutant of Write: the calls are swapped, so the write drops the new expiry.
ExpireThenWrite(value, ttl, t) ==
    Outcome([tat |-> value, expire |-> None], "updated", ttl)

\* key.write then key.set_expire: the write already drops the old expiry, and
\* it stays when the second call fails.
Write(value, ttl, t) ==
    Outcome(SetExpire([tat |-> value, expire |-> None], ttl, t), "updated", ttl)

\* Mutant of Swappable: whatever is stored is overwritten.
BlindSwappable(e, old, t) == TRUE

\* A missing key is a failed swap for Redis and a successful one in memory.
Swappable(e, old, t) ==
    IF StoreKind = "redis" THEN IsLive(e, t) /\ e.tat = old
                           ELSE e.tat \in {None, old}

CompareAndSwapWithTtl(e, old, new, ttl, t) ==
    IF Swappable(e, old, t) THEN Write(new, ttl, t)
                            ELSE [entry |-> e, result |-> "kept"]

\* The expiry is set whether or not the value was.
SetIfNotExistsWithTtl(e, value, ttl, t) ==
    IF IsLive(e, t) THEN Outcome(SetExpire(e, ttl, t), "kept", ttl)
                    ELSE Write(value, ttl, t)
=============================================================================
