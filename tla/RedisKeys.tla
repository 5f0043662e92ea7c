------------------------------ MODULE RedisKeys ------------------------------
(***************************************************************************)
(* rate_limit on Redis, with every operation of InternalRedisStore         *)
(* (src/src/cell/store.rs) taken apart into its calls on RedisKey and      *)
(* RedisKeyWritable (src/src/redis/mod.rs), between which time passes.     *)
(*                                                                         *)
(* Store treats an operation as one instant.  Here the key is looked up,   *)
(* and found expired or not, when it is opened; the clock is read, the     *)
(* value written and the expiry set at later instants.  AsAtomic relates   *)
(* the two, and the promises of Promises are checked on the finer steps.   *)
(***************************************************************************)
EXTENDS Promises

ASSUME KeysAssumption == StoreKind = "redis" /\ \E p \in Limiters : Limiters = {p}

VARIABLE
    handle   \* what the open key holds, and the next call on it; see Handle

keyVars == <<clock, db, lim, reply, handle>>

\* The value is that of the key when it was opened.  The entry and the time of
\* that moment, was and at, are history variables.
Handle == [next : {"open", "time", "write", "expire"}, value : U64 \cup {None},
           written : BOOLEAN, was : Entry, at : Nat]

\* No key is open: RedisKey and RedisKeyWritable close theirs when they go out
\* of scope, by a return or by the `?` of an error.
Closed ==
    [next |-> "open", value |-> None, written |-> FALSE, was |-> Absent, at |-> 0]

KeyOf(p) == lim[p].req.key

Opened(p, next) ==
    [next |-> next, value |-> Visible(db[KeyOf(p)], clock), written |-> FALSE,
     was |-> db[KeyOf(p)], at |-> clock]

-----------------------------------------------------------------------------
\* Mutant of IsEmpty: a null pointer is looked for, which a key opened for
\* writing never is.
NullKey(value) == FALSE

\* RedisKeyWritable::is_empty: a missing key reads as the empty string.
IsEmpty(value) == value = None

\* The time that is left until the new TAT, from the time that was read.
Ttl(p) == NewTat(lim[p]) - lim[p].now

At(p, pc, next) == lim[p].pc = pc /\ handle.next = next

OpenKey(p) ==
    /\ At(p, "get", "open")
    /\ handle' = Opened(p, "time")
    /\ UNCHANGED vars

\* get_with_time has read the key, and reads the clock.
ReadClock(p) ==
    /\ At(p, "get", "time")
    /\ Decide(p, [lim[p] EXCEPT !.pc = "update", !.tat_val = handle.value,
                                !.now = clock])
    /\ handle' = Closed
    /\ UNCHANGED <<clock, db>>

\* compare_and_swap_with_ttl up to its comparison.
OpenToSwap(p) ==
    /\ At(p, "update", "open")
    /\ lim[p].tat_val # None
    /\ LET h == Opened(p, "write")
           same == ~IsEmpty(h.value) /\ h.value = lim[p].tat_val
       IN  \/ same /\ handle' = h /\ UNCHANGED <<lim, reply>>
           \/ ~same /\ Retry(p) /\ UNCHANGED handle
    /\ UNCHANGED <<clock, db>>

\* set_if_not_exists_with_ttl up to its test.
OpenToSet(p) ==
    /\ At(p, "update", "open")
    /\ lim[p].tat_val = None
    /\ LET h == Opened(p, "write")
       IN  handle' = IF IsEmpty(h.value) THEN h ELSE Opened(p, "expire")
    /\ UNCHANGED vars

\* Mutant of WriteValue: the operation returns before it sets the expiry.
WriteAndReturn(p) ==
    /\ At(p, "update", "write")
    /\ Conclude(p, [entry |-> [tat |-> AsU64(NewTat(lim[p])), expire |-> None],
                    result |-> "updated"])
    /\ handle' = Closed

\* RedisKeyWritable::write: the new value has no expiry.
WriteValue(p) ==
    /\ At(p, "update", "write")
    /\ db' = [db EXCEPT ![KeyOf(p)] =
                 [tat |-> AsU64(NewTat(lim[p])), expire |-> None]]
    /\ handle' = [handle EXCEPT !.next = "expire", !.written = TRUE]
    /\ UNCHANGED <<clock, lim, reply>>

\* RedisKeyWritable::set_expire, and the result of the operation.
ExpireValue(p) ==
    /\ At(p, "update", "expire")
    /\ Conclude(p, Outcome(SetExpire(db[KeyOf(p)], Ttl(p), clock),
                           IF handle.written THEN "updated" ELSE "kept", Ttl(p)))
    /\ handle' = Closed

CallOnKey(p) ==
    \/ OpenKey(p) \/ ReadClock(p)
    \/ OpenToSwap(p) \/ OpenToSet(p) \/ WriteValue(p) \/ ExpireValue(p)

KeysInit == Init /\ handle = Closed

KeysNext ==
    \/ \E p \in Limiters, r \in Requests : Begin(p, r) /\ UNCHANGED handle
    \/ \E p \in Limiters : CallOnKey(p)
    \/ Tick /\ UNCHANGED handle

KeysSpec == KeysInit /\ [][KeysNext]_keyVars

-----------------------------------------------------------------------------
\* The result of an operation and the entry it leaves.
Operation(c, e, t) ==
    LET ttl == NewTat(c) - c.now
    IN  IF c.tat_val = None
        THEN SetIfNotExistsWithTtl(e, AsU64(NewTat(c)), ttl, t)
        ELSE CompareAndSwapWithTtl(e, c.tat_val, AsU64(NewTat(c)), ttl, t)

\* The calls of p's update together have done what the operation of Store does at
\* the instant the key was opened: the same value, the same outcome, and an expiry
\* that is set when that one sets it, later by no more than the time they took.
EndsAsAtomic(p) ==
    LET c == lim[p]
        h == IF handle = Closed THEN Opened(p, "open") ELSE handle
        o == Operation(c, h.was, h.at)
        e == db'[c.req.key]
    IN  /\ reply'[p].kind = "ok" <=> o.result = "updated"
        /\ e.tat = o.entry.tat
        /\ e.expire = None <=> o.entry.expire = None
        /\ e.expire # None =>
              e.expire - o.entry.expire \in 0..(clock \div Ms - h.at \div Ms)

\* An update, when it ends, was the operation of Store, although the key may have
\* expired since it was opened (store.rs:170-199, 218-233).
AsAtomic ==
    [][\A p \in Limiters :
          lim[p].pc = "update" /\ lim'[p].pc # "update" => EndsAsAtomic(p)]_keyVars
=============================================================================
