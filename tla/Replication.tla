----------------------------- MODULE Replication ------------------------------
(***************************************************************************)
(* What replicate_verbatim (src/src/lib.rs:89-91) does to the keys of a    *)
(* replica, or of a server that is restarted from its append-only file:    *)
(* every CL.THROTTLE that was answered, blocked or not, is run once more,  *)
(* in the same order, later and on another clock, and decides for itself.  *)
(* One that ends in an error is not, also when it has written its key.     *)
(*                                                                         *)
(* A server's clock is within Skew of the time, not more; it can step      *)
(* back.  A command is one step here (AsAtomic in RedisKeys).  What the    *)
(* servers do with the stream is external: it is in order (for each key,   *)
(* which is all that matters); the primary deletes an expired key before a *)
(* command sees it and replicates the deletion; a replica, like a server   *)
(* that loads its file, does not let a key expire by itself.  A connection *)
(* that is lost and resumed only adds to the delay.                        *)
(***************************************************************************)
EXTENDS Gcra, Sequences

CONSTANTS
    Requests,    \* the calls clients make
    Chunk,       \* no call asks for more than this, in ticks
    Skew,        \* how far a server's clock may be from the time
    FirstTime,   \* bounds on the time and on the stream
    EndOfTime,
    MaxPending

\* No TAT leaves the range of a u64 (see before_epoch for one that does).
ASSUME ReplicationAssumption ==
    /\ Requests \subseteq Request
    /\ StoreKind = "redis"
    /\ Chunk \in Nat /\ MaxPending \in Nat
    /\ Skew \in Nat /\ FirstTime \in Nat /\ EndOfTime \in Nat
    /\ Skew <= FirstTime /\ FirstTime <= EndOfTime
    /\ \A r \in Requests :
          /\ r.period # 0
          /\ Increment(r) <= Chunk /\ FirstTime - Skew + Increment(r) >= 0
          /\ EndOfTime + Skew + Dvt(r) <= 2 * IntMax + 1

VARIABLES
    time,
    primary,   \* the entries of the primary
    stream,    \* what the primary replicated and the replica has not run yet
    replica,   \* the entries of the replica
    mirror,    \* the TATs the primary had at the point the replica has reached
    lag,       \* the longest delay of a command so far
    lost       \* the keys of refunds that failed (with the last two, history variables)

vars == <<time, primary, stream, replica, mirror, lag, lost>>

\* What a server can read from its clock.
Clock == (time - Skew)..(time + Skew)

\* A replicated command.  Also, for the properties only: the TAT of the key
\* before and after it on the primary, and when it ran there.
Command ==
    [cmd : {"throttle", "del"}, req : Requests \cup {None},
     was : U64 \cup {None}, tat : U64 \cup {None}, at : Nat]

-----------------------------------------------------------------------------
Reading(r, value, t) == [req |-> r, tat_val |-> value, now |-> t]

\* The update of an allowed command.
Update(c) == Write(AsU64(NewTat(c)), NewTat(c) - c.now, c.now)

\* Mutant of Left: a blocked command is charged.
ChargedLeft(e, c) == Update(c).entry

\* The entry that the command of reading c leaves of e: a blocked one leaves it
\* as it is.
Left(e, c) == IF Limited(c) THEN e ELSE Update(c).entry

\* The TTL is refused, so the command ends in an error.
Refused(c) == ~Limited(c) /\ Update(c).result = "error"

Init ==
    /\ time = FirstTime
    /\ primary = [k \in Keys |-> Absent]
    /\ stream = [k \in Keys |-> <<>>]
    /\ replica = [k \in Keys |-> Absent]
    /\ mirror = [k \in Keys |-> None]
    /\ lag = 0
    /\ lost = {}

\* The primary's entry at k becomes e, by a command that is replicated.
Replicate(k, cmd, r, e) ==
    /\ primary' = [primary EXCEPT ![k] = e]
    /\ stream' = [stream EXCEPT ![k] =
                     Append(@, [cmd |-> cmd, req |-> r, was |-> primary[k].tat,
                                tat |-> e.tat, at |-> time])]
    /\ UNCHANGED <<time, replica, mirror, lag, lost>>

\* Mutants of RunThrottle: the quantity is not replicated; the command is
\* replicated twice.
RunReplicatingUnits(r) ==
    /\ Len(stream[r.key]) < MaxPending
    /\ \E t \in Clock :
          LET c == Reading(r, primary[r.key].tat, t)
          IN  /\ c.tat_val # None => IsLive(primary[r.key], t)
              /\ ~Refused(c)
              /\ Replicate(r.key, "throttle", [r EXCEPT !.quantity = 1],
                           Left(primary[r.key], c))
RunReplicatingTwice(r) ==
    /\ Len(stream[r.key]) < MaxPending
    /\ \E t \in Clock :
          LET c == Reading(r, primary[r.key].tat, t)
              e == Left(primary[r.key], c)
              s == [cmd |-> "throttle", req |-> r, was |-> primary[r.key].tat,
                    tat |-> e.tat, at |-> time]
          IN  /\ c.tat_val # None => IsLive(primary[r.key], t)
              /\ ~Refused(c)
              /\ primary' = [primary EXCEPT ![r.key] = e]
              /\ stream' = [stream EXCEPT ![r.key] = @ \o <<s, s>>]
    /\ UNCHANGED <<time, replica, mirror, lag, lost>>

\* The primary runs a command and replicates it, blocked or not.
RunThrottle(r) ==
    /\ Len(stream[r.key]) < MaxPending
    /\ \E t \in Clock :
          LET c == Reading(r, primary[r.key].tat, t)
          IN  /\ c.tat_val # None => IsLive(primary[r.key], t)
              /\ ~Refused(c)
              /\ Replicate(r.key, "throttle", r, Left(primary[r.key], c))

\* A refund of more than the key owes: what it writes stays, its TTL is refused, and
\* the error leaves run before the call that replicates.
RunRefused(r) ==
    /\ \E t \in Clock :
          LET c == Reading(r, primary[r.key].tat, t)
          IN  /\ c.tat_val # None => IsLive(primary[r.key], t)
              /\ Refused(c)
              /\ primary' = [primary EXCEPT ![r.key] = Left(primary[r.key], c)]
    /\ lost' = lost \cup {r.key}
    /\ UNCHANGED <<time, stream, replica, mirror, lag>>

\* The primary deletes an expired key.
Expire(k) ==
    /\ Len(stream[k]) < MaxPending
    /\ primary[k].tat # None
    /\ \E t \in Clock : ~IsLive(primary[k], t)
    /\ Replicate(k, "del", None, Absent)

\* What the next command s on k can leave on the replica, which decides again.
Results(k, s) ==
    IF s.cmd = "del" THEN {Absent}
    ELSE {Left(replica[k], Reading(s.req, replica[k].tat, t)) : t \in Clock}

\* The replica runs the next command on k.
Follow(k) ==
    /\ stream[k] # <<>>
    /\ \E e \in Results(k, Head(stream[k])) :
          replica' = [replica EXCEPT ![k] = e]
    /\ mirror' = [mirror EXCEPT ![k] = Head(stream[k]).tat]
    /\ lag' = Later(lag, time - Head(stream[k]).at)
    /\ stream' = [stream EXCEPT ![k] = Tail(@)]
    /\ UNCHANGED <<time, primary, lost>>

Pass ==
    /\ time < EndOfTime
    /\ time' = time + 1
    /\ UNCHANGED <<primary, stream, replica, mirror, lag, lost>>

Next ==
    \/ \E r \in Requests : RunThrottle(r) \/ RunRefused(r)
    \/ \E k \in Keys : Expire(k) \/ Follow(k)
    \/ Pass

Spec == Init /\ [][Next]_vars

-----------------------------------------------------------------------------
TypeOK ==
    /\ time \in FirstTime..EndOfTime
    /\ primary \in [Keys -> Entry] /\ replica \in [Keys -> Entry]
    /\ stream \in [Keys -> Seq(Command)]
    /\ mirror \in [Keys -> U64 \cup {None}]
    /\ lag \in Nat /\ lost \subseteq Keys

\* The replica has forgotten at most one call, however many the two have decided
\* differently (lib.rs:89-91; a comment on the same call, redis/mod.rs:143-146,
\* expects results that are close enough): as long as a TAT is ahead of the clocks,
\* the replica's is behind it by at most the largest increment and the servers' skew.
ForgetsAtMostOneCall ==
    \A k \in Keys :
        mirror[k] # None /\ mirror[k] > time + Skew =>
            /\ replica[k].tat # None
            /\ mirror[k] - replica[k].tat <= Chunk + 2 * Skew

\* It is ahead by at most the same and the longest delay, which after a restart is the
\* age of the oldest command in the file: so much too long may it block.  It never
\* hears of a refund that failed (lib.rs:64), so this is no longer so of its key.
BlocksNoLongerThanLag ==
    \A k \in Keys \ lost :
        replica[k].tat # None =>
            /\ mirror[k] # None
            /\ replica[k].tat - mirror[k] <= Chunk + 2 * Skew + lag

\* A clock that steps back (store.rs:210) moves the TATs that are stored further
\* ahead of it, but the time a key blocks stays bounded: on both servers a TAT is
\* ahead of the time by no more than the burst of a quota and the skew.
BlocksNoLongerThanBurst ==
    \A k \in Keys : \A e \in {primary[k], replica[k]} :
        e.tat # None => \E r \in Requests : r.key = k /\ e.tat - time <= Dvt(r) + Skew
=============================================================================
