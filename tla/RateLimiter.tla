----------------------------- MODULE RateLimiter -----------------------------
(***************************************************************************)
(* RateLimiter::rate_limit (src/src/cell/mod.rs): the generic cell rate    *)
(* algorithm over a shared store, with its loop of compare-and-swap        *)
(* attempts.                                                               *)
(*                                                                         *)
(* Limiters is the set of limiters that use the store at the same time.    *)
(* Inside Redis every command runs alone, which is one limiter; several    *)
(* limiters are the out-of-Redis use that the loop is written for.  Time   *)
(* passes between any two store operations of a limiter in both cases.     *)
(***************************************************************************)
EXTENDS Gcra

CONSTANTS
    Limiters,
    Requests,         \* the calls clients make, see Request in Gcra
    MaxCasAttempts,   \* MAX_CAS_ATTEMPTS, 5 in the code
    FirstTick,        \* bounds on the clock
    LastTick

ASSUME LimiterAssumption ==
    /\ Requests \subseteq Request
    /\ None \notin Requests
    /\ MaxCasAttempts \in Nat
    /\ FirstTick \in Nat /\ LastTick \in Nat /\ FirstTick <= LastTick

VARIABLES
    clock,   \* the store's clock, in ticks
    db,      \* the entry stored at each key
    lim,     \* what each limiter's call of rate_limit holds between its steps
    reply    \* what each limiter's last call returned

vars == <<clock, db, lim, reply>>

-----------------------------------------------------------------------------
(* What a call returns.                                                    *)

Result(c) ==
    [kind |-> "ok", req |-> c.req, now |-> c.now, limited |-> Limited(c),
     remaining |-> Remaining(c), retry_after |-> RetryAfter(c),
     reset_after |-> ResetAfter(c)]

Error(c, why, tries) ==
    [kind |-> "error", req |-> c.req, why |-> why, tries |-> tries]

NoReply == [kind |-> "none"]

-----------------------------------------------------------------------------
Idle == [pc |-> "idle", req |-> None, i |-> 0, tat_val |-> None, now |-> 0]

Init ==
    /\ clock = FirstTick
    /\ db = [k \in Keys |-> Absent]
    /\ lim = [p \in Limiters |-> Idle]
    /\ reply = [p \in Limiters |-> NoReply]

Return(p, result) ==
    /\ reply' = [reply EXCEPT ![p] = result]
    /\ lim' = [lim EXCEPT ![p] = Idle]

\* The call starts.  A quota whose emission interval is zero is refused before
\* the store is touched.
Begin(p, r) ==
    /\ lim[p].pc = "idle"
    /\ LET c == [Idle EXCEPT !.pc = "get", !.req = r]
       IN  \/ /\ r.period = 0
              /\ Return(p, Error(c, "zero_rate", 0))
           \/ /\ r.period # 0
              /\ lim' = [lim EXCEPT ![p] = c]
              /\ reply' = [reply EXCEPT ![p] = NoReply]
    /\ UNCHANGED <<clock, db>>

\* A limited call ends at the decision.  c is the call with what it has read.
Decide(p, c) ==
    \/ /\ Limited(c)
       /\ Return(p, Result(c))
    \/ /\ ~Limited(c)
       /\ lim' = [lim EXCEPT ![p] = c]
       /\ UNCHANGED reply

\* Reads the key and the time, and decides.
Observed(p) ==
    [lim[p] EXCEPT !.pc = "update",
                   !.tat_val = Visible(db[lim[p].req.key], clock),
                   !.now = clock]

GetWithTime(p) ==
    /\ lim[p].pc = "get"
    /\ Decide(p, Observed(p))
    /\ UNCHANGED <<clock, db>>

\* Mutants of Retry: the bound is tested before the attempt is counted; attempts
\* are not counted.
LateRetry(p) ==
    LET c == lim[p]
    IN  \/ /\ c.i > MaxCasAttempts
           /\ Return(p, Error(c, "contention", c.i + 1))
        \/ /\ c.i <= MaxCasAttempts
           /\ lim' = [lim EXCEPT ![p] =
                         [Idle EXCEPT !.pc = "get", !.req = c.req, !.i = c.i + 1]]
           /\ UNCHANGED reply
EndlessRetry(p) ==
    /\ lim' = [lim EXCEPT ![p] =
                  [Idle EXCEPT !.pc = "get", !.req = lim[p].req, !.i = lim[p].i]]
    /\ UNCHANGED reply

\* Another limiter was first: try again from the read, up to a number of times.
Retry(p) ==
    LET c == lim[p]
    IN  \/ /\ c.i + 1 > MaxCasAttempts
           /\ Return(p, Error(c, "contention", c.i + 1))
        \/ /\ c.i + 1 <= MaxCasAttempts
           /\ lim' = [lim EXCEPT ![p] =
                         [Idle EXCEPT !.pc = "get", !.req = c.req, !.i = c.i + 1]]
           /\ UNCHANGED reply

Conclude(p, outcome) ==
    /\ db' = [db EXCEPT ![lim[p].req.key] = outcome.entry]
    /\ \/ /\ outcome.result = "updated"
          /\ Return(p, Result(lim[p]))
       \/ /\ outcome.result = "error"
          /\ Return(p, Error(lim[p], "store", lim[p].i + 1))
       \/ /\ outcome.result = "kept"
          /\ Retry(p)
    /\ UNCHANGED clock

\* The value written is nanoseconds(new_tat), a u64; the TTL is what is left
\* until new_tat, measured from the time that was read.
CompareAndSwap(p) ==
    /\ lim[p].pc = "update"
    /\ lim[p].tat_val # None
    /\ LET c == lim[p]
       IN  Conclude(p, CompareAndSwapWithTtl(db[c.req.key], c.tat_val,
                           AsU64(NewTat(c)), NewTat(c) - c.now, clock))

SetIfNotExists(p) ==
    /\ lim[p].pc = "update"
    /\ lim[p].tat_val = None
    /\ LET c == lim[p]
       IN  Conclude(p, SetIfNotExistsWithTtl(db[c.req.key],
                           AsU64(NewTat(c)), NewTat(c) - c.now, clock))

Tick ==
    /\ clock < LastTick
    /\ clock' = clock + 1
    /\ UNCHANGED <<db, lim, reply>>

Step(p) == GetWithTime(p) \/ CompareAndSwap(p) \/ SetIfNotExists(p)

Next ==
    \/ \E p \in Limiters : (\E r \in Requests : Begin(p, r)) \/ Step(p)
    \/ Tick

Spec == Init /\ [][Next]_vars

\* rate_limit is straight-line code: a call that has begun keeps running.
FairSpec == Spec /\ \A p \in Limiters : WF_vars(Step(p))

-----------------------------------------------------------------------------
(* Type correctness: what is stored is a u64, and a call is never past the *)
(* last attempt, which is one more than MAX_CAS_ATTEMPTS.                  *)
Call ==
    [pc : {"idle", "get", "update"}, req : Requests \cup {None},
     i : 0..MaxCasAttempts, tat_val : U64 \cup {None}, now : Nat]

Reply ==
    [kind : {"ok"}, req : Requests, now : Nat, limited : BOOLEAN,
     remaining : Int, retry_after : Int, reset_after : Int]
    \cup [kind : {"error"}, req : Requests,
          why : {"zero_rate", "contention", "store"},
          tries : 0..(MaxCasAttempts + 1)]
    \cup {NoReply}

TypeOK ==
    /\ clock \in FirstTick..LastTick
    /\ db \in [Keys -> Entry]
    /\ lim \in [Limiters -> Call]
    /\ \A p \in Limiters : lim[p].pc # "idle" => lim[p].req \in Requests
    /\ reply \in [Limiters -> Reply]
=============================================================================
