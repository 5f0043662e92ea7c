-------------------------- MODULE RateLimiterProofs --------------------------
(***************************************************************************)
(* Type correctness of the rate limiter, for every set of limiters and     *)
(* requests, every store, and every width of the integers; then: the only  *)
(* limiter of a store loses a swap to the expiry of its key and to nothing *)
(* else, and never fails for contention.                                   *)
(*                                                                         *)
(* The invariant of the second part says what the limiter may still rely   *)
(* on between its read and its update: the key is as it was read, or it    *)
(* was missing and still is.  A swap can then fail on an expired key only; *)
(* the next read finds the key missing, and a missing key stays missing    *)
(* until it is created.                                                    *)
(***************************************************************************)
EXTENDS Promises, GcraProofs

\* A call that has read the store: what the decision is made from.
Observation ==
    [pc : {"idle", "get", "update"}, req : Requests,
     i : 0..MaxCasAttempts, tat_val : U64 \cup {None}, now : Nat]

\* The quantities the decision is made with are integers (mod.rs:141-168).
LEMMA DecisionType ==
    ASSUME NEW c \in Observation
    PROVE  /\ Increment(c.req) \in Int
           /\ Dvt(c.req) \in Int
           /\ Tat(c) \in Int
           /\ NewTat(c) \in Int
           /\ Diff(c) \in Int
<1>1. Increment(c.req) \in Int /\ Dvt(c.req) \in Int
  BY QuotaType, LimiterAssumption DEF Observation
<1>2. Tat(c) \in Int
  BY TimeAssumption DEF Tat, Observation, U64
<1>3. c.now \in Int
  BY DEF Observation
<1>. QED
  BY <1>1, <1>2, <1>3 DEF NewTat, Diff, Later

\* The tolerance of a quota is an integer (mod.rs:76-85).
LEMMA DvtType ==
    ASSUME NEW r \in Requests
    PROVE  Dvt(r) \in Int
BY QuotaType, LimiterAssumption

\* The answer of a call is a reply (mod.rs:227-236).
LEMMA ResultType ==
    ASSUME NEW c \in Observation
    PROVE  Result(c) \in Reply
<1>1. /\ Increment(c.req) \in Int /\ Dvt(c.req) \in Int
      /\ Tat(c) \in Int /\ NewTat(c) \in Int /\ Diff(c) \in Int
  BY DecisionType
<1>2. c.now \in Nat /\ c.req \in Requests
  BY DEF Observation
<1>3. Sec \in Int
  BY TimeAssumption
<1>4. RetryAfter(c) \in Int
  BY <1>1, <1>3 DEF RetryAfter, NoRetry
<1>5. ResetAfter(c) \in Int
  BY <1>1, <1>2 DEF ResetAfter
<1>6. Remaining(c) \in Int
  <2>1. c.req.period \in Int
    BY <1>2, LimiterAssumption, TimeAssumption DEF Request, I64
  <2>2. Dvt(c.req) - ResetAfter(c) \in Int
    BY <1>1, <1>5
  <2>3. FloatQuotient(WholeMicroseconds(Dvt(c.req) - ResetAfter(c)),
                      WholeMicroseconds(c.req.period)) \in Int
    BY <2>1, <2>2, WholeType, FloatQuotientType
  <2>. QED  BY <2>3 DEF Remaining
<1>7. Limited(c) \in BOOLEAN
  BY DEF Limited
<1>. QED
  BY <1>2, <1>4, <1>5, <1>6, <1>7 DEF Result, Reply

-----------------------------------------------------------------------------
\* An error is a reply (mod.rs:110, 188-209 and 219-223).
LEMMA ErrorType ==
    ASSUME NEW c \in Observation, NEW why \in {"zero_rate", "contention", "store"},
           NEW tries \in 0..(MaxCasAttempts + 1)
    PROVE  Error(c, why, tries) \in Reply
BY DEF Error, Reply, Observation

\* The state of a limiter between calls is a call.
LEMMA IdleType == Idle \in Call
BY LimiterAssumption DEF Idle, Call

\* Ending a call with a reply keeps the types.
LEMMA ReturnType ==
    ASSUME TypeOK, NEW p \in Limiters, NEW result \in Reply, Return(p, result)
    PROVE  /\ lim' \in [Limiters -> Call]
           /\ \A q \in Limiters : lim'[q].pc # "idle" => lim'[q].req \in Requests
           /\ reply' \in [Limiters -> Reply]
BY IdleType DEF Return, TypeOK, Idle

\* A call that is under way is an observation, read or not.
LEMMA ActiveType ==
    ASSUME TypeOK, NEW p \in Limiters, lim[p].pc # "idle"
    PROVE  /\ lim[p] \in Observation
           /\ lim[p].req.key \in Keys
           /\ db[lim[p].req.key] \in Entry
<1>1. lim[p] \in Observation
  BY DEF TypeOK, Call, Observation
<1>2. lim[p].req.key \in Keys
  BY <1>1, LimiterAssumption DEF Observation, Request
<1>. QED  BY <1>1, <1>2 DEF TypeOK

\* Begin stores a request of Requests and nothing in the store.
LEMMA BeginType ==
    ASSUME TypeOK, NEW p \in Limiters, NEW r \in Requests, Begin(p, r)
    PROVE  TypeOK'
<1> DEFINE c == [Idle EXCEPT !.pc = "get", !.req = r]
<1>1. c \in Observation /\ c \in Call
  <2>1. c \in Call
    BY IdleType DEF Call
  <2>2. c.req = r
    BY DEF Idle
  <2>. QED  BY <2>1, <2>2 DEF Observation, Call
<1>2. CASE r.period = 0 /\ Return(p, Error(c, "zero_rate", 0))
  <2>1. Error(c, "zero_rate", 0) \in Reply
    BY <1>1, LimiterAssumption, ErrorType
  <2>. QED  BY <2>1, <1>2, ReturnType DEF Begin, TypeOK
<1>3. CASE /\ lim' = [lim EXCEPT ![p] = c]
           /\ reply' = [reply EXCEPT ![p] = NoReply]
  BY <1>1, <1>3 DEF Begin, TypeOK, Reply, Observation
<1>. QED  BY <1>2, <1>3 DEF Begin

\* A decision on well-typed data ends the call or keeps it (mod.rs:171-209).
LEMMA DecideType ==
    ASSUME TypeOK, NEW p \in Limiters, NEW c \in Observation, Decide(p, c),
           UNCHANGED <<clock, db>>
    PROVE  TypeOK'
<1>1. c \in Call
  BY DEF Observation, Call
<1>2. CASE Return(p, Result(c))
  BY <1>2, ResultType, ReturnType DEF TypeOK
<1>3. CASE lim' = [lim EXCEPT ![p] = c] /\ UNCHANGED reply
  BY <1>1, <1>3 DEF TypeOK, Observation
<1>. QED  BY <1>2, <1>3 DEF Decide

\* What is read is a u64 or nothing, and the time is a natural number.
LEMMA GetWithTimeType ==
    ASSUME TypeOK, NEW p \in Limiters, GetWithTime(p)
    PROVE  TypeOK'
<1>1. clock \in Nat
  BY LimiterAssumption DEF TypeOK
<1>2. lim[p] \in Observation /\ db[lim[p].req.key] \in Entry
  BY ActiveType DEF GetWithTime
<1>3. Visible(db[lim[p].req.key], clock) \in U64 \cup {None}
  BY <1>2, VisibleType
<1>4. Observed(p) \in Observation
  BY <1>1, <1>2, <1>3 DEF Observed, Observation
<1>. QED  BY <1>4, DecideType DEF GetWithTime

\* Retrying never counts past MAX_CAS_ATTEMPTS (mod.rs:217-224).
LEMMA RetryType ==
    ASSUME TypeOK, NEW p \in Limiters, lim[p].pc # "idle", Retry(p)
    PROVE  /\ lim' \in [Limiters -> Call]
           /\ \A q \in Limiters : lim'[q].pc # "idle" => lim'[q].req \in Requests
           /\ reply' \in [Limiters -> Reply]
<1> DEFINE c == lim[p]
<1>1. c \in Observation
  BY ActiveType
<1>2. c.i \in Nat /\ MaxCasAttempts \in Nat
  BY <1>1, LimiterAssumption DEF Observation
<1>3. CASE Return(p, Error(c, "contention", c.i + 1))
  <2>1. Error(c, "contention", c.i + 1) \in Reply
    <3>1. c.i + 1 \in 0..(MaxCasAttempts + 1)
      BY <1>1, <1>2 DEF Observation
    <3>. QED  BY <1>1, <3>1, ErrorType
  <2>. QED  BY <1>3, <2>1, ReturnType
<1>4. CASE /\ c.i + 1 <= MaxCasAttempts
           /\ lim' = [lim EXCEPT ![p] =
                         [Idle EXCEPT !.pc = "get", !.req = c.req, !.i = c.i + 1]]
           /\ UNCHANGED reply
  <2>1. [Idle EXCEPT !.pc = "get", !.req = c.req, !.i = c.i + 1] \in Call
    <3>1. c.i + 1 \in 0..MaxCasAttempts /\ c.req \in Requests
      BY <1>1, <1>2, <1>4 DEF Observation
    <3>. QED  BY <3>1, IdleType DEF Call
  <2>2. [Idle EXCEPT !.pc = "get", !.req = c.req, !.i = c.i + 1].req = c.req
    BY IdleType DEF Call
  <2>. QED  BY <1>1, <1>4, <2>1, <2>2 DEF TypeOK, Observation
<1>. QED  BY <1>3, <1>4 DEF Retry

\* Whatever entry an update leaves, Conclude counts the attempt within bounds.
LEMMA ConcludeType ==
    ASSUME TypeOK, NEW p \in Limiters, lim[p].pc # "idle",
           NEW outcome \in Outcomes, Conclude(p, outcome)
    PROVE  TypeOK'
<1>1. lim[p] \in Observation
  BY ActiveType
<1>2. db' \in [Keys -> Entry]
  BY DEF Conclude, TypeOK, Outcomes
<1>3. /\ lim' \in [Limiters -> Call]
      /\ \A q \in Limiters : lim'[q].pc # "idle" => lim'[q].req \in Requests
      /\ reply' \in [Limiters -> Reply]
  <2>1. CASE Return(p, Result(lim[p]))
    BY <1>1, <2>1, ResultType, ReturnType
  <2>2. CASE Return(p, Error(lim[p], "store", lim[p].i + 1))
    <3>1. lim[p].i + 1 \in 0..(MaxCasAttempts + 1)
      BY <1>1, LimiterAssumption DEF Observation
    <3>. QED  BY <1>1, <2>2, <3>1, ErrorType, ReturnType
  <2>3. CASE Retry(p)
    BY <2>3, RetryType
  <2>. QED  BY <2>1, <2>2, <2>3 DEF Conclude
<1>. QED  BY <1>2, <1>3 DEF Conclude, TypeOK

\* Both updates leave an entry of Entry.
LEMMA UpdateStepType ==
    ASSUME TypeOK, NEW p \in Limiters, CompareAndSwap(p) \/ SetIfNotExists(p)
    PROVE  TypeOK'
<1> DEFINE c == lim[p]
           e == db[c.req.key]
           value == AsU64(NewTat(c))
           ttl == NewTat(c) - c.now
<1>1. lim[p].pc # "idle"
  BY DEF CompareAndSwap, SetIfNotExists
<1>2. c \in Observation /\ e \in Entry
  BY <1>1, ActiveType
<1>3. value \in U64 /\ ttl \in Int
  BY <1>2, DecisionType, AsU64Type DEF Observation
<1>4. clock \in Nat
  BY LimiterAssumption DEF TypeOK
<1>5. /\ CompareAndSwapWithTtl(e, c.tat_val, value, ttl, clock) \in Outcomes
      /\ SetIfNotExistsWithTtl(e, value, ttl, clock) \in Outcomes
  BY <1>2, <1>3, <1>4, UpdateType
<1>. QED  BY <1>1, <1>5, ConcludeType DEF CompareAndSwap, SetIfNotExists

-----------------------------------------------------------------------------
\* The initial state is type correct.
LEMMA TypeInit == Init => TypeOK
<1> SUFFICES ASSUME Init PROVE TypeOK
  OBVIOUS
<1>1. Absent \in Entry
  BY DEF Absent, Entry
<1>2. Idle \in Call /\ NoReply \in Reply
  BY IdleType DEF NoReply, Reply
<1>3. clock \in FirstTick..LastTick
  BY LimiterAssumption DEF Init
<1>. QED  BY <1>1, <1>2, <1>3 DEF Init, TypeOK, Idle

\* Every step of the limiter keeps its types.
LEMMA TypeStep == TypeOK /\ [Next]_vars => TypeOK'
<1> SUFFICES ASSUME TypeOK, [Next]_vars PROVE TypeOK'
  OBVIOUS
<1>1. ASSUME NEW p \in Limiters, NEW r \in Requests, Begin(p, r)
      PROVE  TypeOK'
  BY <1>1, BeginType
<1>2. ASSUME NEW p \in Limiters, Step(p)
      PROVE  TypeOK'
  BY <1>2, GetWithTimeType, UpdateStepType DEF Step
<1>3. CASE Tick
  BY <1>3, LimiterAssumption DEF Tick, TypeOK
<1>4. CASE UNCHANGED vars
  BY <1>4 DEF vars, TypeOK
<1>. QED  BY <1>1, <1>2, <1>3, <1>4 DEF Next

\* The stored values are u64s, a call holds what its step needs, no call is past
\* its last attempt and every answer is well formed, in every reachable state.
THEOREM TypeCorrect == Spec => []TypeOK
BY TypeInit, TypeStep, PTL DEF Spec

-----------------------------------------------------------------------------
(* The only limiter of a store.                                            *)

\* At most one limiter uses the store, as inside Redis.
Alone == \A p, q \in Limiters : p = q

\* A call that decided to update was not limited, and read the clock before.
Pending ==
    \A p \in Limiters :
        /\ lim[p].pc # "idle" => reply[p] = NoReply
        /\ lim[p].pc = "update" => ~Limited(lim[p]) /\ lim[p].now <= clock

\* The key is as the call read it.
AsRead ==
    \A p \in Limiters :
        lim[p].pc = "update" =>
            IF lim[p].tat_val = None
            THEN ~IsLive(db[lim[p].req.key], lim[p].now)
            ELSE db[lim[p].req.key].tat = lim[p].tat_val

\* A second attempt follows the expiry of the key, and nothing follows it.
SecondAttempt ==
    \A p \in Limiters :
        LET c == lim[p]
        IN  /\ c.i <= 1
            /\ c.i = 1 /\ c.pc = "get" => ~IsLive(db[c.req.key], clock)
            /\ c.i = 1 /\ c.pc = "update" => c.tat_val = None

NoContention ==
    \A p \in Limiters : ~(reply[p].kind = "error" /\ reply[p].why = "contention")

SoleInv ==
    /\ TypeOK
    /\ Pending
    /\ Alone => AsRead /\ SecondAttempt /\ NoContention

-----------------------------------------------------------------------------
\* What a call finds after its read.
LEMMA ReadFacts ==
    ASSUME TypeOK, NEW p \in Limiters, lim[p].pc = "get"
    PROVE  LET c == Observed(p)
               e == db[c.req.key]
           IN  /\ c.pc = "update" /\ c.req = lim[p].req /\ c.i = lim[p].i
               /\ c.now = clock
               /\ IF c.tat_val = None THEN ~IsLive(e, clock) ELSE e.tat = c.tat_val
<1> DEFINE c == Observed(p)
<1>1. /\ c.pc = "update" /\ c.req = lim[p].req /\ c.i = lim[p].i
      /\ c.now = clock /\ c.tat_val = Visible(db[lim[p].req.key], clock)
  BY DEF Observed, TypeOK, Call
<1>2. IsLive(db[c.req.key], clock) => db[c.req.key].tat # None
  BY DEF IsLive
<1>. QED  BY <1>1, <1>2 DEF Visible

\* How a call goes on after an update: it ends, or it tries again.
LEMMA ConcludeFacts ==
    ASSUME TypeOK, NEW p \in Limiters, lim[p].pc = "update",
           NEW outcome \in Outcomes, Conclude(p, outcome)
    PROVE  LET c == lim[p]
           IN  /\ clock' = clock
               /\ db' = [db EXCEPT ![c.req.key] = outcome.entry]
               /\ \A q \in Limiters \ {p} : lim'[q] = lim[q] /\ reply'[q] = reply[q]
               /\ \/ /\ outcome.result = "updated"
                     /\ lim'[p] = Idle /\ reply'[p] = Result(c)
                  \/ /\ outcome.result = "error"
                     /\ lim'[p] = Idle /\ reply'[p] = Error(c, "store", c.i + 1)
                  \/ /\ outcome.result = "kept"
                     /\ c.i + 1 > MaxCasAttempts
                     /\ lim'[p] = Idle /\ reply'[p] = Error(c, "contention", c.i + 1)
                  \/ /\ outcome.result = "kept"
                     /\ c.i + 1 <= MaxCasAttempts
                     /\ lim'[p].pc = "get" /\ lim'[p].req = c.req
                     /\ lim'[p].i = c.i + 1 /\ reply'[p] = reply[p]
<1>1. lim \in [Limiters -> Call] /\ reply \in [Limiters -> Reply]
  BY DEF TypeOK
<1>2. ASSUME NEW r, NEW n
      PROVE  LET d == [Idle EXCEPT !.pc = "get", !.req = r, !.i = n]
             IN  d.pc = "get" /\ d.req = r /\ d.i = n
  BY DEF Idle
<1>3. CASE outcome.result = "updated" /\ Return(p, Result(lim[p]))
  BY <1>1, <1>3 DEF Conclude, Return
<1>4. CASE outcome.result = "error" /\ Return(p, Error(lim[p], "store", lim[p].i + 1))
  BY <1>1, <1>4 DEF Conclude, Return
<1>5. CASE outcome.result = "kept" /\ Retry(p)
  <2>1. CASE /\ lim[p].i + 1 > MaxCasAttempts
             /\ Return(p, Error(lim[p], "contention", lim[p].i + 1))
    BY <1>1, <1>5, <2>1 DEF Conclude, Return
  <2>2. CASE /\ lim' = [lim EXCEPT ![p] = [Idle EXCEPT !.pc = "get",
                               !.req = lim[p].req, !.i = lim[p].i + 1]]
             /\ UNCHANGED reply /\ lim[p].i + 1 <= MaxCasAttempts
    BY <1>1, <1>2, <1>5, <2>2 DEF Conclude
  <2>. QED  BY <1>5, <2>1, <2>2 DEF Retry
<1>. QED  BY <1>3, <1>4, <1>5 DEF Conclude

\* The updates are outcomes, with what each one is made from.
LEMMA UpdateFacts ==
    ASSUME TypeOK, NEW p \in Limiters, CompareAndSwap(p) \/ SetIfNotExists(p)
    PROVE  LET c == lim[p]
               e == db[c.req.key]
               swap == CompareAndSwapWithTtl(e, c.tat_val, AsU64(NewTat(c)),
                                             NewTat(c) - c.now, clock)
               set == SetIfNotExistsWithTtl(e, AsU64(NewTat(c)),
                                            NewTat(c) - c.now, clock)
           IN  /\ c.pc = "update" /\ c \in Observation /\ e \in Entry
               /\ c.req.key \in Keys /\ clock \in Nat
               /\ swap \in Outcomes /\ set \in Outcomes
               /\ IF c.tat_val # None THEN Conclude(p, swap) ELSE Conclude(p, set)
<1> DEFINE c == lim[p]
           e == db[c.req.key]
<1>1. c.pc = "update"
  BY DEF CompareAndSwap, SetIfNotExists
<1>2. c \in Observation /\ e \in Entry /\ c.req.key \in Keys
  BY <1>1, ActiveType
<1>3. AsU64(NewTat(c)) \in U64 /\ NewTat(c) - c.now \in Int
  BY <1>2, DecisionType, AsU64Type DEF Observation
<1>4. clock \in Nat
  BY LimiterAssumption DEF TypeOK
<1>5. /\ CompareAndSwapWithTtl(e, c.tat_val, AsU64(NewTat(c)), NewTat(c) - c.now, clock)
            \in Outcomes
      /\ SetIfNotExistsWithTtl(e, AsU64(NewTat(c)), NewTat(c) - c.now, clock)
            \in Outcomes
  BY <1>2, <1>3, <1>4, UpdateType
<1>. QED  BY <1>1, <1>2, <1>4, <1>5 DEF CompareAndSwap, SetIfNotExists

-----------------------------------------------------------------------------
\* Every step keeps Pending: a call is answered only when it ends, and time only
\* moves on after its read.
LEMMA PendingStep ==
    ASSUME TypeOK, Pending, [Next]_vars
    PROVE  Pending'
<1>1. lim \in [Limiters -> Call] /\ reply \in [Limiters -> Reply] /\ clock \in Nat
  BY LimiterAssumption DEF TypeOK
<1>2. ASSUME NEW p \in Limiters, NEW r \in Requests, Begin(p, r)
      PROVE  Pending'
  <2>1. [Idle EXCEPT !.pc = "get", !.req = r].pc = "get"
    BY DEF Idle
  <2>2. CASE Return(p, Error([Idle EXCEPT !.pc = "get", !.req = r], "zero_rate", 0))
    BY <1>1, <1>2, <2>2 DEF Begin, Return, Pending, Idle
  <2>3. CASE /\ lim' = [lim EXCEPT ![p] = [Idle EXCEPT !.pc = "get", !.req = r]]
             /\ reply' = [reply EXCEPT ![p] = NoReply]
    BY <1>1, <1>2, <2>1, <2>3 DEF Begin, Pending
  <2>. QED  BY <1>2, <2>2, <2>3 DEF Begin
<1>3. ASSUME NEW p \in Limiters, GetWithTime(p)
      PROVE  Pending'
  <2>1. Observed(p).pc = "update" /\ Observed(p).now = clock
    BY <1>3, ReadFacts DEF GetWithTime, Decide
  <2>. QED  BY <1>1, <1>3, <2>1 DEF GetWithTime, Decide, Return, Pending, Idle
<1>4. ASSUME NEW p \in Limiters, CompareAndSwap(p) \/ SetIfNotExists(p)
      PROVE  Pending'
  <2>1. PICK outcome \in Outcomes : Conclude(p, outcome) /\ lim[p].pc = "update"
    BY <1>4, UpdateFacts
  <2>2. /\ clock' = clock
        /\ \A q \in Limiters \ {p} : lim'[q] = lim[q] /\ reply'[q] = reply[q]
        /\ \/ lim'[p] = Idle
           \/ lim'[p].pc = "get" /\ reply'[p] = reply[p]
    BY <2>1, ConcludeFacts
  <2>. QED  BY <2>1, <2>2 DEF Pending, Idle
<1>5. CASE Tick
  BY <1>1, <1>5 DEF Tick, Pending, Call
<1>6. CASE UNCHANGED vars
  BY <1>6 DEF vars, Pending
<1>. QED  BY <1>2, <1>3, <1>4, <1>5, <1>6 DEF Next, Step

\* The only limiter's update finds the key as it was read, so it is kept out only
\* by the expiry of the key, and then on the first attempt.
LEMMA SoleUpdate ==
    ASSUME TypeOK, Pending, AsRead, SecondAttempt,
           NEW p \in Limiters, CompareAndSwap(p) \/ SetIfNotExists(p)
    PROVE  LET c == lim[p]
               e == db[c.req.key]
           IN  \/ /\ lim'[p] = Idle
                  /\ reply'[p] \in {Result(c), Error(c, "store", c.i + 1)}
               \/ /\ c.i = 0
                  /\ ~IsLive(e, clock) /\ db' = db
                  /\ \/ /\ lim'[p].pc = "get" /\ lim'[p].req = c.req
                        /\ lim'[p].i = 1 /\ reply'[p] = reply[p]
                     \/ /\ 1 > MaxCasAttempts
<1> DEFINE c == lim[p]
           e == db[c.req.key]
           swap == CompareAndSwapWithTtl(e, c.tat_val, AsU64(NewTat(c)),
                                         NewTat(c) - c.now, clock)
           set == SetIfNotExistsWithTtl(e, AsU64(NewTat(c)), NewTat(c) - c.now, clock)
<1>1. /\ c.pc = "update" /\ c \in Observation /\ e \in Entry
      /\ c.req.key \in Keys /\ clock \in Nat
      /\ swap \in Outcomes /\ set \in Outcomes
      /\ IF c.tat_val # None THEN Conclude(p, swap) ELSE Conclude(p, set)
  BY UpdateFacts
<1> HIDE DEF swap, set
<1>2. c.now \in Int /\ clock \in Int /\ c.now <= clock /\ c.i \in Nat /\ c.i <= 1
  BY <1>1 DEF Pending, SecondAttempt, Observation
<1>3. CASE c.tat_val = None
  <2>1. ~IsLive(e, clock)
    BY <1>1, <1>2, <1>3, StaysDead DEF AsRead
  <2>2. set.result # "kept"
    BY <2>1 DEF set, SetIfNotExistsWithTtl, Write, Outcome
  <2>. QED  BY <1>1, <1>3, <2>2, ConcludeFacts
<1>4. CASE c.tat_val # None
  <2>1. e.tat = c.tat_val /\ c.i = 0
    BY <1>1, <1>2, <1>4 DEF AsRead, SecondAttempt
  <2>2. CASE Swappable(e, c.tat_val, clock)
    <3>1. swap.result # "kept"
      BY <2>2 DEF swap, CompareAndSwapWithTtl, Write, Outcome
    <3>. QED  BY <1>1, <1>4, <3>1, ConcludeFacts
  <2>3. CASE ~Swappable(e, c.tat_val, clock)
    <3>1. swap = [entry |-> e, result |-> "kept"]
      BY <2>3 DEF swap, CompareAndSwapWithTtl
    <3>2. ~IsLive(e, clock)
      BY <2>1, <2>3 DEF Swappable
    <3>3. db' = db
      <4>1. db' = [db EXCEPT ![c.req.key] = e]
        BY <1>1, <1>4, <3>1, ConcludeFacts
      <4>. QED  BY <4>1, <1>1 DEF TypeOK
    <3>. QED  BY <1>1, <1>2, <1>4, <2>1, <3>1, <3>2, <3>3, ConcludeFacts
  <2>. QED  BY <2>2, <2>3
<1>. QED  BY <1>3, <1>4

\* Nobody writes the key between the read and the update of the only limiter.
LEMMA AsReadStep ==
    ASSUME Alone, TypeOK, AsRead, [Next]_vars
    PROVE  AsRead'
<1>1. lim \in [Limiters -> Call]
  BY DEF TypeOK
<1>2. ASSUME NEW p \in Limiters, NEW r \in Requests, Begin(p, r)
      PROVE  AsRead'
  <2>1. [Idle EXCEPT !.pc = "get", !.req = r].pc = "get" /\ Idle.pc = "idle"
    BY DEF Idle
  <2>2. lim'[p].pc # "update"
    BY <1>1, <1>2, <2>1 DEF Begin, Return
  <2>. QED  BY <2>2 DEF AsRead, Alone
<1>3. ASSUME NEW p \in Limiters, GetWithTime(p)
      PROVE  AsRead'
  <2> DEFINE c == Observed(p)
             e == db[c.req.key]
  <2>1. c.now = clock /\ IF c.tat_val = None THEN ~IsLive(e, clock)
                                             ELSE e.tat = c.tat_val
    BY <1>3, ReadFacts DEF GetWithTime, Decide
  <2>2. db' = db /\ lim'[p] \in {c, Idle}
    BY <1>1, <1>3 DEF GetWithTime, Decide, Return
  <2>3. Idle.pc = "idle"
    BY DEF Idle
  <2>. QED  BY <2>1, <2>2, <2>3 DEF AsRead, Alone
<1>4. ASSUME NEW p \in Limiters, CompareAndSwap(p) \/ SetIfNotExists(p)
      PROVE  AsRead'
  <2>1. PICK outcome \in Outcomes : Conclude(p, outcome) /\ lim[p].pc = "update"
    BY <1>4, UpdateFacts
  <2>2. lim'[p] = Idle \/ lim'[p].pc = "get"
    BY <2>1, ConcludeFacts
  <2>. QED  BY <2>2 DEF AsRead, Alone, Idle
<1>5. CASE Tick
  BY <1>5 DEF Tick, AsRead
<1>6. CASE UNCHANGED vars
  BY <1>6 DEF vars, AsRead
<1>. QED  BY <1>2, <1>3, <1>4, <1>5, <1>6 DEF Next, Step

\* Every step keeps SoleInv: only the clock can come between the read of a
\* limiter that is alone and its update.
LEMMA SoleStep ==
    ASSUME MaxCasAttempts >= 1, Alone,
           TypeOK, Pending, AsRead, SecondAttempt, NoContention, [Next]_vars
    PROVE  SecondAttempt' /\ NoContention'
<1>1. lim \in [Limiters -> Call] /\ reply \in [Limiters -> Reply]
      /\ clock \in Nat /\ db \in [Keys -> Entry]
  BY LimiterAssumption DEF TypeOK
<1>2. ASSUME NEW p \in Limiters, NEW r \in Requests, Begin(p, r)
      PROVE  SecondAttempt' /\ NoContention'
  <2> DEFINE c == [Idle EXCEPT !.pc = "get", !.req = r]
  <2>1. c.pc = "get" /\ c.i = 0 /\ Idle.pc = "idle" /\ Idle.i = 0
    BY DEF Idle
  <2> HIDE DEF c
  <2>2. CASE Return(p, Error(c, "zero_rate", 0))
    <3>1. lim'[p] = Idle /\ reply'[p] = Error(c, "zero_rate", 0)
      BY <1>1, <2>2 DEF Return
    <3>2. reply'[p].why = "zero_rate"
      BY <3>1 DEF Error
    <3>. QED  BY <2>1, <3>1, <3>2 DEF SecondAttempt, NoContention, Alone
  <2>3. CASE /\ lim' = [lim EXCEPT ![p] = c]
             /\ reply' = [reply EXCEPT ![p] = NoReply]
    BY <1>1, <2>1, <2>3 DEF SecondAttempt, NoContention, Alone, NoReply
  <2>. QED  BY <1>2, <2>2, <2>3 DEF Begin, c
<1>3. ASSUME NEW p \in Limiters, GetWithTime(p)
      PROVE  SecondAttempt' /\ NoContention'
  <2> DEFINE c == Observed(p)
             e == db[c.req.key]
  <2>1. /\ c.pc = "update" /\ c.req = lim[p].req /\ c.i = lim[p].i /\ c.now = clock
        /\ IF c.tat_val = None THEN ~IsLive(e, clock) ELSE e.tat = c.tat_val
    BY <1>3, ReadFacts DEF GetWithTime, Decide
  <2>2. Idle.pc = "idle" /\ Idle.i = 0
    BY DEF Idle
  <2>3. c.i \in Nat /\ c.i <= 1 /\ (c.i = 1 => c.tat_val = None)
    <3>1. lim[p].i \in 0..MaxCasAttempts /\ lim[p].pc = "get"
      BY <1>1, <1>3 DEF GetWithTime, Decide, Call
    <3>2. c.i = 1 => ~IsLive(e, clock)
      BY <2>1, <3>1 DEF SecondAttempt
    <3>3. c.i = 1 => c.tat_val = None
      BY <2>1, <3>1, <3>2 DEF Observed, Visible
    <3>. QED  BY <2>1, <3>1, <3>3, LimiterAssumption DEF SecondAttempt
  <2>4. CASE Return(p, Result(c))
    BY <1>1, <1>3, <2>2, <2>4
       DEF GetWithTime, Decide, Return, SecondAttempt, NoContention, Alone, Result
  <2>5. CASE lim' = [lim EXCEPT ![p] = c] /\ UNCHANGED reply
    BY <1>1, <1>3, <2>1, <2>3, <2>5
       DEF GetWithTime, Decide, SecondAttempt, NoContention, Alone
  <2>. QED  BY <1>3, <2>4, <2>5 DEF GetWithTime, Decide
<1>4. ASSUME NEW p \in Limiters, CompareAndSwap(p) \/ SetIfNotExists(p)
      PROVE  SecondAttempt' /\ NoContention'
  <2> DEFINE c == lim[p]
  <2>1. clock' = clock
    BY <1>4 DEF CompareAndSwap, SetIfNotExists, Conclude
  <2>2. CASE /\ lim'[p] = Idle
             /\ reply'[p] \in {Result(c), Error(c, "store", c.i + 1)}
    BY <2>2 DEF SecondAttempt, NoContention, Alone, Idle, Result, Error
  <2>3. CASE /\ ~IsLive(db[c.req.key], clock) /\ db' = db
             /\ lim'[p].pc = "get" /\ lim'[p].req = c.req
             /\ lim'[p].i = 1 /\ reply'[p] = reply[p]
    BY <2>1, <2>3 DEF SecondAttempt, NoContention, Alone
  <2>. QED  BY <1>4, <2>2, <2>3, SoleUpdate, LimiterAssumption
<1>5. CASE Tick
  <2>1. ASSUME NEW p \in Limiters, lim[p].i = 1, lim[p].pc = "get"
        PROVE  ~IsLive(db[lim[p].req.key], clock')
    <3>1. db[lim[p].req.key] \in Entry /\ ~IsLive(db[lim[p].req.key], clock)
      BY <2>1, ActiveType DEF SecondAttempt
    <3>2. clock' \in Int /\ clock \in Int /\ clock <= clock'
      BY <1>1, <1>5 DEF Tick
    <3>. QED  BY <3>1, <3>2, StaysDead
  <2>. QED  BY <1>5, <2>1 DEF Tick, SecondAttempt, NoContention
<1>6. CASE UNCHANGED vars
  BY <1>6 DEF vars, SecondAttempt, NoContention
<1>. QED  BY <1>2, <1>3, <1>4, <1>5, <1>6 DEF Next, Step

-----------------------------------------------------------------------------
\* No call has begun at first.
LEMMA SoleInit == Init => SoleInv
<1> SUFFICES ASSUME Init PROVE SoleInv
  OBVIOUS
<1>. QED
  BY TypeInit DEF Init, SoleInv, Pending, AsRead, SecondAttempt, NoContention,
                  Idle, NoReply

\* The only limiter of a store makes at most two attempts and never fails for
\* contention, if the code allows one retry at all (mod.rs:125-132, store.rs:180-183).
THEOREM AloneNeverContends ==
    ASSUME MaxCasAttempts >= 1
    PROVE  Spec => []LosesOnlyToExpiry
<1>1. SoleInv /\ [Next]_vars => SoleInv'
  <2>1. Alone' = Alone
    BY DEF Alone
  <2>. QED  BY <2>1, TypeStep, PendingStep, AsReadStep, SoleStep DEF SoleInv
<1>2. SoleInv => LosesOnlyToExpiry
  <2> SUFFICES ASSUME SoleInv, NEW p \in Limiters, Limiters = {p}
               PROVE  /\ lim[p].i <= 1
                      /\ ~(reply[p].kind = "error" /\ reply[p].why = "contention")
    BY DEF LosesOnlyToExpiry
  <2>1. Alone
    BY DEF Alone
  <2>. QED  BY <2>1 DEF SoleInv, SecondAttempt, NoContention
<1>. QED  BY SoleInit, <1>1, <1>2, PTL DEF Spec
=============================================================================
