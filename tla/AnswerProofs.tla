---------------------------- MODULE AnswerProofs -----------------------------
(***************************************************************************)
(* What an answer promises, for the only limiter of a store.               *)
(*                                                                         *)
(* Between two calls nobody else touches the key, so it is as the answered *)
(* call left it: not written by a blocked call, and holding the TAT that   *)
(* the answer was computed from after an allowed one.  Expiry can only     *)
(* take the key away.  The invariant AnswerStands says so, and the         *)
(* promises are arithmetic from there.                                     *)
(***************************************************************************)
EXTENDS RateLimiterProofs

\* No TAT leaves the range of a u64: a refund is smaller than the time since the
\* epoch, and the latest clock plus the tolerance fits.
InRange ==
    \A r \in Requests :
        FirstTick + Increment(r) >= 0 /\ LastTick + Dvt(r) <= 2 * IntMax + 1

\* A call has a rate, and reads the clock after it has begun.
Begun ==
    \A p \in Limiters :
        /\ lim[p].pc # "idle" => lim[p].req.period # 0
        /\ lim[p].pc = "update" => FirstTick <= lim[p].now

\* The calls that can have led to the answer a.
Behind(a) ==
    [pc : {"update"}, req : {a.req}, i : 0..MaxCasAttempts,
     tat_val : U64 \cup {None}, now : {a.now}]

\* What the call c has read is still in the store.
Unwritten(c) ==
    IF c.tat_val = None THEN ~IsLive(db[c.req.key], c.now)
    ELSE db[c.req.key].tat = c.tat_val

\* The key is as the call c left it.
LeftBy(c) ==
    IF Limited(c) THEN Visible(db[c.req.key], c.now) = c.tat_val
    ELSE \E t \in c.now..clock :
            Write(AsU64(NewTat(c)), NewTat(c) - c.now, t) =
                [entry |-> db[c.req.key], result |-> "updated"]

AnswerStands ==
    \A p \in Limiters :
        Answered(p) =>
            /\ FirstTick <= reply[p].now /\ reply[p].now <= clock
            /\ reply[p].req.period # 0
            /\ \E c \in Behind(reply[p]) : reply[p] = Result(c) /\ LeftBy(c)

AnswerInv == TypeOK /\ Pending /\ Begun /\ AnswerStands

-----------------------------------------------------------------------------
\* The fields of an answer (mod.rs:227-236).
LEMMA OkReply ==
    ASSUME NEW a \in Reply, a.kind = "ok"
    PROVE  /\ a.req \in Requests /\ a.now \in Nat /\ a.limited \in BOOLEAN
           /\ a.remaining \in Int /\ a.retry_after \in Int /\ a.reset_after \in Int
BY DEF Reply, NoReply

\* Every step keeps Begun: a zero rate is refused at once (mod.rs:105-111).
LEMMA BegunStep ==
    ASSUME TypeOK, Pending, Begun, [Next]_vars
    PROVE  Begun'
<1>1. lim \in [Limiters -> Call] /\ clock \in Nat /\ FirstTick \in Nat
      /\ FirstTick <= clock
  BY LimiterAssumption DEF TypeOK
<1>2. ASSUME NEW p \in Limiters, NEW r \in Requests, Begin(p, r)
      PROVE  Begun'
  <2> DEFINE c == [Idle EXCEPT !.pc = "get", !.req = r]
  <2>1. c.pc = "get" /\ c.req = r /\ Idle.pc = "idle"
    BY DEF Idle
  <2> HIDE DEF c
  <2>2. CASE Return(p, Error(c, "zero_rate", 0))
    BY <1>1, <2>1, <2>2 DEF Return, Begun
  <2>3. CASE r.period # 0 /\ lim' = [lim EXCEPT ![p] = c]
    BY <1>1, <2>1, <2>3 DEF Begun
  <2>. QED  BY <1>2, <2>2, <2>3 DEF Begin, c
<1>3. ASSUME NEW p \in Limiters, GetWithTime(p)
      PROVE  Begun'
  <2>1. /\ Observed(p).pc = "update" /\ Observed(p).now = clock
        /\ Observed(p).req = lim[p].req /\ lim[p].pc = "get"
    BY <1>3, ReadFacts DEF GetWithTime, Decide
  <2>2. lim'[p] \in {Idle, Observed(p)} /\ \A q \in Limiters \ {p} : lim'[q] = lim[q]
    BY <1>1, <1>3 DEF GetWithTime, Decide, Return
  <2>. QED  BY <1>1, <2>1, <2>2 DEF Begun, Idle
<1>4. ASSUME NEW p \in Limiters, CompareAndSwap(p) \/ SetIfNotExists(p)
      PROVE  Begun'
  <2>1. PICK outcome \in Outcomes : Conclude(p, outcome) /\ lim[p].pc = "update"
    BY <1>4, UpdateFacts
  <2>2. /\ \A q \in Limiters \ {p} : lim'[q] = lim[q]
        /\ \/ lim'[p] = Idle
           \/ lim'[p].pc = "get" /\ lim'[p].req = lim[p].req
    BY <2>1, ConcludeFacts
  <2>. QED  BY <2>1, <2>2 DEF Begun, Idle
<1>5. CASE Tick \/ UNCHANGED vars
  BY <1>5 DEF Tick, vars, Begun
<1>. QED  BY <1>2, <1>3, <1>4, <1>5 DEF Next, Step

\* The read of a blocked call is what it answers from (mod.rs:141-189).
LEMMA BlockedAnswer ==
    ASSUME TypeOK, Begun, NEW p \in Limiters, GetWithTime(p), Answered(p)'
    PROVE  /\ FirstTick <= reply'[p].now /\ reply'[p].now <= clock'
           /\ reply'[p].req.period # 0
           /\ \E c \in Behind(reply'[p]) : reply'[p] = Result(c) /\ LeftBy(c)'
<1>. PICK c : c = Observed(p)
  OBVIOUS
<1> DEFINE k == c.req.key
<1>1. /\ lim \in [Limiters -> Call] /\ reply \in [Limiters -> Reply]
      /\ clock \in Nat /\ FirstTick \in Nat /\ FirstTick <= clock
  BY LimiterAssumption DEF TypeOK
<1>2. lim[p].pc = "get" /\ db' = db /\ clock' = clock
  BY DEF GetWithTime, Decide
<1>3. c.pc = "update" /\ c.req = lim[p].req /\ c.i = lim[p].i /\ c.now = clock
      /\ c.tat_val = Visible(db[k], clock)
  BY <1>1, <1>2, ReadFacts DEF Observed, Call
<1>4. c \in Observation
  <2>1. lim[p] \in Observation /\ db[lim[p].req.key] \in Entry
    BY <1>2, ActiveType
  <2>2. c.tat_val \in U64 \cup {None}
    BY <1>3, <2>1, VisibleType
  <2>. QED  BY <1>1, <2>1, <2>2 DEF Observed, Observation
<1>5. Limited(c) /\ reply'[p] = Result(c)
  <2>1. ~(lim' = [lim EXCEPT ![p] = c])
    BY <1>1, <1>3 DEF Answered
  <2>. QED  BY <1>1, <2>1 DEF GetWithTime, Decide, Return
<1>6. reply'[p].req = c.req /\ reply'[p].now = c.now
  BY <1>5 DEF Result
<1>7. c \in Behind(reply'[p])
  BY <1>3, <1>4, <1>6 DEF Behind, Observation
<1>8. LeftBy(c)'
  BY <1>2, <1>3, <1>5, Zenon DEF LeftBy
<1>. QED  BY <1>1, <1>2, <1>3, <1>5, <1>6, <1>7, <1>8 DEF Begun

\* An allowed call answers only if its value was written (mod.rs:191-236).
LEMMA AllowedAnswer ==
    ASSUME TypeOK, Pending, Begun, NEW p \in Limiters,
           CompareAndSwap(p) \/ SetIfNotExists(p), Answered(p)'
    PROVE  /\ FirstTick <= reply'[p].now /\ reply'[p].now <= clock'
           /\ reply'[p].req.period # 0
           /\ \E c \in Behind(reply'[p]) : reply'[p] = Result(c) /\ LeftBy(c)'
<1>. PICK c : c = lim[p]
  OBVIOUS
<1> DEFINE e == db[c.req.key]
           value == AsU64(NewTat(c))
           ttl == NewTat(c) - c.now
           swap == CompareAndSwapWithTtl(e, c.tat_val, value, ttl, clock)
           set == SetIfNotExistsWithTtl(e, value, ttl, clock)
<1>1. /\ c.pc = "update" /\ c \in Observation /\ e \in Entry
      /\ c.req.key \in Keys /\ clock \in Nat
      /\ swap \in Outcomes /\ set \in Outcomes
      /\ IF c.tat_val # None THEN Conclude(p, swap) ELSE Conclude(p, set)
  BY UpdateFacts
<1>2. /\ ~Limited(c) /\ FirstTick <= c.now /\ c.now <= clock /\ c.req.period # 0
      /\ c.now \in Nat /\ reply[p] = NoReply
  BY <1>1 DEF Pending, Begun, Observation
<1>3. /\ swap.result = "updated" => swap = Write(value, ttl, clock)
      /\ set.result = "updated" => set = Write(value, ttl, clock)
  BY DEF CompareAndSwapWithTtl, SetIfNotExistsWithTtl, Outcome
<1> HIDE DEF swap, set
<1>4. ASSUME NEW outcome \in Outcomes, Conclude(p, outcome)
      PROVE  /\ clock' = clock /\ reply'[p] = Result(c)
             /\ outcome.result = "updated" /\ db'[c.req.key] = outcome.entry
  <2>1. reply'[p].kind = "ok"
    BY DEF Answered
  <2>2. \/ outcome.result = "updated" /\ reply'[p] = Result(c)
        \/ reply'[p] = Error(c, "store", c.i + 1)
        \/ reply'[p] = Error(c, "contention", c.i + 1)
        \/ reply'[p] = reply[p]
    BY <1>1, <1>4, ConcludeFacts
  <2>3. outcome.result = "updated" /\ reply'[p] = Result(c)
    BY <1>2, <2>1, <2>2 DEF Error, NoReply
  <2>4. clock' = clock /\ db'[c.req.key] = outcome.entry
    BY <1>1, <1>4, ConcludeFacts DEF TypeOK
  <2>. QED  BY <2>3, <2>4
<1>5. PICK outcome \in Outcomes :
        /\ clock' = clock /\ reply'[p] = Result(c)
        /\ outcome.result = "updated" /\ db'[c.req.key] = outcome.entry
        /\ outcome = Write(value, ttl, clock)
  <2>1. CASE c.tat_val # None
    BY <1>1, <1>3, <1>4, <2>1
  <2>2. CASE c.tat_val = None
    BY <1>1, <1>3, <1>4, <2>2
  <2>. QED  BY <2>1, <2>2
<1>6. reply'[p].req = c.req /\ reply'[p].now = c.now
  BY <1>5 DEF Result
<1>7. c \in Behind(reply'[p])
  BY <1>1, <1>6 DEF Behind, Observation
<1>8. Write(value, ttl, clock) = [entry |-> db'[c.req.key], result |-> "updated"]
  BY <1>5 DEF Outcomes
<1>9. clock \in c.now..clock'
  BY <1>1, <1>2, <1>5
<1>10. LeftBy(c)'
  BY <1>2, <1>8, <1>9 DEF LeftBy
<1>. QED  BY <1>2, <1>5, <1>6, <1>7, <1>10

\* An answer stands until the next call begins.
LEMMA AnswerStandsStep ==
    ASSUME TypeOK, Pending, Begun, AnswerStands, [Next]_vars
    PROVE  AnswerStands'
<1> SUFFICES ASSUME NEW p \in Limiters, Answered(p)'
             PROVE  /\ FirstTick <= reply'[p].now /\ reply'[p].now <= clock'
                    /\ reply'[p].req.period # 0
                    /\ \E c \in Behind(reply'[p]) : reply'[p] = Result(c) /\ LeftBy(c)'
  BY DEF AnswerStands
<1>1. /\ lim \in [Limiters -> Call] /\ reply \in [Limiters -> Reply]
      /\ clock \in Nat /\ Limiters = {p}
  BY LimiterAssumption DEF TypeOK, Answered
<1>2. ASSUME NEW r \in Requests, Begin(p, r)
      PROVE  FALSE
  <2> DEFINE c == [Idle EXCEPT !.pc = "get", !.req = r]
  <2>1. c.pc = "get"
    BY DEF Idle
  <2> HIDE DEF c
  <2>2. CASE Return(p, Error(c, "zero_rate", 0))
    BY <1>1, <2>2 DEF Return, Error, Answered
  <2>3. CASE lim' = [lim EXCEPT ![p] = c]
    BY <1>1, <2>1, <2>3 DEF Answered
  <2>. QED  BY <1>2, <2>2, <2>3 DEF Begin, c
<1>3. CASE GetWithTime(p)
  BY <1>3, BlockedAnswer
<1>4. CASE CompareAndSwap(p) \/ SetIfNotExists(p)
  BY <1>4, AllowedAnswer
<1>5. CASE UNCHANGED <<db, lim, reply>> /\ clock' \in Nat /\ clock <= clock'
  <2>1. Answered(p)
    BY <1>5 DEF Answered
  <2>2. PICK c \in Behind(reply[p]) : reply[p] = Result(c) /\ LeftBy(c)
    BY <2>1 DEF AnswerStands
  <2>3. FirstTick <= reply[p].now /\ reply[p].now <= clock /\ reply[p].req.period # 0
    BY <2>1 DEF AnswerStands
  <2>4. reply[p].now \in Nat /\ c.now = reply[p].now /\ FirstTick \in Nat
    <3>1. reply[p] \in Reply /\ reply[p].kind = "ok"
      BY <1>1, <2>1 DEF Answered
    <3>. QED  BY <2>2, <3>1, OkReply, LimiterAssumption DEF Behind
  <2>5. \A t \in c.now..clock : t \in c.now..clock'
    BY <1>1, <1>5, <2>4
  <2>6. LeftBy(c)'
    BY <1>5, <2>2, <2>5, Zenon DEF LeftBy
  <2>. QED  BY <1>1, <1>5, <2>2, <2>3, <2>4, <2>6
<1>6. Tick \/ UNCHANGED vars => UNCHANGED <<db, lim, reply>> /\ clock' \in Nat /\ clock <= clock'
  BY <1>1 DEF Tick, vars
<1>. QED  BY <1>1, <1>2, <1>3, <1>4, <1>5, <1>6 DEF Next, Step

\* Nothing is answered at first.
LEMMA AnswerInit == Init => AnswerInv
<1> SUFFICES ASSUME Init PROVE AnswerInv
  OBVIOUS
<1>. QED
  BY TypeInit, SoleInit DEF Init, SoleInv, AnswerInv, Begun, AnswerStands, Answered,
                            Idle, NoReply

\* Every step of the limiter keeps the invariant.
LEMMA AnswerStep == AnswerInv /\ [Next]_vars => AnswerInv'
BY TypeStep, PendingStep, BegunStep, AnswerStandsStep DEF AnswerInv

-----------------------------------------------------------------------------
\* The TAT that a call on key k would start from now.
Base(k) ==
    LET v == Visible(db[k], clock)
    IN  IF v = None THEN clock ELSE Later(clock, v)

\* The decision on a call is a comparison with that TAT (mod.rs:141-175).
LEMMA AdmitsIff ==
    ASSUME TypeOK, NEW r, r.key \in Keys, Increment(r) \in Int, Dvt(r) \in Int
    PROVE  /\ Base(r.key) \in Int /\ clock <= Base(r.key)
           /\ Admits(r) <=> Base(r.key) + Increment(r) <= clock + Dvt(r)
<1> DEFINE v == Visible(db[r.key], clock)
           c == Peek(r)
<1>1. clock \in Int /\ db[r.key] \in Entry
  BY LimiterAssumption DEF TypeOK
<1>2. v = None \/ v \in Int
  BY <1>1, VisibleType, TimeAssumption DEF U64
<1>3. c.req = r /\ c.tat_val = v /\ c.now = clock
  BY DEF Peek, Idle
<1> HIDE DEF v, c
<1>4. Base(r.key) = Later(clock, Tat(c))
  BY <1>1, <1>2, <1>3 DEF Base, Tat, Later, v
<1>5. Base(r.key) \in Int /\ clock <= Base(r.key)
  BY <1>1, <1>2 DEF Base, Later, v
<1>6. Diff(c) = clock - ((Base(r.key) + Increment(r)) - Dvt(r))
  BY <1>3, <1>4 DEF Diff, NewTat
<1>7. Admits(r) <=> ~(Diff(c) < 0)
  BY DEF Admits, Limited, c
<1>. QED  BY <1>1, <1>5, <1>6, <1>7

\* The same key and quota, asked for another quantity.
LEMMA AskingFacts ==
    ASSUME NEW r \in Requests, NEW n \in Int
    PROVE  LET s == Asking(r, n)
           IN  /\ s.key = r.key /\ r.key \in Keys
               /\ Dvt(s) = Dvt(r) /\ Dvt(r) \in Int
               /\ Increment(s) = AsI64(r.period * n) /\ Increment(s) \in Int
<1>1. r \in Request /\ r.period \in Int
  BY LimiterAssumption, TimeAssumption DEF Request, I64
<1>2. LET s == Asking(r, n)
      IN  /\ s.key = r.key /\ s.max_burst = r.max_burst /\ s.period = r.period
          /\ s.quantity = n
  BY <1>1 DEF Asking, Request
<1>3. r.period * n \in Int
  BY <1>1, SMT
<1>. QED
  BY <1>1, <1>2, <1>3, DvtType, AsI64Type DEF Dvt, Limit, Increment, Request

\* An allowed call writes a TAT that fits a u64 (mod.rs:168-192).
LEMMA AllowedRange ==
    ASSUME InRange, TypeOK, NEW c \in Observation, ~Limited(c),
           FirstTick <= c.now, c.now <= clock
    PROVE  /\ NewTat(c) \in U64 /\ AsU64(NewTat(c)) = NewTat(c)
           /\ c.now + Increment(c.req) <= NewTat(c)
           /\ NewTat(c) <= c.now + Dvt(c.req)
<1>1. /\ Increment(c.req) \in Int /\ Dvt(c.req) \in Int /\ Tat(c) \in Int
      /\ NewTat(c) \in Int /\ Diff(c) \in Int
  BY DecisionType
<1>2. /\ c.now \in Nat /\ clock \in Nat /\ clock <= LastTick
      /\ FirstTick \in Nat /\ LastTick \in Nat
  BY LimiterAssumption DEF Observation, TypeOK
<1>3. FirstTick + Increment(c.req) >= 0 /\ LastTick + Dvt(c.req) <= 2 * IntMax + 1
  BY DEF InRange, Observation
<1>4. c.now + Increment(c.req) <= NewTat(c)
  BY <1>1, <1>2 DEF NewTat, Later
<1>5. NewTat(c) <= c.now + Dvt(c.req)
  BY <1>1, <1>2 DEF Limited, Diff
<1>6. NewTat(c) >= 0 /\ NewTat(c) <= 2 * IntMax + 1
  BY <1>1, <1>2, <1>3, <1>4, <1>5, TimeAssumption
<1>7. NewTat(c) \in U64
  BY <1>1, <1>6, TimeAssumption DEF U64
<1>. QED  BY <1>4, <1>5, <1>7 DEF AsU64

\* What can be read of an answered call: its decision and its times.
LEMMA AnswerFacts ==
    ASSUME AnswerInv, NEW p \in Limiters, Answered(p)
    PROVE  \E c \in Observation :
              /\ reply[p] = Result(c) /\ LeftBy(c)
              /\ FirstTick <= c.now /\ c.now <= clock
              /\ c.req.period # 0 /\ c.req.key \in Keys
<1>1. PICK c \in Behind(reply[p]) : reply[p] = Result(c) /\ LeftBy(c)
  BY DEF AnswerInv, AnswerStands
<1>2. reply[p] \in Reply /\ reply[p].kind = "ok"
  BY DEF AnswerInv, TypeOK, Answered
<1>3. c \in Observation /\ c.now = reply[p].now /\ c.req = reply[p].req
  BY <1>1, <1>2, OkReply DEF Behind, Observation
<1>4. c.req.key \in Keys
  BY <1>3, LimiterAssumption DEF Observation, Request
<1>. QED  BY <1>1, <1>3, <1>4 DEF AnswerInv, AnswerStands

\* The TAT that an answer was computed from is what the next call starts from,
\* as long as the key lives, and a dead key leaves no more than that.
LEMMA BaseFacts ==
    ASSUME TypeOK, NEW c \in Observation, LeftBy(c), c.req.key \in Keys,
           FirstTick <= c.now, c.now <= clock, Limited(c) \/ InRange
    PROVE  LET end == c.now + ResetAfter(c)
           IN  /\ end \in Int
               /\ Base(c.req.key) <= Later(clock, end)
               /\ KeyLive(c.req) => Base(c.req.key) = Later(clock, end)
<1> DEFINE e == db[c.req.key]
           end == c.now + ResetAfter(c)
<1>1. /\ clock \in Int /\ c.now \in Int /\ e \in Entry
      /\ Tat(c) \in Int /\ NewTat(c) \in Int
  BY DecisionType, LimiterAssumption DEF TypeOK, Observation
<1>2. end = IF Limited(c) THEN Tat(c) ELSE NewTat(c)
  BY <1>1 DEF ResetAfter
<1>3. IsLive(e, clock) => IsLive(e, c.now)
  BY <1>1, StaysDead
<1>4. end \in Int /\ end # None
  BY <1>1, <1>2, StoreAssumption
<1>5. IsLive(e, clock) => Visible(e, clock) = end
  <2>1. CASE Limited(c)
    <3>1. IsLive(e, clock) => Visible(e, c.now) = e.tat /\ e.tat # None
      BY <1>3 DEF Visible, IsLive
    <3>. QED  BY <1>2, <2>1, <3>1 DEF LeftBy, Visible, Tat
  <2>2. CASE ~Limited(c)
    <3>1. AsU64(NewTat(c)) = NewTat(c)
      BY <2>2, AllowedRange
    <3>2. e.tat = NewTat(c)
      BY <2>2, <3>1, WrittenTat DEF LeftBy
    <3>. QED  BY <1>2, <2>2, <3>2 DEF Visible
  <2>. QED  BY <2>1, <2>2
<1> HIDE DEF end
<1>6. IF IsLive(e, clock) THEN Base(c.req.key) = Later(clock, end)
                          ELSE Base(c.req.key) = clock
  BY <1>4, <1>5 DEF Base, Visible
<1>7. clock <= Later(clock, end) /\ Later(clock, end) \in Int
  BY <1>1, <1>4 DEF Later
<1>. QED  BY <1>1, <1>4, <1>6, <1>7 DEF KeyLive, end

-----------------------------------------------------------------------------
\* What a call saw of its key is in the store as long as nobody writes.
LEMMA LeftUnwritten ==
    ASSUME NEW c, Limited(c), LeftBy(c)
    PROVE  Unwritten(c)
<1>1. Visible(db[c.req.key], c.now) = c.tat_val
  BY Zenon DEF LeftBy
<1>. QED  BY <1>1 DEF Visible, Unwritten, IsLive

\* A blocked call was blocked by the TAT that the key still has (mod.rs:178-189).
LEMMA RetryKept ==
    ASSUME TypeOK, NEW c \in Observation, Unwritten(c), c.req.key \in Keys,
           c.now <= clock, Limited(c)
    PROVE  LET retryAt == c.now + RetryAfter(c)
           IN  IF RetryAfter(c) = NoRetry THEN ~Admits(c.req)
               ELSE /\ clock >= retryAt => Admits(c.req)
                    /\ clock < retryAt /\ KeyLive(c.req) => ~Admits(c.req)
<1> DEFINE inc == Increment(c.req)
           dvt == Dvt(c.req)
           base == Base(c.req.key)
           retry == RetryAfter(c)
<1>1. /\ inc \in Int /\ dvt \in Int /\ Tat(c) \in Int
      /\ clock \in Int /\ c.now \in Int /\ Sec \in Nat \ {0}
  BY DecisionType, LimiterAssumption, TimeAssumption DEF TypeOK, Observation
<1>2. /\ base \in Int /\ clock <= base
      /\ Admits(c.req) <=> base + inc <= clock + dvt
  BY <1>1, AdmitsIff
<1>3. /\ base <= Later(clock, Tat(c))
      /\ KeyLive(c.req) => base = Later(clock, Tat(c))
  <2> DEFINE e == db[c.req.key]
  <2>1. e \in Entry
    BY DEF TypeOK
  <2>2. CASE IsLive(e, clock)
    <3>1. IsLive(e, c.now)
      BY <1>1, <2>1, <2>2, StaysDead
    <3>2. e.tat = c.tat_val /\ c.tat_val # None
      BY <3>1 DEF Unwritten, IsLive
    <3>3. base = Later(clock, Tat(c))
      BY <2>2, <3>2 DEF Base, Visible, Tat
    <3>. QED  BY <1>2, <3>3
  <2>3. CASE ~IsLive(e, clock)
    <3>1. base = clock
      BY <2>3 DEF Base, Visible
    <3>. QED  BY <1>1, <2>3, <3>1 DEF KeyLive, Later
  <2>. QED  BY <2>2, <2>3
<1>4. Diff(c) = c.now - ((Later(c.now, Tat(c)) + inc) - dvt) /\ Diff(c) < 0
  BY DEF Diff, NewTat, Limited
<1>5. retry = IF inc <= dvt THEN -Diff(c) ELSE -Sec
  BY DEF RetryAfter, NoRetry
<1> HIDE DEF inc, dvt, base, retry
<1>6. CASE retry = NoRetry
  <2>1. inc > dvt
    BY <1>1, <1>4, <1>5, <1>6 DEF NoRetry, Later
  <2>. QED  BY <1>1, <1>2, <1>6, <2>1 DEF retry
<1>7. CASE retry # NoRetry
  <2>1. /\ inc <= dvt
        /\ c.now + retry = Tat(c) + inc - dvt /\ Tat(c) > c.now
    BY <1>1, <1>4, <1>5, <1>7 DEF NoRetry, Later
  <2>2. clock >= c.now + retry => Admits(c.req)
    BY <1>1, <1>2, <1>3, <2>1 DEF Later
  <2>3. clock < c.now + retry /\ KeyLive(c.req) => ~Admits(c.req)
    BY <1>1, <1>2, <1>3, <2>1 DEF Later
  <2>. QED  BY <1>7, <2>2, <2>3 DEF retry
<1>. QED  BY <1>6, <1>7 DEF retry

\* The invariant gives the promise of a blocked call.
LEMMA RetryFromInv == AnswerInv => RetryPromise
<1> SUFFICES ASSUME AnswerInv, NEW p \in Limiters, Answered(p), reply[p].limited
             PROVE  LET a == reply[p]
                        retryAt == a.now + a.retry_after
                    IN  IF a.retry_after = NoRetry THEN ~Admits(a.req)
                        ELSE /\ clock >= retryAt => Admits(a.req)
                             /\ clock < retryAt /\ KeyLive(a.req) => ~Admits(a.req)
  BY DEF RetryPromise
<1>1. PICK c \in Observation :
            /\ reply[p] = Result(c) /\ LeftBy(c)
            /\ FirstTick <= c.now /\ c.now <= clock
            /\ c.req.period # 0 /\ c.req.key \in Keys
  BY AnswerFacts
<1>2. /\ reply[p].req = c.req /\ reply[p].now = c.now
      /\ reply[p].retry_after = RetryAfter(c) /\ Limited(c)
  BY <1>1 DEF Result
<1>. QED  BY <1>1, <1>2, LeftUnwritten, RetryKept DEF AnswerInv

\* The wait that a blocked client is told is enough and, while the key lives, not
\* more than enough, for every mix of quotas, every quantity, negative ones
\* included, and every store (mod.rs:178-189).
THEOREM RetryHolds == Spec => []RetryPromise
BY AnswerInit, AnswerStep, RetryFromInv, PTL DEF Spec

\* All that a key may hold comes back when its TAT is reached (mod.rs:73-92, 233).
LEMMA ResetKept ==
    ASSUME InRange, TypeOK, NEW c \in Observation, LeftBy(c), c.req.key \in Keys,
           FirstTick <= c.now, c.now <= clock
    PROVE  LET resetAt == c.now + ResetAfter(c)
               everything == Asking(c.req, Limit(c.req))
           IN  /\ clock >= resetAt => Admits(everything)
               /\ clock < resetAt /\ KeyLive(c.req) => ~Admits(everything)
<1> DEFINE end == c.now + ResetAfter(c)
           everything == Asking(c.req, Limit(c.req))
           base == Base(c.req.key)
           dvt == Dvt(c.req)
<1>1. clock \in Int /\ c.req \in Requests
  BY LimiterAssumption DEF TypeOK, Observation
<1>2. Limit(c.req) \in Int
  BY <1>1, AsI64Type, LimiterAssumption, TimeAssumption DEF Limit, Request, I64
<1>3. /\ everything.key = c.req.key /\ Dvt(everything) = dvt /\ dvt \in Int
      /\ Increment(everything) = dvt
  BY <1>1, <1>2, AskingFacts DEF Dvt
<1> HIDE DEF everything
<1>4. base \in Int /\ (Admits(everything) <=> base + dvt <= clock + dvt)
  BY <1>3, AdmitsIff
<1>5. end \in Int /\ base <= Later(clock, end)
      /\ (KeyLive(c.req) => base = Later(clock, end))
  BY BaseFacts
<1> HIDE DEF end, base, dvt
<1>6. Admits(everything) <=> base <= clock
  BY <1>1, <1>3, <1>4
<1>7. /\ clock >= end => Admits(everything)
      /\ clock < end /\ KeyLive(c.req) => ~Admits(everything)
  BY <1>1, <1>4, <1>5, <1>6 DEF Later
<1>. QED  BY <1>7 DEF end, everything

\* The invariant gives the promise of the reset.
LEMMA ResetFromInv ==
    ASSUME InRange
    PROVE  AnswerInv => ResetPromise
<1> SUFFICES ASSUME AnswerInv, NEW p \in Limiters, Answered(p)
             PROVE  LET a == reply[p]
                        resetAt == a.now + a.reset_after
                        everything == Asking(a.req, Limit(a.req))
                    IN  /\ clock >= resetAt => Admits(everything)
                        /\ clock < resetAt /\ KeyLive(a.req) => ~Admits(everything)
  BY DEF ResetPromise
<1>1. PICK c \in Observation :
            /\ reply[p] = Result(c) /\ LeftBy(c)
            /\ FirstTick <= c.now /\ c.now <= clock
            /\ c.req.period # 0 /\ c.req.key \in Keys
  BY AnswerFacts
<1>2. /\ reply[p].req = c.req /\ reply[p].now = c.now
      /\ reply[p].reset_after = ResetAfter(c)
  BY <1>1 DEF Result
<1>. QED  BY <1>1, <1>2, ResetKept DEF AnswerInv

\* The reset time is that of the whole limit, for every mix of quotas and every
\* quantity whose TAT stays within a u64 (mod.rs:187, 192 and 233).
THEOREM ResetHolds ==
    ASSUME InRange
    PROVE  Spec => []ResetPromise
BY AnswerInit, AnswerStep, ResetFromInv, PTL DEF Spec

-----------------------------------------------------------------------------
\* Division by a positive number rounds down.
LEMMA FloorFacts ==
    ASSUME NEW a \in Int, NEW b \in Nat \ {0}
    PROVE  /\ a \div b \in Int
           /\ b * (a \div b) <= a /\ a < b * (a \div b) + b
BY SMT

\* A positive factor keeps the order.
LEMMA TimesMonotone ==
    ASSUME NEW b \in Nat \ {0}, NEW x \in Int, NEW y \in Int
    PROVE  x <= y <=> b * x <= b * y
BY SMT

\* The quotient of a product.
LEMMA TimesDiv ==
    ASSUME NEW b \in Nat \ {0}, NEW n \in Nat
    PROVE  (b * n) \div b = n
BY SMT

\* One more of the same size.
LEMMA OneMore ==
    ASSUME NEW b \in Int, b > 0, NEW n \in Nat
    PROVE  /\ b * n \in Int /\ b * (n + 1) = b * n + b
           /\ b * n >= 0 /\ (n = 0 => b * n = 0)
BY SMT

\* Division toward zero by a positive number, on either side of it.
LEMMA TruncFacts ==
    ASSUME NEW a \in Int, NEW b \in Nat \ {0}
    PROVE  TruncDiv(a, b) = IF a >= 0 THEN a \div b ELSE -((-a) \div b)
BY SMT DEF TruncDiv

\* How many whole intervals of q microseconds there are in a duration: it is cut
\* to microseconds first, which loses nothing then (mod.rs:227-232).
LEMMA WholeIntervals ==
    ASSUME NEW q \in Nat \ {0}, NEW next \in Int, next > -(Us * q)
    PROVE  LET n == FloatQuotient(WholeMicroseconds(next), WholeMicroseconds(Us * q))
           IN  /\ n \in Nat
               /\ next < Us * q * (n + 1)
               /\ IF next >= 0 THEN Us * q * n <= next ELSE n = 0
<1> DEFINE n == FloatQuotient(WholeMicroseconds(next), WholeMicroseconds(Us * q))
           m == next \div Us
           l == (-next) \div Us
<1>1. Us \in Nat \ {0} /\ Us * q \in Nat
  BY TimeAssumption, SMT
<1>2. WholeMicroseconds(Us * q) = q
  BY <1>1, TruncFacts, TimesDiv DEF WholeMicroseconds
<1>3. WholeMicroseconds(next) \in Int
  BY WholeType
<1>4. n = TruncDiv(WholeMicroseconds(next), q)
  BY <1>2 DEF FloatQuotient
<1> HIDE DEF n
<1>5. CASE next >= 0
  <2>1. m \in Nat /\ Us * m <= next /\ next < Us * m + Us
        /\ WholeMicroseconds(next) = m
    <3>1. m \in Int /\ Us * m <= next /\ next < Us * m + Us
      BY <1>1, FloorFacts
    <3>2. WholeMicroseconds(next) = m
      BY <1>1, <1>5, TruncFacts DEF WholeMicroseconds
    <3>3. m >= 0
      BY <1>1, <1>5, SMT
    <3>. QED  BY <3>1, <3>2, <3>3
  <2> HIDE DEF m
  <2>2. n = m \div q
    BY <1>4, <2>1, TruncFacts
  <2>3. n \in Int /\ q * n <= m /\ m < q * n + q
    BY <2>1, <2>2, FloorFacts
  <2>4. n \in Nat
    BY <2>1, <2>2, SMT
  <2>5. q * n \in Int /\ Us * (q * n) \in Int /\ Us * m \in Int
    BY <1>1, <2>1, <2>3, SMT
  <2>6. Us * (q * n) <= Us * m
    BY <1>1, <2>1, <2>3, <2>5, TimesMonotone
  <2>7. Us * (m + 1) <= Us * (q * n + q)
    BY <1>1, <2>1, <2>3, <2>5, TimesMonotone
  <2>8. Us * (m + 1) = Us * m + Us
    BY <1>1, <2>1, SMT
  <2>9. Us * q * n = Us * (q * n) /\ Us * q * (n + 1) = Us * (q * n + q)
    BY <1>1, <2>4, SMT
  <2>10. Us * q * n <= next /\ next < Us * q * (n + 1)
    <3>1. Us * (q * n + q) \in Int
      BY <1>1, <2>5, SMT
    <3>. QED  BY <1>1, <2>1, <2>5, <2>6, <2>7, <2>8, <2>9, <3>1
  <2>. QED  BY <1>5, <2>4, <2>10 DEF n
<1>6. CASE next < 0
  <2>1. l \in Int /\ Us * l <= -next /\ WholeMicroseconds(next) = -l /\ l >= 0
    <3>1. l \in Int /\ Us * l <= -next
      BY <1>1, FloorFacts
    <3>2. WholeMicroseconds(next) = -l
      BY <1>1, <1>6, TruncFacts DEF WholeMicroseconds
    <3>3. l >= 0
      BY <1>1, <1>6, SMT
    <3>. QED  BY <3>1, <3>2, <3>3
  <2> HIDE DEF l
  <2>2. l < q
    <3>1. Us * l < Us * q /\ Us * l \in Int
      BY <1>1, <2>1, SMT
    <3>. QED  BY <1>1, <2>1, <3>1, TimesMonotone
  <2>3. l \div q = 0
    BY <2>1, <2>2, SMT
  <2>4. n = 0
    BY <1>4, <2>1, <2>3, TruncFacts
  <2>5. Us * q * (0 + 1) = Us * q
    BY <1>1, SMT
  <2>. QED  BY <1>1, <1>6, <2>4, <2>5 DEF n
<1>. QED  BY <1>5, <1>6

\* Whatever its TTL, a value is there at the instant it is written: a TTL that is
\* negative in milliseconds is refused or removes the expiry (store.rs:170-199).
LEMMA LiveWhenWritten ==
    ASSUME NEW value \in U64, NEW ttl \in Int, NEW t \in Nat
    PROVE  IsLive(Write(value, ttl, t).entry, t)
<1> DEFINE e == Write(value, ttl, t).entry
<1>1. e.tat = value /\ value # None
  BY WrittenTat, TimeAssumption, StoreAssumption DEF U64
<1>2. CASE StoreKind = "memory"
  <2>1. e.expire = None
    BY <1>2, MemoryExpiry
  <2>. QED  BY <1>1, <2>1 DEF IsLive
<1>3. CASE StoreKind = "redis"
  <2> DEFINE ms == WholeMilliseconds(ttl)
  <2>1. /\ ms \in Int /\ t \div Ms \in Int
        /\ e.expire = IF ms <= -1 THEN None ELSE t \div Ms + ms
    BY <1>3, WrittenExpiry
  <2> HIDE DEF e, ms
  <2>2. e.expire # None => t \div Ms <= e.expire
    BY <2>1
  <2>. QED  BY <1>1, <2>2 DEF IsLive, e
<1>. QED  BY <1>2, <1>3, StoreAssumption

\* At the instant of an answer the key is as far ahead as the answer says.
LEMMA BaseAtOnce ==
    ASSUME InRange, TypeOK, NEW c \in Observation, LeftBy(c), c.req.key \in Keys,
           FirstTick <= c.now, c.now = clock, ResetAfter(c) >= 0
    PROVE  Base(c.req.key) = c.now + ResetAfter(c)
<1> DEFINE e == db[c.req.key]
           end == c.now + ResetAfter(c)
<1>1. /\ clock \in Nat /\ Tat(c) \in Int /\ NewTat(c) \in Int /\ ResetAfter(c) \in Int
      /\ end = IF Limited(c) THEN Tat(c) ELSE NewTat(c)
  BY DecisionType, LimiterAssumption DEF TypeOK, Observation, ResetAfter
<1>2. /\ end \in Int /\ Base(c.req.key) <= Later(clock, end)
      /\ KeyLive(c.req) => Base(c.req.key) = Later(clock, end)
  BY <1>1, BaseFacts
<1>3. Base(c.req.key) \in Int /\ clock <= Base(c.req.key)
  BY AdmitsIff, DecisionType
<1>4. KeyLive(c.req) \/ end = clock
  <2>1. CASE Limited(c)
    BY <1>1, <2>1 DEF LeftBy, Visible, Tat, KeyLive
  <2>2. CASE ~Limited(c)
    <3>1. PICK t \in c.now..clock :
            Write(AsU64(NewTat(c)), NewTat(c) - c.now, t) =
                [entry |-> e, result |-> "updated"]
      BY <2>2 DEF LeftBy
    <3>2. t = clock
      BY <1>1, <3>1
    <3>3. AsU64(NewTat(c)) \in U64 /\ NewTat(c) - c.now \in Nat
      BY <1>1, <2>2, AllowedRange DEF Observation
    <3>4. IsLive(Write(AsU64(NewTat(c)), NewTat(c) - c.now, clock).entry, clock)
      BY <1>1, <3>3, LiveWhenWritten
    <3>. QED  BY <3>1, <3>2, <3>4 DEF KeyLive
  <2>. QED  BY <2>1, <2>2
<1> HIDE DEF end
<1>5. Base(c.req.key) = end
  BY <1>1, <1>2, <1>3, <1>4 DEF Later, end
<1>. QED  BY <1>5 DEF end

\* Every rate is a whole number of microseconds per unit, and one unit more than
\* the limit fits an i64.
WholeRates ==
    \A r \in Requests :
        r.period # 0 =>
            /\ r.period > 0 /\ \E q \in Nat : r.period = Us * q
            /\ Dvt(r) + r.period <= IntMax

\* The remaining quantity is what fits between the TAT and the tolerance.
LEMMA RemainingKept ==
    ASSUME InRange, WholeRates, TypeOK,
           NEW c \in Observation, LeftBy(c), c.req.key \in Keys, c.req.period # 0,
           FirstTick <= c.now, c.now <= clock, ResetAfter(c) >= 0
    PROVE  /\ Remaining(c) > 0 => Admits(Asking(c.req, Remaining(c)))
           /\ clock = c.now => ~Admits(Asking(c.req, Remaining(c) + 1))
<1> DEFINE r == c.req
           dvt == Dvt(r)
           base == Base(r.key)
           reset == ResetAfter(c)
           next == dvt - reset
           n == Remaining(c)
<1>1. /\ r \in Requests /\ dvt \in Int /\ c.now \in Int /\ clock \in Int
      /\ r.period \in Int /\ r.period > 0 /\ r.period <= IntMax
      /\ dvt + r.period <= IntMax /\ IntMax \in Nat
  BY DvtType, LimiterAssumption, TimeAssumption
     DEF Observation, TypeOK, WholeRates, Request, I64
<1>2. /\ reset \in Int /\ reset >= 0 /\ base <= Later(clock, c.now + reset)
      /\ c.now + reset \in Int /\ base \in Int
  BY <1>1, BaseFacts, AdmitsIff, DecisionType DEF ResetAfter
<1>3. next \in Int /\ next = dvt - reset
  BY <1>1, <1>2
<1>4. PICK q \in Nat \ {0} : r.period = Us * q
  <2>1. PICK q \in Nat : r.period = Us * q
    BY <1>1 DEF WholeRates
  <2>2. q # 0
    BY <1>1, <2>1, TimeAssumption, SMT
  <2>. QED  BY <2>1, <2>2
<1>5. n = IF next > -r.period
          THEN FloatQuotient(WholeMicroseconds(next), WholeMicroseconds(r.period))
          ELSE 0
  BY DEF Remaining
<1> HIDE DEF dvt, base, reset, next, n
<1>6. /\ n \in Nat /\ next < r.period * (n + 1)
      /\ IF next >= 0 THEN r.period * n <= next ELSE n = 0
  <2>1. CASE next > -r.period
    BY <1>3, <1>4, <1>5, <2>1, WholeIntervals
  <2>2. CASE ~(next > -r.period)
    <3>1. r.period * (0 + 1) = r.period
      BY <1>1, SMT
    <3>. QED  BY <1>1, <1>3, <1>5, <2>2, <3>1
  <2>. QED  BY <2>1, <2>2
<1>7. /\ r.period * n \in Int /\ r.period * (n + 1) = r.period * n + r.period
      /\ r.period * n >= 0 /\ (n = 0 => r.period * n = 0)
  BY <1>1, <1>6, OneMore
<1>8. ASSUME NEW m \in {n, n + 1}, r.period * m <= IntMax, r.period * m >= 0
      PROVE  /\ base \in Int
             /\ Admits(Asking(r, m)) <=> base + r.period * m <= clock + dvt
  <2>1. m \in Int /\ r.period * m \in Int
    BY <1>1, <1>6, <1>7
  <2>2. AsI64(r.period * m) = r.period * m
    BY <1>1, <1>8, <2>1 DEF AsI64, I64
  <2>3. LET s == Asking(r, m)
        IN  /\ s.key = r.key /\ r.key \in Keys /\ Dvt(s) = dvt /\ dvt \in Int
            /\ Increment(s) = r.period * m /\ Increment(s) \in Int
    BY <1>1, <2>1, <2>2, AskingFacts DEF dvt
  <2>. QED  BY <2>3, AdmitsIff DEF base
<1>9. n > 0 => Admits(Asking(r, n))
  <2> SUFFICES ASSUME n > 0 PROVE Admits(Asking(r, n))
    OBVIOUS
  <2>1. r.period * n <= next /\ r.period * n <= IntMax
    BY <1>1, <1>2, <1>3, <1>6, <1>7
  <2>2. base + r.period * n <= clock + dvt
    BY <1>1, <1>2, <1>3, <1>7, <2>1 DEF Later
  <2>. QED  BY <1>7, <1>8, <2>1, <2>2
<1>10. clock = c.now => ~Admits(Asking(r, n + 1))
  <2> SUFFICES ASSUME clock = c.now PROVE ~Admits(Asking(r, n + 1))
    OBVIOUS
  <2>1. base = c.now + reset
    BY BaseAtOnce DEF base, reset
  <2>2. r.period * (n + 1) <= IntMax /\ r.period * (n + 1) >= 0
    BY <1>1, <1>2, <1>3, <1>6, <1>7
  <2>3. base + r.period * (n + 1) > clock + dvt
    BY <1>1, <1>2, <1>3, <1>6, <1>7, <2>1
  <2>. QED  BY <1>1, <1>7, <1>8, <2>2, <2>3
<1>. QED  BY <1>9, <1>10 DEF n

\* The invariant gives the promise of the remaining quantity.
LEMMA RemainingFromInv ==
    ASSUME InRange, WholeRates
    PROVE  AnswerInv => RemainingPromise
<1> SUFFICES ASSUME AnswerInv, NEW p \in Limiters, Answered(p),
                    reply[p].reset_after >= 0
             PROVE  LET a == reply[p]
                    IN  /\ a.remaining > 0 => Admits(Asking(a.req, a.remaining))
                        /\ clock = a.now => ~Admits(Asking(a.req, a.remaining + 1))
  BY DEF RemainingPromise
<1>1. PICK c \in Observation :
            /\ reply[p] = Result(c) /\ LeftBy(c)
            /\ FirstTick <= c.now /\ c.now <= clock
            /\ c.req.period # 0 /\ c.req.key \in Keys
  BY AnswerFacts
<1>2. /\ reply[p].req = c.req /\ reply[p].now = c.now
      /\ reply[p].remaining = Remaining(c) /\ reply[p].reset_after = ResetAfter(c)
  BY <1>1 DEF Result
<1>. QED  BY <1>1, <1>2, RemainingKept DEF AnswerInv

\* The quantity that is said to remain can be taken, at any later time, and no
\* more at the time of the answer, for every rate that is a whole number of
\* microseconds (mod.rs:227-232).
THEOREM RemainingHolds ==
    ASSUME InRange, WholeRates
    PROVE  Spec => []RemainingPromise
BY AnswerInit, AnswerStep, RemainingFromInv, PTL DEF Spec

-----------------------------------------------------------------------------
\* The two uses of a store that are sound: a MemoryStore with any number of
\* limiters, and Redis, which runs one command at a time.
Sound == StoreKind = "memory" \/ Alone

\* In memory nothing expires (store.rs:109-150).
MemoryKeeps == StoreKind = "memory" => \A k \in Keys : db[k].expire = None

\* Nor is anything removed, so what a call has read there is still there.
Present ==
    StoreKind = "memory" =>
        \A p \in Limiters :
            lim[p].pc = "update" /\ lim[p].tat_val # None =>
                db[lim[p].req.key].tat # None

\* Redis runs one command at a time, so a call finds the key as it read it.
ReadHolds == StoreKind = "memory" \/ AsRead

HeldInv == TypeOK /\ Pending /\ Begun /\ ReadHolds /\ MemoryKeeps /\ Present

\* The store shows the call c what it has read.
Unchanged(c) ==
    LET e == db[c.req.key]
    IN  IF c.tat_val = None THEN ~IsLive(e, clock) ELSE IsLive(e, clock) /\ e.tat = c.tat_val

\* An update that finds what was read writes over it and is answered.  Any other
\* changes nothing, and is the last attempt or leads to the next one
\* (store.rs:109-199 and 218-233, mod.rs:212-224).
LEMMA UpdateOutcome ==
    ASSUME InRange, HeldInv,
           NEW p \in Limiters, CompareAndSwap(p) \/ SetIfNotExists(p)
    PROVE  LET c == lim[p]
               k == c.req.key
               o == Write(NewTat(c), NewTat(c) - c.now, clock)
           IN  /\ c.pc = "update" /\ c \in Observation /\ k \in Keys /\ clock' = clock
               /\ \A q \in Limiters \ {p} : lim'[q] = lim[q] /\ reply'[q] = reply[q]
               /\ \/ /\ Unchanged(c)
                     /\ db' = [db EXCEPT ![k] = o.entry]
                     /\ lim'[p] = Idle
                     /\ reply'[p] = IF o.result = "updated" THEN Result(c)
                                    ELSE Error(c, "store", c.i + 1)
                  \/ /\ ~Unchanged(c)
                     /\ db' = db
                     /\ \/ /\ c.i + 1 > MaxCasAttempts
                           /\ lim'[p] = Idle
                           /\ reply'[p] = Error(c, "contention", c.i + 1)
                        \/ /\ c.i + 1 <= MaxCasAttempts
                           /\ lim'[p].pc = "get" /\ lim'[p].req = c.req
                           /\ lim'[p].i = c.i + 1
                           /\ reply'[p] = NoReply
<1> DEFINE c == lim[p]
           k == c.req.key
           e == db[k]
           o == Write(NewTat(c), NewTat(c) - c.now, clock)
           swap == CompareAndSwapWithTtl(e, c.tat_val, AsU64(NewTat(c)),
                                         NewTat(c) - c.now, clock)
           set == SetIfNotExistsWithTtl(e, AsU64(NewTat(c)), NewTat(c) - c.now, clock)
           kept == [entry |-> e, result |-> "kept"]
<1>1. /\ c.pc = "update" /\ c \in Observation /\ e \in Entry
      /\ k \in Keys /\ clock \in Nat
      /\ swap \in Outcomes /\ set \in Outcomes
      /\ IF c.tat_val # None THEN Conclude(p, swap) ELSE Conclude(p, set)
  BY UpdateFacts DEF HeldInv
<1>2. /\ c.now \in Int /\ clock \in Int /\ c.now <= clock /\ FirstTick <= c.now
      /\ ~Limited(c) /\ reply[p] = NoReply
  BY <1>1 DEF HeldInv, Pending, Begun, Observation
<1>3. AsU64(NewTat(c)) = NewTat(c) /\ NewTat(c) - c.now \in Int
  BY <1>1, <1>2, AllowedRange, DecisionType DEF HeldInv
<1>4. IF c.tat_val # None THEN swap = IF Unchanged(c) THEN o ELSE kept
                          ELSE set = IF Unchanged(c) THEN o ELSE kept
  <2>1. CASE c.tat_val # None
    <3>1. Swappable(e, c.tat_val, clock) <=> IsLive(e, clock) /\ e.tat = c.tat_val
      BY <1>1, <2>1, StoreAssumption
         DEF Swappable, HeldInv, MemoryKeeps, Present, IsLive
    <3>. QED  BY <1>3, <2>1, <3>1 DEF CompareAndSwapWithTtl, Unchanged
  <2>2. CASE c.tat_val = None /\ ~IsLive(e, clock)
    BY <1>3, <2>2 DEF SetIfNotExistsWithTtl, Unchanged
  <2>3. CASE c.tat_val = None /\ IsLive(e, clock)
    <3>1. StoreKind = "memory"
      BY <1>1, <1>2, <2>3, StaysDead DEF HeldInv, ReadHolds, AsRead
    <3>2. SetExpire(e, NewTat(c) - c.now, clock) = e
      BY <3>1, MemoryExpiry
    <3>. QED  BY <2>3, <3>1, <3>2 DEF SetIfNotExistsWithTtl, Outcome, Unchanged
  <2>. QED  BY <2>1, <2>2, <2>3
<1>5. o.result = "updated" \/ o.result = "error"
  BY DEF Write, Outcome
<1> HIDE DEF swap, set, o
<1>6. PICK outcome \in Outcomes :
         Conclude(p, outcome) /\ outcome = IF Unchanged(c) THEN o ELSE kept
  BY <1>1, <1>4
<1>7. clock' = clock
  BY DEF CompareAndSwap, SetIfNotExists, Conclude
<1>8. \A q \in Limiters \ {p} : lim'[q] = lim[q] /\ reply'[q] = reply[q]
  BY <1>1, <1>6, ConcludeFacts DEF HeldInv
<1>9. CASE Unchanged(c)
  <2>1. /\ db' = [db EXCEPT ![k] = o.entry]
        /\ lim'[p] = Idle
        /\ reply'[p] = IF o.result = "updated" THEN Result(c)
                       ELSE Error(c, "store", c.i + 1)
    BY <1>1, <1>5, <1>6, <1>9, ConcludeFacts DEF HeldInv
  <2>. QED  BY <1>1, <1>7, <1>8, <1>9, <2>1 DEF o
<1>10. CASE ~Unchanged(c)
  <2>1. outcome.result = "kept" /\ outcome.entry = e
    BY <1>6, <1>10
  <2>2. db' = [db EXCEPT ![k] = e]
    BY <1>1, <1>6, <2>1, ConcludeFacts DEF HeldInv
  <2>3. db' = db
    BY <1>1, <2>2 DEF HeldInv, TypeOK
  <2>4. \/ /\ c.i + 1 > MaxCasAttempts
           /\ lim'[p] = Idle
           /\ reply'[p] = Error(c, "contention", c.i + 1)
        \/ /\ c.i + 1 <= MaxCasAttempts
           /\ lim'[p].pc = "get" /\ lim'[p].req = c.req
           /\ lim'[p].i = c.i + 1
           /\ reply'[p] = reply[p]
    BY <1>1, <1>6, <2>1, ConcludeFacts DEF HeldInv
  <2>. QED  BY <1>1, <1>2, <1>7, <1>8, <1>10, <2>3, <2>4
<1>. QED  BY <1>9, <1>10

\* What of that concerns the store and the answer.
LEMMA UpdateEffect ==
    ASSUME InRange, HeldInv,
           NEW p \in Limiters, CompareAndSwap(p) \/ SetIfNotExists(p)
    PROVE  LET c == lim[p]
               k == c.req.key
               o == Write(NewTat(c), NewTat(c) - c.now, clock)
           IN  /\ c.pc = "update" /\ c \in Observation /\ k \in Keys /\ clock' = clock
               /\ \/ /\ db' = [db EXCEPT ![k] = o.entry]
                     /\ IF c.tat_val = None THEN ~IsLive(db[k], clock)
                        ELSE IsLive(db[k], clock) /\ db[k].tat = c.tat_val
                     /\ reply'[p] = IF o.result = "updated" THEN Result(c)
                                    ELSE Error(c, "store", c.i + 1)
                  \/ /\ db' = db
                     /\ reply'[p] \in {Error(c, "contention", c.i + 1), NoReply}
BY UpdateOutcome DEF Unchanged

SoleKeyInv == TypeOK /\ Pending /\ Begun /\ AsRead /\ MemoryKeeps

\* The key of the only limiter is as it was read, also in memory.
LEMMA SoleHeld == SoleKeyInv => HeldInv
BY DEF SoleKeyInv, HeldInv, ReadHolds, Present, AsRead

\* Only updates change the store.
LEMMA OnlyUpdatesWrite ==
    ASSUME [Next]_vars
    PROVE  \/ \E p \in Limiters : CompareAndSwap(p) \/ SetIfNotExists(p)
           \/ UNCHANGED db /\ (UNCHANGED clock \/ clock' = clock + 1)
<1>1. \A p \in Limiters : (\E r \in Requests : Begin(p, r)) => UNCHANGED <<clock, db>>
  BY Zenon DEF Begin
<1>2. \A p \in Limiters : GetWithTime(p) => UNCHANGED <<clock, db>>
  BY Zenon DEF GetWithTime, Decide
<1>3. Tick => UNCHANGED db /\ clock' = clock + 1
  BY DEF Tick
<1>. QED  BY <1>1, <1>2, <1>3, Zenon DEF Next, Step, vars

\* No update of a MemoryStore sets an expiry, of any number of limiters.
LEMMA MemoryStep ==
    ASSUME TypeOK, MemoryKeeps, [Next]_vars
    PROVE  MemoryKeeps'
<1>1. db \in [Keys -> Entry]
  BY DEF TypeOK
<1>2. ASSUME NEW p \in Limiters, CompareAndSwap(p) \/ SetIfNotExists(p),
             StoreKind = "memory"
      PROVE  \A k \in Keys : db'[k].expire = None
  <2> DEFINE c == lim[p]
             e == db[c.req.key]
             value == AsU64(NewTat(c))
             ttl == NewTat(c) - c.now
             swap == CompareAndSwapWithTtl(e, c.tat_val, value, ttl, clock)
             set == SetIfNotExistsWithTtl(e, value, ttl, clock)
  <2>1. /\ c.pc = "update" /\ c \in Observation /\ c.req.key \in Keys /\ clock \in Nat
        /\ swap \in Outcomes /\ set \in Outcomes
        /\ IF c.tat_val # None THEN Conclude(p, swap) ELSE Conclude(p, set)
    BY <1>2, UpdateFacts
  <2>2. e.expire = None
    BY <1>2, <2>1 DEF MemoryKeeps
  <2>3. SetExpire(e, ttl, clock) = e /\ Write(value, ttl, clock).entry.expire = None
    BY <1>2, MemoryExpiry
  <2>4. swap.entry.expire = None /\ set.entry.expire = None
    BY <2>2, <2>3 DEF CompareAndSwapWithTtl, SetIfNotExistsWithTtl, Outcome
  <2> HIDE DEF swap, set
  <2>5. PICK outcome \in Outcomes :
            outcome.entry.expire = None /\ db' = [db EXCEPT ![c.req.key] = outcome.entry]
    BY <2>1, <2>4, ConcludeFacts
  <2>. QED  BY <1>1, <1>2, <2>5 DEF MemoryKeeps
<1>3. UNCHANGED db => MemoryKeeps'
  BY DEF MemoryKeeps
<1>. QED  BY <1>2, <1>3, OnlyUpdatesWrite DEF MemoryKeeps

\* Nothing is removed from a MemoryStore (store.rs:89-150).
LEMMA PresentStep ==
    ASSUME InRange, HeldInv, [Next]_vars
    PROVE  Present'
<1> SUFFICES ASSUME StoreKind = "memory" PROVE Present'
  BY DEF Present
<1>1. lim \in [Limiters -> Call] /\ TypeOK
  BY DEF HeldInv, TypeOK
<1>2. ASSUME NEW p \in Limiters, NEW r \in Requests, Begin(p, r)
      PROVE  Present'
  <2>1. \A q \in Limiters : lim'[q].pc = "update" => lim'[q] = lim[q]
    <3>1. lim' \in {[lim EXCEPT ![p] = Idle],
                    [lim EXCEPT ![p] = [Idle EXCEPT !.pc = "get", !.req = r]]}
      BY <1>2 DEF Begin, Return
    <3>2. Idle.pc # "update" /\ [Idle EXCEPT !.pc = "get", !.req = r].pc # "update"
      BY DEF Idle
    <3>. QED  BY <1>1, <3>1, <3>2
  <2>. QED  BY <1>2, <2>1 DEF Begin, HeldInv, Present
<1>3. ASSUME NEW p \in Limiters, GetWithTime(p)
      PROVE  Present'
  <2> DEFINE c == Observed(p)
  <2>1. c.tat_val # None => db[c.req.key].tat # None
    BY <1>1, <1>3, ReadFacts DEF GetWithTime
  <2>2. /\ db' = db
        /\ \A q \in Limiters :
              lim'[q].pc = "update" => lim'[q] = lim[q] \/ lim'[q] = c
    <3> HIDE DEF c
    <3>1. Observed(p) = c
      BY DEF c
    <3>. QED  BY <1>1, <1>3, <3>1 DEF GetWithTime, Decide, Return, Idle
  <2>. QED  BY <2>1, <2>2 DEF HeldInv, Present
<1>4. ASSUME NEW p \in Limiters, CompareAndSwap(p) \/ SetIfNotExists(p)
      PROVE  Present'
  <2>1. PICK outcome \in Outcomes : Conclude(p, outcome) /\ lim[p].pc = "update"
    BY <1>1, <1>4, UpdateFacts
  <2>2. \A q \in Limiters : lim'[q].pc = "update" => lim'[q] = lim[q]
    BY <1>1, <2>1, ConcludeFacts DEF Idle
  <2> DEFINE new == NewTat(lim[p])
             o == Write(new, new - lim[p].now, clock)
  <2>3. lim[p] \in Observation
        /\ (db' = db \/ db' = [db EXCEPT ![lim[p].req.key] = o.entry])
    BY <1>4, UpdateEffect
  <2>4. o.entry.tat # None
    BY <2>3, WrittenTat, DecisionType, StoreAssumption
  <2> HIDE DEF o
  <2>5. \A k \in Keys : db[k].tat # None => db'[k].tat # None
    BY <1>1, <2>3, <2>4 DEF TypeOK
  <2>6. \A q \in Limiters : lim[q].pc = "update" => lim[q].req.key \in Keys
    BY <1>1, ActiveType
  <2>. QED  BY <2>2, <2>5, <2>6 DEF HeldInv, Present
<1>5. CASE Tick \/ UNCHANGED vars
  BY <1>5 DEF Tick, vars, HeldInv, Present
<1>. QED  BY <1>2, <1>3, <1>4, <1>5 DEF Next, Step

\* Every step keeps what an update relies on.
LEMMA HeldStep ==
    ASSUME InRange, Sound, HeldInv, [Next]_vars
    PROVE  HeldInv'
<1>1. TypeOK' /\ Pending' /\ Begun' /\ MemoryKeeps' /\ Present'
  BY TypeStep, PendingStep, BegunStep, MemoryStep, PresentStep DEF HeldInv
<1>2. ReadHolds'
  BY AsReadStep DEF HeldInv, ReadHolds, Sound
<1>. QED  BY <1>1, <1>2 DEF HeldInv

\* Every step keeps what the only limiter relies on.
LEMMA SoleKeyStep ==
    ASSUME Alone, InRange, SoleKeyInv, [Next]_vars
    PROVE  SoleKeyInv'
<1>1. TypeOK' /\ Pending' /\ Begun' /\ AsRead'
  BY TypeStep, PendingStep, BegunStep, AsReadStep DEF SoleKeyInv
<1>. QED  BY <1>1, MemoryStep DEF SoleKeyInv

\* Nothing is stored at first, and no call has begun.
LEMMA SoleKeyInit == Init => SoleKeyInv
<1> SUFFICES ASSUME Init PROVE SoleKeyInv
  OBVIOUS
<1>1. TypeOK /\ Pending /\ Begun
  BY AnswerInit DEF AnswerInv
<1>2. AsRead /\ MemoryKeeps
  BY DEF Init, AsRead, MemoryKeeps, Idle, Absent
<1>. QED  BY <1>1, <1>2 DEF SoleKeyInv

\* A key that has no expiry on Redis was left so by a TTL in the past.
LEMMA StrayStep ==
    ASSUME StoreKind = "redis", InRange, SoleKeyInv, StrayKeyHoldsNoDebt, [Next]_vars
    PROVE  StrayKeyHoldsNoDebt'
<1>1. db \in [Keys -> Entry] /\ clock \in Nat
  BY LimiterAssumption DEF SoleKeyInv, TypeOK
<1>2. ASSUME NEW p \in Limiters, CompareAndSwap(p) \/ SetIfNotExists(p)
      PROVE  StrayKeyHoldsNoDebt'
  <2> DEFINE c == lim[p]
             o == Write(NewTat(c), NewTat(c) - c.now, clock)
  <2>1. /\ c \in Observation /\ c.req.key \in Keys /\ clock' = clock /\ c.pc = "update"
        /\ db' = db \/ db' = [db EXCEPT ![c.req.key] = o.entry]
    BY <1>2, UpdateEffect, SoleHeld
  <2>2. /\ NewTat(c) \in Int /\ c.now \in Int /\ c.now <= clock
        /\ NewTat(c) - c.now \in Int
    BY <2>1, DecisionType DEF Observation, SoleKeyInv, Pending
  <2>3. o.entry.expire = None => NewTat(c) - c.now < 0
    <3>1. ASSUME NEW ttl \in Int, Write(NewTat(c), ttl, clock).entry.expire = None
          PROVE  ttl < 0
      BY <1>1, <3>1, WriteFacts
    <3>. QED  BY <2>2, <3>1
  <2>4. o.entry.tat = NewTat(c)
    BY WrittenTat
  <2> HIDE DEF o
  <2>5. o.entry.expire = None => o.entry.tat <= clock
    BY <1>1, <2>2, <2>3, <2>4
  <2>. QED  BY <1>1, <2>1, <2>5 DEF StrayKeyHoldsNoDebt
<1>3. CASE UNCHANGED db /\ (UNCHANGED clock \/ clock' = clock + 1)
  <2>1. \A k \in Keys : db[k].tat # None => db[k].tat \in Int
    BY <1>1, TimeAssumption DEF Entry, U64
  <2>. QED  BY <1>1, <1>3, <2>1 DEF StrayKeyHoldsNoDebt
<1>. QED  BY <1>2, <1>3, OnlyUpdatesWrite

\* An update whose TTL Redis refuses leaves a value that blocks nobody, as long
\* as refunds stay after the epoch (store.rs:194-196, redis/mod.rs:346-354).
THEOREM StraysHoldNoDebt ==
    ASSUME StoreKind = "redis", Alone, InRange
    PROVE  Spec => []StrayKeyHoldsNoDebt
<1>1. Init => SoleKeyInv /\ StrayKeyHoldsNoDebt
  <2>1. Init => StrayKeyHoldsNoDebt
    BY DEF Init, StrayKeyHoldsNoDebt, Absent
  <2>. QED  BY <2>1, SoleKeyInit
<1>2. SoleKeyInv /\ StrayKeyHoldsNoDebt /\ [Next]_vars
         => (SoleKeyInv /\ StrayKeyHoldsNoDebt)'
  BY SoleKeyStep, StrayStep
<1>. QED  BY <1>1, <1>2, PTL DEF Spec

\* Every value fits its expiry, or has none.
AllFit == \A k \in Keys : Fits(db[k])

\* A key whose value fits its expiry has little left to owe when it expires.
LEMMA FittingDebt == TypeOK /\ AllFit => DebtOutlivesKeyBriefly
<1> SUFFICES ASSUME TypeOK, AllFit, NEW k \in Keys, db[k].tat # None, ~IsLive(db[k], clock)
             PROVE  db[k].tat - clock < Ms
  BY DEF DebtOutlivesKeyBriefly
<1>1. db[k] \in Entry /\ clock \in Nat /\ Fits(db[k])
  BY LimiterAssumption DEF TypeOK, AllFit
<1>2. db[k].tat \in Nat /\ db[k].tat - clock <= Ms - 2
  BY <1>1, DebtAtExpiry
<1>. QED  BY <1>1, <1>2, TimeAssumption

\* Every update of the only limiter keeps them so (store.rs:186-187, 221-230).
LEMMA FitsStep ==
    ASSUME StoreKind = "redis", InRange, SoleKeyInv, AllFit, [Next]_vars
    PROVE  AllFit'
<1>1. ASSUME NEW p \in Limiters, CompareAndSwap(p) \/ SetIfNotExists(p)
      PROVE  AllFit'
  <2> DEFINE c == lim[p]
             o == Write(NewTat(c), NewTat(c) - c.now, clock)
  <2>1. /\ c \in Observation /\ c.req.key \in Keys /\ c.pc = "update"
        /\ db' = db \/ db' = [db EXCEPT ![c.req.key] = o.entry]
    BY <1>1, UpdateEffect, SoleHeld
  <2>2. /\ NewTat(c) \in Int /\ c.now \in Int /\ c.now <= clock /\ clock \in Nat
        /\ db \in [Keys -> Entry]
    BY <2>1, DecisionType, LimiterAssumption DEF Observation, SoleKeyInv, Pending, TypeOK
  <2>3. Fits(o.entry)
    BY <2>2, WriteFits
  <2> HIDE DEF o
  <2>. QED  BY <2>1, <2>2, <2>3 DEF AllFit
<1>2. UNCHANGED db => AllFit'
  BY DEF AllFit
<1>. QED  BY <1>1, <1>2, OnlyUpdatesWrite

\* A client is forgiven less than a millisecond when its key expires, for every
\* quota, refunds included, and every size of the millisecond (redis/mod.rs:347).
THEOREM ForgivesUnderAMillisecond ==
    ASSUME InRange, Sound
    PROVE  Spec => []DebtOutlivesKeyBriefly
<1>1. CASE StoreKind = "memory"
  <2> DEFINE Inv == TypeOK /\ MemoryKeeps
  <2>1. Init => Inv
    BY SoleKeyInit DEF SoleKeyInv
  <2>2. Inv /\ [Next]_vars => Inv'
    BY TypeStep, MemoryStep
  <2>3. Inv => DebtOutlivesKeyBriefly
    BY <1>1 DEF MemoryKeeps, DebtOutlivesKeyBriefly, IsLive
  <2>. QED  BY <2>1, <2>2, <2>3, PTL DEF Spec
<1>2. CASE StoreKind = "redis" /\ Alone
  <2> DEFINE Inv == SoleKeyInv /\ AllFit
  <2>1. Init => Inv
    <3>1. Init => AllFit
      BY DEF Init, AllFit, Fits, Absent
    <3>. QED  BY <3>1, SoleKeyInit
  <2>2. Inv /\ [Next]_vars => Inv'
    BY <1>2, SoleKeyStep, FitsStep
  <2>3. Inv => DebtOutlivesKeyBriefly
    BY FittingDebt DEF SoleKeyInv
  <2>. QED  BY <2>1, <2>2, <2>3, PTL DEF Spec
<1>. QED  BY <1>1, <1>2, StoreAssumption DEF Sound

-----------------------------------------------------------------------------
\* An update finds what its call has read, and an expired key owes little.
BucketInv == HeldInv /\ AllFit

\* What a call between its read and its update has read.
LEMMA ReadingFacts ==
    ASSUME BucketInv, NEW p \in Limiters, lim[p].pc = "update"
    PROVE  LET c == lim[p]
           IN  /\ c \in Observation /\ c.req \in Requests /\ c.req.key \in Keys
               /\ c.now \in Nat /\ clock \in Nat /\ c.now <= clock /\ FirstTick <= c.now
               /\ c.tat_val # None => c.tat_val \in Nat
               /\ db[c.req.key] \in Entry /\ ~Limited(c)
<1>1. lim[p] \in Observation /\ lim[p].req.key \in Keys
  BY ActiveType DEF BucketInv, HeldInv
<1>. QED
  BY <1>1, LimiterAssumption, TimeAssumption
     DEF Observation, U64, BucketInv, HeldInv, TypeOK, Pending, Begun

\* Every step keeps what the refinement rests on.
LEMMA BucketStep ==
    ASSUME InRange, Sound, BucketInv, [Next]_vars
    PROVE  BucketInv'
<1>1. HeldInv'
  BY HeldStep DEF BucketInv
<1>2. AllFit'
  <2>1. CASE StoreKind = "memory"
    BY <1>1, <2>1 DEF HeldInv, MemoryKeeps, AllFit, Fits
  <2>2. CASE StoreKind = "redis"
    <3>1. SoleKeyInv
      BY <2>2 DEF BucketInv, HeldInv, ReadHolds, SoleKeyInv
    <3>. QED  BY <2>2, <3>1, FitsStep DEF BucketInv
  <2>. QED  BY <2>1, <2>2, StoreAssumption
<1>. QED  BY <1>1, <1>2 DEF BucketInv

\* No key holds anything at first.
LEMMA BucketInit == Init => BucketInv
<1>1. Init => AllFit
  BY DEF Init, AllFit, Fits, Absent
<1>. QED  BY <1>1, SoleKeyInit, SoleHeld DEF BucketInv

-----------------------------------------------------------------------------
\* The TAT that a call starts from which finds the entry e at time t.
StartsFrom(e, t) ==
    IF Visible(e, t) # None /\ Visible(e, t) > t THEN Visible(e, t) ELSE t

\* Every verdict is a matter of it and of the time (mod.rs:153-175).
LEMMA VerdictFacts ==
    ASSUME NEW e \in Entry, NEW r \in Requests, NEW t \in Nat
    PROVE  AllowedBy(e, r, t) = (StartsFrom(e, t) + Increment(r) <= t + Dvt(r))
<1> DEFINE c == [Idle EXCEPT !.req = r, !.tat_val = Visible(e, t), !.now = t]
<1>1. c.req = r /\ c.tat_val = Visible(e, t) /\ c.now = t
  BY DEF Idle
<1>2. Increment(r) \in Int /\ Dvt(r) \in Int
  BY QuotaType, LimiterAssumption
<1>3. Visible(e, t) # None => Visible(e, t) \in Int
  BY TimeAssumption DEF Visible, Entry, U64
<1>4. Limited(c) <=> ~(StartsFrom(e, t) + Increment(r) <= t + Dvt(r))
  <2> HIDE DEF c
  <2>. QED
    BY <1>1, <1>2, <1>3 DEF Limited, Diff, NewTat, Tat, Later, StartsFrom
<1>. QED  BY <1>4 DEF AllowedBy

\* What an update with quantity 0 leaves in its key: the later of the TAT and the
\* time (mod.rs:161-168 and 191-210).
LEMMA PeekedTat ==
    ASSUME InRange, BucketInv, NEW p \in Limiters, Peeking(p)
    PROVE  LET c == lim[p]
           IN  /\ NewTat(c) \in Nat /\ Tat(c) \in Nat
               /\ NewTat(c) = Later(c.now, Tat(c))
<1> DEFINE c == lim[p]
<1>1. /\ c \in Observation /\ c.now \in Nat /\ FirstTick <= c.now /\ ~Limited(c)
      /\ c.tat_val # None => c.tat_val \in Nat
  BY ReadingFacts DEF Peeking
<1>2. Increment(c.req) = 0
  <2>1. c.req.quantity = 0 /\ c.req.period \in Int
    BY <1>1, LimiterAssumption, TimeAssumption DEF Peeking, Observation, Request, I64
  <2>2. c.req.period * c.req.quantity = 0
    BY <2>1, SMT
  <2>. QED  BY <2>2, TimeAssumption DEF Increment, AsI64, I64
<1>3. Tat(c) \in Nat
  BY <1>1 DEF Tat
<1>. QED  BY <1>1, <1>2, <1>3 DEF NewTat, Later

\* A peek that stores writes the TAT it found, with a TTL that leads to it, so that
\* only the instants at which one of the two keys has expired can tell them apart.
LEMMA PeekStep ==
    ASSUME InRange, BucketInv, BucketInv', NEW p \in Limiters, Peeking(p),
           CompareAndSwap(p) \/ SetIfNotExists(p),
           NEW k \in Keys, NEW t \in Nat, clock <= t
    PROVE  \/ StartsFrom(db'[k], t) = StartsFrom(db[k], t)
           \/ db'[k].tat - t \in 1..(Ms - 1)
<1>. PICK c : c = lim[p]
  OBVIOUS
<1>. PICK e, f : e = db[k] /\ f = db'[k]
  OBVIOUS
<1>1. /\ e \in Entry /\ f \in Entry /\ Fits(e) /\ Fits(f) /\ clock \in Nat
      /\ e.tat # None => e.tat \in Nat
  BY LimiterAssumption, TimeAssumption DEF BucketInv, HeldInv, TypeOK, AllFit, Entry, U64
<1>2. CASE f = e
  BY <1>2
<1>3. CASE f # e
  <2>1. /\ c.req.key = k /\ f.tat = NewTat(c)
        /\ IF c.tat_val = None THEN ~IsLive(e, clock)
           ELSE IsLive(e, clock) /\ e.tat = c.tat_val
    <3> DEFINE o == Write(NewTat(c), NewTat(c) - c.now, clock)
    <3>1. /\ db' = [db EXCEPT ![c.req.key] = o.entry] \/ db' = db
          /\ db' = db \/ IF c.tat_val = None THEN ~IsLive(db[c.req.key], clock)
                         ELSE /\ IsLive(db[c.req.key], clock)
                              /\ db[c.req.key].tat = c.tat_val
          /\ c.req.key \in Keys /\ db \in [Keys -> Entry]
      BY UpdateEffect DEF BucketInv, HeldInv, TypeOK
    <3>2. o.entry.tat = NewTat(c)
      BY WrittenTat
    <3> HIDE DEF o
    <3>. QED  BY <1>3, <3>1, <3>2
  <2>2. /\ NewTat(c) \in Nat /\ NewTat(c) = Later(c.now, Tat(c))
        /\ c.now \in Nat /\ c.now <= clock
    BY PeekedTat, ReadingFacts DEF Peeking
  <2>3. f.tat # None
    BY <2>1, <2>2, StoreAssumption
  <2>4. CASE f.tat <= t
    <3>1. StartsFrom(f, t) = t
      BY <2>1, <2>2, <2>4 DEF StartsFrom, Visible
    <3>2. IsLive(e, t) => e.tat <= t
      <4>1. IsLive(e, t) => IsLive(e, clock)
        BY <1>1, StaysDead
      <4>2. c.tat_val = e.tat /\ c.tat_val # None => e.tat <= NewTat(c)
        BY <1>1, <2>2 DEF Tat, Later
      <4>. QED  BY <1>1, <2>1, <2>2, <2>4, <4>1, <4>2
    <3>3. StartsFrom(e, t) = t
      BY <1>1, <3>2 DEF StartsFrom, Visible
    <3>. QED  BY <3>1, <3>3
  <2>5. CASE f.tat > t /\ ~(f.tat - t \in 1..(Ms - 1))
    <3>1. c.tat_val # None /\ f.tat = e.tat
      BY <1>1, <2>1, <2>2, <2>5 DEF Tat, Later
    <3>2. f.tat - t >= Ms
      BY <2>1, <2>2, <2>5, TimeAssumption
    <3>3. IsLive(e, t) /\ IsLive(f, t)
      <4>1. ~(f.tat - t <= Ms - 2)
        BY <2>1, <2>2, <3>2, TimeAssumption
      <4>2. e.tat # None /\ ~(e.tat - t <= Ms - 2)
        BY <2>3, <3>1, <4>1
      <4>. QED  BY <1>1, <2>3, <4>1, <4>2, DebtAtExpiry
    <3>. QED  BY <3>1, <3>3 DEF StartsFrom, Visible
  <2>. QED  BY <2>1, <2>2, <2>4, <2>5
<1>. QED  BY <1>2, <1>3

\* A call between its read and its update goes on by that update alone.
LEMMA OwnUpdate ==
    ASSUME TypeOK, [Next]_vars, NEW p \in Limiters, lim[p].pc = "update",
           lim'[p].pc = "idle"
    PROVE  CompareAndSwap(p) \/ SetIfNotExists(p)
<1>1. lim \in [Limiters -> Call]
  BY DEF TypeOK
<1>2. ASSUME NEW q \in Limiters, NEW r \in Requests, Begin(q, r)
      PROVE  FALSE
  BY <1>1, <1>2 DEF Begin, Return
<1>3. ASSUME NEW q \in Limiters, GetWithTime(q)
      PROVE  FALSE
  BY <1>1, <1>3 DEF GetWithTime, Decide, Return
<1>4. ASSUME NEW q \in Limiters \ {p}, CompareAndSwap(q) \/ SetIfNotExists(q)
      PROVE  FALSE
  BY <1>1, <1>4 DEF CompareAndSwap, SetIfNotExists, Conclude, Return, Retry
<1>5. CASE Tick \/ UNCHANGED vars
  BY <1>5 DEF Tick, vars
<1>. QED  BY <1>2, <1>3, <1>4, <1>5 DEF Next, Step

\* A call with quantity 0, although it writes the key, changes no verdict at any later
\* time but in the last millisecond before the TAT, for every quota, one limiter on
\* Redis or any number in memory (mod.rs:94-96, 191-210).
THEOREM PeeksDecideNothing ==
    ASSUME InRange, Sound
    PROVE  Spec => PeekKeepsVerdicts
<1>1. BucketInv /\ BucketInv' /\ [Next]_vars =>
         [\A p \in Limiters : Peeking(p) /\ lim'[p].pc = "idle" =>
             \A r \in Requests, t \in clock..LastTick :
                 AllowedBy(db'[r.key], r, t) = AllowedBy(db[r.key], r, t)
                 \/ db'[r.key].tat - t \in 1..(Ms - 1)]_vars
  <2> SUFFICES ASSUME BucketInv, BucketInv', [Next]_vars,
                      NEW p \in Limiters, Peeking(p), lim'[p].pc = "idle",
                      NEW r \in Requests, NEW t \in clock..LastTick
               PROVE  AllowedBy(db'[r.key], r, t) = AllowedBy(db[r.key], r, t)
                      \/ db'[r.key].tat - t \in 1..(Ms - 1)
    OBVIOUS
  <2>1. CompareAndSwap(p) \/ SetIfNotExists(p)
    BY OwnUpdate DEF BucketInv, HeldInv, Peeking
  <2>2. /\ r.key \in Keys /\ t \in Nat /\ clock <= t
        /\ db[r.key] \in Entry /\ db'[r.key] \in Entry
    BY LimiterAssumption DEF Request, BucketInv, HeldInv, TypeOK
  <2>3. \/ StartsFrom(db'[r.key], t) = StartsFrom(db[r.key], t)
        \/ db'[r.key].tat - t \in 1..(Ms - 1)
    BY <2>1, <2>2, PeekStep
  <2>4. ASSUME NEW e \in Entry
        PROVE  AllowedBy(e, r, t) = (StartsFrom(e, t) + Increment(r) <= t + Dvt(r))
    BY <2>2, VerdictFacts
  <2>. QED  BY <2>2, <2>3, <2>4
<1>2. BucketInv /\ [Next]_vars => BucketInv'
  BY BucketStep
<1>. QED  BY BucketInit, <1>1, <1>2, PTL DEF Spec, PeekKeepsVerdicts
=============================================================================
