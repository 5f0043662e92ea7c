---------------------------- MODULE ThrottleProofs ---------------------------
(***************************************************************************)
(* What the client of CL.THROTTLE may count on, in seconds, and what a     *)
(* command changes without telling replicas.                               *)
(*                                                                         *)
(* A command is one call of the only limiter, so the promises of           *)
(* AnswerProofs hold for the reply it ends with; what is left is the       *)
(* rounding, and that the answer of the client is that reply, seen later.  *)
(***************************************************************************)
EXTENDS Throttle, ConformanceProofs

\* The client's answer is the limiter's last one, in seconds.
Linked ==
    LET a == reply[Cell]
    IN  /\ command = None => lim[Cell].pc = "idle"
        /\ answer.kind = "array" =>
              /\ command = None /\ a.kind = "ok"
              /\ answer.req = a.req /\ answer.now = a.now
              /\ answer.limited = a.limited /\ answer.limit = Limit(a.req)
              /\ answer.retry_after = Seconds(a.retry_after)
              /\ answer.reset_after = Seconds(a.reset_after)
              /\ answer.at \in Int /\ a.now <= answer.at /\ answer.at <= clock

\* A key that holds no debt and will not expire.
Stray(k) == db[k].expire = None /\ db[k].tat \in Int /\ db[k].tat <= clock

\* What a command has changed, until it has an answer to replicate.
OnlyStrays ==
    (IF command = None THEN ~replicated ELSE reply[Cell].kind # "ok") =>
        \A k \in Keys : db[k] # before[k] => Stray(k)

-----------------------------------------------------------------------------
\* One limiter runs the commands (redis/mod.rs:46-66).
LEMMA OneCell == Limiters = {Cell} /\ Alone
BY ThrottleAssumption DEF Alone

\* A command takes the steps of the limiter, and none between them.
LEMMA CommandSteps ==
    ASSUME [ThrottleNext]_throttleVars
    PROVE  [Next]_vars
<1>1. ASSUME NEW cmd \in Commands, Run(cmd)
      PROVE  [Next]_vars
  <2>1. Refusal(cmd) = None => RequestOf(cmd) \in Requests
    BY ThrottleAssumption
  <2>. QED  BY <1>1, <2>1, OneCell DEF Run, Next, vars
<1>2. CASE Working
  BY <1>2, OneCell DEF Working, Next
<1>3. CASE Finish \/ Passing
  BY <1>3 DEF Finish, Passing, Next, vars
<1>4. CASE UNCHANGED throttleVars
  BY <1>4 DEF throttleVars, vars
<1>. QED  BY <1>1, <1>2, <1>3, <1>4 DEF ThrottleNext

\* The steps of commands are steps of one limiter, so whatever is proved of a
\* limiter that has its store to itself holds of the commands (lib.rs:50-58).
THEOREM CommandsAreCalls == ThrottleSpec => Spec
<1>1. ThrottleInit => Init
  BY DEF ThrottleInit
<1>. QED  BY <1>1, CommandSteps, PTL DEF ThrottleSpec, Spec

\* A value whose TTL Redis refused blocks nobody, for all commands whose TAT stays
\* within a u64 (store.rs:194-196, lib.rs:53).
THEOREM CommandsStrayWithoutDebt ==
    ASSUME StoreKind = "redis", InRange
    PROVE  ThrottleSpec => []StrayKeyHoldsNoDebt
BY OneCell, StraysHoldNoDebt, CommandsAreCalls, PTL

\* The command, with its arguments, refusals and rounding, fills and drains leaky
\* buckets, for all commands whose TAT stays within a u64 (lib.rs:51-64).
THEOREM CommandsFillBuckets ==
    ASSUME InRange
    PROVE  ThrottleSpec => ImplementsBuckets
<1>1. Sound
  BY OneCell DEF Sound
<1>. QED  BY <1>1, LimiterImplementsBuckets, CommandsAreCalls, PTL

-----------------------------------------------------------------------------
\* Waiting the seconds of an answer is enough, up to what is cut below a
\* millisecond, and a whole second less is too little, also for a duration that
\* is negative (lib.rs:69-76).
LEMMA SecondsBounds ==
    ASSUME NEW d \in Int
    PROVE  /\ Seconds(d) \in Int
           /\ d <= Seconds(d) * Sec + Ms - 1
           /\ (Seconds(d) - 1) * Sec < d
<1> DEFINE w == TruncDiv(d, Sec)
           f == d \div Sec
           g == (-d) \div Sec
<1>1. Sec \in Nat \ {0} /\ Ms \in Nat \ {0} /\ Ms <= Sec
  BY TimeAssumption
<1>2. w \in Int
  BY <1>1, TruncDivType
<1>3. /\ w * Sec \in Int /\ (w + 1) * Sec = w * Sec + Sec
      /\ (w - 1) * Sec = w * Sec - Sec
  <2> HIDE DEF w
  <2>. QED  BY <1>1, <1>2, SMT
<1>4. /\ d >= 0 => w * Sec <= d /\ d < w * Sec + Sec
      /\ d < 0 => d <= w * Sec /\ w * Sec < d + Sec
  <2>1. CASE d >= 0
    <3>1. f \in Int /\ Sec * f <= d /\ d < Sec * f + Sec /\ w = f
      BY <1>1, <2>1, FloorFacts, TruncFacts
    <3> HIDE DEF f, w
    <3>2. w * Sec = Sec * f
      BY <1>1, <3>1, SMT
    <3>. QED  BY <1>1, <2>1, <3>1, <3>2
  <2>2. CASE d < 0
    <3>1. g \in Int /\ Sec * g <= -d /\ -d < Sec * g + Sec /\ w = -g
      BY <1>1, <2>2, FloorFacts, TruncFacts
    <3> HIDE DEF g, w
    <3>2. w * Sec = -(Sec * g) /\ Sec * g \in Int
      BY <1>1, <3>1, SMT
    <3>. QED  BY <1>1, <2>2, <3>1, <3>2
  <2>. QED  BY <2>1, <2>2
<1>5. Seconds(d) = w + (IF WholeMilliseconds(d - w * Sec) > 0 THEN 1 ELSE 0)
  BY DEF Seconds
<1> HIDE DEF w
<1>6. WholeMilliseconds(d - w * Sec) > 0 <=> d - w * Sec >= Ms
  <2> DEFINE x == d - w * Sec
  <2>1. x \in Int
    BY <1>3
  <2> HIDE DEF x
  <2>2. CASE x >= 0
    <3>1. WholeMilliseconds(x) = x \div Ms
      BY <1>1, <2>1, <2>2, TruncFacts DEF WholeMilliseconds
    <3>2. x \div Ms > 0 <=> x >= Ms
      BY <1>1, <2>1, <2>2, SMT
    <3>. QED  BY <3>1, <3>2 DEF x
  <2>3. CASE x < 0
    <3>1. WholeMilliseconds(x) = -((-x) \div Ms)
      BY <1>1, <2>1, <2>3, TruncFacts DEF WholeMilliseconds
    <3>2. (-x) \div Ms \in Int /\ (-x) \div Ms >= 0
      BY <1>1, <2>1, <2>3, SMT
    <3>3. ~(WholeMilliseconds(x) > 0) /\ ~(x >= Ms)
      BY <1>1, <2>1, <2>3, <3>1, <3>2
    <3>. QED  BY <3>3 DEF x
  <2>. QED  BY <2>1, <2>2, <2>3
<1>7. CASE d - w * Sec >= Ms
  <2>1. Seconds(d) = w + 1
    BY <1>2, <1>5, <1>6, <1>7
  <2>2. (Seconds(d) - 1) * Sec = w * Sec /\ Seconds(d) * Sec = w * Sec + Sec
    BY <1>2, <1>3, <2>1
  <2>. QED  BY <1>1, <1>2, <1>3, <1>4, <1>7, <2>1, <2>2
<1>8. CASE ~(d - w * Sec >= Ms)
  <2>1. Seconds(d) = w
    BY <1>2, <1>5, <1>6, <1>8
  <2>. QED  BY <1>1, <1>2, <1>3, <1>4, <1>8, <2>1
<1>. QED  BY <1>7, <1>8

\* "Do not retry" is told as -1 second (mod.rs:182-185, lib.rs:69-72).
LEMMA SecondsOfNoRetry == Seconds(NoRetry) = -1
<1>1. Sec \in Nat \ {0} /\ Ms \in Nat \ {0} /\ -Sec < 0 /\ -Sec \in Int
  BY TimeAssumption
<1>2. Sec \div Sec = 1 /\ 0 \div Ms = 0
  BY <1>1, SMT
<1>3. TruncDiv(-Sec, Sec) = -1
  BY <1>1, <1>2, TruncFacts
<1>4. -Sec - (-1) * Sec = 0
  BY <1>1, SMT
<1>5. WholeMilliseconds(0) = 0
  BY <1>1, <1>2, TruncFacts DEF WholeMilliseconds
<1>. QED  BY <1>3, <1>4, <1>5 DEF Seconds, NoRetry

-----------------------------------------------------------------------------
\* A command that starts or is refused takes the last answer back.
LEMMA RunLinked ==
    ASSUME NEW cmd \in Commands, Run(cmd), Linked
    PROVE  Linked'
<1>1. answer'.kind # "array"
  BY DEF Run, Failure, NoAnswer
<1>2. command' = None => lim'[Cell].pc = "idle"
  BY ThrottleAssumption DEF Run, Linked, vars
<1>. QED  BY <1>1, <1>2 DEF Linked

\* The answer is the reply of the limiter, at a later instant (lib.rs:63-91).
LEMMA FinishLinked ==
    ASSUME AnswerInv, Finish
    PROVE  Linked'
<1>1. lim[Cell].pc = "idle" /\ lim' = lim /\ reply' = reply /\ clock' = clock
      /\ command' = None /\ clock \in Int
  BY LimiterAssumption DEF Finish, Returned, vars, AnswerInv, TypeOK
<1>2. CASE reply[Cell].kind = "ok" /\ answer' = Array(reply[Cell])
  <2>1. Answered(Cell) /\ Cell \in Limiters
    BY <1>1, <1>2, OneCell DEF Answered
  <2>2. reply[Cell].now <= clock
    BY <2>1 DEF AnswerInv, AnswerStands
  <2>. QED  BY <1>1, <1>2, <2>2 DEF Linked, Array
<1>3. CASE answer' = Failure(reply[Cell].why)
  BY <1>1, <1>3 DEF Linked, Failure
<1>. QED  BY <1>2, <1>3 DEF Finish

\* Every step keeps the answer tied to the reply.
LEMMA LinkedStep ==
    ASSUME AnswerInv, Linked, [ThrottleNext]_throttleVars
    PROVE  Linked'
<1>1. ASSUME NEW cmd \in Commands, Run(cmd)
      PROVE  Linked'
  BY <1>1, RunLinked
<1>2. CASE Working
  BY <1>2 DEF Working, cmdVars, Linked
<1>3. CASE Finish
  BY <1>3, FinishLinked
<1>4. CASE Passing \/ UNCHANGED throttleVars
  <2>1. /\ UNCHANGED <<lim, reply, command, answer>> /\ clock' \in Int /\ clock \in Int
        /\ clock <= clock'
    BY <1>4, LimiterAssumption
       DEF Passing, Tick, throttleVars, cmdVars, AnswerInv, TypeOK
  <2>2. ASSUME NEW x \in Int, x <= clock
        PROVE  x <= clock'
    BY <2>1, <2>2
  <2>. QED  BY <2>1, <2>2 DEF Linked
<1>. QED  BY <1>1, <1>2, <1>3, <1>4 DEF ThrottleNext

ThrottleInv == AnswerInv /\ Linked

\* No command has run at first.
LEMMA ThrottleInvInit == ThrottleInit => ThrottleInv
<1> SUFFICES ASSUME ThrottleInit PROVE ThrottleInv
  OBVIOUS
<1>1. AnswerInv
  BY AnswerInit DEF ThrottleInit
<1>2. lim[Cell].pc = "idle"
  BY OneCell DEF ThrottleInit, Init, Idle
<1>. QED  BY <1>1, <1>2 DEF ThrottleInit, ThrottleInv, Linked, NoAnswer

\* Every step of a command keeps what its answer is computed from.
LEMMA ThrottleInvStep == ThrottleInv /\ [ThrottleNext]_throttleVars => ThrottleInv'
BY CommandSteps, AnswerStep, LinkedStep DEF ThrottleInv

-----------------------------------------------------------------------------
\* What the limiter promises with the answer the client has.
LEMMA ToldFacts ==
    ASSUME ThrottleInv, Told
    PROVE  /\ Answered(Cell) /\ Cell \in Limiters /\ clock \in Int
           /\ reply[Cell].now \in Int /\ answer.at \in Int
           /\ reply[Cell].now <= answer.at
           /\ reply[Cell].retry_after \in Int /\ reply[Cell].reset_after \in Int
           /\ answer.req = reply[Cell].req /\ answer.now = reply[Cell].now
           /\ answer.limited = reply[Cell].limited
           /\ answer.limit = Limit(reply[Cell].req)
           /\ answer.retry_after = Seconds(reply[Cell].retry_after)
           /\ answer.reset_after = Seconds(reply[Cell].reset_after)
<1>1. reply[Cell].kind = "ok" /\ lim[Cell].pc = "idle" /\ Limiters = {Cell}
  BY OneCell DEF ThrottleInv, Linked, Told
<1>2. reply[Cell] \in Reply /\ clock \in Int
  BY <1>1, LimiterAssumption DEF ThrottleInv, AnswerInv, TypeOK
<1>3. /\ reply[Cell].now \in Int
      /\ reply[Cell].retry_after \in Int /\ reply[Cell].reset_after \in Int
  BY <1>1, <1>2, OkReply
<1>. QED  BY <1>1, <1>2, <1>3 DEF ThrottleInv, Linked, Told, Answered

\* What waiting in seconds makes of a promise in ticks: the instant end is
\* reached after the seconds of d and less than a millisecond, and not yet a
\* whole second earlier.
LEMMA WaitInSeconds ==
    ASSUME NEW d \in Int, NEW now \in Int, NEW at \in Int, NEW t \in Int, now <= at
    PROVE  /\ t >= at + Seconds(d) * Sec + Ms - 1 => t >= now + d
           /\ t <= now + (Seconds(d) - 1) * Sec => t < now + d
<1>1. /\ Seconds(d) \in Int
      /\ d <= Seconds(d) * Sec + Ms - 1 /\ (Seconds(d) - 1) * Sec < d
  BY SecondsBounds
<1> DEFINE s == Seconds(d)
<1>2. s * Sec \in Int /\ (s - 1) * Sec \in Int /\ Ms \in Int
  <2> HIDE DEF s
  <2>. QED  BY <1>1, TimeAssumption, SMT DEF s
<1>. QED  BY <1>1, <1>2

\* A client that waits the seconds it was told, and less than a millisecond more,
\* is admitted, and was not told to wait a whole second too long, for all commands
\* and any length of the units (lib.rs:69-72).
THEOREM SecondsAreEnough == ThrottleSpec => []RetryInSeconds
<1>1. ThrottleInv /\ RetryPromise => RetryInSeconds
  <2> SUFFICES ASSUME ThrottleInv, RetryPromise, Told, answer.limited,
                      answer.retry_after >= 0
               PROVE  /\ clock >= answer.at + answer.retry_after * Sec + Ms - 1 =>
                             Admits(answer.req)
                      /\ clock <= answer.now + (answer.retry_after - 1) * Sec
                              /\ KeyLive(answer.req) =>
                             ~Admits(answer.req)
    BY DEF RetryInSeconds
  <2> DEFINE a == reply[Cell]
  <2>1. /\ Answered(Cell) /\ Cell \in Limiters /\ clock \in Int
        /\ a.now \in Int /\ answer.at \in Int /\ a.now <= answer.at
        /\ a.retry_after \in Int
        /\ answer.req = a.req /\ answer.now = a.now /\ a.limited
        /\ answer.retry_after = Seconds(a.retry_after)
    BY ToldFacts
  <2>2. a.retry_after # NoRetry
    BY <2>1, SecondsOfNoRetry
  <2>3. /\ clock >= a.now + a.retry_after => Admits(a.req)
        /\ clock < a.now + a.retry_after /\ KeyLive(a.req) => ~Admits(a.req)
    BY <2>1, <2>2 DEF RetryPromise
  <2>. QED  BY <2>1, <2>3, WaitInSeconds
<1>2. ThrottleInv => RetryPromise
  BY RetryFromInv DEF ThrottleInv
<1>. QED  BY ThrottleInvInit, ThrottleInvStep, <1>1, <1>2, PTL DEF ThrottleSpec

\* The whole limit is back after the seconds until reset and less than a
\* millisecond, and no whole second earlier, for all commands whose TAT stays
\* within a u64 (lib.rs:73-76).
THEOREM SecondsToReset ==
    ASSUME InRange
    PROVE  ThrottleSpec => []ResetInSeconds
<1>1. ThrottleInv /\ ResetPromise => ResetInSeconds
  <2> SUFFICES ASSUME ThrottleInv, ResetPromise, Told
               PROVE  LET everything == Asking(answer.req, answer.limit)
                      IN  /\ clock >= answer.at + answer.reset_after * Sec + Ms - 1 =>
                                 Admits(everything)
                          /\ clock <= answer.now + (answer.reset_after - 1) * Sec
                                  /\ KeyLive(answer.req) =>
                                 ~Admits(everything)
    BY DEF ResetInSeconds
  <2> DEFINE a == reply[Cell]
             everything == Asking(a.req, Limit(a.req))
  <2>1. /\ Answered(Cell) /\ Cell \in Limiters /\ clock \in Int
        /\ a.now \in Int /\ answer.at \in Int /\ a.now <= answer.at
        /\ a.reset_after \in Int
        /\ answer.req = a.req /\ answer.now = a.now /\ answer.limit = Limit(a.req)
        /\ answer.reset_after = Seconds(a.reset_after)
    BY ToldFacts
  <2>2. /\ clock >= a.now + a.reset_after => Admits(everything)
        /\ clock < a.now + a.reset_after /\ KeyLive(a.req) => ~Admits(everything)
    BY <2>1 DEF ResetPromise
  <2>. QED  BY <2>1, <2>2, WaitInSeconds
<1>2. ThrottleInv => ResetPromise
  BY ResetFromInv DEF ThrottleInv
<1>. QED  BY ThrottleInvInit, ThrottleInvStep, <1>1, <1>2, PTL DEF ThrottleSpec

-----------------------------------------------------------------------------
\* An update of a command changes a key and is answered, or leaves a stray.
LEMMA UpdateStrays ==
    ASSUME InRange, SoleKeyInv, OnlyStrays, command # None, command' # None,
           UNCHANGED before, CompareAndSwap(Cell) \/ SetIfNotExists(Cell)
    PROVE  OnlyStrays'
<1>. PICK c : c = lim[Cell]
  OBVIOUS
<1>. PICK j : j = c.req.key
  OBVIOUS
<1> DEFINE o == Write(NewTat(c), NewTat(c) - c.now, clock)
<1>1. /\ c.pc = "update" /\ c \in Observation /\ j \in Keys /\ clock' = clock
      /\ \/ /\ db' = [db EXCEPT ![j] = o.entry]
            /\ reply'[Cell] = IF o.result = "updated" THEN Result(c)
                              ELSE Error(c, "store", c.i + 1)
         \/ db' = db
  BY OneCell, UpdateEffect, SoleHeld
<1>2. /\ NewTat(c) \in Int /\ c.now \in Int /\ clock \in Nat /\ c.now <= clock
      /\ NewTat(c) - c.now \in Int /\ db \in [Keys -> Entry]
      /\ reply[Cell].kind # "ok"
  BY <1>1, DecisionType, OneCell, LimiterAssumption
     DEF Observation, SoleKeyInv, TypeOK, Pending, NoReply
<1>3. SUFFICES ASSUME reply'[Cell].kind # "ok", NEW k \in Keys, db'[k] # before[k]
               PROVE  db'[k].expire = None /\ db'[k].tat \in Int /\ db'[k].tat <= clock
  BY <1>1 DEF OnlyStrays, Stray
<1>4. CASE db'[k] = db[k]
  BY <1>2, <1>3, <1>4 DEF OnlyStrays, Stray
<1>5. CASE db'[k] # db[k]
  <2>1. k = j /\ db'[k] = o.entry /\ o.result # "updated"
    BY <1>1, <1>2, <1>3, <1>5 DEF Result
  <2>2. o.entry.tat = NewTat(c)
    BY WrittenTat
  <2>3. o.entry.expire = None /\ NewTat(c) - c.now < 0
    BY <1>2, <2>1, RefusedWrite
  <2> HIDE DEF o
  <2>. QED  BY <1>2, <2>1, <2>2, <2>3
<1>. QED  BY <1>4, <1>5

\* Every step of a command keeps what it may have changed without an answer.
LEMMA OnlyStraysStep ==
    ASSUME InRange, SoleKeyInv, ThrottleInv, OnlyStrays, [ThrottleNext]_throttleVars
    PROVE  OnlyStrays'
<1>1. db \in [Keys -> Entry] /\ clock \in Nat /\ lim \in [Limiters -> Call]
      /\ reply \in [Limiters -> Reply] /\ Cell \in Limiters
  BY OneCell, LimiterAssumption DEF SoleKeyInv, TypeOK
<1>2. ASSUME NEW cmd \in Commands, Run(cmd)
      PROVE  OnlyStrays'
  <2>1. before' = db /\ db' = db
    BY <1>2 DEF Run, Begin, vars
  <2>. QED  BY <2>1 DEF OnlyStrays
<1>3. CASE Working
  <2>1. command # None /\ UNCHANGED cmdVars /\ Step(Cell)
    BY <1>3 DEF Working
  <2>2. CASE GetWithTime(Cell)
    <3>1. db' = db /\ clock' = clock /\ lim[Cell].pc = "get"
      BY <2>2 DEF GetWithTime, Decide
    <3>2. reply[Cell].kind # "ok"
      BY <1>1, <3>1 DEF SoleKeyInv, Pending, NoReply
    <3>. QED  BY <2>1, <3>1, <3>2 DEF OnlyStrays, Stray, cmdVars
  <2>3. CASE CompareAndSwap(Cell) \/ SetIfNotExists(Cell)
    BY <2>1, <2>3, UpdateStrays DEF cmdVars
  <2>. QED  BY <2>1, <2>2, <2>3 DEF Step
<1>4. CASE Finish
  <2>1. command # None /\ command' = None /\ UNCHANGED <<clock, db, before>>
        /\ (replicated' = TRUE \/ reply[Cell].kind = "error")
    BY <1>4, Zenon DEF Finish, Returned, vars
  <2>. QED  BY <2>1 DEF OnlyStrays, Stray
<1>5. CASE Passing \/ UNCHANGED throttleVars
  <2>1. /\ UNCHANGED <<db, reply, command, replicated, before>>
        /\ clock' \in Nat /\ clock <= clock'
    BY <1>1, <1>5 DEF Passing, Tick, throttleVars, cmdVars
  <2>2. ASSUME NEW k \in Keys, Stray(k), db[k] # before[k]
        PROVE  Stray(k)'
    BY <1>1, <2>1, <2>2 DEF Stray
  <2>. QED  BY <2>1, <2>2 DEF OnlyStrays
<1>. QED  BY <1>2, <1>3, <1>4, <1>5 DEF ThrottleNext

\* What a command changes without telling replicas holds no debt and will not
\* expire, for all commands whose TAT stays within a u64 (lib.rs:89-91 is not
\* reached after an error).
THEOREM OnlyStraysStayBehind ==
    ASSUME InRange
    PROVE  ThrottleSpec => []OnlyStraysUnreplicated
<1> DEFINE Inv == SoleKeyInv /\ ThrottleInv /\ OnlyStrays
<1>1. ThrottleInit => Inv
  <2> SUFFICES ASSUME ThrottleInit PROVE Inv
    OBVIOUS
  <2>1. SoleKeyInv
    BY OneCell, SoleKeyInit DEF ThrottleInit
  <2>2. OnlyStrays
    BY DEF ThrottleInit, OnlyStrays
  <2>. QED  BY <2>1, <2>2, ThrottleInvInit
<1>2. Inv /\ [ThrottleNext]_throttleVars => Inv'
  BY OneCell, CommandSteps, SoleKeyStep, ThrottleInvStep, OnlyStraysStep
<1>3. Inv => OnlyStraysUnreplicated
  BY DEF OnlyStrays, OnlyStraysUnreplicated, Stray
<1>. QED  BY <1>1, <1>2, <1>3, PTL DEF ThrottleSpec
=============================================================================
