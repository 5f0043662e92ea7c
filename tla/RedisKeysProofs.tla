--------------------------- MODULE RedisKeysProofs ---------------------------
(***************************************************************************)
(* rate_limit on Redis, call by call on its keys: an update is what the    *)
(* operation of Store would have done at the instant its key was opened,   *)
(* and the promises of the limiter hold although its operations take time. *)
(*                                                                         *)
(* Only one command runs, so nothing but the clock comes between a look at *)
(* the key and what is done about it.  The invariant says what an open key *)
(* stands for: the entry is the one that was found, until the value has    *)
(* been written over it, and it was found as the call had read it.         *)
(***************************************************************************)
EXTENDS RedisKeys, AnswerProofs

\* What was found when the key was opened lets the update of the call c go ahead.
Wins(c) ==
    IF c.tat_val = None THEN ~IsLive(handle.was, handle.at)
    ELSE IsLive(handle.was, handle.at) /\ handle.was.tat = c.tat_val

\* The new value, before its expiry is set.
Unexpiring(c) == [tat |-> AsU64(NewTat(c)), expire |-> None]

\* The key that p has opened, and how far it has got with it.
HeldBy(p) ==
    LET c == lim[p]
        e == db[KeyOf(p)]
    IN  \/ /\ handle.next = "time" /\ c.pc = "get" /\ ~handle.written
           /\ e = handle.was /\ handle.value = Visible(handle.was, handle.at)
           /\ c.i = 1 => handle.value = None
        \/ /\ handle.next = "write" /\ c.pc = "update" /\ ~handle.written
           /\ e = handle.was /\ Wins(c)
        \/ /\ handle.next = "expire" /\ c.pc = "update" /\ handle.written
           /\ e = Unexpiring(c) /\ Wins(c)

HandleInv ==
    /\ handle \in Handle /\ handle.at <= clock
    /\ handle = Closed \/ \E p \in Limiters : HeldBy(p)

\* Until the call writes, the key is as it has read it.
StillAsRead ==
    \A p \in Limiters :
        lim[p].pc = "update" /\ ~handle.written => Unwritten(lim[p])

KeysInv ==
    /\ TypeOK /\ Pending /\ Begun
    /\ HandleInv /\ StillAsRead /\ SecondAttempt
    /\ MaxCasAttempts >= 1 => NoContention

-----------------------------------------------------------------------------
\* One command runs at a time, on Redis.
LEMMA OneCommand == Alone /\ StoreKind = "redis"
BY KeysAssumption DEF Alone

\* What the invariant says of a call that is under way.
LEMMA KeysFacts ==
    ASSUME KeysInv, NEW p \in Limiters, lim[p].pc # "idle"
    PROVE  /\ lim[p] \in Observation /\ KeyOf(p) \in Keys
           /\ db \in [Keys -> Entry] /\ db[KeyOf(p)] \in Entry
           /\ lim \in [Limiters -> Call] /\ reply \in [Limiters -> Reply]
           /\ clock \in Nat /\ Limiters = {p} /\ reply[p] = NoReply
           /\ handle \in Handle /\ handle.at \in Nat /\ handle.at <= clock
           /\ handle.was \in Entry /\ handle.value \in U64 \cup {None}
           /\ handle = Closed \/ HeldBy(p)
<1>1. Limiters = {p}
  BY KeysAssumption
<1>2. lim[p] \in Observation /\ KeyOf(p) \in Keys /\ db[KeyOf(p)] \in Entry
  BY ActiveType DEF KeysInv, KeyOf
<1>. QED
  BY <1>1, <1>2, LimiterAssumption DEF KeysInv, TypeOK, Pending, HandleInv, Handle

\* A closed key.
LEMMA ClosedFacts ==
    /\ Closed \in Handle /\ Closed.next = "open" /\ ~Closed.written /\ Closed.at = 0
BY DEF Closed, Handle, Absent, Entry

\* A key as it is when it is opened.
LEMMA OpenedFacts ==
    ASSUME NEW p \in Limiters, NEW next \in {"open", "time", "write", "expire"},
           db[KeyOf(p)] \in Entry, clock \in Nat
    PROVE  LET h == Opened(p, next)
           IN  /\ h \in Handle /\ h.next = next /\ ~h.written
               /\ h.was = db[KeyOf(p)] /\ h.at = clock
               /\ h.value = Visible(db[KeyOf(p)], clock)
<1>1. Visible(db[KeyOf(p)], clock) \in U64 \cup {None}
  BY VisibleType
<1>. QED  BY <1>1 DEF Opened, Handle

-----------------------------------------------------------------------------
\* The key is opened to be read.
LEMMA OpenKeyStep ==
    ASSUME KeysInv, NEW p \in Limiters, OpenKey(p)
    PROVE  KeysInv'
<1>1. /\ lim[p].pc = "get" /\ handle' = Opened(p, "time") /\ UNCHANGED vars
  BY DEF OpenKey, At
<1>2. /\ handle' \in Handle /\ handle'.next = "time" /\ ~handle'.written
      /\ handle'.was = db[KeyOf(p)] /\ handle'.at = clock
      /\ handle'.value = Visible(db[KeyOf(p)], clock) /\ clock \in Nat
      /\ Limiters = {p}
  BY <1>1, KeysFacts, OpenedFacts
<1>3. lim[p].i = 1 => handle'.value = None
  BY <1>1, <1>2 DEF KeysInv, SecondAttempt, Visible, KeyOf
<1>4. HandleInv'
  BY <1>1, <1>2, <1>3 DEF HandleInv, HeldBy, KeyOf, vars
<1>5. StillAsRead'
  BY <1>1, <1>2 DEF StillAsRead, vars
<1>6. (TypeOK /\ Pending /\ Begun /\ SecondAttempt /\ (MaxCasAttempts >= 1 => NoContention))'
  BY <1>1 DEF KeysInv, vars, TypeOK, Pending, Begun, SecondAttempt, NoContention
<1>. QED  BY <1>4, <1>5, <1>6 DEF KeysInv

\* The call that has read the key, and then the clock.
ReadAt(p) == [lim[p] EXCEPT !.pc = "update", !.tat_val = handle.value, !.now = clock]

\* The clock is read, and the call decided on.  The key may have expired since it
\* was opened, but it is as it was.
LEMMA ReadClockFacts ==
    ASSUME KeysInv, NEW p \in Limiters, ReadClock(p)
    PROVE  LET c == ReadAt(p)
           IN  /\ c \in Observation /\ c.pc = "update" /\ c.req = lim[p].req
               /\ c.i = lim[p].i /\ c.now = clock /\ c.tat_val = handle.value
               /\ c.i = 1 => c.tat_val = None
               /\ Unwritten(c)
               /\ handle' = Closed /\ clock' = clock /\ db' = db /\ lim[p].pc = "get"
               /\ \/ Limited(c) /\ lim'[p] = Idle /\ reply'[p] = Result(c)
                  \/ ~Limited(c) /\ lim'[p] = c /\ reply'[p] = NoReply
<1> DEFINE c == ReadAt(p)
<1>1. /\ lim[p].pc = "get" /\ handle.next = "time" /\ handle' = Closed
      /\ clock' = clock /\ db' = db /\ Decide(p, c)
  BY DEF ReadClock, At, ReadAt
<1>2. /\ lim[p] \in Observation /\ clock \in Nat /\ reply[p] = NoReply
      /\ handle.value \in U64 \cup {None} /\ handle.was \in Entry
      /\ handle.at \in Nat /\ handle.at <= clock
      /\ lim \in [Limiters -> Call] /\ reply \in [Limiters -> Reply]
  BY <1>1, KeysFacts
<1>3. /\ db[KeyOf(p)] = handle.was /\ handle.value = Visible(handle.was, handle.at)
      /\ lim[p].i = 1 => handle.value = None
  BY <1>1, KeysFacts, ClosedFacts DEF HeldBy
<1>4. /\ c \in Observation /\ c.pc = "update" /\ c.req = lim[p].req
      /\ c.i = lim[p].i /\ c.now = clock /\ c.tat_val = handle.value
  BY <1>2 DEF ReadAt, Observation
<1>5. Unwritten(c)
  <2>1. handle.value = None => ~IsLive(handle.was, clock)
    BY <1>2, <1>3, StaysDead DEF Visible, IsLive
  <2>2. handle.value # None => handle.was.tat = handle.value
    BY <1>3 DEF Visible
  <2>. QED  BY <1>3, <1>4, <2>1, <2>2 DEF Unwritten, KeyOf
<1> HIDE DEF c
<1>6. \/ Limited(c) /\ lim'[p] = Idle /\ reply'[p] = Result(c)
      \/ ~Limited(c) /\ lim'[p] = c /\ reply'[p] = NoReply
  BY <1>1, <1>2 DEF Decide, Return
<1>. QED  BY <1>1, <1>3, <1>4, <1>5, <1>6 DEF c

\* Reading the clock, and so the decision, keeps the invariant (store.rs:201-216).
LEMMA ReadClockStep ==
    ASSUME KeysInv, NEW p \in Limiters, ReadClock(p)
    PROVE  KeysInv'
<1>. PICK c : c = ReadAt(p)
  OBVIOUS
<1>1. /\ c \in Observation /\ c.pc = "update" /\ c.req = lim[p].req
      /\ c.i = lim[p].i /\ c.now = clock /\ c.tat_val = handle.value
      /\ c.i = 1 => c.tat_val = None
      /\ Unwritten(c)
      /\ handle' = Closed /\ clock' = clock /\ db' = db /\ lim[p].pc = "get"
      /\ \/ Limited(c) /\ lim'[p] = Idle /\ reply'[p] = Result(c)
         \/ ~Limited(c) /\ lim'[p] = c /\ reply'[p] = NoReply
  BY ReadClockFacts
<1>2. clock \in Nat /\ Limiters = {p} /\ FirstTick \in Nat /\ FirstTick <= clock
  BY <1>1, KeysFacts, LimiterAssumption DEF KeysInv, TypeOK
<1>3. Idle.pc = "idle" /\ Idle.i = 0
  BY DEF Idle
<1>4. TypeOK'
  <2>1. Decide(p, c)
    BY DEF ReadClock, ReadAt
  <2>. QED  BY <1>1, <2>1, DecideType DEF KeysInv
<1>5. Pending' /\ Begun'
  BY <1>1, <1>2, <1>3 DEF KeysInv, Pending, Begun
<1>6. HandleInv'
  BY <1>1, <1>2, ClosedFacts DEF HandleInv
<1>7. StillAsRead'
  <2>1. lim'[p] = c => Unwritten(lim[p])'
    BY <1>1 DEF Unwritten
  <2>. QED  BY <1>1, <1>2, <1>3, <2>1 DEF StillAsRead
<1>8. SecondAttempt'
  <2>1. c.i <= 1
    BY <1>1 DEF KeysInv, SecondAttempt
  <2>. QED  BY <1>1, <1>2, <1>3, <2>1 DEF SecondAttempt
<1>9. NoContention'
  BY <1>1, <1>2 DEF NoContention, Result, NoReply
<1>. QED  BY <1>4, <1>5, <1>6, <1>7, <1>8, <1>9 DEF KeysInv

-----------------------------------------------------------------------------
\* The key is opened to swap its value.  It holds the value that was read, so the
\* swap is lost only if it has expired, and that happens once (store.rs:177-193).
LEMMA OpenToSwapFacts ==
    ASSUME KeysInv, NEW p \in Limiters, OpenToSwap(p)
    PROVE  LET c == lim[p]
               e == db[KeyOf(p)]
           IN  /\ c.pc = "update" /\ c.tat_val # None /\ handle = Closed /\ c.i = 0
               /\ clock' = clock /\ db' = db
               /\ \/ /\ IsLive(e, clock) /\ e.tat = c.tat_val
                     /\ handle' = Opened(p, "write") /\ UNCHANGED <<lim, reply>>
                  \/ /\ ~IsLive(e, clock) /\ Retry(p) /\ handle' = Closed
                     /\ \/ /\ MaxCasAttempts < 1
                           /\ lim'[p] = Idle
                           /\ reply'[p] = Error(c, "contention", 1)
                        \/ /\ lim'[p].pc = "get" /\ lim'[p].req = c.req
                           /\ lim'[p].i = 1 /\ reply'[p] = NoReply
<1>. PICK c : c = lim[p]
  OBVIOUS
<1> DEFINE e == db[KeyOf(p)]
           h == Opened(p, "write")
           same == ~IsEmpty(h.value) /\ h.value = c.tat_val
<1>1. /\ c.pc = "update" /\ c.tat_val # None /\ handle.next = "open"
      /\ clock' = clock /\ db' = db
      /\ \/ same /\ handle' = h /\ UNCHANGED <<lim, reply>>
         \/ ~same /\ Retry(p) /\ UNCHANGED handle
  BY DEF OpenToSwap, At
<1>2. /\ c \in Observation /\ e \in Entry /\ clock \in Nat /\ reply[p] = NoReply
      /\ handle = Closed \/ HeldBy(p)
      /\ lim \in [Limiters -> Call] /\ reply \in [Limiters -> Reply]
  BY <1>1, KeysFacts
<1>3. handle = Closed
  BY <1>1, <1>2 DEF HeldBy
<1>4. e.tat = c.tat_val
  BY <1>1, <1>3, ClosedFacts DEF KeysInv, StillAsRead, Unwritten, KeyOf
<1>5. h.value = Visible(e, clock)
  BY <1>2, OpenedFacts
<1>6. same <=> IsLive(e, clock)
  BY <1>1, <1>4, <1>5 DEF IsEmpty, Visible
<1>7. c.i = 0 /\ MaxCasAttempts \in Nat
  BY <1>1, <1>2, LimiterAssumption DEF KeysInv, SecondAttempt, Observation
<1>8. CASE same
  BY <1>1, <1>3, <1>4, <1>6, <1>7, <1>8
<1>9. CASE ~same
  <2>1. Retry(p) /\ handle' = Closed
    BY <1>1, <1>3, <1>9
  <2>2. ASSUME NEW r, NEW n
        PROVE  LET d == [Idle EXCEPT !.pc = "get", !.req = r, !.i = n]
               IN  d.pc = "get" /\ d.req = r /\ d.i = n
    BY DEF Idle
  <2>3. CASE c.i + 1 > MaxCasAttempts /\ Return(p, Error(c, "contention", c.i + 1))
    <3>1. lim'[p] = Idle /\ reply'[p] = Error(c, "contention", c.i + 1)
      BY <1>2, <2>3 DEF Return
    <3>2. MaxCasAttempts < 1 /\ c.i + 1 = 1
      BY <1>7, <2>3
    <3>. QED  BY <1>1, <1>3, <1>6, <1>7, <1>9, <2>1, <3>1, <3>2
  <2>4. CASE /\ lim' = [lim EXCEPT ![p] =
                           [Idle EXCEPT !.pc = "get", !.req = c.req, !.i = c.i + 1]]
             /\ UNCHANGED reply
    <3>1. lim'[p].pc = "get" /\ lim'[p].req = c.req /\ lim'[p].i = 1
      BY <1>2, <1>7, <2>2, <2>4
    <3>. QED  BY <1>1, <1>2, <1>3, <1>6, <1>7, <1>9, <2>1, <2>4, <3>1
  <2>. QED  BY <2>1, <2>3, <2>4 DEF Retry
<1>. QED  BY <1>8, <1>9

\* Opening a key to swap it keeps the invariant, also when the swap is lost
\* (store.rs:176-184).
LEMMA OpenToSwapStep ==
    ASSUME KeysInv, NEW p \in Limiters, OpenToSwap(p)
    PROVE  KeysInv'
<1>. PICK c : c = lim[p]
  OBVIOUS
<1> DEFINE e == db[KeyOf(p)]
<1>1. /\ c.pc = "update" /\ c.tat_val # None /\ handle = Closed /\ c.i = 0
      /\ clock' = clock /\ db' = db
      /\ \/ /\ IsLive(e, clock) /\ e.tat = c.tat_val
            /\ handle' = Opened(p, "write") /\ UNCHANGED <<lim, reply>>
         \/ /\ ~IsLive(e, clock) /\ Retry(p) /\ handle' = Closed
            /\ \/ /\ MaxCasAttempts < 1
                  /\ lim'[p] = Idle
                  /\ reply'[p] = Error(c, "contention", 1)
               \/ /\ lim'[p].pc = "get" /\ lim'[p].req = c.req
                  /\ lim'[p].i = 1 /\ reply'[p] = NoReply
  BY OpenToSwapFacts
<1>2. /\ clock \in Nat /\ Limiters = {p} /\ e \in Entry /\ MaxCasAttempts \in Nat
  BY <1>1, KeysFacts, LimiterAssumption
<1>3. CASE handle' = Opened(p, "write") /\ UNCHANGED <<lim, reply>>
  <2>1. /\ handle' \in Handle /\ handle'.next = "write" /\ ~handle'.written
        /\ handle'.was = e /\ handle'.at = clock
    BY <1>2, <1>3, OpenedFacts
  <2>2. IsLive(e, clock) /\ e.tat = c.tat_val
    BY <1>1, <1>3, <2>1, ClosedFacts
  <2>3. HandleInv'
    BY <1>1, <1>2, <1>3, <2>1, <2>2 DEF HandleInv, HeldBy, Wins, KeyOf
  <2>4. StillAsRead'
    BY <1>1, <1>3, ClosedFacts DEF KeysInv, StillAsRead, Unwritten
  <2>. QED
    BY <1>1, <1>3, <2>3, <2>4
       DEF KeysInv, TypeOK, Pending, Begun, SecondAttempt, NoContention
<1>4. CASE ~IsLive(e, clock) /\ Retry(p) /\ handle' = Closed
  <2>1. Idle.pc = "idle" /\ Idle.i = 0 /\ handle' # Opened(p, "write")
    BY <1>2, <1>4, OpenedFacts, ClosedFacts DEF Idle
  <2>2. \/ /\ MaxCasAttempts < 1 /\ lim'[p] = Idle
           /\ reply'[p] = Error(c, "contention", 1)
        \/ /\ lim'[p].pc = "get" /\ lim'[p].req = c.req
           /\ lim'[p].i = 1 /\ reply'[p] = NoReply
    BY <1>1, <2>1
  <2>3. TypeOK'
    <3>1. /\ lim' \in [Limiters -> Call] /\ reply' \in [Limiters -> Reply]
          /\ \A q \in Limiters : lim'[q].pc # "idle" => lim'[q].req \in Requests
      BY <1>1, <1>4, RetryType DEF KeysInv
    <3>. QED  BY <1>1, <3>1 DEF KeysInv, TypeOK
  <2>4. Pending' /\ Begun'
    BY <1>1, <1>2, <2>1, <2>2 DEF KeysInv, Pending, Begun
  <2>5. HandleInv'
    BY <1>2, <1>1, <1>4, ClosedFacts DEF HandleInv
  <2>6. StillAsRead' /\ SecondAttempt'
    BY <1>1, <1>2, <1>4, <2>1, <2>2 DEF StillAsRead, SecondAttempt, KeyOf
  <2>7. (MaxCasAttempts >= 1 => NoContention)'
    BY <1>2, <2>2 DEF NoContention, NoReply
  <2>. QED  BY <2>3, <2>4, <2>5, <2>6, <2>7 DEF KeysInv
<1>. QED  BY <1>1, <1>3, <1>4

\* The key is opened to be created.  It was missing and still is (store.rs:224-227).
LEMMA OpenToSetStep ==
    ASSUME KeysInv, NEW p \in Limiters, OpenToSet(p)
    PROVE  KeysInv'
<1>. PICK c : c = lim[p]
  OBVIOUS
<1> DEFINE e == db[KeyOf(p)]
           h == Opened(p, "write")
<1>1. /\ c.pc = "update" /\ c.tat_val = None /\ handle.next = "open"
      /\ UNCHANGED vars
      /\ handle' = IF IsEmpty(h.value) THEN h ELSE Opened(p, "expire")
  BY DEF OpenToSet, At
<1>2. /\ c \in Observation /\ e \in Entry /\ clock \in Nat
      /\ handle = Closed \/ HeldBy(p)
      /\ Limiters = {p}
  BY <1>1, KeysFacts
<1>3. handle = Closed
  BY <1>1, <1>2 DEF HeldBy
<1>4. ~IsLive(e, clock)
  <2>1. ~IsLive(e, c.now) /\ c.now <= clock /\ c.now \in Nat
    BY <1>1, <1>2, <1>3, ClosedFacts
       DEF KeysInv, StillAsRead, Unwritten, KeyOf, Pending, Observation
  <2>. QED  BY <1>2, <2>1, StaysDead
<1>5. /\ h \in Handle /\ h.next = "write" /\ ~h.written
      /\ h.was = e /\ h.at = clock /\ h.value = Visible(e, clock)
  BY <1>2, OpenedFacts
<1>6. handle' = h
  BY <1>1, <1>4, <1>5 DEF IsEmpty, Visible
<1> HIDE DEF h
<1>7. HandleInv'
  BY <1>1, <1>2, <1>4, <1>5, <1>6 DEF HandleInv, HeldBy, Wins, KeyOf, vars
<1>8. StillAsRead'
  BY <1>1, <1>3, ClosedFacts DEF KeysInv, StillAsRead, Unwritten, vars
<1>. QED
  BY <1>1, <1>7, <1>8
     DEF KeysInv, vars, TypeOK, Pending, Begun, SecondAttempt, NoContention

\* The value is written, and its expiry is gone (redis/mod.rs:356-362).
LEMMA WriteValueStep ==
    ASSUME KeysInv, NEW p \in Limiters, WriteValue(p)
    PROVE  KeysInv'
<1>. PICK c : c = lim[p]
  OBVIOUS
<1>. PICK k : k = KeyOf(p)
  OBVIOUS
<1>1. /\ c.pc = "update" /\ handle.next = "write" /\ UNCHANGED <<clock, lim, reply>>
      /\ db' = [db EXCEPT ![k] = Unexpiring(c)]
      /\ handle' = [handle EXCEPT !.next = "expire", !.written = TRUE]
  BY DEF WriteValue, At, Unexpiring
<1>2. /\ c \in Observation /\ k \in Keys /\ clock \in Nat /\ Limiters = {p}
      /\ db \in [Keys -> Entry] /\ handle \in Handle
      /\ handle = Closed \/ HeldBy(p)
  BY <1>1, KeysFacts
<1>3. Wins(c)
  BY <1>1, <1>2, ClosedFacts DEF HeldBy
<1>4. /\ handle' \in Handle /\ handle'.next = "expire" /\ handle'.written
      /\ handle'.was = handle.was /\ handle'.at = handle.at
  BY <1>1, <1>2 DEF Handle
<1>5. Unexpiring(c) \in Entry
  BY <1>2, DecisionType, AsU64Type DEF Unexpiring, Entry
<1>6. db' \in [Keys -> Entry] /\ db'[k] = Unexpiring(c)
  BY <1>1, <1>2, <1>5
<1>7. TypeOK'
  BY <1>1, <1>6 DEF KeysInv, TypeOK
<1>8. HandleInv'
  <2>1. KeyOf(p)' = k /\ Unexpiring(lim[p])' = Unexpiring(c)
    BY <1>1 DEF KeyOf, Unexpiring
  <2>2. Wins(lim[p])'
    BY <1>1, <1>3, <1>4 DEF Wins
  <2>3. HeldBy(p)'
    BY <1>1, <1>4, <1>6, <2>1, <2>2 DEF HeldBy
  <2>. QED  BY <1>1, <1>4, <2>3 DEF KeysInv, HandleInv
<1>9. StillAsRead'
  BY <1>4 DEF StillAsRead
<1>10. SecondAttempt'
  BY <1>1, <1>2 DEF KeysInv, SecondAttempt
<1>. QED
  BY <1>1, <1>7, <1>8, <1>9, <1>10 DEF KeysInv, Pending, Begun, NoContention

-----------------------------------------------------------------------------
\* Setting the expiry ends an update with the outcome of a write of Store, made
\* at this instant, and the value that the key had allowed it when it was opened.
LEMMA ExpireValueFacts ==
    ASSUME KeysInv, NEW p \in Limiters, ExpireValue(p)
    PROVE  LET c == lim[p]
               o == Write(AsU64(NewTat(c)), NewTat(c) - c.now, clock)
           IN  /\ c.pc = "update" /\ c \in Observation /\ KeyOf(p) \in Keys
               /\ handle.next = "expire" /\ handle' = Closed /\ clock' = clock
               /\ Wins(c) /\ NewTat(c) - c.now \in Int
               /\ o \in Outcomes /\ Conclude(p, o)
               /\ db' = [db EXCEPT ![KeyOf(p)] = o.entry]
               /\ lim'[p] = Idle
               /\ reply'[p] = IF o.result = "updated" THEN Result(c)
                              ELSE Error(c, "store", c.i + 1)
<1>. PICK c : c = lim[p]
  OBVIOUS
<1> DEFINE value == AsU64(NewTat(c))
           ttl == NewTat(c) - c.now
           o == Write(value, ttl, clock)
<1>1. /\ c.pc = "update" /\ handle.next = "expire" /\ handle' = Closed
      /\ Conclude(p, Outcome(SetExpire(db[KeyOf(p)], ttl, clock),
                             IF handle.written THEN "updated" ELSE "kept", ttl))
  BY DEF ExpireValue, At, Ttl
<1>2. /\ c \in Observation /\ KeyOf(p) \in Keys /\ clock \in Nat
      /\ handle = Closed \/ HeldBy(p)
      /\ reply[p] = NoReply
  BY <1>1, KeysFacts
<1>3. handle.written /\ Wins(c) /\ db[KeyOf(p)] = Unexpiring(c)
  BY <1>1, <1>2, ClosedFacts DEF HeldBy
<1>4. Conclude(p, o)
  BY <1>1, <1>3 DEF Write, Unexpiring
<1>5. ttl \in Int /\ o \in Outcomes
  BY <1>2, DecisionType, AsU64Type, WriteType DEF Observation
<1>6. o.result = "updated" \/ o.result = "error"
  BY DEF Write, Outcome
<1> HIDE DEF o, ttl
<1>7. /\ clock' = clock
      /\ db' = [db EXCEPT ![KeyOf(p)] = o.entry]
      /\ lim'[p] = Idle
      /\ reply'[p] = IF o.result = "updated" THEN Result(c)
                     ELSE Error(c, "store", c.i + 1)
  BY <1>1, <1>4, <1>5, <1>6, ConcludeFacts DEF KeysInv, KeyOf
<1>. QED  BY <1>1, <1>2, <1>3, <1>4, <1>5, <1>7 DEF o, ttl

\* Setting the expiry, which ends the update, keeps the invariant
\* (store.rs:187-198).
LEMMA ExpireValueStep ==
    ASSUME KeysInv, NEW p \in Limiters, ExpireValue(p)
    PROVE  KeysInv'
<1>. PICK c : c = lim[p]
  OBVIOUS
<1>. PICK o : o = Write(AsU64(NewTat(c)), NewTat(c) - c.now, clock)
  OBVIOUS
<1>1. /\ c.pc = "update" /\ handle' = Closed /\ clock' = clock
      /\ o \in Outcomes /\ Conclude(p, o) /\ lim'[p] = Idle
      /\ reply'[p] \in {Result(c), Error(c, "store", c.i + 1)}
  BY ExpireValueFacts
<1>2. clock \in Nat /\ Limiters = {p}
  BY <1>1, KeysFacts
<1>3. Idle.pc = "idle" /\ Idle.i = 0
  BY DEF Idle
<1>4. TypeOK'
  BY <1>1, ConcludeType DEF KeysInv
<1>5. Pending' /\ Begun' /\ StillAsRead' /\ SecondAttempt'
  BY <1>1, <1>2, <1>3 DEF Pending, Begun, StillAsRead, SecondAttempt
<1>6. HandleInv'
  BY <1>1, <1>2, ClosedFacts DEF HandleInv
<1>7. NoContention'
  BY <1>1, <1>2 DEF NoContention, Result, Error
<1>. QED  BY <1>4, <1>5, <1>6, <1>7 DEF KeysInv

-----------------------------------------------------------------------------
\* A call begins with no key open.
LEMMA KeysBeginStep ==
    ASSUME KeysInv, NEW p \in Limiters, NEW r \in Requests, Begin(p, r), UNCHANGED handle
    PROVE  KeysInv'
<1>1. /\ lim[p].pc = "idle" /\ Limiters = {p} /\ [Next]_vars
      /\ clock' = clock /\ lim \in [Limiters -> Call] /\ reply \in [Limiters -> Reply]
  BY KeysAssumption DEF Begin, Next, KeysInv, TypeOK
<1>2. handle = Closed
  BY <1>1 DEF KeysInv, HandleInv, HeldBy
<1>3. TypeOK' /\ Pending' /\ Begun'
  BY <1>1, TypeStep, PendingStep, BegunStep DEF KeysInv
<1>4. HandleInv'
  BY <1>1, <1>2 DEF KeysInv, HandleInv
<1> DEFINE c == [Idle EXCEPT !.pc = "get", !.req = r]
<1>5. c.pc = "get" /\ c.i = 0 /\ Idle.pc = "idle" /\ Idle.i = 0
  BY DEF Idle
<1> HIDE DEF c
<1>6. \/ lim'[p] = Idle /\ reply'[p] = Error(c, "zero_rate", 0)
      \/ lim'[p] = c /\ reply'[p] = NoReply
  BY <1>1 DEF Begin, Return, c
<1>7. StillAsRead' /\ SecondAttempt'
  BY <1>1, <1>5, <1>6 DEF StillAsRead, SecondAttempt
<1>8. NoContention'
  BY <1>1, <1>6 DEF NoContention, NoReply, Error
<1>. QED  BY <1>3, <1>4, <1>7, <1>8 DEF KeysInv

\* Time passes, also while a key is open: what was found in it may have expired.
LEMMA KeysTickStep ==
    ASSUME KeysInv, Tick, UNCHANGED handle
    PROVE  KeysInv'
<1>1. /\ UNCHANGED <<db, lim, reply, handle>> /\ clock \in Nat
      /\ clock' \in Nat /\ clock <= clock' /\ [Next]_vars
  BY LimiterAssumption DEF Tick, Next, KeysInv, TypeOK
<1>2. TypeOK' /\ Pending' /\ Begun'
  BY <1>1, TypeStep, PendingStep, BegunStep DEF KeysInv
<1>3. HandleInv'
  <2>1. handle.at <= clock'
    BY <1>1 DEF KeysInv, HandleInv, Handle
  <2>2. ASSUME NEW p \in Limiters, HeldBy(p)
        PROVE  HeldBy(p)'
    <3>1. Wins(lim[p])' = Wins(lim[p]) /\ Unexpiring(lim[p])' = Unexpiring(lim[p])
          /\ KeyOf(p)' = KeyOf(p)
      BY <1>1 DEF Wins, Unexpiring, KeyOf
    <3>. QED  BY <1>1, <2>2, <3>1 DEF HeldBy
  <2>. QED  BY <1>1, <2>1, <2>2 DEF KeysInv, HandleInv
<1>4. StillAsRead'
  BY <1>1 DEF KeysInv, StillAsRead, Unwritten
<1>5. SecondAttempt'
  <2>1. ASSUME NEW p \in Limiters, lim[p].i = 1, lim[p].pc = "get"
        PROVE  ~IsLive(db[lim[p].req.key], clock')
    <3>1. db[lim[p].req.key] \in Entry /\ ~IsLive(db[lim[p].req.key], clock)
      BY <2>1, ActiveType DEF KeysInv, SecondAttempt
    <3>. QED  BY <1>1, <3>1, StaysDead
  <2>. QED  BY <1>1, <2>1 DEF KeysInv, SecondAttempt
<1>. QED  BY <1>1, <1>2, <1>3, <1>4, <1>5 DEF KeysInv, NoContention

\* Every call on a key keeps the invariant.
LEMMA KeysStep == KeysInv /\ [KeysNext]_keyVars => KeysInv'
<1> SUFFICES ASSUME KeysInv, [KeysNext]_keyVars PROVE KeysInv'
  OBVIOUS
<1>1. ASSUME NEW p \in Limiters, CallOnKey(p)
      PROVE  KeysInv'
  BY <1>1, OpenKeyStep, ReadClockStep, OpenToSwapStep, OpenToSetStep, WriteValueStep,
     ExpireValueStep DEF CallOnKey
<1>2. CASE UNCHANGED keyVars
  <2>1. UNCHANGED vars /\ UNCHANGED handle
    BY <1>2 DEF keyVars, vars
  <2>2. \A p \in Limiters : HeldBy(p)' = HeldBy(p)
    BY <2>1 DEF HeldBy, Wins, Unexpiring, KeyOf, vars
  <2>3. HandleInv'
    BY <2>1, <2>2 DEF KeysInv, HandleInv, vars
  <2>. QED
    BY <2>1, <2>3 DEF KeysInv, vars, TypeOK, Pending, Begun, StillAsRead, Unwritten,
                      SecondAttempt, NoContention
<1>. QED  BY <1>1, <1>2, KeysBeginStep, KeysTickStep DEF KeysNext

\* No key is open at first.
LEMMA KeysInitially == KeysInit => KeysInv
<1> SUFFICES ASSUME KeysInit PROVE KeysInv
  OBVIOUS
<1>1. TypeOK /\ Pending /\ Begun /\ clock \in Nat
  BY AnswerInit, LimiterAssumption DEF KeysInit, AnswerInv, TypeOK
<1>2. HandleInv
  BY <1>1, ClosedFacts DEF KeysInit, HandleInv
<1>3. StillAsRead /\ SecondAttempt /\ NoContention
  BY DEF KeysInit, Init, StillAsRead, SecondAttempt, NoContention, Idle, NoReply
<1>. QED  BY <1>1, <1>2, <1>3 DEF KeysInv

-----------------------------------------------------------------------------
\* An update that has its key allowed ends as if it had been one instant.
LEMMA ExpiredInTime ==
    ASSUME KeysInv, NEW p \in Limiters, ExpireValue(p)
    PROVE  EndsAsAtomic(p)
<1>. PICK c : c = lim[p]
  OBVIOUS
<1>. PICK ttl : ttl = NewTat(c) - c.now
  OBVIOUS
<1> DEFINE value == AsU64(NewTat(c))
           t == handle.at
           o == Write(value, ttl, clock)
           w == Write(value, ttl, t)
           ms == WholeMilliseconds(ttl)
<1>1. /\ c.pc = "update" /\ c \in Observation /\ KeyOf(p) \in Keys
      /\ handle.next = "expire" /\ Wins(c) /\ ttl \in Int
      /\ db' = [db EXCEPT ![KeyOf(p)] = o.entry]
      /\ reply'[p] = IF o.result = "updated" THEN Result(c)
                     ELSE Error(c, "store", c.i + 1)
  BY ExpireValueFacts
<1>2. /\ clock \in Nat /\ t \in Nat /\ t <= clock /\ handle # Closed
      /\ db \in [Keys -> Entry] /\ StoreKind = "redis"
  BY <1>1, KeysFacts, ClosedFacts, OneCommand
<1>3. Operation(c, handle.was, t) = w
  BY <1>1, <1>2 DEF Wins, Operation, CompareAndSwapWithTtl, SetIfNotExistsWithTtl, Swappable
<1>4. db'[c.req.key] = o.entry
  BY <1>1, <1>2 DEF KeyOf
<1>5. o.entry.tat = value /\ w.entry.tat = value
  BY WrittenTat
<1>6. /\ ms \in Int /\ clock \div Ms \in Int /\ t \div Ms \in Int
      /\ o.entry.expire = IF ms <= -1 THEN None ELSE clock \div Ms + ms
      /\ w.entry.expire = IF ms <= -1 THEN None ELSE t \div Ms + ms
      /\ o.result = IF ms < -1 THEN "error" ELSE "updated"
      /\ w.result = IF ms < -1 THEN "error" ELSE "updated"
  BY <1>1, <1>2, WrittenExpiry
<1>7. t \div Ms <= clock \div Ms
  BY <1>2, DivMonotone
<1>8. reply'[p].kind = "ok" <=> w.result = "updated"
  BY <1>1, <1>6 DEF Result, Error
<1> HIDE DEF o, w, ms, value
<1>9. /\ o.entry.expire = None <=> w.entry.expire = None
      /\ o.entry.expire # None =>
            o.entry.expire - w.entry.expire \in 0..(clock \div Ms - t \div Ms)
  BY <1>6, <1>7, StoreAssumption
<1>. QED  BY <1>2, <1>3, <1>4, <1>5, <1>8, <1>9 DEF EndsAsAtomic

\* A swap that is lost was lost when the key was opened.
LEMMA LostInTime ==
    ASSUME KeysInv, NEW p \in Limiters, OpenToSwap(p), lim'[p].pc # "update"
    PROVE  EndsAsAtomic(p)
<1>. PICK c : c = lim[p]
  OBVIOUS
<1> DEFINE e == db[KeyOf(p)]
           h == Opened(p, "open")
<1>1. /\ c.pc = "update" /\ c.tat_val # None /\ handle = Closed /\ db' = db
      /\ ~IsLive(e, clock)
      /\ reply'[p] \in {Error(c, "contention", 1), NoReply}
  BY OpenToSwapFacts
<1>2. e \in Entry /\ clock \in Nat /\ StoreKind = "redis"
  BY <1>1, KeysFacts, OneCommand
<1>3. h.was = e /\ h.at = clock
  BY <1>2, OpenedFacts
<1>4. Operation(c, e, clock) = [entry |-> e, result |-> "kept"]
  BY <1>1, <1>2 DEF Operation, CompareAndSwapWithTtl, Swappable
<1>5. reply'[p].kind # "ok"
  BY <1>1 DEF Error, NoReply
<1>6. e.expire # None => e.expire - e.expire \in 0..(clock \div Ms - clock \div Ms)
  BY <1>2, DivBounds DEF Entry
<1> HIDE DEF h
<1>7. db'[c.req.key] = e
  BY <1>1 DEF KeyOf
<1>. QED  BY <1>1, <1>3, <1>4, <1>5, <1>6, <1>7 DEF EndsAsAtomic, h

\* Every update that ends on Redis is the operation of Store, although its calls
\* take time and its key may expire between them (store.rs:170-199, 218-233).
THEOREM CallsAreAtomic == KeysSpec => AsAtomic
<1>1. KeysInv /\ [KeysNext]_keyVars =>
         [\A p \in Limiters :
             lim[p].pc = "update" /\ lim'[p].pc # "update" => EndsAsAtomic(p)]_keyVars
  <2> SUFFICES ASSUME KeysInv, KeysNext, NEW p \in Limiters,
                      lim[p].pc = "update", lim'[p].pc # "update"
               PROVE  EndsAsAtomic(p)
    OBVIOUS
  <2>1. Limiters = {p} /\ lim' # lim
    BY KeysAssumption
  <2>2. CallOnKey(p)
    BY <2>1 DEF KeysNext, Begin, Tick
  <2>3. ExpireValue(p) \/ OpenToSwap(p)
    BY <2>1, <2>2 DEF CallOnKey, OpenKey, ReadClock, OpenToSet, WriteValue, At, vars
  <2>. QED  BY <2>3, ExpiredInTime, LostInTime
<1>. QED  BY KeysInitially, KeysStep, <1>1, PTL DEF KeysSpec, AsAtomic

\* A command loses a swap to the expiry of its key alone, at most once, and never
\* fails for contention, although its operations take time (store.rs:180-183).
THEOREM CommandsNeverContend ==
    ASSUME MaxCasAttempts >= 1
    PROVE  KeysSpec => []LosesOnlyToExpiry
<1>1. KeysInv => LosesOnlyToExpiry
  BY DEF KeysInv, SecondAttempt, NoContention, LosesOnlyToExpiry
<1>. QED  BY KeysInitially, KeysStep, <1>1, PTL DEF KeysSpec

-----------------------------------------------------------------------------
\* The store is written by two of the calls.
LEMMA OnlyTwoCallsWrite ==
    ASSUME [KeysNext]_keyVars
    PROVE  \/ \E p \in Limiters : WriteValue(p) \/ ExpireValue(p)
           \/ UNCHANGED db
<1>1. \A p \in Limiters, r \in Requests : Begin(p, r) => UNCHANGED db
  BY Zenon DEF Begin
<1>2. \A p \in Limiters :
         OpenKey(p) \/ ReadClock(p) \/ OpenToSwap(p) \/ OpenToSet(p) => UNCHANGED db
  BY Zenon DEF OpenKey, ReadClock, OpenToSwap, OpenToSet, vars
<1>3. Tick => UNCHANGED db
  BY DEF Tick
<1>. QED  BY <1>1, <1>2, <1>3, Zenon DEF KeysNext, CallOnKey, keyVars

\* The expiry is set late, which only keeps a key longer: the value fits it.
LEMMA KeysFitStep ==
    ASSUME InRange, KeysInv, AllFit, [KeysNext]_keyVars
    PROVE  AllFit'
<1>1. ASSUME NEW p \in Limiters, WriteValue(p)
      PROVE  AllFit'
  <2> DEFINE k == KeyOf(p)
             e == Unexpiring(lim[p])
  <2>1. db' = [db EXCEPT ![k] = e] /\ lim[p].pc = "update"
    BY <1>1 DEF WriteValue, At, Unexpiring
  <2>2. db \in [Keys -> Entry] /\ k \in Keys
    BY <2>1, KeysFacts
  <2>3. Fits(e)
    BY DEF Fits, Unexpiring
  <2> HIDE DEF e
  <2>. QED  BY <2>1, <2>2, <2>3 DEF AllFit
<1>2. ASSUME NEW p \in Limiters, ExpireValue(p)
      PROVE  AllFit'
  <2> DEFINE c == lim[p]
             o == Write(AsU64(NewTat(c)), NewTat(c) - c.now, clock)
  <2>1. /\ c.pc = "update" /\ c \in Observation /\ KeyOf(p) \in Keys
        /\ db' = [db EXCEPT ![KeyOf(p)] = o.entry]
    BY <1>2, ExpireValueFacts
  <2>2. /\ db \in [Keys -> Entry] /\ clock \in Nat /\ StoreKind = "redis"
        /\ NewTat(c) \in Int /\ c.now \in Int /\ c.now <= clock
        /\ FirstTick <= c.now /\ ~Limited(c)
    BY <2>1, KeysFacts, OneCommand, DecisionType DEF Observation, KeysInv, Pending, Begun
  <2>3. AsU64(NewTat(c)) = NewTat(c)
    BY <2>1, <2>2, AllowedRange DEF KeysInv
  <2>4. Fits(o.entry)
    BY <2>2, <2>3, WriteFits
  <2> HIDE DEF o
  <2>. QED  BY <2>1, <2>2, <2>4 DEF AllFit
<1>3. UNCHANGED db => AllFit'
  BY DEF AllFit
<1>. QED  BY <1>1, <1>2, <1>3, OnlyTwoCallsWrite

\* What a client is forgiven when its key expires stays below a millisecond when
\* the expiry is set at a later clock than the TTL was computed from
\* (mod.rs:191-192, redis/mod.rs:346-354).
THEOREM KeysForgiveUnderAMillisecond ==
    ASSUME InRange
    PROVE  KeysSpec => []DebtOutlivesKeyBriefly
<1> DEFINE Inv == KeysInv /\ AllFit
<1>1. KeysInit => Inv
  <2>1. KeysInit => AllFit
    BY DEF KeysInit, Init, AllFit, Fits, Absent
  <2>. QED  BY <2>1, KeysInitially
<1>2. Inv /\ [KeysNext]_keyVars => Inv'
  BY KeysStep, KeysFitStep
<1>3. Inv => DebtOutlivesKeyBriefly
  BY FittingDebt DEF KeysInv
<1>. QED  BY <1>1, <1>2, <1>3, PTL DEF KeysSpec

-----------------------------------------------------------------------------
\* The key is as a blocked call read it, until the next call begins.
BlockedStands ==
    \A p \in Limiters :
        Answered(p) /\ reply[p].limited =>
            \E c \in Observation :
                /\ reply[p] = Result(c) /\ Limited(c) /\ Unwritten(c)
                /\ c.now <= clock /\ c.req.key \in Keys

\* No call on a key changes what a blocked call has found until the next begins.
LEMMA BlockedStandsStep ==
    ASSUME KeysInv, BlockedStands, [KeysNext]_keyVars
    PROVE  BlockedStands'
<1> SUFFICES ASSUME NEW p \in Limiters, Answered(p)', reply'[p].limited
             PROVE  \E c \in Observation :
                       /\ reply'[p] = Result(c) /\ Limited(c) /\ Unwritten(c)'
                       /\ c.now <= clock' /\ c.req.key \in Keys
  BY DEF BlockedStands
<1>1. /\ lim \in [Limiters -> Call] /\ reply \in [Limiters -> Reply]
      /\ clock \in Nat /\ Limiters = {p}
      /\ lim'[p].pc = "idle" /\ reply'[p].kind = "ok"
  BY LimiterAssumption DEF KeysInv, TypeOK, Answered
<1>2. ASSUME NEW r \in Requests, Begin(p, r)
      PROVE  FALSE
  <2> DEFINE c == [Idle EXCEPT !.pc = "get", !.req = r]
  <2>1. c.pc = "get"
    BY DEF Idle
  <2> HIDE DEF c
  <2>2. CASE Return(p, Error(c, "zero_rate", 0))
    BY <1>1, <2>2 DEF Return, Error
  <2>3. CASE lim' = [lim EXCEPT ![p] = c]
    BY <1>1, <2>1, <2>3
  <2>. QED  BY <1>2, <2>2, <2>3 DEF Begin, c
<1>3. CASE ReadClock(p)
  <2>. PICK c : c = ReadAt(p)
    OBVIOUS
  <2>1. /\ c \in Observation /\ c.pc = "update" /\ c.now = clock /\ Unwritten(c)
        /\ clock' = clock /\ db' = db
        /\ \/ Limited(c) /\ reply'[p] = Result(c)
           \/ lim'[p] = c
    BY <1>3, ReadClockFacts
  <2>2. Limited(c) /\ reply'[p] = Result(c)
    BY <1>1, <2>1
  <2>3. Unwritten(c)'
    BY <2>1 DEF Unwritten
  <2>4. c.req.key \in Keys
    BY <2>1, LimiterAssumption DEF Observation, Request
  <2>. QED  BY <1>1, <2>1, <2>2, <2>3, <2>4
<1>4. CASE OpenToSwap(p)
  <2>1. \/ lim' = lim /\ lim[p].pc = "update"
        \/ lim'[p] = Idle /\ reply'[p] = Error(lim[p], "contention", 1)
        \/ lim'[p].pc = "get"
    BY <1>4, OpenToSwapFacts
  <2>. QED  BY <1>1, <2>1 DEF Error
<1>5. CASE OpenKey(p) \/ OpenToSet(p) \/ WriteValue(p)
  BY <1>1, <1>5 DEF OpenKey, OpenToSet, WriteValue, At, vars
<1>6. CASE ExpireValue(p)
  <2>1. /\ lim[p].pc = "update"
        /\ reply'[p] \in {Result(lim[p]), Error(lim[p], "store", lim[p].i + 1)}
    BY <1>6, ExpireValueFacts
  <2>2. ~Limited(lim[p])
    BY <2>1 DEF KeysInv, Pending
  <2>. QED  BY <1>1, <2>1, <2>2 DEF Result, Error
<1>7. CASE UNCHANGED <<db, lim, reply>> /\ clock' \in Nat /\ clock <= clock'
  <2>1. PICK c \in Observation :
            /\ reply[p] = Result(c) /\ Limited(c) /\ Unwritten(c)
            /\ c.now <= clock /\ c.req.key \in Keys
    BY <1>7 DEF BlockedStands, Answered
  <2>2. Unwritten(c)' /\ c.now <= clock'
    BY <1>1, <1>7, <2>1 DEF Unwritten, Observation
  <2>. QED  BY <1>7, <2>1, <2>2
<1>8. Tick \/ UNCHANGED keyVars =>
         UNCHANGED <<db, lim, reply>> /\ clock' \in Nat /\ clock <= clock'
  BY <1>1 DEF Tick, keyVars
<1>. QED
  BY <1>1, <1>2, <1>3, <1>4, <1>5, <1>6, <1>7, <1>8 DEF KeysNext, CallOnKey

\* The wait that a blocked client is told is right, although its key was looked up
\* before the clock was read and may have expired in between (store.rs:201-212,
\* mod.rs:178-189).
THEOREM KeysKeepRetryPromise == KeysSpec => []RetryPromise
<1> DEFINE Inv == KeysInv /\ BlockedStands
<1>1. KeysInit => Inv
  <2>1. KeysInit => BlockedStands
    BY DEF KeysInit, Init, BlockedStands, Answered, NoReply
  <2>. QED  BY <2>1, KeysInitially
<1>2. Inv /\ [KeysNext]_keyVars => Inv'
  BY KeysStep, BlockedStandsStep
<1>3. Inv => RetryPromise
  <2> SUFFICES ASSUME Inv, NEW p \in Limiters, Answered(p), reply[p].limited
               PROVE  LET a == reply[p]
                          retryAt == a.now + a.retry_after
                      IN  IF a.retry_after = NoRetry THEN ~Admits(a.req)
                          ELSE /\ clock >= retryAt => Admits(a.req)
                               /\ clock < retryAt /\ KeyLive(a.req) => ~Admits(a.req)
    BY DEF RetryPromise
  <2>1. PICK c \in Observation :
            /\ reply[p] = Result(c) /\ Limited(c) /\ Unwritten(c)
            /\ c.now <= clock /\ c.req.key \in Keys
    BY DEF BlockedStands
  <2>2. /\ reply[p].req = c.req /\ reply[p].now = c.now
        /\ reply[p].retry_after = RetryAfter(c)
    BY <2>1 DEF Result
  <2>. QED  BY <2>1, <2>2, RetryKept DEF KeysInv
<1>. QED  BY <1>1, <1>2, <1>3, PTL DEF KeysSpec
=============================================================================
