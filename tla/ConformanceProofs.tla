-------------------------- MODULE ConformanceProofs --------------------------
(***************************************************************************)
(* The bound of the rate limiter over every window of time, and the leaky  *)
(* buckets it implements, refunds included: with one limiter on Redis, and *)
(* with any number of limiters on a MemoryStore, as long as times fit      *)
(* their integers.                                                         *)
(*                                                                         *)
(* The argument for the bound is that the stored TAT is an account book.   *)
(* Each allowed call raises it by at least its increment and each refund   *)
(* lowers it by no more than what it gives back, it never runs ahead of    *)
(* the clock by more than the tolerance, and when an expired key loses it, *)
(* the clock is at most a millisecond behind it.                           *)
(*                                                                         *)
(* The argument for the buckets: a read changes no bucket.  It is Block    *)
(* for a blocked call, and Look for another.  A look is good as long as    *)
(* the store shows the call the value it has read, which is what the swap  *)
(* asks (LookFacts): the call is Grant if it stores, and Overdraw if its   *)
(* TTL is refused, for then it was negative, and more was taken out than   *)
(* there was.  A write moves the TAT by what it pours and by the time for  *)
(* which the bucket stood empty, and that is what it adds to the look of   *)
(* every other call (WriteDisturbs).  An update that stores nothing is     *)
(* Lose, or GiveUp at the last attempt.  A tick is Pass: the keys that     *)
(* expire in it are the buckets that are forgotten, and it disturbs no     *)
(* other look.                                                             *)
(***************************************************************************)
EXTENDS Conformance, Buckets, AnswerProofs

\* The TAT is ahead of the clock by at most the tolerance of a quota in use.
DebtBounded ==
    \A k \in Keys :
        db[k].tat # None =>
            \E r \in Requests : r.key = k /\ db[k].tat <= clock + Dvt(r)

QuotaInv == BucketInv /\ DebtBounded

-----------------------------------------------------------------------------
\* What the decision to allow a call means for the TAT (mod.rs:153-175).
LEMMA AllowedFacts ==
    ASSUME InRange, BucketInv, NEW p \in Limiters, lim[p].pc = "update"
    PROVE  LET c == lim[p]
               new == NewTat(c)
               inc == Increment(c.req)
           IN  /\ inc \in Int /\ new \in Nat /\ Dvt(c.req) \in Int /\ Tat(c) \in Nat
               /\ new = Later(c.now, Tat(c)) + inc
               /\ new <= c.now + Dvt(c.req)
               /\ inc <= Dvt(c.req)
<1> DEFINE c == lim[p]
<1>1. /\ c \in Observation /\ c.now \in Nat /\ c.now <= clock
      /\ FirstTick <= c.now /\ ~Limited(c) /\ TypeOK
      /\ c.tat_val # None => c.tat_val \in Nat
  BY ReadingFacts DEF BucketInv, HeldInv
<1>2. /\ NewTat(c) \in U64 /\ c.now + Increment(c.req) <= NewTat(c)
      /\ NewTat(c) <= c.now + Dvt(c.req)
  BY <1>1, AllowedRange
<1>3. Increment(c.req) \in Int /\ Dvt(c.req) \in Int /\ Tat(c) \in Nat
  BY <1>1, DecisionType DEF Tat
<1>4. NewTat(c) \in Nat
  BY <1>2, TimeAssumption DEF U64
<1>5. Increment(c.req) <= Dvt(c.req)
  BY <1>1, <1>2, <1>3, <1>4
<1>. QED  BY <1>2, <1>3, <1>4, <1>5 DEF NewTat

\* Every step keeps the debt bounded: an update stores a TAT that the tolerance
\* of its quota allows (mod.rs:168-192).
LEMMA QuotaStep ==
    ASSUME InRange, Sound, QuotaInv, [Next]_vars
    PROVE  QuotaInv'
<1>1. BucketInv'
  BY BucketStep DEF QuotaInv
<1>2. db \in [Keys -> Entry] /\ clock \in Nat
  BY LimiterAssumption DEF QuotaInv, BucketInv, HeldInv, TypeOK
<1>3. ASSUME NEW p \in Limiters, CompareAndSwap(p) \/ SetIfNotExists(p)
      PROVE  DebtBounded'
  <2> DEFINE c == lim[p]
             k == c.req.key
             o == Write(NewTat(c), NewTat(c) - c.now, clock)
  <2>1. /\ clock' = clock /\ c.pc = "update"
        /\ db' = db \/ db' = [db EXCEPT ![k] = o.entry]
    BY <1>3, UpdateEffect DEF QuotaInv, BucketInv
  <2>2. CASE db' = db
    BY <2>1, <2>2 DEF QuotaInv, DebtBounded
  <2>3. CASE db' = [db EXCEPT ![k] = o.entry]
    <3>1. /\ c.req \in Requests /\ k \in Keys
          /\ c.now \in Nat /\ clock \in Nat /\ c.now <= clock
      BY <2>1, ReadingFacts DEF QuotaInv
    <3>2. /\ NewTat(c) \in Nat /\ Dvt(c.req) \in Int
          /\ NewTat(c) <= c.now + Dvt(c.req)
      BY <2>1, AllowedFacts DEF QuotaInv
    <3>3. NewTat(c) <= clock + Dvt(c.req)
      BY <3>1, <3>2
    <3>4. o.entry.tat = NewTat(c)
      BY WrittenTat
    <3> HIDE DEF o
    <3>5. db'[k].tat = NewTat(c) /\ \A j \in Keys \ {k} : db'[j] = db[j]
      BY <1>2, <2>3, <3>1, <3>4
    <3>. QED  BY <2>1, <3>1, <3>3, <3>5 DEF QuotaInv, DebtBounded
  <2>. QED  BY <2>1, <2>2, <2>3
<1>4. CASE UNCHANGED db /\ clock' \in Nat /\ clock' >= clock
  <2>1. ASSUME NEW k \in Keys, db[k].tat # None
        PROVE  \E r \in Requests : r.key = k /\ db[k].tat <= clock' + Dvt(r)
    <3>1. PICK r \in Requests : r.key = k /\ db[k].tat <= clock + Dvt(r)
      BY <2>1 DEF QuotaInv, DebtBounded
    <3>2. db[k].tat \in Int /\ Dvt(r) \in Int
      BY <1>2, <2>1, DvtType, TimeAssumption DEF Entry, U64
    <3>. QED  BY <1>2, <1>4, <3>1, <3>2
  <2>2. DebtBounded'
    BY <1>4, <2>1 DEF DebtBounded
  <2>. QED  BY <1>1, <2>2 DEF QuotaInv
<1>5. \/ \E p \in Limiters : CompareAndSwap(p) \/ SetIfNotExists(p)
      \/ UNCHANGED db /\ clock' \in Nat /\ clock' >= clock
  BY <1>2, OnlyUpdatesWrite
<1>. QED  BY <1>1, <1>3, <1>4, <1>5 DEF QuotaInv

\* Nothing is stored at first.
LEMMA QuotaInit == Init => QuotaInv
BY BucketInit DEF Init, Absent, QuotaInv, DebtBounded

-----------------------------------------------------------------------------
(* The window.                                                             *)

AuditTypeOK ==
    /\ start \in [Keys -> Nat] /\ used \in [Keys -> Nat] /\ resets \in [Keys -> Nat]
    /\ \A k \in Keys : start[k] <= clock

\* The TAT of a key, counted from the opening of the window if it is earlier.
Booked(k) == IF db[k].tat = None THEN start[k] ELSE Later(start[k], db[k].tat)

\* What was taken in the window and not given back is on the books, short of what
\* expired keys forgot.
OnTheBooks ==
    \A k \in Keys : used[k] + start[k] <= Booked(k) + resets[k] * (Ms - 1)

\* Nothing can be taken with quotas whose tolerance is negative.
Tolerated ==
    \A k \in Keys :
        used[k] > 0 => \E r \in Requests : r.key = k /\ Dvt(r) >= 0

\* On Redis, a window opened after a call's read sees nothing before that call.
OpenedMeanwhile ==
    StoreKind # "memory" =>
        \A p \in Limiters :
            lim[p].pc = "update" /\ lim[p].now < start[lim[p].req.key] =>
                used[lim[p].req.key] = 0

NothingForgotten == StoreKind = "memory" => \A k \in Keys : resets[k] = 0

AuditInv ==
    /\ QuotaInv
    /\ AuditTypeOK /\ OnTheBooks /\ Tolerated /\ OpenedMeanwhile /\ NothingForgotten

\* The auditor only watches.
LEMMA AuditWatches == [AuditNext]_allVars => [Next]_vars
BY Zenon DEF AuditNext, allVars, vars, Next, Step, Update, OpenWindow

\* What the books say of a key that a call is about to write: what the call read,
\* or the TAT of an expired key, which was less than a millisecond ahead.
LEMMA BookedFacts ==
    ASSUME AuditInv, NEW p \in Limiters, lim[p].pc = "update",
           LET c == lim[p]
               e == db[c.req.key]
           IN  IF c.tat_val = None THEN ~IsLive(e, clock)
               ELSE IsLive(e, clock) /\ e.tat = c.tat_val
    PROVE  LET c == lim[p]
               k == c.req.key
               f == IF Forgiven(c) THEN Ms - 1 ELSE 0
           IN  /\ Booked(k) <= Later(start[k], Tat(c)) + f
               /\ c.now < start[k] => used[k] = 0 \/ f = 0
               /\ Forgiven(c) => StoreKind # "memory"
<1> DEFINE c == lim[p]
           k == c.req.key
           e == db[k]
<1>1. /\ c.req \in Requests /\ k \in Keys /\ c.now \in Nat /\ clock \in Nat
      /\ c.now <= clock /\ e \in Entry
  BY ReadingFacts DEF AuditInv, QuotaInv
<1>2. start[k] \in Nat /\ used[k] \in Nat /\ Ms \in Nat \ {0}
  BY <1>1, TimeAssumption DEF AuditInv, AuditTypeOK
<1>3. CASE c.tat_val # None
  <2>1. e.tat = c.tat_val /\ Tat(c) = e.tat /\ ~Forgiven(c) /\ e.tat \in Int
    <3>1. e.tat = c.tat_val /\ Tat(c) = e.tat /\ ~Forgiven(c)
      BY <1>3 DEF Forgiven, Tat
    <3>. QED  BY <1>1, <1>3, <3>1, TimeAssumption DEF Entry, U64
  <2>2. Booked(k) = Later(start[k], Tat(c)) /\ Later(start[k], Tat(c)) \in Int
    BY <1>2, <1>3, <2>1 DEF Booked, Later
  <2> HIDE DEF c, k
  <2>. QED  BY <2>1, <2>2 DEF c, k
<1>4. CASE c.tat_val = None /\ e.tat = None
  <2>1. ~Forgiven(c) /\ Booked(k) = start[k] /\ Tat(c) = c.now
    BY <1>4 DEF Forgiven, Booked, Tat
  <2>. QED  BY <1>1, <1>2, <2>1 DEF Later
<1>5. CASE c.tat_val = None /\ e.tat # None
  <2>1. StoreKind # "memory" /\ ~IsLive(e, clock)
    BY <1>1, <1>5 DEF AuditInv, QuotaInv, BucketInv, HeldInv, MemoryKeeps, IsLive
  <2>2. ~IsLive(e, c.now)
    BY <1>5, <2>1 DEF AuditInv, QuotaInv, BucketInv, HeldInv, ReadHolds, AsRead
  <2>3. e.tat \in Nat /\ e.tat - c.now <= Ms - 2
    <3>1. Fits(e)
      BY <1>1 DEF AuditInv, QuotaInv, BucketInv, AllFit
    <3>. QED  BY <1>1, <1>5, <2>2, <3>1, DebtAtExpiry
  <2>4. /\ Forgiven(c) <=> e.tat > c.now
        /\ Booked(k) = Later(start[k], e.tat) /\ Tat(c) = c.now
    BY <1>5 DEF Forgiven, Booked, Tat
  <2>5. c.now < start[k] => used[k] = 0
    BY <2>1 DEF AuditInv, OpenedMeanwhile
  <2> HIDE DEF c, k, e
  <2>6. Later(start[k], e.tat) <=
           Later(start[k], c.now) + (IF e.tat > c.now THEN Ms - 1 ELSE 0)
    BY <1>1, <1>2, <2>3 DEF Later
  <2>. QED  BY <2>1, <2>4, <2>5, <2>6 DEF c, k, e
<1>. QED  BY <1>3, <1>4, <1>5

\* An update that is accounted for keeps the account: what it adds to used it
\* adds to the TAT, or it starts from a missing key and is counted in resets.
LEMMA AccountStep ==
    ASSUME InRange, Sound, AuditInv, QuotaInv', NEW p \in Limiters,
           Update(p), Account(p)
    PROVE  AuditInv'
<1>0. lim[p].pc = "update"
  BY DEF Update, CompareAndSwap, SetIfNotExists
<1>. PICK k \in Keys : k = lim[p].req.key
  BY <1>0, ReadingFacts DEF AuditInv, QuotaInv
<1> DEFINE c == lim[p]
           inc == Increment(c.req)
           new == NewTat(c)
           o == Write(new, new - c.now, clock)
           f == IF Forgiven(c) THEN Ms - 1 ELSE 0
           lost == resets[k] * (Ms - 1)
<1>1. BucketInv /\ HeldInv /\ TypeOK /\ db \in [Keys -> Entry] /\ AuditTypeOK
  BY DEF AuditInv, QuotaInv, BucketInv, HeldInv, TypeOK
<1>2. /\ c.pc = "update" /\ clock' = clock
      /\ \/ /\ db' = [db EXCEPT ![k] = o.entry]
            /\ IF c.tat_val = None THEN ~IsLive(db[k], clock)
               ELSE IsLive(db[k], clock) /\ db[k].tat = c.tat_val
         \/ /\ db' = db
            /\ reply'[p] \in {Error(c, "contention", c.i + 1), NoReply}
  BY <1>1, UpdateEffect DEF Update
<1>3. /\ c.req \in Requests /\ k \in Keys /\ c.now \in Nat /\ clock \in Nat
      /\ inc \in Int /\ new \in Nat /\ Tat(c) \in Nat /\ Dvt(c.req) \in Int
      /\ new = Later(c.now, Tat(c)) + inc /\ inc <= Dvt(c.req)
  BY <1>1, <1>2, ReadingFacts, AllowedFacts
<1>4. /\ used[k] \in Nat /\ start[k] \in Nat /\ resets[k] \in Nat
      /\ Ms - 1 \in Nat /\ lost \in Nat /\ f \in Nat
      /\ (resets[k] + 1) * (Ms - 1) = lost + (Ms - 1)
  <2>1. /\ used[k] \in Nat /\ start[k] \in Nat /\ resets[k] \in Nat /\ Ms - 1 \in Nat
    BY <1>1, <1>3, TimeAssumption DEF AuditTypeOK
  <2>. QED  BY <2>1, SMT
<1>5. OpenedMeanwhile'
  <2>1. PICK outcome \in Outcomes : Conclude(p, outcome)
    BY <1>1, UpdateFacts DEF Update
  <2>2. lim'[p] = Idle \/ lim'[p].pc = "get"
    BY <1>1, <1>2, <2>1, ConcludeFacts
  <2>3. lim'[p].pc # "update"
    BY <2>2 DEF Idle
  <2>4. StoreKind # "memory" => Alone
    BY DEF Sound
  <2>. QED  BY <2>3, <2>4 DEF OpenedMeanwhile, Alone
<1>6. CASE Stored(p)
  <2>1. /\ db' = [db EXCEPT ![k] = o.entry]
        /\ IF c.tat_val = None THEN ~IsLive(db[k], clock)
           ELSE IsLive(db[k], clock) /\ db[k].tat = c.tat_val
    <3>1. Error(c, "contention", c.i + 1).kind # "ok" /\ NoReply.kind # "ok"
      BY DEF Error, NoReply
    <3>. QED  BY <1>2, <1>6, <3>1 DEF Stored
  <2>2. /\ Booked(k) <= Later(start[k], Tat(c)) + f
        /\ c.now < start[k] => used[k] = 0 \/ f = 0
        /\ Forgiven(c) => StoreKind # "memory"
    BY <1>2, <2>1, BookedFacts
  <2>3. used[k] + start[k] <= Booked(k) + lost
    BY <1>3 DEF AuditInv, OnTheBooks
  <2>4. Booked(k) \in Int /\ Later(start[k], Tat(c)) \in Int
    <3>1. db[k].tat # None => db[k].tat \in Int
      BY <1>1, <1>3, TimeAssumption DEF Entry, U64
    <3>. QED  BY <1>3, <1>4, <3>1 DEF Booked, Later
  <2>5. /\ c.now >= start[k] \/ inc < 0 =>
              Later(0, used[k] + inc) + start[k] <= Later(start[k], new) + lost + f
        /\ c.now < start[k] /\ inc >= 0 =>
              used[k] + start[k] <= Later(start[k], new) + lost
    <3> HIDE DEF c, inc, new, o, f, lost
    <3>1. used[k] + start[k] <= Later(start[k], Tat(c)) + lost + f
      BY <1>4, <2>2, <2>3, <2>4
    <3>. QED  BY <1>3, <1>4, <2>2, <3>1 DEF Later
  <2>6. /\ db'[k].tat = new /\ new # None
        /\ \A j \in Keys \ {k} : db'[j] = db[j]
    <3>1. o.entry.tat = new
      BY WrittenTat
    <3> HIDE DEF o
    <3>. QED  BY <1>1, <1>3, <2>1, <3>1, StoreAssumption
  <2>7. CASE InWindow(c)
    <3>1. /\ used' = [used EXCEPT ![k] = Later(0, used[k] + inc)]
          /\ resets' = [resets EXCEPT ![k] =
                           resets[k] + (IF Forgiven(c) THEN 1 ELSE 0)]
          /\ start' = start
      BY <1>6, <2>7 DEF Account
    <3>2. /\ used'[k] = Later(0, used[k] + inc) /\ start'[k] = start[k]
          /\ resets'[k] = resets[k] + (IF Forgiven(c) THEN 1 ELSE 0)
          /\ \A j \in Keys \ {k} : used'[j] = used[j] /\ resets'[j] = resets[j]
      BY <1>1, <1>3, <3>1 DEF AuditTypeOK
    <3>3. /\ Later(0, used[k] + inc) \in Nat
          /\ resets[k] + (IF Forgiven(c) THEN 1 ELSE 0) \in Nat
      <4>1. Later(0, used[k] + inc) \in Nat
        <5> HIDE DEF c, inc
        <5>. QED  BY <1>3, <1>4 DEF Later
      <4>2. resets[k] \in Nat /\ resets[k] + 1 \in Nat /\ resets[k] + 0 \in Nat
        BY <1>1 DEF AuditTypeOK
      <4>3. resets[k] + (IF Forgiven(c) THEN 1 ELSE 0) \in {resets[k] + 1, resets[k] + 0}
        BY Zenon
      <4>. QED  BY <4>1, <4>2, <4>3
    <3>4. AuditTypeOK'
      BY <1>1, <1>2, <1>3, <1>4, <3>1, <3>3 DEF AuditTypeOK
    <3>5. resets'[k] * (Ms - 1) = lost + f
      <4>1. CASE Forgiven(c)
        BY <1>4, <3>2, <4>1
      <4>2. CASE ~Forgiven(c)
        BY <1>4, <3>2, <4>2
      <4>. QED  BY <4>1, <4>2
    <3>6. used'[k] + start'[k] <= Booked(k)' + resets'[k] * (Ms - 1)
      <4>1. Booked(k)' = Later(start[k], new)
        BY <2>6, <3>2 DEF Booked
      <4>2. Later(start[k], new) \in Int
        BY <1>3, <1>4 DEF Later
      <4>3. Later(0, used[k] + inc) + start[k] <= Later(start[k], new) + lost + f
        BY <2>5, <2>7 DEF InWindow
      <4> HIDE DEF c, inc, new, f, lost
      <4>. QED  BY <1>4, <3>2, <3>3, <3>5, <4>1, <4>2, <4>3
    <3>7. OnTheBooks'
      <4>1. \A j \in Keys \ {k} : Booked(j)' = Booked(j) /\ start'[j] = start[j]
        BY <2>6, <3>1 DEF Booked
      <4>. QED  BY <3>2, <3>6, <4>1 DEF AuditInv, OnTheBooks
    <3>8. Tolerated'
      <4>1. ASSUME used'[k] > 0 PROVE \E r \in Requests : r.key = k /\ Dvt(r) >= 0
        <5>1. CASE inc > 0
          BY <1>3, <5>1
        <5>2. CASE ~(inc > 0)
          <6>1. used[k] > 0
            BY <1>3, <1>4, <3>2, <4>1, <5>2 DEF Later
          <6>. QED  BY <1>3, <6>1 DEF AuditInv, Tolerated
        <5>. QED  BY <5>1, <5>2
      <4>. QED  BY <3>2, <4>1 DEF AuditInv, Tolerated
    <3>9. NothingForgotten'
      BY <1>3, <1>4, <2>2, <3>2 DEF AuditInv, NothingForgotten
    <3>. QED  BY <1>5, <3>4, <3>7, <3>8, <3>9 DEF AuditInv
  <2>8. CASE ~InWindow(c)
    <3>1. used' = used /\ resets' = resets /\ start' = start
      BY <2>8 DEF Account, audit
    <3>2. c.now < start[k] /\ inc >= 0
      BY <1>3, <1>4, <2>8 DEF InWindow
    <3>3. OnTheBooks'
      <4>1. Booked(k)' = Later(start[k], new)
        BY <2>6, <3>1 DEF Booked
      <4>2. \A j \in Keys \ {k} : Booked(j)' = Booked(j)
        BY <2>6, <3>1 DEF Booked
      <4>. QED  BY <2>5, <3>1, <3>2, <4>1, <4>2 DEF AuditInv, OnTheBooks
    <3>. QED
      BY <1>2, <1>5, <3>1, <3>3
         DEF AuditInv, AuditTypeOK, Tolerated, NothingForgotten
  <2>. QED  BY <2>7, <2>8
<1>7. CASE ~Stored(p)
  <2>1. used' = used /\ resets' = resets /\ start' = start
    BY <1>7 DEF Account, audit
  <2>2. db'[k].tat = db[k].tat
    BY <1>7 DEF Stored
  <2>3. \A j \in Keys : db'[j].tat = db[j].tat
    <3> HIDE DEF o
    <3>. QED  BY <1>1, <1>2, <2>2
  <2>4. \A j \in Keys : Booked(j)' = Booked(j)
    BY <2>1, <2>3 DEF Booked
  <2>. QED
    BY <1>2, <1>5, <2>1, <2>4
       DEF AuditInv, AuditTypeOK, OnTheBooks, Tolerated, NothingForgotten
<1>. QED  BY <1>6, <1>7

\* Every step of the audited limiter keeps AuditInv.
LEMMA AuditStep ==
    ASSUME InRange, Sound, AuditInv, [AuditNext]_allVars
    PROVE  AuditInv'
<1>1. QuotaInv'
  BY AuditWatches, QuotaStep DEF AuditInv
<1>2. /\ AuditTypeOK /\ clock \in Nat /\ lim \in [Limiters -> Call]
      /\ db \in [Keys -> Entry]
  BY LimiterAssumption DEF AuditInv, QuotaInv, BucketInv, HeldInv, TypeOK
<1>3. ASSUME NEW p \in Limiters, Update(p), Account(p)
      PROVE  AuditInv'
  BY <1>1, <1>3, AccountStep
<1>4. ASSUME NEW p \in Limiters, NEW r \in Requests, Begin(p, r), UNCHANGED audit
      PROVE  AuditInv'
  <2>1. [Idle EXCEPT !.pc = "get", !.req = r].pc # "update" /\ Idle.pc # "update"
    BY DEF Idle
  <2>2. /\ \A q \in Limiters \ {p} : lim'[q] = lim[q]
        /\ lim'[p].pc # "update"
    BY <1>2, <1>4, <2>1 DEF Begin, Return
  <2>3. UNCHANGED <<clock, db>>
    BY <1>4, Zenon DEF Begin
  <2>4. OpenedMeanwhile'
    BY <1>4, <2>2 DEF AuditInv, OpenedMeanwhile, audit
  <2>. QED
    BY <1>1, <1>4, <2>3, <2>4
       DEF AuditInv, AuditTypeOK, OnTheBooks, Booked, Tolerated, NothingForgotten, audit
<1>5. ASSUME NEW p \in Limiters, GetWithTime(p), UNCHANGED audit
      PROVE  AuditInv'
  <2>1. /\ \A q \in Limiters \ {p} : lim'[q] = lim[q]
        /\ lim'[p] \in {Observed(p), Idle}
        /\ UNCHANGED <<clock, db>>
    BY <1>2, <1>5 DEF GetWithTime, Decide, Return
  <2>2. Observed(p).now = clock /\ Observed(p).req = lim[p].req
    BY <1>5, ReadFacts DEF GetWithTime, Decide, AuditInv, QuotaInv, BucketInv, HeldInv
  <2>3. lim[p].req.key \in Keys
    BY <1>5, ActiveType DEF GetWithTime, Decide, AuditInv, QuotaInv, BucketInv, HeldInv
  <2>4. ~(Observed(p).now < start[lim[p].req.key])
    BY <1>2, <2>2, <2>3 DEF AuditTypeOK
  <2>5. OpenedMeanwhile'
    BY <1>5, <2>1, <2>2, <2>4 DEF AuditInv, OpenedMeanwhile, audit, Idle
  <2>. QED
    BY <1>1, <1>5, <2>1, <2>5
       DEF AuditInv, AuditTypeOK, OnTheBooks, Booked, Tolerated, NothingForgotten, audit
<1>6. ASSUME Tick, UNCHANGED audit
      PROVE  AuditInv'
  <2>1. AuditTypeOK'
    BY <1>2, <1>6 DEF Tick, audit, AuditTypeOK
  <2>. QED
    BY <1>1, <1>6, <2>1
       DEF Tick, audit, AuditInv, OnTheBooks, Booked, Tolerated, OpenedMeanwhile,
         NothingForgotten
<1>7. ASSUME NEW k \in Keys, OpenWindow(k)
      PROVE  AuditInv'
  <2>1. /\ UNCHANGED <<clock, db, lim>>
        /\ start' = [start EXCEPT ![k] = clock]
        /\ used' = [used EXCEPT ![k] = 0]
        /\ resets' = [resets EXCEPT ![k] = 0]
    BY <1>7 DEF OpenWindow, vars
  <2>2. /\ used'[k] = 0 /\ resets'[k] = 0
        /\ \A j \in Keys \ {k} : /\ start'[j] = start[j] /\ used'[j] = used[j]
                                 /\ resets'[j] = resets[j]
    BY <1>2, <2>1 DEF AuditTypeOK
  <2>3. AuditTypeOK'
    BY <1>2, <2>1 DEF AuditTypeOK
  <2>4. OnTheBooks'
    <3>1. \A j \in Keys \ {k} : Booked(j)' = Booked(j)
      BY <2>1, <2>2 DEF Booked
    <3>2. db[k].tat # None => db[k].tat \in Int
      BY <1>2, TimeAssumption DEF Entry, U64
    <3>3. clock <= Booked(k)' /\ Booked(k)' \in Int /\ start'[k] = clock
      <4>1. start'[k] = clock
        BY <1>2, <2>1 DEF AuditTypeOK
      <4>2. Booked(k)' = IF db[k].tat = None THEN clock ELSE Later(clock, db[k].tat)
        BY <2>1, <4>1 DEF Booked
      <4>. QED  BY <1>2, <3>2, <4>1, <4>2 DEF Later
    <3>4. used'[k] + start'[k] <= Booked(k)' + resets'[k] * (Ms - 1)
      <4>1. resets'[k] * (Ms - 1) = 0
        BY <2>2, TimeAssumption
      <4>. QED  BY <1>2, <2>2, <3>3, <4>1
    <3>. QED  BY <2>2, <3>1, <3>4 DEF AuditInv, OnTheBooks
  <2>5. OpenedMeanwhile'
    <3>1. ASSUME NEW p \in Limiters, lim[p].pc = "update"
          PROVE  lim[p].req.key \in Keys
      BY <3>1, ActiveType DEF AuditInv, QuotaInv, BucketInv, HeldInv
    <3>. QED  BY <2>1, <2>2, <3>1 DEF AuditInv, OpenedMeanwhile
  <2>6. NothingForgotten' /\ Tolerated'
    BY <2>2 DEF AuditInv, NothingForgotten, Tolerated
  <2>. QED  BY <1>1, <2>3, <2>4, <2>5, <2>6 DEF AuditInv
<1>8. CASE UNCHANGED allVars
  BY <1>1, <1>8
     DEF allVars, AuditInv, AuditTypeOK, OnTheBooks, Booked, Tolerated, OpenedMeanwhile,
         NothingForgotten
<1>. QED  BY <1>3, <1>4, <1>5, <1>6, <1>7, <1>8, Zenon DEF AuditNext

\* Nothing is used at first.
LEMMA AuditInitial == AuditInit => AuditInv
<1> SUFFICES ASSUME AuditInit PROVE AuditInv
  OBVIOUS
<1>1. Init /\ QuotaInv
  BY QuotaInit DEF AuditInit
<1>2. clock \in Nat
  BY LimiterAssumption DEF Init, AuditInit
<1>3. \A k \in Keys : start[k] = clock /\ used[k] = 0 /\ resets[k] = 0
  BY DEF AuditInit
<1>4. AuditTypeOK
  BY <1>2, <1>3 DEF AuditInit, AuditTypeOK
<1>5. OpenedMeanwhile
  BY <1>1 DEF Init, Idle, OpenedMeanwhile
<1>6. OnTheBooks
  BY <1>1, <1>2, <1>3, TimeAssumption DEF Init, Absent, OnTheBooks, Booked
<1>. QED
  BY <1>1, <1>3, <1>4, <1>5, <1>6 DEF AuditInv, Tolerated, NothingForgotten

\* What is on the books is within the bound.
LEMMA BooksBound ==
    ASSUME AuditInv, NEW k \in Keys, used[k] > 0
    PROVE  \E r \in Requests :
              /\ r.key = k
              /\ used[k] <= Dvt(r) + (clock - start[k]) + resets[k] * (Ms - 1)
<1> DEFINE lost == resets[k] * (Ms - 1)
<1>1. used[k] + start[k] <= Booked(k) + lost
  BY DEF AuditInv, OnTheBooks
<1>2. /\ used[k] \in Nat /\ start[k] \in Nat /\ clock \in Nat /\ start[k] <= clock
      /\ db[k].tat # None => db[k].tat \in Int
      /\ lost \in Int
  <2>1. /\ used[k] \in Nat /\ start[k] \in Nat /\ resets[k] \in Nat /\ clock \in Nat
        /\ start[k] <= clock /\ db[k] \in Entry
    BY LimiterAssumption
       DEF AuditInv, AuditTypeOK, QuotaInv, BucketInv, HeldInv, TypeOK
  <2>2. lost \in Int
    BY <2>1, TimeAssumption, SMT
  <2>. QED  BY <2>1, <2>2, TimeAssumption DEF Entry, U64
<1> HIDE DEF lost
<1>3. CASE db[k].tat # None /\ db[k].tat > start[k]
  <2>1. PICK r \in Requests : r.key = k /\ db[k].tat <= clock + Dvt(r)
    BY <1>3 DEF AuditInv, QuotaInv, DebtBounded
  <2>2. Dvt(r) \in Int
    BY DvtType
  <2>3. Booked(k) = db[k].tat
    BY <1>2, <1>3 DEF Booked, Later
  <2>4. used[k] <= Dvt(r) + (clock - start[k]) + lost
    BY <1>1, <1>2, <1>3, <2>1, <2>2, <2>3
  <2>. QED  BY <2>1, <2>4 DEF lost
<1>4. CASE ~(db[k].tat # None /\ db[k].tat > start[k])
  <2>1. PICK r \in Requests : r.key = k /\ Dvt(r) >= 0
    BY DEF AuditInv, Tolerated
  <2>2. Dvt(r) \in Int
    BY DvtType
  <2>3. Booked(k) = start[k]
    BY <1>2, <1>4 DEF Booked, Later
  <2>4. used[k] <= Dvt(r) + (clock - start[k]) + lost
    BY <1>1, <1>2, <2>1, <2>2, <2>3
  <2>. QED  BY <2>1, <2>4 DEF lost
<1>. QED  BY <1>3, <1>4

-----------------------------------------------------------------------------
\* In every window on a key what calls take and do not give back amounts to at most
\* the burst of a quota in use, plus the time, plus less than a millisecond for each
\* time the key expired before its TAT (mod.rs:97-237, store.rs:109-234, redis/mod.rs:346-354).
THEOREM BoundHolds ==
    ASSUME InRange, Sound
    PROVE  AuditSpec => []WindowBound
<1>1. AuditInv => WindowBound
  BY BooksBound DEF WindowBound
<1>. QED  BY AuditInitial, AuditStep, <1>1, PTL DEF AuditSpec

\* Any number of limiters on a MemoryStore together keep the bound exactly.
THEOREM SharedBoundHolds ==
    ASSUME InRange, StoreKind = "memory"
    PROVE  AuditSpec => []ExactWindowBound
<1>1. Sound
  BY DEF Sound
<1>2. AuditInv => ExactWindowBound
  <2> SUFFICES ASSUME AuditInv, NEW k \in Keys, used[k] > 0
               PROVE  \E r \in Requests :
                         r.key = k /\ used[k] <= Dvt(r) + (clock - start[k])
    BY DEF ExactWindowBound
  <2>1. PICK r \in Requests :
           /\ r.key = k
           /\ used[k] <= Dvt(r) + (clock - start[k]) + resets[k] * (Ms - 1)
    BY BooksBound
  <2>2. resets[k] * (Ms - 1) = 0
    <3>1. resets[k] = 0
      BY DEF AuditInv, NothingForgotten
    <3>. QED  BY <3>1, TimeAssumption
  <2>3. start[k] \in Nat /\ clock \in Nat /\ Dvt(r) \in Int
    BY DvtType, LimiterAssumption DEF AuditInv, AuditTypeOK, QuotaInv, BucketInv,
           HeldInv, TypeOK
  <2>. QED  BY <2>1, <2>2, <2>3
<1>. QED  BY <1>1, <1>2, AuditInitial, AuditStep, PTL DEF AuditSpec

-----------------------------------------------------------------------------
(* The leaky buckets.                                                      *)

Max0(x) == IF x > 0 THEN x ELSE 0

\* The refinement mapping (Buckets), by name.
Levels == [k \in Keys |-> Level(k)]
Stages == [p \in Limiters |-> Stage(p)]
Verdicts == [p \in Limiters |-> Verdict(reply[p])]

-----------------------------------------------------------------------------
\* What an entry owes is a natural number, and nothing once it has expired.
LEMMA OwedFacts ==
    ASSUME NEW e \in Entry, NEW t \in Nat
    PROVE  /\ Owed(e, t) \in Nat
           /\ ~IsLive(e, t) => Owed(e, t) = 0
           /\ IsLive(e, t) => e.tat \in Nat /\ Owed(e, t) = Max0(e.tat - t)
<1>1. e.tat \in U64 \cup {None} /\ (e.tat # None => e.tat \in Nat)
  BY TimeAssumption DEF Entry, U64
<1>2. CASE ~IsLive(e, t)
  BY <1>2 DEF Visible, Owed
<1>3. CASE IsLive(e, t)
  <2>1. e.tat \in Nat /\ e.tat # None /\ Visible(e, t) = e.tat
    BY <1>1, <1>3 DEF IsLive, Visible
  <2>. QED  BY <1>3, <2>1 DEF Owed, Max0
<1>. QED  BY <1>2, <1>3

\* Where each call stands (Progress of Buckets).
LEMMA StageFacts ==
    ASSUME NEW p \in Limiters
    PROVE  LET c == lim[p]
               tat == Visible(db[c.req.key], clock)
           IN  /\ c.pc = "idle" => Stage(p) = Bucket!Resting
               /\ c.pc = "get" => Stage(p) = Bucket!Begun(Pouring(c.req), c.i)
               /\ c.pc = "update" =>
                     Stage(p) =
                         IF (c.tat_val = None) # (tat = None)
                         THEN Bucket!Beaten(Pouring(c.req), c.i)
                         ELSE Bucket!Looked(Pouring(c.req), c.i, c.now,
                                            Later(c.now, Tat(c)) - c.now,
                                            IF tat = None THEN 0 ELSE tat - c.tat_val)
BY DEF Stage, Progress, Bucket!Resting, Bucket!Begun, Bucket!Beaten, Bucket!Looked

\* A step of p that leaves the store and the clock alone moves p alone.
LEMMA OneMoves ==
    ASSUME NEW p \in Limiters, \A q \in Limiters \ {p} : lim'[q] = lim[q],
           db' = db, clock' = clock
    PROVE  Levels' = Levels /\ Stages' = [Stages EXCEPT ![p] = Stage(p)']
<1>1. \A k \in Keys : Level(k)' = Level(k)
  BY DEF Level
<1>2. \A q \in Limiters \ {p} : Stage(q)' = Stage(q)
  BY DEF Stage
<1>. QED  BY <1>1, <1>2 DEF Levels, Stages

\* A caller that is told something.
LEMMA Retold ==
    ASSUME NEW p \in Limiters, \A q \in Limiters \ {p} : reply'[q] = reply[q]
    PROVE  Verdicts' = [Verdicts EXCEPT ![p] = Verdict(reply'[p])]
BY DEF Verdicts

\* What a request asks of its bucket is among the calls of the abstraction.
LEMMA PouringFacts ==
    ASSUME NEW r \in Requests
    PROVE  /\ Pouring(r) \in {Pouring(q) : q \in Requests}
           /\ Pouring(r).key = r.key /\ Pouring(r).key \in Keys
           /\ Pouring(r).capacity = Dvt(r) /\ Pouring(r).amount = Increment(r)
BY LimiterAssumption DEF Pouring, Request

-----------------------------------------------------------------------------
\* A call begins, or is refused for its zero rate (mod.rs:97-116).
LEMMA BeginStep ==
    ASSUME TypeOK, NEW p \in Limiters, NEW r \in Requests, Begin(p, r)
    PROVE  Bucket!Begin(p, Pouring(r)) \/ Bucket!TurnDown(p, Pouring(r))
<1> DEFINE c == [Idle EXCEPT !.pc = "get", !.req = r]
<1>1. db' = db /\ clock' = clock /\ lim[p].pc = "idle"
  BY DEF Begin
<1>2. c.pc = "get" /\ c.req = r /\ c.i = 0 /\ Idle.pc = "idle"
  BY DEF Idle
<1>3. Stages[p] = Bucket!Resting
  BY <1>1, StageFacts DEF Stages
<1>4. CASE r.period = 0 /\ Return(p, Error(c, "zero_rate", 0))
  <2>1. /\ \A q \in Limiters \ {p} : reply'[q] = reply[q] /\ lim'[q] = lim[q]
        /\ reply'[p] = Error(c, "zero_rate", 0) /\ lim'[p] = Idle
    BY <1>4 DEF Return, TypeOK
  <2>2. Verdict(reply'[p]) = [verdict |-> "failed", call |-> Pouring(r)]
    BY <1>2, <2>1 DEF Verdict, Error
  <2>3. Stage(p)' = Bucket!Resting
    BY <1>2, <2>1 DEF Stage, Progress, Bucket!Resting
  <2>4. Levels' = Levels /\ Stages' = Stages
    BY <1>1, <1>3, <2>1, <2>3, OneMoves DEF Stages
  <2>5. Pouring(r).capacity = 0 /\ Pouring(r).amount = 0
    <3>1. Limit(r) \in Int /\ r.quantity \in Int
      BY LimiterAssumption, TimeAssumption, AsI64Type DEF Limit, Request, I64
    <3>2. r.period * Limit(r) = 0 /\ r.period * r.quantity = 0
      BY <1>4, <3>1, SMT
    <3>. QED
      BY <3>2, TimeAssumption, PouringFacts DEF Dvt, Increment, AsI64, I64
  <2>. QED
    BY <1>1, <1>3, <2>1, <2>2, <2>4, <2>5, Retold
       DEF Bucket!TurnDown, Bucket!Tell, Levels, Stages, Verdicts
<1>5. CASE lim' = [lim EXCEPT ![p] = c] /\ reply' = [reply EXCEPT ![p] = NoReply]
  <2>1. /\ \A q \in Limiters \ {p} : reply'[q] = reply[q] /\ lim'[q] = lim[q]
        /\ reply'[p] = NoReply /\ lim'[p] = c
    <3> HIDE DEF c
    <3>. QED  BY <1>5 DEF TypeOK
  <2>2. Verdict(reply'[p]) = [verdict |-> "none"]
    BY <2>1 DEF Verdict, NoReply
  <2>3. Stage(p)' = Bucket!Begun(Pouring(r), 0)
    <3> HIDE DEF c
    <3>. QED  BY <1>2, <2>1 DEF Stage, Progress, Bucket!Begun
  <2>4. Levels' = Levels /\ Stages' = [Stages EXCEPT ![p] = Bucket!Begun(Pouring(r), 0)]
    BY <1>1, <2>1, <2>3, OneMoves
  <2>. QED
    BY <1>1, <1>3, <2>1, <2>2, <2>4, Retold
       DEF Bucket!Begin, Bucket!Moves, Bucket!Nothing, Levels, Stages, Verdicts
<1>. QED  BY <1>4, <1>5 DEF Begin

\* The decision in terms of the bucket: the level when the call read it, plus
\* what it pours, against what the bucket holds (mod.rs:153-175).
LEMMA DecisionFacts ==
    ASSUME NEW c \in Observation
    PROVE  LET before == Later(c.now, Tat(c)) - c.now
           IN  /\ before \in Nat
               /\ before = Max0(Tat(c) - c.now)
               /\ NewTat(c) = c.now + before + Increment(c.req)
               /\ Limited(c) <=> before + Increment(c.req) > Dvt(c.req)
<1>1. /\ Increment(c.req) \in Int /\ Dvt(c.req) \in Int
      /\ Tat(c) \in Int /\ NewTat(c) \in Int /\ c.now \in Int
  BY DecisionType DEF Observation
<1>. QED  BY <1>1 DEF NewTat, Later, Limited, Diff, Max0

\* A call reads its key: it is blocked, or has looked at its bucket.
LEMMA ReadStep ==
    ASSUME TypeOK, NEW p \in Limiters, GetWithTime(p)
    PROVE  Bucket!Block(p) \/ Bucket!Look(p)
<1> DEFINE c == Observed(p)
           r == lim[p].req
           e == db[r.key]
           asked == Pouring(r)
<1>1. db' = db /\ clock' = clock /\ lim[p].pc = "get"
  BY DEF GetWithTime
<1>2. /\ r \in Requests /\ r.key \in Keys /\ e \in Entry /\ clock \in Nat
      /\ Visible(e, clock) \in U64 \cup {None}
  BY LimiterAssumption, VisibleType DEF GetWithTime, TypeOK, Request
<1>3. /\ c.pc = "update" /\ c.req = r /\ c.now = clock /\ c.i = lim[p].i
      /\ c.tat_val = Visible(e, clock) /\ c \in Observation
  BY <1>2 DEF Observed, TypeOK, Call, Observation, GetWithTime
<1>4. Level(r.key) = Later(c.now, Tat(c)) - c.now
  BY <1>2, <1>3, TimeAssumption DEF Level, Owed, Tat, Later, U64
<1>5. /\ asked.key = r.key /\ asked.capacity = Dvt(r) /\ asked.amount = Increment(r)
  BY <1>2, PouringFacts
<1>6. Stages[p].stage = "begun" /\ Stages[p].asks = asked /\ Stages[p].losses = lim[p].i
  BY <1>1, StageFacts DEF Stages, Bucket!Begun
<1>7. Levels[r.key] = Level(r.key)
  BY <1>2 DEF Levels
<1>8. CASE Limited(c) /\ Return(p, Result(c))
  <2>1. /\ \A q \in Limiters \ {p} : reply'[q] = reply[q] /\ lim'[q] = lim[q]
        /\ reply'[p] = Result(c) /\ lim'[p] = Idle
    BY <1>8 DEF Return, TypeOK
  <2>2. Verdict(reply'[p]) = [verdict |-> "blocked", call |-> asked]
    BY <1>3, <1>8, <2>1 DEF Verdict, Result
  <2>3. Levels[asked.key] + asked.amount > asked.capacity
    BY <1>3, <1>4, <1>5, <1>7, <1>8, DecisionFacts
  <2>4. Stage(p)' = Bucket!Resting
    BY <2>1 DEF Stage, Progress, Bucket!Resting, Idle
  <2>5. Levels' = Levels /\ Stages' = [Stages EXCEPT ![p] = Bucket!Resting]
    BY <1>1, <2>1, <2>4, OneMoves
  <2>6. Verdicts' = [Verdicts EXCEPT ![p] = [verdict |-> "blocked", call |-> asked]]
    BY <2>1, <2>2, Retold
  <2> HIDE DEF asked
  <2>. QED
    BY <1>1, <1>6, <2>3, <2>5, <2>6
       DEF Bucket!Block, Bucket!Tell, Bucket!Moves, Levels, Stages, Verdicts
<1>9. CASE ~Limited(c) /\ lim' = [lim EXCEPT ![p] = c] /\ UNCHANGED reply
  <2>1. (\A q \in Limiters \ {p} : lim'[q] = lim[q]) /\ lim'[p] = c
    <3> HIDE DEF c
    <3>. QED  BY <1>9 DEF TypeOK
  <2>2. ~(Levels[asked.key] + asked.amount > asked.capacity)
    BY <1>3, <1>4, <1>5, <1>7, <1>9, DecisionFacts
  <2>3. Levels[asked.key] \in Int /\ asked.amount \in Int /\ asked.capacity \in Int
    BY <1>2, <1>3, <1>4, <1>5, <1>7, DecisionFacts, DecisionType
  <2>4. Stage(p)' = Bucket!Looked(asked, lim[p].i, clock, Levels[asked.key], 0)
    <3>1. Visible(e, clock) # None => Visible(e, clock) - Visible(e, clock) = 0
      BY <1>2, TimeAssumption DEF U64
    <3>2. lim'[p].req = r /\ lim'[p].pc = "update" /\ lim'[p].i = lim[p].i
          /\ lim'[p].now = clock /\ lim'[p].tat_val = Visible(e, clock)
          /\ Tat(lim'[p]) = Tat(c)
      BY <1>3, <2>1
    <3> HIDE DEF c
    <3>. QED
      BY <1>1, <1>3, <1>4, <1>5, <1>7, <3>1, <3>2 DEF Stage, Progress, Bucket!Looked
  <2>5. /\ Levels' = Levels
        /\ Stages' = [Stages EXCEPT ![p] =
                         Bucket!Looked(asked, lim[p].i, clock, Levels[asked.key], 0)]
    BY <1>1, <2>1, <2>4, OneMoves
  <2>6. Verdicts' = Verdicts
    BY <1>9 DEF Verdicts
  <2>7. Levels[asked.key] + asked.amount <= asked.capacity
    <3> HIDE DEF asked
    <3>. QED  BY <2>2, <2>3
  <2> HIDE DEF asked
  <2>8. /\ Stages[p].stage = "begun"
        /\ LET d == Stages[p].asks
           IN  /\ Levels[d.key] + d.amount <= d.capacity
               /\ Stages' = [Stages EXCEPT ![p] =
                                Bucket!Looked(d, Stages[p].losses, clock, Levels[d.key], 0)]
    BY <1>6, <2>5, <2>7
  <2>. QED
    BY <1>1, <2>5, <2>6, <2>8, Zenon DEF Bucket!Look, Bucket!Moves, Levels, Stages, Verdicts
<1>. QED  BY <1>8, <1>9 DEF GetWithTime, Decide

\* What a write leaves in the bucket, whatever becomes of its TTL: it is there
\* (mod.rs:191-192).
LEMMA NewLevel ==
    ASSUME InRange, BucketInv, NEW p \in Limiters, lim[p].pc = "update"
    PROVE  LET c == lim[p]
               e == Write(NewTat(c), NewTat(c) - c.now, clock).entry
           IN  Owed(e, clock) = Max0(NewTat(c) - clock)
<1> DEFINE c == lim[p]
           new == NewTat(c)
           e == Write(new, new - c.now, clock).entry
<1>1. new \in U64 /\ c.now \in Nat /\ clock \in Nat
  BY ReadingFacts, AllowedRange DEF BucketInv, HeldInv
<1>2. new - c.now \in Int
  BY <1>1, TimeAssumption DEF U64
<1>3. e \in Entry /\ e.tat = new /\ IsLive(e, clock)
  BY <1>1, <1>2, WriteType, WrittenTat, LiveWhenWritten DEF Outcomes
<1>. QED  BY <1>1, <1>3, OwedFacts

-----------------------------------------------------------------------------
\* The levels after an update that wrote: that of the key it wrote is new.
LEMMA WrittenLevels ==
    ASSUME InRange, BucketInv, NEW p \in Limiters, lim[p].pc = "update",
           clock' = clock,
           db' = [db EXCEPT ![lim[p].req.key] =
                     Write(NewTat(lim[p]), NewTat(lim[p]) - lim[p].now, clock).entry]
    PROVE  Levels' = [Levels EXCEPT ![lim[p].req.key] = Max0(NewTat(lim[p]) - clock)]
<1> DEFINE c == lim[p]
           k == c.req.key
           e == Write(NewTat(c), NewTat(c) - c.now, clock).entry
<1>1. k \in Keys /\ db \in [Keys -> Entry]
  BY ReadingFacts DEF BucketInv, HeldInv, TypeOK
<1>2. Owed(e, clock) = Max0(NewTat(c) - clock)
  BY NewLevel
<1> HIDE DEF e
<1>3. db'[k] = e /\ \A j \in Keys \ {k} : db'[j] = db[j]
  BY <1>1 DEF e
<1>4. \A j \in Keys : Level(j)' = Owed(db'[j], clock)
  BY DEF Level
<1>5. \A j \in Keys \ {k} : Level(j)' = Level(j)
  BY <1>3, <1>4 DEF Level
<1>6. \A j \in Keys :
         Level(j)' = IF j = k THEN Max0(NewTat(c) - clock) ELSE Level(j)
  BY <1>2, <1>3, <1>4, <1>5
<1> HIDE DEF k
<1>7. Levels' = [Levels EXCEPT ![k] = Max0(NewTat(c) - clock)]
  BY <1>6 DEF Levels
<1>. QED  BY <1>7 DEF k

-----------------------------------------------------------------------------
\* A call between its read and its update, as the abstraction sees it: its look is
\* good as long as the store shows it what it has read.
LEMMA LookFacts ==
    ASSUME BucketInv, NEW p \in Limiters, lim[p].pc = "update"
    PROVE  LET c == lim[p]
               before == Later(c.now, Tat(c)) - c.now
           IN  /\ Stages[p].asks = Pouring(c.req) /\ Stages[p].losses = c.i
               /\ Unchanged(c) => Stages[p] = Bucket!Looked(Pouring(c.req), c.i, c.now, before, 0)
               /\ ~Unchanged(c) => \/ Stages[p].stage = "beaten"
                                   \/ Stages[p].stage = "looked" /\ Stages[p].poured # 0
<1>. PICK c : c = lim[p]
  OBVIOUS
<1>. PICK e : e = db[c.req.key]
  OBVIOUS
<1>1. /\ e \in Entry /\ clock \in Nat
      /\ c.tat_val # None => c.tat_val \in Nat
      /\ Visible(e, clock) # None => Visible(e, clock) \in Nat
  BY ReadingFacts, TimeAssumption DEF Visible, Entry, U64
<1>2. Stages[p] =
         IF (c.tat_val = None) # (Visible(e, clock) = None)
         THEN Bucket!Beaten(Pouring(c.req), c.i)
         ELSE Bucket!Looked(Pouring(c.req), c.i, c.now, Later(c.now, Tat(c)) - c.now,
                  IF Visible(e, clock) = None THEN 0 ELSE Visible(e, clock) - c.tat_val)
  BY StageFacts DEF Stages
<1>3. Unchanged(c) <=> Visible(e, clock) = c.tat_val
  BY DEF Unchanged, Visible, IsLive
<1>4. Visible(e, clock) = c.tat_val /\ c.tat_val # None =>
         Visible(e, clock) - c.tat_val = 0
  BY <1>1
<1>5. Visible(e, clock) # c.tat_val /\ c.tat_val # None /\ Visible(e, clock) # None =>
         Visible(e, clock) - c.tat_val # 0
  BY <1>1
<1>. QED
  BY <1>2, <1>3, <1>4, <1>5 DEF Bucket!Beaten, Bucket!Looked

\* A write disturbs those who look at its bucket, by what it pours and the time the
\* bucket stood empty when the writer looked, or by bringing the key into being.
LEMMA WriteDisturbs ==
    ASSUME InRange, Sound, BucketInv, NEW p \in Limiters, lim[p].pc = "update",
           Unchanged(lim[p]), clock' = clock, lim'[p] = Idle,
           \A q \in Limiters \ {p} : lim'[q] = lim[q],
           db' = [db EXCEPT ![lim[p].req.key] =
                     Write(NewTat(lim[p]), NewTat(lim[p]) - lim[p].now, clock).entry]
    PROVE  Bucket!Pours(p, lim[p].req.key, Increment(lim[p].req))
<1>. PICK c : c = lim[p]
  OBVIOUS
<1>. PICK k : k = c.req.key
  OBVIOUS
<1>. PICK e, f : e = db[k] /\ f = db'[k]
  OBVIOUS
<1>. PICK new : new = NewTat(c)
  OBVIOUS
<1> DEFINE inc == Increment(c.req)
           idle == Later(c.now, Tat(c)) - Tat(c)
           beaten == {q \in Limiters \ {p} :
                         /\ Stages[q].stage = "looked" /\ Stages[q].asks.key = k
                         /\ lim[q].tat_val = None}
<1>1. /\ k \in Keys /\ e \in Entry /\ clock \in Nat /\ c.now \in Nat /\ c.now <= clock
      /\ new \in Nat /\ Tat(c) \in Nat /\ inc \in Int /\ new = Later(c.now, Tat(c)) + inc
      /\ db \in [Keys -> Entry]
  BY ReadingFacts, AllowedFacts DEF BucketInv, HeldInv, TypeOK
<1>2. /\ \A j \in Keys \ {k} : db'[j] = db[j]
      /\ Visible(f, clock) = new /\ new # None
  <2> DEFINE o == Write(new, new - c.now, clock)
  <2>1. o.entry.tat = new /\ IsLive(o.entry, clock)
    <3>1. /\ c \in Observation /\ ~Limited(c) /\ FirstTick <= c.now /\ TypeOK
      BY ReadingFacts DEF BucketInv, HeldInv
    <3>2. new \in U64
      BY <1>1, <3>1, AllowedRange
    <3>3. new - c.now \in Int
      BY <1>1
    <3>4. IsLive(o.entry, clock)
      BY <1>1, <3>2, <3>3, LiveWhenWritten
    <3>. QED  BY <3>4, WrittenTat
  <2> HIDE DEF o
  <2>2. f = o.entry /\ \A j \in Keys \ {k} : db'[j] = db[j]
    <3>1. db' = [db EXCEPT ![k] = o.entry]
      BY DEF o
    <3>. QED  BY <1>1, <3>1
  <2>3. IsLive(f, clock) /\ f.tat = new
    BY <2>1, <2>2
  <2>4. Visible(f, clock) = new /\ new # None
    BY <1>1, <2>3, StoreAssumption DEF Visible
  <2>. QED  BY <2>2, <2>4
<1>3. Visible(e, clock) = c.tat_val
  BY DEF Unchanged, Visible, IsLive
<1>4. idle \in IF Stages[p].level > 0 THEN {0} ELSE 0..Stages[p].at
  <2>1. Stages[p].level = Later(c.now, Tat(c)) - c.now /\ Stages[p].at = c.now
    <3>1. Stages[p] = Bucket!Looked(Pouring(c.req), c.i, c.now,
                                    Later(c.now, Tat(c)) - c.now, 0)
      BY LookFacts
    <3>. QED  BY <3>1 DEF Bucket!Looked
  <2>. QED  BY <1>1, <2>1 DEF Later
<1>5. ASSUME NEW q \in Limiters
      PROVE  Stage(q)' =
                IF q = p THEN Bucket!Resting
                ELSE IF q \in beaten THEN Bucket!Beaten(Stages[q].asks, Stages[q].losses)
                ELSE IF Stages[q].stage = "looked" /\ Stages[q].asks.key = k
                THEN [Stages[q] EXCEPT !.poured = @ + inc + idle]
                ELSE Stages[q]
  <2>1. Stages[q] = Stage(q)
    BY DEF Stages
  <2>2. CASE q = p
    BY <2>2 DEF Stage, Progress, Bucket!Resting, Idle
  <2>3. CASE q # p /\ lim[q].pc # "update"
    <3>1. Stage(q)' = Stage(q)
      BY <2>3 DEF Stage
    <3>2. Stages[q].stage # "looked"
      BY <2>1, <2>3 DEF Stage, Progress, BucketInv, HeldInv, TypeOK, Call
    <3>. QED  BY <2>1, <2>3, <3>1, <3>2
  <2>4. CASE q # p /\ lim[q].pc = "update" /\ lim[q].req.key # k
    <3>1. lim[q].req \in Requests /\ lim[q].req.key \in Keys
      BY <2>4, ReadingFacts
    <3>2. Stage(q)' = Stage(q)
      BY <1>2, <2>4, <3>1 DEF Stage
    <3>3. Stages[q].asks.key # k
      BY <2>4, <3>1, LookFacts, PouringFacts
    <3>. QED  BY <2>1, <2>4, <3>2, <3>3
  <2>5. CASE q # p /\ lim[q].pc = "update" /\ lim[q].req.key = k
    <3>. PICK d : d = lim[q]
      OBVIOUS
    <3> DEFINE asked == Pouring(d.req)
               before == Later(d.now, Tat(d)) - d.now
    <3>1. asked.key = k /\ (d.tat_val # None => d.tat_val \in Nat)
      BY <2>5, ReadingFacts, PouringFacts
    <3>2. Stages[q] = IF (d.tat_val = None) # (c.tat_val = None)
                      THEN Bucket!Beaten(asked, d.i)
                      ELSE Bucket!Looked(asked, d.i, d.now, before,
                               IF c.tat_val = None THEN 0 ELSE c.tat_val - d.tat_val)
      BY <1>3, <2>1, <2>5, StageFacts
    <3>3. Stage(q)' = IF d.tat_val = None THEN Bucket!Beaten(asked, d.i)
                      ELSE Bucket!Looked(asked, d.i, d.now, before, new - d.tat_val)
      <4>1. lim'[q] = d
        BY <2>5
      <4>. QED
        BY <1>2, <2>5, <4>1 DEF Stage, Progress, Bucket!Beaten, Bucket!Looked
    <3>4. d.tat_val # None => c.tat_val # None
      <4>1. StoreKind = "memory"
        BY <2>5 DEF Sound, Alone
      <4>2. d.tat_val # None => e.tat # None
        BY <2>5, <4>1 DEF BucketInv, HeldInv, Present
      <4>3. e.expire = None
        BY <1>1, <4>1 DEF BucketInv, HeldInv, MemoryKeeps
      <4>. QED  BY <1>3, <4>2, <4>3 DEF Visible, IsLive
    <3>5. CASE d.tat_val = None /\ c.tat_val = None
      BY <2>5, <3>1, <3>2, <3>3, <3>5 DEF Bucket!Beaten, Bucket!Looked
    <3>6. CASE d.tat_val = None /\ c.tat_val # None
      BY <2>5, <3>1, <3>2, <3>3, <3>6 DEF Bucket!Beaten
    <3>7. CASE d.tat_val # None
      <4>1. new - d.tat_val = (c.tat_val - d.tat_val) + inc + idle
        <5>1. Tat(c) = c.tat_val
          BY <3>4, <3>7 DEF Tat
        <5>2. Later(c.now, Tat(c)) \in Int
          BY <1>1 DEF Later
        <5>. QED  BY <1>1, <3>1, <3>7, <5>1, <5>2
      <4>2. Stages[q] = Bucket!Looked(asked, d.i, d.now, before, c.tat_val - d.tat_val)
        BY <3>2, <3>4, <3>7
      <4>3. [Stages[q] EXCEPT !.poured = @ + inc + idle] =
               Bucket!Looked(asked, d.i, d.now, before, (c.tat_val - d.tat_val) + inc + idle)
        <5> HIDE DEF inc, idle, asked, before
        <5>. QED  BY <4>2 DEF Bucket!Looked
      <4>4. q \notin beaten
        BY <3>7
      <4>5. Stages[q].stage = "looked" /\ Stages[q].asks.key = k
        BY <3>1, <4>2 DEF Bucket!Looked
      <4>6. Stage(q)' = [Stages[q] EXCEPT !.poured = @ + inc + idle]
        BY <3>3, <3>7, <4>1, <4>3
      <4> HIDE DEF beaten
      <4>. QED  BY <2>5, <4>4, <4>5, <4>6
    <3>. QED  BY <3>5, <3>6, <3>7
  <2>. QED  BY <2>2, <2>3, <2>4, <2>5
<1>6. Stages' = [q \in Limiters |->
                    IF q = p THEN Bucket!Resting
                    ELSE IF q \in beaten THEN Bucket!Beaten(Stages[q].asks, Stages[q].losses)
                    ELSE IF Stages[q].stage = "looked" /\ Stages[q].asks.key = k
                    THEN [Stages[q] EXCEPT !.poured = @ + inc + idle]
                    ELSE Stages[q]]
  <2> HIDE DEF beaten, inc, idle
  <2>1. Stages' = [q \in Limiters |-> Stage(q)']
    BY DEF Stages
  <2>. QED  BY <1>5, <2>1, Zenon
<1>7. beaten \in SUBSET {q \in Limiters \ {p} :
                            Stages[q].stage = "looked" /\ Stages[q].asks.key = k}
  OBVIOUS
<1> HIDE DEF beaten, inc, idle
<1>8. \E i \in (IF Stages[p].level > 0 THEN {0} ELSE 0..Stages[p].at),
         b \in SUBSET {q \in Limiters \ {p} :
                          Stages[q].stage = "looked" /\ Stages[q].asks.key = k} :
            Stages' = [q \in Limiters |->
                         IF q = p THEN Bucket!Resting
                         ELSE IF q \in b THEN Bucket!Beaten(Stages[q].asks, Stages[q].losses)
                         ELSE IF Stages[q].stage = "looked" /\ Stages[q].asks.key = k
                         THEN [Stages[q] EXCEPT !.poured = @ + inc + i]
                         ELSE Stages[q]]
  BY <1>4, <1>6, <1>7
<1>9. Bucket!Pours(p, k, inc)
  BY <1>8, Zenon DEF Bucket!Pours, Bucket!LooksAt, Stages
<1>. QED  BY <1>9 DEF inc


\* An update that stores pours the call's amount in; one whose TTL is refused has
\* taken out more than there was; one that does not store has been overtaken, and
\* ends the call at its last attempt (mod.rs:191-225, store.rs:194-198).
LEMMA UpdateStep ==
    ASSUME InRange, Sound, BucketInv, NEW p \in Limiters,
           CompareAndSwap(p) \/ SetIfNotExists(p)
    PROVE  Bucket!Grant(p) \/ Bucket!Overdraw(p) \/ Bucket!GiveUp(p) \/ Bucket!Lose(p)
<1>. PICK c : c = lim[p]
  OBVIOUS
<1>. PICK asked : asked = Pouring(c.req)
  OBVIOUS
<1>. PICK o : o = Write(NewTat(c), NewTat(c) - c.now, clock)
  OBVIOUS
<1>. PICK before : before = Later(c.now, Tat(c)) - c.now
  OBVIOUS
<1>. PICK inc : inc = Increment(c.req)
  OBVIOUS
<1>1. /\ c.pc = "update" /\ clock' = clock
      /\ \A q \in Limiters \ {p} : lim'[q] = lim[q] /\ reply'[q] = reply[q]
      /\ \/ /\ Unchanged(c) /\ lim'[p] = Idle
            /\ db' = [db EXCEPT ![c.req.key] = o.entry]
            /\ reply'[p] = IF o.result = "updated" THEN Result(c)
                           ELSE Error(c, "store", c.i + 1)
         \/ /\ ~Unchanged(c) /\ db' = db
            /\ \/ /\ c.i + 1 > MaxCasAttempts /\ lim'[p] = Idle
                  /\ reply'[p] = Error(c, "contention", c.i + 1)
               \/ /\ c.i + 1 <= MaxCasAttempts
                  /\ lim'[p].pc = "get" /\ lim'[p].req = c.req /\ lim'[p].i = c.i + 1
                  /\ reply'[p] = NoReply
  BY UpdateOutcome DEF BucketInv
<1>2. /\ c.now \in Nat /\ clock \in Nat /\ ~Limited(c) /\ reply[p] = NoReply
      /\ before \in Nat /\ inc \in Int /\ NewTat(c) = c.now + before + inc
      /\ NewTat(c) \in Int /\ c.i \in 0..MaxCasAttempts /\ MaxCasAttempts \in Nat
  <2>1. /\ c \in Observation /\ c.now \in Nat /\ clock \in Nat /\ ~Limited(c)
    BY <1>1, ReadingFacts
  <2>2. reply[p] = NoReply /\ c.i \in 0..MaxCasAttempts
    BY <1>1 DEF BucketInv, HeldInv, Pending, TypeOK, Call
  <2>. QED
    BY <2>1, <2>2, DecisionFacts, DecisionType, LimiterAssumption
<1>3. /\ asked.key = c.req.key /\ asked.amount = inc
      /\ Stages[p].asks = asked /\ Stages[p].losses = c.i
      /\ Unchanged(c) => Stages[p] = Bucket!Looked(asked, c.i, c.now, before, 0)
      /\ ~Unchanged(c) => \/ Stages[p].stage = "beaten"
                          \/ Stages[p].stage = "looked" /\ Stages[p].poured # 0
  BY <1>1, ReadingFacts, LookFacts, PouringFacts
<1>4. Verdicts' = [Verdicts EXCEPT ![p] = Verdict(reply'[p])]
  BY <1>1, Retold
<1>5. CASE Unchanged(c)
  <2>1. /\ Stages[p].stage = "looked" /\ Stages[p].poured = 0
        /\ Stages[p].level = before /\ Stages[p].at = c.now
    BY <1>3, <1>5 DEF Bucket!Looked
  <2>2. Levels' = [Levels EXCEPT ![asked.key] = Max0(NewTat(c) - clock)]
    BY <1>1, <1>3, <1>5, WrittenLevels
  <2>3. Bucket!Pours(p, asked.key, asked.amount)
    BY <1>1, <1>3, <1>5, WriteDisturbs
  <2>4. CASE o.result = "updated"
    <3>1. Verdict(reply'[p]) = [verdict |-> "granted", call |-> asked]
      BY <1>1, <1>2, <1>5, <2>4 DEF Verdict, Result
    <3>2. NewTat(c) - clock = Stages[p].level + asked.amount - (clock - Stages[p].at)
      BY <1>2, <1>3, <2>1
    <3>3. Levels' = [Levels EXCEPT ![asked.key] =
                        Max0(Stages[p].level + asked.amount - (clock - Stages[p].at))]
      BY <2>2, <3>2
    <3>4. Bucket!Undisturbed(p) /\ Bucket!Tell(p, "granted", asked)
      BY <1>4, <2>1, <3>1 DEF Bucket!Undisturbed, Bucket!Tell, Stages, Verdicts
    <3>5. Levels' = [Levels EXCEPT ![asked.key] =
                        Bucket!Max0(Stages[p].level + asked.amount - (clock - Stages[p].at))]
      BY <3>3 DEF Bucket!Max0, Max0
    <3>6. Bucket!Grant(p)
      BY <1>1, <1>3, <2>3, <3>4, <3>5, Zenon DEF Bucket!Grant, Levels, Stages
    <3>. QED  BY <3>6
  <2>5. CASE o.result # "updated"
    <3>1. Verdict(reply'[p]) = [verdict |-> "failed", call |-> asked]
      BY <1>1, <1>5, <2>5 DEF Verdict, Error
    <3>2. NewTat(c) - c.now < 0
      <4>1. NewTat(c) - c.now \in Int
        BY <1>2
      <4>. QED  BY <1>2, <2>5, <4>1, RefusedWrite
    <3>3. before + inc < 0 /\ Max0(NewTat(c) - clock) = 0
      <4>1. c.now <= clock
        BY <1>1, ReadingFacts
      <4>. QED  BY <1>2, <3>2, <4>1 DEF Max0
    <3>4. Stages[p].level + asked.amount < 0 /\ Levels' = [Levels EXCEPT ![asked.key] = 0]
      BY <1>3, <2>1, <2>2, <3>3
    <3>5. Bucket!Overdraw(p)
      BY <1>1, <1>3, <1>4, <2>1, <2>3, <3>1, <3>4, Zenon
         DEF Bucket!Overdraw, Bucket!Undisturbed, Bucket!Tell, Levels, Stages, Verdicts
    <3>. QED  BY <3>5
  <2>. QED  BY <2>4, <2>5
<1>6. CASE ~Unchanged(c)
  <2>1. db' = db
    BY <1>1, <1>6
  <2>2. Levels' = Levels /\ Stages' = [Stages EXCEPT ![p] = Stage(p)']
    BY <1>1, <2>1, OneMoves
  <2>3. \/ Stages[p].stage = "beaten"
        \/ Stages[p].stage = "looked" /\ Stages[p].poured # 0
    BY <1>3, <1>6
  <2>4. CASE c.i + 1 > MaxCasAttempts
    <3>1. lim'[p] = Idle /\ reply'[p] = Error(c, "contention", c.i + 1)
      BY <1>1, <1>2, <1>6, <2>4
    <3>2. Verdict(reply'[p]) = [verdict |-> "failed", call |-> asked]
      BY <3>1 DEF Verdict, Error
    <3>3. Stage(p)' = Bucket!Resting
      BY <3>1 DEF Stage, Progress, Bucket!Resting, Idle
    <3>4. Stages[p].losses + 1 = MaxCasAttempts + 1
      BY <1>2, <1>3, <2>4
    <3>5. Bucket!GiveUp(p)
      BY <1>1, <1>3, <1>4, <2>2, <2>3, <3>2, <3>3, <3>4, Zenon
         DEF Bucket!GiveUp, Bucket!Disturbed, Bucket!Tell, Bucket!Moves,
             Levels, Stages, Verdicts
    <3>. QED  BY <3>5
  <2>5. CASE c.i + 1 <= MaxCasAttempts
    <3>1. /\ lim'[p].pc = "get" /\ lim'[p].req = c.req /\ lim'[p].i = c.i + 1
          /\ reply'[p] = NoReply
      BY <1>1, <1>2, <1>6, <2>5
    <3>2. Verdicts' = Verdicts
      BY <1>2, <1>4, <3>1 DEF Verdicts
    <3>3. Stage(p)' = Bucket!Begun(asked, c.i + 1)
      BY <3>1 DEF Stage, Progress, Bucket!Begun
    <3>4. Stages[p].losses + 1 < MaxCasAttempts + 1
      BY <1>2, <1>3, <2>5
    <3>5. Stages' = [Stages EXCEPT ![p] = Bucket!Begun(Stages[p].asks, Stages[p].losses + 1)]
      BY <1>3, <2>2, <3>3
    <3>6. Bucket!Lose(p)
      BY <1>1, <2>2, <2>3, <3>2, <3>4, <3>5, Zenon
         DEF Bucket!Lose, Bucket!Disturbed, Bucket!Moves, Levels, Stages, Verdicts
    <3>. QED  BY <3>6
  <2>. QED  BY <1>2, <2>4, <2>5
<1>. QED  BY <1>5, <1>6

\* A bucket that loses its key in a tick owed less than a millisecond
\* (redis/mod.rs:347); in memory none does.
LEMMA ForgottenLevel ==
    ASSUME BucketInv, NEW k \in Keys, IsLive(db[k], clock), ~IsLive(db[k], clock + 1)
    PROVE  StoreKind = "redis" /\ Level(k) < Ms
<1>1. clock \in Nat /\ clock + 1 \in Nat /\ db[k] \in Entry
  BY LimiterAssumption DEF BucketInv, HeldInv, TypeOK
<1>2. StoreKind = "redis" /\ db[k].tat # None
  BY StoreAssumption DEF BucketInv, HeldInv, MemoryKeeps, IsLive
<1>3. Fits(db[k])
  BY DEF BucketInv, AllFit
<1>4. db[k].tat \in Nat /\ db[k].tat - (clock + 1) <= Ms - 2
  BY <1>1, <1>2, <1>3, DebtAtExpiry
<1>5. Level(k) = Max0(db[k].tat - clock)
  BY <1>1, OwedFacts DEF Level
<1>. QED  BY <1>1, <1>2, <1>4, <1>5, TimeAssumption DEF Max0

\* What a tick does to a bucket.
LEMMA LeakedLevel ==
    ASSUME BucketInv, NEW k \in Keys
    PROVE  Owed(db[k], clock + 1) =
              IF IsLive(db[k], clock) /\ ~IsLive(db[k], clock + 1) THEN 0
              ELSE Max0(Level(k) - 1)
<1>1. clock \in Nat /\ clock + 1 \in Nat /\ db[k] \in Entry
  BY LimiterAssumption DEF BucketInv, HeldInv, TypeOK
<1>2. CASE ~IsLive(db[k], clock)
  <2>1. ~IsLive(db[k], clock + 1)
    BY <1>1, <1>2, StaysDead
  <2>. QED  BY <1>1, <1>2, <2>1, OwedFacts DEF Level, Max0
<1>3. CASE IsLive(db[k], clock) /\ ~IsLive(db[k], clock + 1)
  BY <1>1, <1>3, OwedFacts
<1>4. CASE IsLive(db[k], clock) /\ IsLive(db[k], clock + 1)
  <2>1. /\ db[k].tat \in Nat /\ Level(k) = Max0(db[k].tat - clock)
        /\ Owed(db[k], clock + 1) = Max0(db[k].tat - (clock + 1))
    BY <1>1, <1>4, OwedFacts DEF Level
  <2>. QED  BY <1>1, <1>4, <2>1 DEF Max0
<1>. QED  BY <1>2, <1>3, <1>4

\* Time passes: every bucket leaks.  Those whose keys expire in this tick are
\* forgotten, and a call that has read such a key has seen what is no longer there.
LEMMA TickStep ==
    ASSUME BucketInv, Tick
    PROVE  Bucket!Pass
<1> DEFINE forgotten == {k \in Keys : IsLive(db[k], clock) /\ ~IsLive(db[k], clock + 1)}
           beaten == {q \in Limiters : /\ Stages[q].stage = "looked"
                                       /\ Stages[q].asks.key \in forgotten
                                       /\ lim[q].tat_val # None}
           grace == IF StoreKind = "redis" THEN Ms ELSE 0
<1>1. /\ clock \in Nat /\ clock' = clock + 1 /\ clock + 1 \in Nat
      /\ db' = db /\ reply' = reply /\ lim' = lim
  BY LimiterAssumption DEF Tick, BucketInv, HeldInv, TypeOK
<1>2. forgotten \in SUBSET {k \in Keys : Levels[k] < grace}
  BY ForgottenLevel DEF Levels
<1>3. Levels' = [k \in Keys |-> IF k \in forgotten THEN 0 ELSE Max0(Levels[k] - 1)]
  <2>1. \A k \in Keys : Level(k)' = Owed(db[k], clock + 1)
    BY <1>1 DEF Level
  <2>2. \A k \in Keys : Level(k)' = IF k \in forgotten THEN 0 ELSE Max0(Level(k) - 1)
    BY <2>1, LeakedLevel
  <2> HIDE DEF forgotten
  <2>. QED  BY <2>2 DEF Levels
<1>4. ASSUME NEW q \in Limiters
      PROVE  Stage(q)' = IF q \in beaten
                         THEN Bucket!Beaten(Stages[q].asks, Stages[q].losses)
                         ELSE Stages[q]
  <2>. PICK c : c = lim[q]
    OBVIOUS
  <2>1. Stages[q] = Stage(q) /\ lim'[q] = c
    BY <1>1 DEF Stages
  <2>2. CASE c.pc # "update"
    <3>1. Stage(q)' = Stage(q)
      BY <2>1, <2>2 DEF Stage
    <3>2. Stages[q].stage # "looked"
      BY <2>1, <2>2 DEF Stage, Progress, BucketInv, HeldInv, TypeOK, Call
    <3>. QED  BY <2>1, <3>1, <3>2
  <2>3. CASE c.pc = "update"
    <3>. PICK k : k = c.req.key
      OBVIOUS
    <3>. PICK asked : asked = Pouring(c.req)
      OBVIOUS
    <3>. PICK look : look = Bucket!Looked(asked, c.i, c.now, Later(c.now, Tat(c)) - c.now,
                                IF Visible(db[k], clock) = None THEN 0
                                ELSE Visible(db[k], clock) - c.tat_val)
      OBVIOUS
    <3>1. k \in Keys /\ asked.key = k /\ db[k] \in Entry
      BY <2>3, ReadingFacts, PouringFacts
    <3>2. Stages[q] = IF (c.tat_val = None) # (Visible(db[k], clock) = None)
                      THEN Bucket!Beaten(asked, c.i) ELSE look
      BY <2>1, <2>3, StageFacts
    <3>3. /\ Stages[q].stage = "looked" => Stages[q] = look
          /\ Stages[q].asks = asked /\ Stages[q].losses = c.i
      BY <3>2 DEF Bucket!Beaten, Bucket!Looked
    <3>4. CASE k \notin forgotten
      <4>1. IsLive(db[k], clock + 1) = IsLive(db[k], clock)
        <5>1. IsLive(db[k], clock + 1) => IsLive(db[k], clock)
          BY <1>1, <3>1, StaysDead
        <5>2. IsLive(db[k], clock) => IsLive(db[k], clock + 1)
          BY <3>1, <3>4
        <5>. QED  BY <5>1, <5>2 DEF IsLive
      <4>2. Visible(db[k], clock + 1) = Visible(db[k], clock)
        BY <4>1 DEF Visible
      <4>3. Stage(q)' = Stage(q)
        BY <1>1, <2>1, <2>3, <4>2 DEF Stage
      <4>. QED  BY <2>1, <3>1, <3>3, <3>4, <4>3
    <3>5. CASE k \in forgotten
      <4>1. IsLive(db[k], clock) /\ ~IsLive(db[k], clock + 1)
        BY <3>5
      <4>2. Visible(db[k], clock) # None /\ Visible(db[k], clock + 1) = None
        BY <4>1 DEF Visible, IsLive
      <4>3. c.tat_val # None
        <5>1. StoreKind = "redis"
          BY <3>1, <4>1, ForgottenLevel
        <5>2. c.tat_val = None => ~IsLive(db[k], c.now)
          BY <2>3, <5>1, StoreAssumption DEF BucketInv, HeldInv, ReadHolds, AsRead
        <5>3. c.now \in Int /\ clock \in Int /\ c.now <= clock
          BY <2>3, ReadingFacts
        <5>. QED  BY <3>1, <4>1, <5>2, <5>3, StaysDead
      <4>4. Stages[q] = look
        BY <3>2, <4>2, <4>3
      <4>5. q \in beaten
        BY <3>1, <3>3, <3>5, <4>3, <4>4 DEF Bucket!Looked
      <4>6. Stage(q)' = Bucket!Beaten(asked, c.i)
        BY <1>1, <2>1, <2>3, <4>2, <4>3 DEF Stage, Progress, Bucket!Beaten
      <4> HIDE DEF beaten
      <4>. QED  BY <3>3, <4>5, <4>6
    <3>. QED  BY <3>4, <3>5
  <2>. QED  BY <2>2, <2>3
<1>5. Stages' = [q \in Limiters |->
                    IF q \in beaten THEN Bucket!Beaten(Stages[q].asks, Stages[q].losses)
                    ELSE Stages[q]]
  <2> HIDE DEF beaten
  <2>1. Stages' = [q \in Limiters |-> Stage(q)']
    BY DEF Stages
  <2>. QED  BY <1>4, <2>1, Zenon
<1>6. beaten \in SUBSET {q \in Limiters : \E k \in forgotten :
                            Stages[q].stage = "looked" /\ Stages[q].asks.key = k}
  <2> HIDE DEF forgotten
  <2>. QED  OBVIOUS
<1>7. Verdicts' = Verdicts
  BY <1>1 DEF Verdicts
<1> HIDE DEF forgotten, beaten
<1>8. \E gone \in SUBSET {k \in Keys : Levels[k] < grace} :
         /\ Levels' = [k \in Keys |-> IF k \in gone THEN 0 ELSE Max0(Levels[k] - 1)]
         /\ \E b \in SUBSET {q \in Limiters : \E k \in gone :
                                Stages[q].stage = "looked" /\ Stages[q].asks.key = k} :
               Stages' = [q \in Limiters |->
                             IF q \in b THEN Bucket!Beaten(Stages[q].asks, Stages[q].losses)
                             ELSE Stages[q]]
  BY <1>2, <1>3, <1>5, <1>6
<1>. QED
  BY <1>1, <1>7, <1>8, Zenon
     DEF Bucket!Pass, Bucket!LooksAt, Bucket!Max0, Max0, Levels, Stages, Verdicts

-----------------------------------------------------------------------------
\* The initial states map to initial states.
LEMMA InitMaps == Init => Bucket!Init
<1> SUFFICES ASSUME Init PROVE Bucket!Init
  OBVIOUS
<1>1. clock \in Nat
  BY LimiterAssumption DEF Init
<1>2. \A k \in Keys : Level(k) = 0
  BY DEF Init, Absent, Level, Owed, Visible, IsLive
<1>3. \A p \in Limiters : Verdict(reply[p]) = [verdict |-> "none"]
  BY DEF Init, NoReply, Verdict
<1>4. \A p \in Limiters : Stage(p) = [stage |-> "resting"]
  BY DEF Init, Idle, Stage, Progress
<1>. QED  BY <1>1, <1>2, <1>3, <1>4 DEF Bucket!Init, Bucket!Nothing, Bucket!Resting

\* Every step maps to a step of the buckets or to none.
LEMMA StepMaps ==
    ASSUME InRange, Sound, BucketInv, [Next]_vars
    PROVE  [Bucket!Next]_(Bucket!vars)
<1>1. ASSUME NEW p \in Limiters, NEW r \in Requests, Begin(p, r)
      PROVE  Bucket!Next
  <2>1. Bucket!Begin(p, Pouring(r)) \/ Bucket!TurnDown(p, Pouring(r))
    BY <1>1, BeginStep DEF BucketInv, HeldInv
  <2>. QED  BY <2>1, PouringFacts DEF Bucket!Next
<1>2. ASSUME NEW p \in Limiters, GetWithTime(p)
      PROVE  Bucket!Next
  <2>1. Bucket!Block(p) \/ Bucket!Look(p)
    BY <1>2, ReadStep DEF BucketInv, HeldInv
  <2>. QED  BY <2>1 DEF Bucket!Next
<1>3. ASSUME NEW p \in Limiters, CompareAndSwap(p) \/ SetIfNotExists(p)
      PROVE  Bucket!Next
  <2>1. Bucket!Grant(p) \/ Bucket!Overdraw(p) \/ Bucket!GiveUp(p) \/ Bucket!Lose(p)
    BY <1>3, UpdateStep
  <2>. QED  BY <2>1 DEF Bucket!Next
<1>4. CASE Tick
  BY <1>4, TickStep DEF Bucket!Next
<1>5. CASE UNCHANGED vars
  <2>1. Levels' = Levels /\ Stages' = Stages /\ Verdicts' = Verdicts
    BY <1>5 DEF vars, Level, Stage, Levels, Stages, Verdicts
  <2>. QED  BY <1>5, <2>1 DEF vars, Bucket!vars, Levels, Stages, Verdicts
<1>. QED  BY <1>1, <1>2, <1>3, <1>4, <1>5 DEF Next, Step

\* The rate limiter does what the leaky buckets of its documentation do, refunds,
\* lost races and the number of attempts included: one limiter on Redis, any number
\* of them on a MemoryStore (mod.rs:62-237).
THEOREM LimiterImplementsBuckets ==
    ASSUME InRange, Sound
    PROVE  Spec => ImplementsBuckets
<1>1. BucketInv /\ [Next]_vars => [Bucket!Next]_(Bucket!vars)
  BY StepMaps
<1>2. BucketInv /\ [Next]_vars => BucketInv'
  BY BucketStep
<1>. QED
  BY BucketInit, InitMaps, <1>1, <1>2, PTL DEF Spec, ImplementsBuckets, Bucket!Spec
=============================================================================
