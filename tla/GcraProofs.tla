------------------------------ MODULE GcraProofs -------------------------------
(***************************************************************************)
(* The types of what the arithmetic, the store's operations and the        *)
(* decision return, for every width of the integers, and what an update    *)
(* leaves in the store.                                                    *)
(***************************************************************************)
EXTENDS Gcra, TLAPS

\* Whatever is converted to a u64 fits one (mod.rs:292-296).
LEMMA AsU64Type ==
    ASSUME NEW x \in Int
    PROVE  AsU64(x) \in U64
BY TimeAssumption, SMT DEF AsU64, U64

\* Whatever is converted to an i64 is an integer.
LEMMA AsI64Type ==
    ASSUME NEW x \in Int
    PROVE  AsI64(x) \in Int
BY TimeAssumption, SMT DEF AsI64, I64

\* A truncating division by a nonzero divisor yields an integer.
LEMMA TruncDivType ==
    ASSUME NEW a \in Int, NEW b \in Int, b # 0
    PROVE  TruncDiv(a, b) \in Int
<1> DEFINE A == IF a < 0 THEN -a ELSE a
           B == IF b < 0 THEN -b ELSE b
<1>1. A \in Nat /\ B \in Nat \ {0}
  BY SMT
<1> HIDE DEF A, B
<1>2. A \div B \in Int
  BY <1>1, SMT
<1>3. TruncDiv(a, b) = IF (a < 0) = (b < 0) THEN A \div B ELSE -(A \div B)
  BY Zenon DEF TruncDiv, A, B
<1>. QED  BY <1>2, <1>3, SMT

\* The conversions of durations yield integers.
LEMMA WholeType ==
    ASSUME NEW d \in Int
    PROVE  WholeMilliseconds(d) \in Int /\ WholeMicroseconds(d) \in Int
BY TruncDivType, TimeAssumption DEF WholeMilliseconds, WholeMicroseconds

\* The quotient of `remaining` is an integer even for a zero divisor.
LEMMA FloatQuotientType ==
    ASSUME NEW a \in Int, NEW b \in Int
    PROVE  FloatQuotient(a, b) \in Int
BY TruncDivType, TimeAssumption DEF FloatQuotient

-----------------------------------------------------------------------------
\* What the store returns for a key is a u64 or nothing.
LEMMA VisibleType ==
    ASSUME NEW e \in Entry, NEW t
    PROVE  Visible(e, t) \in U64 \cup {None}
BY DEF Visible, IsLive, Entry

Outcomes == [entry : Entry, result : {"updated", "kept", "error"}]

\* Setting an expiry keeps an entry an entry (redis/mod.rs:346-354).
LEMMA SetExpireType ==
    ASSUME NEW e \in Entry, NEW ttl \in Int, NEW t \in Nat
    PROVE  SetExpire(e, ttl, t) \in Entry
<1>1. WholeMilliseconds(ttl) \in Int
  BY WholeType
<1>2. t \div Ms \in Int
  BY TimeAssumption, SMT
<1>3. t \div Ms + WholeMilliseconds(ttl) \in Int
  BY <1>1, <1>2, SMT
<1>. QED
  BY <1>3 DEF SetExpire, Entry

\* Writing a u64 leaves an entry (redis/mod.rs:356-362).
LEMMA WriteType ==
    ASSUME NEW value \in U64, NEW ttl \in Int, NEW t \in Nat
    PROVE  Write(value, ttl, t) \in Outcomes
<1>1. [tat |-> value, expire |-> None] \in Entry
  BY DEF Entry
<1>. QED  BY <1>1, SetExpireType DEF Write, Outcome, Outcomes

\* Both update operations return an entry and a result (store.rs:109-234).
LEMMA UpdateType ==
    ASSUME NEW e \in Entry, NEW old, NEW value \in U64,
           NEW ttl \in Int, NEW t \in Nat
    PROVE  /\ CompareAndSwapWithTtl(e, old, value, ttl, t) \in Outcomes
           /\ SetIfNotExistsWithTtl(e, value, ttl, t) \in Outcomes
<1>1. CompareAndSwapWithTtl(e, old, value, ttl, t) \in Outcomes
  BY WriteType DEF CompareAndSwapWithTtl, Outcomes
<1>2. SetIfNotExistsWithTtl(e, value, ttl, t) \in Outcomes
  BY WriteType, SetExpireType DEF SetIfNotExistsWithTtl, Outcome, Outcomes
<1>. QED  BY <1>1, <1>2

-----------------------------------------------------------------------------
\* Division by Ms rounds down, and keeps the order.
LEMMA DivBounds ==
    ASSUME NEW t \in Int
    PROVE  /\ t \div Ms \in Int
           /\ Ms * (t \div Ms) <= t
           /\ t <= Ms * (t \div Ms) + Ms - 1
BY TimeAssumption, SMT

\* Later instants are in the same or in a later millisecond.
LEMMA DivMonotone ==
    ASSUME NEW t \in Int, NEW u \in Int, t <= u
    PROVE  t \div Ms <= u \div Ms
BY TimeAssumption, SMT

\* A key that has expired stays expired.
LEMMA StaysDead ==
    ASSUME NEW e \in Entry, NEW t \in Int, NEW u \in Int, t <= u, ~IsLive(e, t)
    PROVE  ~IsLive(e, u)
<1> SUFFICES ASSUME e.tat # None, e.expire # None, ~(t \div Ms <= e.expire)
             PROVE  ~(u \div Ms <= e.expire)
  BY DEF IsLive
<1>1. e.expire \in Int
  BY DEF Entry
<1>. QED  BY <1>1, DivMonotone, DivBounds, SMT

\* A TTL that is not negative is never refused (redis/mod.rs:346-354).
LEMMA TtlFacts ==
    ASSUME NEW ttl \in Nat, NEW e, NEW t
    PROVE  /\ ~ExpireRefused(ttl)
           /\ SetExpire(e, ttl, t) =
                 IF StoreKind = "memory" THEN e
                 ELSE [e EXCEPT !.expire = t \div Ms + ttl \div Ms]
<1>1. WholeMilliseconds(ttl) = ttl \div Ms
  BY TimeAssumption, SMT DEF WholeMilliseconds, TruncDiv
<1>2. ttl \div Ms \in Int /\ ttl \div Ms >= 0
  BY TimeAssumption, SMT
<1>3. ~(ttl \div Ms < -1) /\ ttl \div Ms # -1
  BY <1>2
<1>. QED
  BY <1>1, <1>3 DEF ExpireRefused, NO_EXPIRE, SetExpire

\* Whatever becomes of the expiry, the value is written (redis/mod.rs:356-362).
LEMMA WrittenTat ==
    ASSUME NEW value, NEW ttl, NEW t
    PROVE  Write(value, ttl, t).entry.tat = value
<1> DEFINE e == [tat |-> value, expire |-> None]
<1>1. \A x : [e EXCEPT !.expire = x].tat = value
  OBVIOUS
<1>2. e.tat = value
  OBVIOUS
<1>3. \/ SetExpire(e, ttl, t) = e
      \/ \E x : SetExpire(e, ttl, t) = [e EXCEPT !.expire = x]
  BY DEF SetExpire
<1>. QED  BY <1>1, <1>2, <1>3 DEF Write, Outcome

\* What a write leaves, by the TTL: one that is not negative is set, and a value
\* that is left without an expiry on Redis had a negative one (store.rs:185-198).
LEMMA WriteFacts ==
    ASSUME NEW value, NEW ttl \in Int, NEW t \in Nat
    PROVE  LET o == Write(value, ttl, t)
           IN  /\ o.entry.tat = value
               /\ ttl >= 0 =>
                     /\ o.result = "updated"
                     /\ o.entry =
                          [tat |-> value,
                           expire |-> IF StoreKind = "memory" THEN None
                                      ELSE t \div Ms + ttl \div Ms]
               /\ StoreKind = "memory" => o.result = "updated" /\ o.entry.expire = None
               /\ o.result # "updated" =>
                     o.result = "error" /\ o.entry.expire = None /\ ttl < 0
               /\ StoreKind = "redis" /\ o.entry.expire = None => ttl < 0
<1> DEFINE e == [tat |-> value, expire |-> None]
           o == Write(value, ttl, t)
<1>1. o.entry = SetExpire(e, ttl, t)
      /\ o.result = IF StoreKind = "redis" /\ ExpireRefused(ttl) THEN "error" ELSE "updated"
  BY DEF Write, Outcome
<1>2. o.entry.tat = value
  BY WrittenTat
<1>3. CASE ttl >= 0
  <2>1. /\ ~ExpireRefused(ttl)
        /\ SetExpire(e, ttl, t) =
              IF StoreKind = "memory" THEN e
              ELSE [e EXCEPT !.expire = t \div Ms + ttl \div Ms]
    BY <1>3, TtlFacts
  <2>2. [e EXCEPT !.expire = t \div Ms + ttl \div Ms] =
        [tat |-> value, expire |-> t \div Ms + ttl \div Ms]
    OBVIOUS
  <2>3. t \div Ms + ttl \div Ms # None
    BY <1>3, DivBounds, StoreAssumption
  <2>. QED  BY <1>1, <1>3, <2>1, <2>2, <2>3
<1>4. CASE ttl < 0
  <2>1. ExpireRefused(ttl) \/ StoreKind = "memory" => SetExpire(e, ttl, t) = e
    BY DEF SetExpire
  <2>2. e.expire = None
    OBVIOUS
  <2>. QED  BY <1>1, <1>2, <1>4, <2>1, <2>2, StoreAssumption
<1>. QED  BY <1>3, <1>4

\* An update that is answered with an error has written a value that will not
\* expire, for its TTL was negative (store.rs:195-197).
LEMMA RefusedWrite ==
    ASSUME NEW value, NEW ttl \in Int, NEW t \in Nat,
           Write(value, ttl, t).result # "updated"
    PROVE  Write(value, ttl, t).entry.expire = None /\ ttl < 0
<1> DEFINE e == [tat |-> value, expire |-> None]
<1>1. ExpireRefused(ttl) /\ Write(value, ttl, t).entry = SetExpire(e, ttl, t)
  BY DEF Write, Outcome
<1>2. SetExpire(e, ttl, t).expire = None
  <2>1. SetExpire(e, ttl, t) = e
    BY <1>1 DEF SetExpire
  <2>. QED  BY <2>1
<1>3. ttl < 0
  BY <1>1, TtlFacts
<1>. QED  BY <1>1, <1>2, <1>3

\* A MemoryStore ignores every TTL (store.rs:109-150).
LEMMA MemoryExpiry ==
    ASSUME StoreKind = "memory", NEW e, NEW value, NEW ttl, NEW t
    PROVE  /\ SetExpire(e, ttl, t) = e
           /\ Write(value, ttl, t).entry.expire = None
<1>1. ASSUME NEW any
      PROVE  SetExpire(any, ttl, t) = any
  BY DEF SetExpire, ExpireRefused, NO_EXPIRE
<1>2. Write(value, ttl, t).entry = [tat |-> value, expire |-> None]
  BY <1>1 DEF Write, Outcome
<1>. QED  BY <1>1, <1>2

\* On Redis the expiry of a write follows the clock at which it is set, and
\* whether there is one does not depend on that clock (redis/mod.rs:346-354).
LEMMA WrittenExpiry ==
    ASSUME StoreKind = "redis", NEW value, NEW ttl \in Int, NEW t \in Nat
    PROVE  LET o == Write(value, ttl, t)
               ms == WholeMilliseconds(ttl)
           IN  /\ ms \in Int /\ t \div Ms \in Int
               /\ o.entry.expire = IF ms <= -1 THEN None ELSE t \div Ms + ms
               /\ o.result = IF ms < -1 THEN "error" ELSE "updated"
<1> DEFINE e == [tat |-> value, expire |-> None]
           ms == WholeMilliseconds(ttl)
<1>1. ms \in Int /\ t \div Ms \in Int
  BY WholeType, DivBounds
<1>2. /\ Write(value, ttl, t).entry = SetExpire(e, ttl, t)
      /\ Write(value, ttl, t).result = IF ms < -1 THEN "error" ELSE "updated"
  BY DEF Write, Outcome, ExpireRefused, NO_EXPIRE
<1>3. SetExpire(e, ttl, t).expire = IF ms <= -1 THEN None ELSE t \div Ms + ms
  <2>1. CASE ms < -1
    <3>1. SetExpire(e, ttl, t) = e
      BY <2>1 DEF SetExpire, ExpireRefused, NO_EXPIRE
    <3>. QED  BY <1>1, <2>1, <3>1
  <2>2. CASE ms = -1
    <3>1. SetExpire(e, ttl, t) = [e EXCEPT !.expire = None]
      BY <2>2 DEF SetExpire, ExpireRefused, NO_EXPIRE
    <3>. QED  BY <2>2, <3>1
  <2>3. CASE ms > -1
    <3>1. SetExpire(e, ttl, t) = [e EXCEPT !.expire = t \div Ms + ms]
      BY <1>1, <2>3 DEF SetExpire, ExpireRefused, NO_EXPIRE
    <3>. QED  BY <1>1, <2>3, <3>1
  <2>. QED  BY <1>1, <2>1, <2>2, <2>3
<1>. QED  BY <1>1, <1>2, <1>3

\* A value and its expiry fit together if the key dies at most two milliseconds,
\* cut twice, before the value.
Fits(e) == e.tat # None /\ e.expire # None => e.tat <= Ms * e.expire + 2 * Ms - 2

\* A TAT written with the time that is left until it fits its expiry, also when
\* it is written after that time was computed (mod.rs:191-192, redis/mod.rs:347).
LEMMA WriteFits ==
    ASSUME StoreKind = "redis", NEW value \in Int, NEW now \in Int, NEW t \in Nat,
           now <= t
    PROVE  Fits(Write(value, value - now, t).entry)
<1> DEFINE ttl == value - now
           ms == WholeMilliseconds(ttl)
           a == t \div Ms
           e == Write(value, ttl, t).entry
<1>1. /\ ttl \in Int /\ ms \in Int /\ a \in Int
      /\ e.tat = value /\ e.expire = IF ms <= -1 THEN None ELSE a + ms
  BY WrittenExpiry, WrittenTat
<1>2. t <= Ms * a + Ms - 1
  BY DivBounds
<1>3. ms > -1 => ttl <= Ms * ms + Ms - 1
  <2>1. CASE ttl >= 0
    <3>1. ms = ttl \div Ms
      BY <2>1, TimeAssumption, SMT DEF WholeMilliseconds, TruncDiv
    <3>. QED  BY <1>1, <3>1, DivBounds
  <2>2. CASE ttl < 0
    <3>1. Ms * ms >= 0 \/ ms <= -1
      BY <1>1, TimeAssumption, SMT
    <3>2. Ms * ms \in Int /\ Ms \in Nat \ {0}
      BY <1>1, TimeAssumption, SMT
    <3> HIDE DEF ms, ttl
    <3>. QED  BY <1>1, <2>2, <3>1, <3>2
  <2>. QED  BY <1>1, <2>1, <2>2
<1>4. Ms * (a + ms) = Ms * a + Ms * ms /\ Ms * a \in Int /\ Ms * ms \in Int
  <2> HIDE DEF a, ms
  <2>. QED  BY <1>1, TimeAssumption, SMT
<1>5. CASE ms > -1
  <2>1. e.expire = a + ms
    BY <1>1, <1>5
  <2>2. value <= Ms * (a + ms) + 2 * Ms - 2
    <3>1. ttl = value - now
      OBVIOUS
    <3> HIDE DEF a, ms, ttl
    <3>. QED  BY <1>1, <1>2, <1>3, <1>4, <1>5, <3>1, TimeAssumption
  <2> HIDE DEF a, ms, e
  <2>. QED  BY <1>1, <2>1, <2>2 DEF Fits, e
<1>6. CASE ~(ms > -1)
  BY <1>1, <1>6 DEF Fits
<1>. QED  BY <1>5, <1>6

\* A key that has expired was less than a millisecond short of its TAT.
LEMMA DebtAtExpiry ==
    ASSUME NEW e \in Entry, Fits(e), NEW t \in Nat, e.tat # None, ~IsLive(e, t)
    PROVE  e.tat \in Nat /\ e.tat - t <= Ms - 2
<1>1. e.tat \in Nat
  BY TimeAssumption DEF Entry, U64
<1>2. e.expire # None /\ e.expire < t \div Ms /\ e.expire \in Int
  BY DivBounds DEF IsLive, Entry
<1>3. e.tat <= Ms * e.expire + 2 * Ms - 2
  BY <1>2 DEF Fits
<1>4. Ms * (e.expire + 1) <= t
  BY <1>2, TimeAssumption, SMT
<1>5. Ms * (e.expire + 1) = Ms * e.expire + Ms /\ Ms * e.expire \in Int
  BY <1>2, TimeAssumption, SMT
<1>. QED  BY <1>1, <1>3, <1>4, <1>5, TimeAssumption

-----------------------------------------------------------------------------
\* The increment and the tolerance of a request are integers (mod.rs:76-115).
LEMMA QuotaType ==
    ASSUME NEW r \in Request
    PROVE  Increment(r) \in Int /\ Dvt(r) \in Int
<1>1. r.max_burst \in Int /\ r.period \in Int /\ r.quantity \in Int
  BY TimeAssumption DEF Request, I64
<1>2. r.period * r.quantity \in Int
  BY <1>1, SMT
<1>3. Limit(r) \in Int
  BY <1>1, AsI64Type DEF Limit
<1>4. r.period * Limit(r) \in Int
  BY <1>1, <1>3, SMT
<1>. QED  BY <1>2, <1>4, AsI64Type DEF Increment, Dvt
=============================================================================
