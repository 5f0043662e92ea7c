-------------------------- MODULE ReplicationProofs ---------------------------
(***************************************************************************)
(* How far the keys of a replica can drift from those of its primary, for  *)
(* every quota, skew and delay.                                            *)
(*                                                                         *)
(* The argument: a command maps a TAT to a TAT.  If both servers allow it, *)
(* both maps are a maximum and an addition, which bring two TATs no        *)
(* further apart than they and the clocks were.  If one of them blocks it, *)
(* the TAT of that one was already nearly a tolerance ahead of its clock,  *)
(* and that of the other is now at most a tolerance ahead of its own.  So  *)
(* what two servers decide differently never adds up.                      *)
(*                                                                         *)
(* Two things are special about refunds.  One that overshoots is not       *)
(* replicated: the replica then holds a debt that the primary has written  *)
(* off, and is behind the primary only in what is still to pay.  And one   *)
(* that only one of the two servers blocks would set them apart by what it *)
(* gives back, each time; refunds that are large enough for the skew are   *)
(* never blocked.                                                          *)
(***************************************************************************)
EXTENDS Replication, GcraProofs

\* A refund gives back at least twice the skew (and more, if the quota it comes with
\* is smaller than another on the key): then no clock is so late that it is blocked.
RefundsPass ==
    \A r, q \in Requests :
        r.key = q.key /\ Increment(r) < 0 => Dvt(q) + 2 * Skew <= Dvt(r) - Increment(r)

\* The TAT after a command on a key with the TAT value, at t.
After(r, value, t) ==
    IF Limited(Reading(r, value, t)) THEN value ELSE NewTat(Reading(r, value, t))

\* The TAT value of k is at most a burst and the skew ahead of now.
InBurst(k, value, now) ==
    value # None => \E r \in Requests : r.key = k /\ value - now <= Dvt(r) + Skew

\* An entry of the stream of k is what the primary decided, not later than now.
Decided(k, s, now) ==
    /\ s.at \in FirstTime..now
    /\ s.was \in U64 \cup {None} /\ s.tat \in U64 \cup {None}
    /\ InBurst(k, s.was, s.at)
    /\ \/ s.cmd = "del" /\ s.tat = None
       \/ /\ s.cmd = "throttle"
          /\ s.req \in Requests /\ s.req.key = k
          /\ \E t \in (s.at - Skew)..(s.at + Skew) : s.tat = After(s.req, s.was, t)

\* The TAT a that k had on the primary is b at now: nothing happened, or a refund
\* wrote it off without being replicated.
Succeeds(k, a, b, now) ==
    a = b \/ (k \in lost /\ b \in Nat /\ b <= now + Skew)

\* The stream leads from the TAT of the mirror to that of the primary.
Linked(k) ==
    /\ stream[k] = <<>> => Succeeds(k, mirror[k], primary[k].tat, time)
    /\ stream[k] # <<>> =>
          /\ Succeeds(k, mirror[k], stream[k][1].was, stream[k][1].at)
          /\ Succeeds(k, stream[k][Len(stream[k])].tat, primary[k].tat, time)
    /\ \A i \in 1..(Len(stream[k]) - 1) :
          Succeeds(k, stream[k][i].tat, stream[k][i + 1].was, stream[k][i + 1].at)

\* a is the primary's TAT, b the replica's, after a delay of at most d.
Near(a, b, d) ==
    /\ a = None <=> b = None
    /\ a # None =>
          /\ a - b <= Chunk + 2 * Skew
          /\ b - a <= Chunk + 2 * Skew + d

\* Of a TAT a of the primary that is still to be paid, b remembers nearly all.
Remembers(a, b, now) ==
    a # None /\ a > now + Skew => b # None /\ a - b <= Chunk + 2 * Skew

KeyInv(k) ==
    /\ \A i \in 1..Len(stream[k]) : Decided(k, stream[k][i], time)
    /\ Linked(k)
    /\ InBurst(k, primary[k].tat, time) /\ InBurst(k, replica[k].tat, time)
    /\ RefundsPass /\ k \notin lost => Near(mirror[k], replica[k].tat, lag)
    /\ RefundsPass => Remembers(mirror[k], replica[k].tat, time)

FollowInv == TypeOK /\ \A k \in Keys : KeyInv(k)

-----------------------------------------------------------------------------
\* What the assumptions say of a request (mod.rs:76-115).
LEMMA RequestFacts ==
    ASSUME NEW r \in Requests
    PROVE  /\ r.key \in Keys
           /\ Increment(r) \in Int /\ Increment(r) <= Chunk /\ Dvt(r) \in Int
           /\ FirstTime - Skew + Increment(r) >= 0
           /\ EndOfTime + Skew + Dvt(r) <= 2 * IntMax + 1
BY ReplicationAssumption, QuotaType DEF Request

\* A command is limited and changes nothing, or it pours its increment over the
\* later of the TAT and the time (mod.rs:141-189).
LEMMA AfterFacts ==
    ASSUME NEW r \in Requests, NEW value \in U64 \cup {None}, NEW t \in Nat
    PROVE  LET base == IF value = None THEN t ELSE IF t > value THEN t ELSE value
               c == Reading(r, value, t)
           IN  /\ base \in Nat
               /\ NewTat(c) = base + Increment(r)
               /\ Limited(c) <=> base + Increment(r) > t + Dvt(r)
<1> DEFINE base == IF value = None THEN t ELSE IF t > value THEN t ELSE value
           c == Reading(r, value, t)
<1>1. /\ c.req = r /\ c.tat_val = value /\ c.now = t
  BY DEF Reading
<1>2. base \in Nat
  BY TimeAssumption DEF U64
<1>3. Later(c.now, Tat(c)) = base
  BY <1>1, TimeAssumption DEF Later, Tat, U64
<1>4. NewTat(c) = base + Increment(r)
  BY <1>1, <1>3 DEF NewTat
<1> HIDE DEF base, c
<1>5. Diff(c) = t - ((base + Increment(r)) - Dvt(r))
  BY <1>1, <1>4, Zenon DEF Diff
<1>6. Limited(c) <=> base + Increment(r) > t + Dvt(r)
  BY <1>2, <1>5, RequestFacts DEF Limited
<1>. QED  BY <1>2, <1>4, <1>6 DEF base, c

\* The entry a command leaves holds that TAT, which fits a u64.
LEMMA LeftFacts ==
    ASSUME NEW r \in Requests, NEW e \in Entry, NEW t \in Nat,
           FirstTime - Skew <= t, t <= EndOfTime + Skew
    PROVE  LET left == Left(e, Reading(r, e.tat, t))
           IN  left \in Entry /\ left.tat = After(r, e.tat, t)
<1> DEFINE c == Reading(r, e.tat, t)
           left == Left(e, c)
           new == NewTat(c)
<1>1. e.tat \in U64 \cup {None}
  BY DEF Entry
<1>2. CASE Limited(c)
  BY <1>2 DEF Left, After
<1>3. CASE ~Limited(c)
  <2>1. /\ new \in Int /\ 0 <= new /\ new <= t + Dvt(r)
        /\ new - c.now \in Int /\ c.now = t
    <3> DEFINE base == IF e.tat = None THEN t ELSE IF t > e.tat THEN t ELSE e.tat
    <3>1. /\ base \in Nat /\ new = base + Increment(r)
          /\ base + Increment(r) <= t + Dvt(r) /\ c.now = t
      BY <1>1, <1>3, AfterFacts, RequestFacts DEF Reading
    <3>2. t <= base
      BY <1>1, TimeAssumption DEF U64
    <3> HIDE DEF base, new
    <3>3. /\ Increment(r) \in Int /\ Dvt(r) \in Int
          /\ FirstTime - Skew + Increment(r) >= 0
          /\ FirstTime \in Nat /\ Skew \in Nat
      BY RequestFacts, ReplicationAssumption
    <3>. QED  BY <3>1, <3>2, <3>3
  <2>2. EndOfTime + Skew + Dvt(r) <= 2 * IntMax + 1 /\ Dvt(r) \in Int
        /\ EndOfTime \in Nat /\ Skew \in Nat
    BY RequestFacts, ReplicationAssumption
  <2>3. new \in U64 /\ AsU64(new) = new
    BY <2>1, <2>2, TimeAssumption DEF U64, AsU64
  <2>4. left = Write(new, new - c.now, t).entry
    BY <1>3, <2>1, <2>3 DEF Left, Update
  <2>5. left.tat = new
    BY <2>4, WrittenTat
  <2>6. left \in Entry
    BY <2>1, <2>3, <2>4, WriteType DEF Outcomes
  <2>. QED  BY <1>3, <2>5, <2>6 DEF After
<1>. QED  BY <1>2, <1>3

\* No refund is blocked, at any clock, on a TAT that is within a burst (mod.rs:175).
LEMMA RefundAllowed ==
    ASSUME RefundsPass, NEW r \in Requests, Increment(r) < 0, NEW a \in U64,
           NEW at \in Nat, NEW t \in Nat, at - Skew <= t, a > t, InBurst(r.key, a, at)
    PROVE  ~Limited(Reading(r, a, t))
<1>1. /\ a # None /\ a \in Nat /\ Skew \in Nat
      /\ Increment(r) \in Int /\ Dvt(r) \in Int
  BY RequestFacts, ReplicationAssumption, StoreAssumption, TimeAssumption DEF U64
<1>2. PICK q \in Requests : q.key = r.key /\ a - at <= Dvt(q) + Skew
  BY <1>1 DEF InBurst
<1>3. Dvt(q) + 2 * Skew <= Dvt(r) - Increment(r) /\ Dvt(q) \in Int
  BY <1>2, RequestFacts DEF RefundsPass
<1>4. a + Increment(r) <= t + Dvt(r)
  BY <1>1, <1>2, <1>3
<1>5. Limited(Reading(r, a, t)) <=> a + Increment(r) > t + Dvt(r)
  BY <1>1, AfterFacts
<1>. QED  BY <1>1, <1>4, <1>5

\* Two servers run the same command on TATs that are near: they stay near,
\* whatever each decides (lib.rs:89-91).
LEMMA StayNear ==
    ASSUME RefundsPass,
           NEW r \in Requests, NEW a \in U64 \cup {None}, NEW b \in U64 \cup {None},
           NEW d \in Nat, NEW at \in Nat, NEW now \in Nat, NEW tp \in Nat, NEW tr \in Nat,
           at - Skew <= tp, now - Skew <= tr,
           InBurst(r.key, a, at), InBurst(r.key, b, now),
           Near(a, b, d), tp - tr <= 2 * Skew, tr - tp <= 2 * Skew + d
    PROVE  Near(After(r, a, tp), After(r, b, tr), d)
<1> DEFINE ba == IF a = None THEN tp ELSE IF tp > a THEN tp ELSE a
           bb == IF b = None THEN tr ELSE IF tr > b THEN tr ELSE b
           inc == Increment(r)
           dvt == Dvt(r)
           la == Limited(Reading(r, a, tp))
           lb == Limited(Reading(r, b, tr))
<1>1. /\ inc \in Int /\ inc <= Chunk /\ dvt \in Int
      /\ Skew \in Nat /\ Chunk \in Nat
  BY RequestFacts, ReplicationAssumption
<1>2. /\ ba \in Nat /\ NewTat(Reading(r, a, tp)) = ba + inc
      /\ la <=> ba + inc > tp + dvt
  BY AfterFacts
<1>3. /\ bb \in Nat /\ NewTat(Reading(r, b, tr)) = bb + inc
      /\ lb <=> bb + inc > tr + dvt
  BY AfterFacts
<1>4. /\ After(r, a, tp) = IF la THEN a ELSE ba + inc
      /\ After(r, b, tr) = IF lb THEN b ELSE bb + inc
  BY <1>2, <1>3, Zenon DEF After
<1>5. (a = None <=> b = None) /\ (a = None \/ a \in Nat) /\ (b = None \/ b \in Nat)
  BY TimeAssumption DEF Near, U64
<1>6. ASSUME NEW x \in Int, NEW y \in Int,
             After(r, a, tp) = x, After(r, b, tr) = y,
             x - y <= Chunk + 2 * Skew, y - x <= Chunk + 2 * Skew + d
      PROVE  Near(After(r, a, tp), After(r, b, tr), d)
  BY <1>6, StoreAssumption DEF Near
<1>7. ba + inc \in Int /\ bb + inc \in Int
  BY <1>1, <1>2, <1>3
<1>8. /\ inc < 0 /\ a \in U64 /\ a > tp => ~la
      /\ inc < 0 /\ b \in U64 /\ b > tr => ~lb
  BY RefundAllowed
<1>9. CASE a = None
  <2>1. b = None /\ ba = tp /\ bb = tr
    BY <1>5, <1>9
  <2>2. la <=> lb
    BY <1>1, <1>2, <1>3, <2>1
  <2>3. CASE la
    BY <1>4, <1>9, <2>1, <2>2, <2>3 DEF Near
  <2>4. CASE ~la
    <3>1. After(r, a, tp) = tp + inc /\ After(r, b, tr) = tr + inc
      BY <1>4, <2>1, <2>2, <2>4
    <3>2. /\ (tp + inc) - (tr + inc) <= Chunk + 2 * Skew
          /\ (tr + inc) - (tp + inc) <= Chunk + 2 * Skew + d
      BY <1>1
    <3>. QED  BY <1>6, <1>7, <2>1, <3>1, <3>2
  <2>. QED  BY <2>3, <2>4
<1>10. CASE a # None
  <2>1. /\ a \in Nat /\ b \in Nat /\ a \in Int /\ b \in Int
        /\ b # None /\ a \in U64 /\ b \in U64
        /\ a - b <= Chunk + 2 * Skew /\ b - a <= Chunk + 2 * Skew + d
    BY <1>5, <1>10 DEF Near
  <2>2. ba = (IF tp > a THEN tp ELSE a) /\ bb = (IF tr > b THEN tr ELSE b)
    BY <1>10, <2>1
  <2> HIDE DEF ba, bb, inc, dvt, la, lb
  <2>3. CASE la /\ lb
    BY <1>4, <1>10, <2>1, <2>3 DEF Near
  <2>4. CASE ~la /\ ~lb
    <3>1. After(r, a, tp) = ba + inc /\ After(r, b, tr) = bb + inc
      BY <1>4, <2>4
    <3>2. ba - bb <= Chunk + 2 * Skew /\ bb - ba <= Chunk + 2 * Skew + d
      BY <1>1, <2>1, <2>2
    <3>3. /\ (ba + inc) - (bb + inc) <= Chunk + 2 * Skew
          /\ (bb + inc) - (ba + inc) <= Chunk + 2 * Skew + d
      BY <1>1, <1>2, <1>3, <3>2
    <3>. QED  BY <1>6, <1>7, <3>1, <3>3
  <2>5. CASE ~la /\ lb
    <3>1. After(r, a, tp) = ba + inc /\ After(r, b, tr) = b
      BY <1>4, <2>5
    <3>2. ba + inc <= tp + dvt /\ bb + inc > tr + dvt /\ tp <= ba /\ a <= ba
      BY <1>1, <1>2, <1>3, <2>1, <2>2, <2>5
    <3>3. bb = b
      BY <1>1, <1>2, <1>3, <2>1, <2>2, <3>2
    <3>4. inc >= 0
      <4>1. b > tr /\ b \in U64
        BY <1>1, <1>2, <1>3, <2>1, <3>2, <3>3
      <4>. QED  BY <1>1, <1>8, <2>5, <4>1
    <3>5. (ba + inc) - b <= Chunk + 2 * Skew
      BY <1>1, <1>2, <2>1, <3>2, <3>3
    <3>6. b - (ba + inc) <= Chunk + 2 * Skew + d
      BY <1>1, <1>2, <2>1, <3>2, <3>4
    <3>. QED  BY <1>6, <1>7, <2>1, <3>1, <3>5, <3>6, Zenon
  <2>6. CASE la /\ ~lb
    <3>1. After(r, a, tp) = a /\ After(r, b, tr) = bb + inc
      BY <1>4, <2>6
    <3>2. ba + inc > tp + dvt /\ bb + inc <= tr + dvt /\ tr <= bb /\ b <= bb
      BY <1>1, <1>2, <1>3, <2>1, <2>2, <2>6
    <3>3. ba = a
      BY <1>1, <1>2, <1>3, <2>1, <2>2, <3>2
    <3>4. inc >= 0
      <4>1. a > tp /\ a \in U64
        BY <1>1, <1>2, <1>3, <2>1, <3>2, <3>3
      <4>. QED  BY <1>1, <1>8, <2>6, <4>1
    <3>5. (bb + inc) - a <= Chunk + 2 * Skew + d
      BY <1>1, <1>3, <2>1, <3>2, <3>3
    <3>6. a - (bb + inc) <= Chunk + 2 * Skew
      BY <1>1, <1>3, <2>1, <3>2, <3>4
    <3>. QED  BY <1>6, <1>7, <2>1, <3>1, <3>5, <3>6, Zenon
  <2>. QED  BY <2>3, <2>4, <2>5, <2>6
<1>. QED  BY <1>9, <1>10

\* A refund whose TTL is refused leaves a TAT that is past, and takes nothing
\* (store.rs:225-232).
LEMMA RefusedFacts ==
    ASSUME NEW r \in Requests, NEW value \in U64 \cup {None}, NEW t \in Nat,
           Refused(Reading(r, value, t))
    PROVE  After(r, value, t) \in Int /\ After(r, value, t) <= t
<1> DEFINE c == Reading(r, value, t)
           base == IF value = None THEN t ELSE IF t > value THEN t ELSE value
           new == NewTat(c)
<1>1. /\ base \in Nat /\ new = base + Increment(r)
      /\ Increment(r) \in Int /\ c.now = t
  BY AfterFacts, RequestFacts DEF Reading
<1>2. t <= base
  BY TimeAssumption DEF U64
<1> HIDE DEF base
<1>3. new \in Int /\ new - t \in Int
  BY <1>1
<1>4. ~Limited(c) /\ Write(AsU64(new), new - t, t).result = "error"
  BY <1>1 DEF Refused, Update
<1> HIDE DEF new
<1>5. new - t < 0
  BY <1>3, <1>4, RefusedWrite
<1>6. new <= t
  BY <1>3, <1>5
<1>7. After(r, value, t) = new
  BY <1>4 DEF After, new
<1>. QED  BY <1>3, <1>6, <1>7

\* Two servers run the same command on TATs of which the replica's remembers what the
\* primary's asks for: it still does, whatever each decides and whatever refunds were
\* not replicated in between (lib.rs:89-91).
LEMMA StayRemembered ==
    ASSUME RefundsPass, NEW r \in Requests,
           NEW m \in U64 \cup {None}, NEW a \in U64 \cup {None}, NEW b \in U64 \cup {None},
           NEW at \in Nat, NEW now \in Nat, at <= now, NEW tp \in Nat, NEW tr \in Nat,
           at - Skew <= tp, tp <= at + Skew, now - Skew <= tr,
           Succeeds(r.key, m, a, at), InBurst(r.key, a, at), Remembers(m, b, now)
    PROVE  Remembers(After(r, a, tp), After(r, b, tr), now)
<1> DEFINE ba == IF a = None THEN tp ELSE IF tp > a THEN tp ELSE a
           bb == IF b = None THEN tr ELSE IF tr > b THEN tr ELSE b
           inc == Increment(r)
           dvt == Dvt(r)
           la == Limited(Reading(r, a, tp))
           lb == Limited(Reading(r, b, tr))
           x == After(r, a, tp)
           y == After(r, b, tr)
<1>1. /\ inc \in Int /\ inc <= Chunk /\ dvt \in Int
      /\ Skew \in Nat /\ Chunk \in Nat
  BY RequestFacts, ReplicationAssumption
<1>2. /\ ba \in Nat /\ NewTat(Reading(r, a, tp)) = ba + inc
      /\ la <=> ba + inc > tp + dvt
  BY AfterFacts
<1>3. /\ bb \in Nat /\ NewTat(Reading(r, b, tr)) = bb + inc
      /\ lb <=> bb + inc > tr + dvt
  BY AfterFacts
<1>4. x = (IF la THEN a ELSE ba + inc) /\ y = (IF lb THEN b ELSE bb + inc)
  BY <1>2, <1>3, Zenon DEF After
<1>5. (a = None \/ a \in Nat) /\ (b = None \/ b \in Nat)
  BY TimeAssumption DEF U64
<1>6. /\ tp <= ba /\ tr <= bb
      /\ a = None => ba = tp
      /\ a # None => ba = (IF tp > a THEN tp ELSE a)
      /\ b = None => bb = tr
      /\ b # None => bb = (IF tr > b THEN tr ELSE b)
  <2>1. tp <= ba /\ tr <= bb
    BY <1>5
  <2>. QED  BY <2>1
<1>7. tp <= now + Skew /\ tp - tr <= 2 * Skew
  BY <1>1
<1>8. None \notin Int
  BY StoreAssumption
<1>9. inc < 0 /\ a \in U64 /\ a > tp => ~la
  BY RefundAllowed
<1> HIDE DEF ba, bb, inc, dvt, la, lb, x, y
<1> SUFFICES ASSUME x # None, x > now + Skew
             PROVE  y # None /\ x - y <= Chunk + 2 * Skew
  BY DEF Remembers, x, y
<1>10. CASE a = None \/ a <= now + Skew
  <2>1. ~la /\ x = ba + inc
    BY <1>1, <1>4, <1>5, <1>10
  <2>2. ba <= now + Skew /\ ba + inc <= tp + dvt
    BY <1>1, <1>2, <1>5, <1>6, <1>7, <1>10, <2>1
  <2>3. CASE lb
    <3>1. bb + inc > tr + dvt /\ inc <= dvt
      BY <1>1, <1>2, <1>3, <1>6, <2>2, <2>3
    <3>2. b # None /\ bb = b /\ y = b /\ b \in Nat
      BY <1>1, <1>3, <1>4, <1>5, <1>6, <2>3, <3>1
    <3>. QED  BY <1>1, <1>2, <1>7, <2>1, <2>2, <3>1, <3>2
  <2>4. CASE ~lb
    <3>1. y = bb + inc /\ y \in Int
      BY <1>1, <1>3, <1>4, <2>4
    <3>. QED  BY <1>1, <1>2, <1>3, <1>6, <1>8, <2>1, <2>2, <3>1
  <2>. QED  BY <2>3, <2>4
<1>11. CASE a # None /\ a > now + Skew
  <2>1. a \in Nat /\ ba = a /\ a > tp /\ a \in U64
    BY <1>1, <1>5, <1>6, <1>7, <1>11
  <2>2. m = a
    BY <1>1, <1>11, <2>1 DEF Succeeds
  <2>3. b # None /\ b \in Nat /\ b <= bb /\ a - b <= Chunk + 2 * Skew
    BY <1>5, <1>6, <1>11, <2>2 DEF Remembers
  <2>4. CASE la /\ lb
    BY <1>4, <2>3, <2>4
  <2>5. CASE ~la /\ ~lb
    <3>1. x = a + inc /\ y = bb + inc /\ y \in Int
      BY <1>1, <1>3, <1>4, <2>1, <2>5
    <3>. QED  BY <1>1, <1>3, <1>8, <2>1, <2>3, <3>1
  <2>6. CASE ~la /\ lb
    <3>1. x = a + inc /\ y = b /\ a + inc <= tp + dvt /\ bb + inc > tr + dvt
      BY <1>1, <1>2, <1>3, <1>4, <2>1, <2>6
    <3>2. CASE inc < 0
      BY <1>1, <2>1, <2>3, <3>1, <3>2
    <3>3. CASE inc >= 0
      <4>1. bb = b
        BY <1>1, <1>3, <1>6, <2>1, <2>3, <3>1
      <4>. QED  BY <1>1, <1>7, <2>1, <2>3, <3>1, <4>1
    <3>. QED  BY <1>1, <3>2, <3>3
  <2>7. CASE la /\ ~lb
    <3>1. inc >= 0
      BY <1>1, <1>9, <1>11, <2>1, <2>7
    <3>2. x = a /\ y = bb + inc /\ y \in Int
      BY <1>1, <1>3, <1>4, <2>7
    <3>. QED  BY <1>1, <1>3, <1>8, <2>1, <2>3, <3>1, <3>2
  <2>. QED  BY <2>4, <2>5, <2>6, <2>7
<1>. QED  BY <1>1, <1>5, <1>10, <1>11

-----------------------------------------------------------------------------
\* Two TATs that were near are near after a longer delay as well.
LEMMA NearAfter ==
    ASSUME NEW a \in U64 \cup {None}, NEW b \in U64 \cup {None},
           NEW d \in Nat, NEW e \in Nat, d <= e, Near(a, b, d)
    PROVE  Near(a, b, e)
<1>1. a # None => a \in Int /\ b \in Int
  BY TimeAssumption DEF Near, U64
<1>. QED  BY <1>1, ReplicationAssumption DEF Near

\* What Keys -> Entry and the streams hold.
LEMMA StateFacts ==
    ASSUME TypeOK, NEW k \in Keys
    PROVE  /\ time \in Nat /\ FirstTime <= time /\ time <= EndOfTime /\ lag \in Nat
           /\ Skew \in Nat /\ FirstTime \in Nat /\ EndOfTime \in Nat /\ Skew <= FirstTime
           /\ primary[k] \in Entry /\ replica[k] \in Entry
           /\ primary[k].tat \in U64 \cup {None} /\ replica[k].tat \in U64 \cup {None}
           /\ mirror[k] \in U64 \cup {None}
           /\ stream[k] \in Seq(Command)
BY ReplicationAssumption DEF TypeOK, Entry

\* A clock that can be read, and what LeftFacts asks of it.
LEMMA ClockFacts ==
    ASSUME TypeOK, NEW t \in Clock
    PROVE  /\ t \in Nat /\ FirstTime - Skew <= t /\ t <= EndOfTime + Skew
           /\ time - Skew <= t /\ t <= time + Skew
BY ReplicationAssumption DEF TypeOK, Clock

\* Whatever a command decides, at a clock of the time, its TAT is within the burst of
\* its quota or as it was (mod.rs:166-189).
LEMMA StayInBurst ==
    ASSUME TypeOK, NEW r \in Requests, NEW value \in U64 \cup {None}, NEW t \in Clock,
           InBurst(r.key, value, time)
    PROVE  InBurst(r.key, After(r, value, t), time)
<1> DEFINE c == Reading(r, value, t)
           base == IF value = None THEN t ELSE IF t > value THEN t ELSE value
<1>1. t \in Nat /\ t <= time + Skew /\ time \in Nat /\ Skew \in Nat
  BY ClockFacts, ReplicationAssumption DEF TypeOK
<1>2. CASE Limited(c)
  BY <1>2 DEF After
<1>3. CASE ~Limited(c)
  <2>1. /\ base \in Nat /\ NewTat(c) = base + Increment(r)
        /\ base + Increment(r) <= t + Dvt(r)
        /\ Increment(r) \in Int /\ Dvt(r) \in Int /\ r.key \in Keys
    <3>1. /\ base \in Nat /\ NewTat(c) = base + Increment(r)
          /\ Limited(c) <=> base + Increment(r) > t + Dvt(r)
      BY <1>1, AfterFacts
    <3>2. Increment(r) \in Int /\ Dvt(r) \in Int /\ r.key \in Keys
      BY RequestFacts
    <3> HIDE DEF base, c
    <3>. QED  BY <1>1, <1>3, <3>1, <3>2
  <2> HIDE DEF base
  <2>2. NewTat(c) - time <= Dvt(r) + Skew
    BY <1>1, <2>1
  <2>3. After(r, value, t) = NewTat(c)
    BY <1>3 DEF After
  <2>. QED  BY <2>2, <2>3 DEF InBurst
<1>. QED  BY <1>2, <1>3

\* Time only brings a TAT nearer, and what is true of a TAT stays true.
LEMMA TimePasses ==
    ASSUME NEW k \in Keys, NEW a \in U64 \cup {None}, NEW b \in U64 \cup {None},
           NEW t \in Nat
    PROVE  /\ InBurst(k, a, t) => InBurst(k, a, t + 1)
           /\ Succeeds(k, a, b, t) => Succeeds(k, a, b, t + 1)
           /\ Remembers(a, b, t) => Remembers(a, b, t + 1)
<1>1. (a = None \/ a \in Nat) /\ (b = None \/ b \in Nat)
  BY TimeAssumption DEF U64
<1>2. Skew \in Nat /\ \A r \in Requests : Dvt(r) + Skew \in Int
  BY RequestFacts, ReplicationAssumption
<1>3. InBurst(k, a, t) => InBurst(k, a, t + 1)
  <2>1. \A x \in Nat, y \in Int : x - t <= y => x - (t + 1) <= y
    OBVIOUS
  <2>. QED  BY <1>1, <1>2, <2>1 DEF InBurst
<1>4. Succeeds(k, a, b, t) => Succeeds(k, a, b, t + 1)
  <2>1. b \in Nat /\ b <= t + Skew => b <= t + 1 + Skew
    BY <1>2
  <2>. QED  BY <2>1 DEF Succeeds
<1>5. Remembers(a, b, t) => Remembers(a, b, t + 1)
  <2>1. a # None /\ a > t + 1 + Skew => a > t + Skew
    BY <1>1, <1>2
  <2>. QED  BY <2>1 DEF Remembers
<1>. QED  BY <1>3, <1>4, <1>5

\* At first both servers are empty.
LEMMA FollowInit == Init => FollowInv
<1> SUFFICES ASSUME Init PROVE FollowInv
  OBVIOUS
<1>1. Absent \in Entry /\ Absent.tat = None
  BY DEF Absent, Entry
<1>2. time \in FirstTime..EndOfTime /\ lag \in Nat /\ lost \subseteq Keys
  BY ReplicationAssumption DEF Init
<1>3. /\ primary \in [Keys -> Entry] /\ replica \in [Keys -> Entry]
      /\ mirror \in [Keys -> U64 \cup {None}] /\ stream \in [Keys -> Seq(Command)]
  BY <1>1 DEF Init
<1>4. ASSUME NEW k \in Keys PROVE KeyInv(k)
  <2>1. /\ stream[k] = <<>> /\ Len(stream[k]) = 0
        /\ primary[k].tat = None /\ replica[k].tat = None /\ mirror[k] = None
    BY <1>1 DEF Init
  <2>. QED  BY <2>1 DEF KeyInv, Linked, Near, Succeeds, InBurst, Remembers
<1>. QED  BY <1>2, <1>3, <1>4 DEF FollowInv, TypeOK

\* A command is added at the end of a stream, from the TAT the primary had to the
\* one it has (lib.rs:89-91).
LEMMA ReplicateStep ==
    ASSUME FollowInv, NEW k \in Keys, NEW cmd \in {"throttle", "del"},
           NEW r \in Requests \cup {None}, NEW e \in Entry, Replicate(k, cmd, r, e),
           InBurst(k, e.tat, time),
           Decided(k, [cmd |-> cmd, req |-> r, was |-> primary[k].tat,
                       tat |-> e.tat, at |-> time], time)
    PROVE  FollowInv'
<1> DEFINE s == [cmd |-> cmd, req |-> r, was |-> primary[k].tat,
                 tat |-> e.tat, at |-> time]
           old == stream[k]
           new == stream'[k]
<1>0. TypeOK
  BY DEF FollowInv
<1>1. s \in Command
  BY <1>0, StateFacts DEF Command, Entry
<1>2. /\ primary' = [primary EXCEPT ![k] = e]
      /\ stream' = [stream EXCEPT ![k] = Append(stream[k], s)]
      /\ time' = time /\ replica' = replica /\ mirror' = mirror /\ lag' = lag
      /\ lost' = lost
  BY DEF Replicate
<1>3. old \in Seq(Command)
  BY <1>0, StateFacts
<1>4. Append(old, s) \in Seq(Command)
  BY <1>1, <1>3
<1>5. TypeOK'
  BY <1>0, <1>2, <1>4 DEF TypeOK
<1>6. ASSUME NEW j \in Keys, j # k PROVE KeyInv(j)'
  <2>1. stream'[j] = stream[j] /\ primary'[j] = primary[j]
    BY <1>0, <1>2, <1>6 DEF TypeOK
  <2>2. KeyInv(j)
    BY DEF FollowInv
  <2>3. Linked(j)'
    BY <1>2, <2>1, <2>2 DEF KeyInv, Linked, Succeeds
  <2>. QED  BY <1>2, <2>1, <2>2, <2>3, Zenon DEF KeyInv
<1>7. KeyInv(k)'
  <2> HIDE DEF s, old, new
  <2>1. new = Append(old, s) /\ primary'[k] = e
    BY <1>0, <1>2 DEF TypeOK, new, old
  <2>2. /\ Len(new) = Len(old) + 1 /\ Len(old) \in Nat
        /\ \A i \in 1..Len(old) : new[i] = old[i]
        /\ new[Len(old) + 1] = s /\ new # <<>>
    BY <1>1, <1>3, <2>1
  <2>3. /\ \A i \in 1..Len(old) : Decided(k, old[i], time)
        /\ old = <<>> => Succeeds(k, mirror[k], primary[k].tat, time)
        /\ old # <<>> =>
              /\ Succeeds(k, mirror[k], old[1].was, old[1].at)
              /\ Succeeds(k, old[Len(old)].tat, primary[k].tat, time)
        /\ \A i \in 1..(Len(old) - 1) :
              Succeeds(k, old[i].tat, old[i + 1].was, old[i + 1].at)
        /\ InBurst(k, replica[k].tat, time)
        /\ RefundsPass /\ k \notin lost => Near(mirror[k], replica[k].tat, lag)
        /\ RefundsPass => Remembers(mirror[k], replica[k].tat, time)
    BY Zenon DEF FollowInv, KeyInv, Linked, old
  <2>4. s.was = primary[k].tat /\ s.tat = e.tat /\ s.at = time /\ Decided(k, s, time)
    BY DEF s
  <2>5. \A i \in 1..Len(new) : Decided(k, new[i], time)
    BY <2>2, <2>3, <2>4
  <2>6. Succeeds(k, mirror[k], new[1].was, new[1].at)
    <3>1. CASE old = <<>>
      BY <1>3, <2>2, <2>3, <2>4, <3>1
    <3>2. CASE old # <<>>
      <4>1. 1 \in 1..Len(old)
        BY <1>3, <3>2
      <4>. QED  BY <2>2, <2>3, <3>2, <4>1
    <3>. QED  BY <3>1, <3>2
  <2>7. Succeeds(k, new[Len(new)].tat, e.tat, time)
    BY <2>2, <2>4 DEF Succeeds
  <2>8. ASSUME NEW i \in 1..(Len(new) - 1)
        PROVE  Succeeds(k, new[i].tat, new[i + 1].was, new[i + 1].at)
    <3>1. CASE i = Len(old)
      <4>1. old # <<>>
        BY <1>3, <2>2, <3>1
      <4>. QED  BY <2>2, <2>3, <2>4, <3>1, <4>1
    <3>2. CASE i # Len(old)
      <4>1. i \in 1..(Len(old) - 1) /\ i \in 1..Len(old) /\ i + 1 \in 1..Len(old)
        BY <2>2, <3>2
      <4>. QED  BY <2>2, <2>3, <4>1
    <3>. QED  BY <3>1, <3>2
  <2>9. Linked(k)'
    BY <1>2, <2>1, <2>2, <2>6, <2>7, <2>8 DEF Linked, Succeeds, new
  <2>10. \A i \in 1..Len(stream'[k]) : Decided(k, stream'[k][i], time')
    BY <1>2, <2>5 DEF new
  <2>. QED  BY <1>2, <2>1, <2>3, <2>9, <2>10, Zenon DEF KeyInv
<1>. QED  BY <1>5, <1>6, <1>7 DEF FollowInv

\* What the primary runs and replicates is a command that it has decided.
LEMMA PrimaryStep ==
    ASSUME FollowInv,
           \/ \E r \in Requests : RunThrottle(r)
           \/ \E k \in Keys : Expire(k)
    PROVE  FollowInv'
<1>1. TypeOK
  BY DEF FollowInv
<1>2. ASSUME NEW r \in Requests, RunThrottle(r) PROVE FollowInv'
  <2> DEFINE k == r.key
             c(t) == Reading(r, primary[k].tat, t)
             s(e) == [cmd |-> "throttle", req |-> r, was |-> primary[k].tat,
                      tat |-> e.tat, at |-> time]
  <2>1. k \in Keys
    BY RequestFacts
  <2>2. /\ time \in Nat /\ FirstTime <= time /\ FirstTime \in Nat
        /\ primary[k] \in Entry /\ primary[k].tat \in U64 \cup {None}
        /\ InBurst(k, primary[k].tat, time)
    BY <1>1, <2>1, StateFacts DEF FollowInv, KeyInv
  <2>3. PICK t \in Clock : Replicate(k, "throttle", r, Left(primary[k], c(t)))
    BY <1>2, Zenon DEF RunThrottle
  <2>4. /\ t \in (time - Skew)..(time + Skew)
        /\ t \in Nat /\ FirstTime - Skew <= t /\ t <= EndOfTime + Skew
    BY <1>1, ClockFacts DEF Clock
  <2> DEFINE e == Left(primary[k], c(t))
  <2>5. e \in Entry /\ e.tat = After(r, primary[k].tat, t)
    BY <2>2, <2>4, LeftFacts
  <2> HIDE DEF e
  <2>6. e.tat \in U64 \cup {None}
    BY <2>5 DEF Entry
  <2>7. Decided(k, s(e), time)
    BY <2>1, <2>2, <2>4, <2>5, <2>6 DEF Decided
  <2>8. InBurst(k, e.tat, time)
    BY <1>1, <2>2, <2>5, StayInBurst
  <2>9. Replicate(k, "throttle", r, e)
    BY <2>3 DEF e
  <2>. QED  BY <2>1, <2>5, <2>7, <2>8, <2>9, ReplicateStep
<1>3. ASSUME NEW k \in Keys, Expire(k) PROVE FollowInv'
  <2>1. Absent \in Entry /\ Absent.tat = None
    BY DEF Absent, Entry
  <2>2. InBurst(k, primary[k].tat, time) /\ InBurst(k, Absent.tat, time)
    BY <2>1 DEF FollowInv, KeyInv, InBurst
  <2>3. Decided(k, [cmd |-> "del", req |-> None, was |-> primary[k].tat,
                    tat |-> Absent.tat, at |-> time], time)
    BY <1>1, <2>1, <2>2, StateFacts DEF Decided
  <2>4. Replicate(k, "del", None, Absent)
    BY <1>3 DEF Expire
  <2>. QED  BY <2>1, <2>2, <2>3, <2>4, ReplicateStep
<1>. QED  BY <1>2, <1>3

\* A refund that fails moves the primary's TAT to the past, and the stream knows
\* nothing of it (lib.rs:64-91).
LEMMA RefusedStep ==
    ASSUME FollowInv, NEW r \in Requests, RunRefused(r)
    PROVE  FollowInv'
<1>1. TypeOK
  BY DEF FollowInv
<1>2. PICK k \in Keys : k = r.key
  BY RequestFacts
<1>3. PICK t \in Clock :
         /\ Refused(Reading(r, primary[k].tat, t))
         /\ primary' = [primary EXCEPT ![k] =
                           Left(primary[k], Reading(r, primary[k].tat, t))]
  BY <1>2, Zenon DEF RunRefused
<1>4. time' = time /\ stream' = stream /\ replica' = replica /\ mirror' = mirror
      /\ lag' = lag
  BY DEF RunRefused
<1>5. lost' = lost \cup {k}
  BY <1>2 DEF RunRefused
<1>6. /\ t \in Nat /\ FirstTime - Skew <= t /\ t <= EndOfTime + Skew /\ t <= time + Skew
      /\ time \in Nat /\ Skew \in Nat
      /\ primary[k] \in Entry /\ primary[k].tat \in U64 \cup {None}
  BY <1>1, ClockFacts, StateFacts
<1>7. PICK e : e = Left(primary[k], Reading(r, primary[k].tat, t))
  OBVIOUS
<1>8. e \in Entry /\ e.tat = After(r, primary[k].tat, t)
  BY <1>6, <1>7, LeftFacts
<1>9. e.tat \in Int /\ e.tat <= time + Skew
  <2>1. /\ After(r, primary[k].tat, t) \in Int
        /\ After(r, primary[k].tat, t) <= t
    BY <1>3, <1>6, RefusedFacts
  <2>. QED  BY <1>6, <1>8, <2>1
<1>10. primary' = [primary EXCEPT ![k] = e]
  BY <1>3, <1>7
<1>11. e.tat \in Nat
  BY <1>8, <1>9, StoreAssumption, TimeAssumption DEF Entry, U64
<1>12. InBurst(k, e.tat, time)
  BY <1>1, <1>2, <1>6, <1>8, StayInBurst DEF FollowInv, KeyInv
<1>13. TypeOK'
  BY <1>1, <1>4, <1>5, <1>8, <1>10 DEF TypeOK
<1>14. ASSUME NEW j \in Keys PROVE KeyInv(j)'
  <2>1. KeyInv(j) /\ primary'[j] = IF j = k THEN e ELSE primary[j]
    BY <1>1, <1>10 DEF FollowInv, TypeOK
  <2>2. InBurst(j, primary'[j].tat, time)
    BY <1>12, <2>1 DEF KeyInv
  <2>3. Linked(j)'
    <3>1. Linked(j)
      BY <2>1 DEF KeyInv
    <3>2. CASE j = k
      BY <1>4, <1>5, <1>9, <1>11, <2>1, <3>1, <3>2 DEF Linked, Succeeds
    <3>3. CASE j # k
      BY <1>4, <1>5, <2>1, <3>1, <3>3 DEF Linked, Succeeds
    <3>. QED  BY <3>2, <3>3
  <2>4. j \in lost => j \in lost'
    BY <1>5
  <2>. QED  BY <1>4, <2>1, <2>2, <2>3, <2>4, Zenon DEF KeyInv
<1>. QED  BY <1>13, <1>14 DEF FollowInv

\* The replica takes the first command of a stream, late.
LEMMA FollowStep ==
    ASSUME FollowInv, NEW k \in Keys, Follow(k)
    PROVE  FollowInv'
<1> DEFINE old == stream[k]
           s == old[1]
           late == Later(lag, time - s.at)
<1>0. TypeOK
  BY DEF FollowInv
<1>1. /\ time \in Nat /\ FirstTime <= time /\ lag \in Nat
      /\ Skew \in Nat /\ FirstTime \in Nat /\ Skew <= FirstTime
      /\ replica[k] \in Entry /\ replica[k].tat \in U64 \cup {None}
      /\ mirror[k] \in U64 \cup {None}
      /\ old \in Seq(Command)
  BY <1>0, StateFacts
<1>2. old # <<>> /\ Head(old) = s
  BY <1>1 DEF Follow
<1>3. PICK e \in Results(k, s) : replica' = [replica EXCEPT ![k] = e]
  BY <1>2, Zenon DEF Follow
<1>4. /\ mirror' = [mirror EXCEPT ![k] = s.tat]
      /\ lag' = late /\ time' = time /\ primary' = primary /\ lost' = lost
      /\ stream' = [stream EXCEPT ![k] = Tail(stream[k])]
  BY <1>2, Zenon DEF Follow
<1>5. /\ Len(old) \in Nat /\ Len(old) >= 1
      /\ Tail(old) \in Seq(Command) /\ Len(Tail(old)) = Len(old) - 1
      /\ \A i \in 1..(Len(old) - 1) : Tail(old)[i] = old[i + 1]
  BY <1>1, <1>2
<1>6. /\ \A i \in 1..Len(old) : Decided(k, old[i], time)
      /\ Succeeds(k, mirror[k], old[1].was, old[1].at)
      /\ Succeeds(k, old[Len(old)].tat, primary[k].tat, time)
      /\ \A i \in 1..(Len(old) - 1) : Succeeds(k, old[i].tat, old[i + 1].was, old[i + 1].at)
      /\ InBurst(k, primary[k].tat, time) /\ InBurst(k, replica[k].tat, time)
      /\ RefundsPass /\ k \notin lost => Near(mirror[k], replica[k].tat, lag)
      /\ RefundsPass => Remembers(mirror[k], replica[k].tat, time)
  BY <1>2, Zenon DEF FollowInv, KeyInv, Linked
<1>7. Decided(k, s, time) /\ Succeeds(k, mirror[k], s.was, s.at)
  BY <1>5, <1>6
<1> HIDE DEF old, s
<1>8. /\ s.at \in Nat /\ FirstTime <= s.at /\ s.at <= time
      /\ s.was \in U64 \cup {None} /\ s.tat \in U64 \cup {None}
      /\ InBurst(k, s.was, s.at)
  BY <1>1, <1>7 DEF Decided
<1>9. late \in Nat /\ lag <= late /\ time - s.at <= late
  BY <1>1, <1>8 DEF Later
<1> HIDE DEF late
<1>10. /\ e \in Entry /\ InBurst(k, e.tat, time)
       /\ RefundsPass /\ k \notin lost => Near(s.tat, e.tat, late)
       /\ RefundsPass => Remembers(s.tat, e.tat, time)
  <2>1. CASE s.cmd = "del"
    <3>1. s.tat = None /\ e = Absent
      BY <1>3, <1>7, <2>1 DEF Decided, Results
    <3>. QED  BY <3>1 DEF Absent, Entry, InBurst, Near, Remembers
  <2>2. CASE s.cmd # "del"
    <3>1. PICK tp \in (s.at - Skew)..(s.at + Skew) :
             s.req \in Requests /\ s.req.key = k /\ s.tat = After(s.req, s.was, tp)
      BY <1>7, <2>2 DEF Decided
    <3>2. PICK tr \in Clock :
             e = Left(replica[k], Reading(s.req, replica[k].tat, tr))
      BY <1>3, <2>2 DEF Results
    <3>3. /\ tr \in Nat /\ FirstTime - Skew <= tr /\ tr <= EndOfTime + Skew
          /\ time - Skew <= tr /\ tr <= time + Skew
      BY <1>0, ClockFacts
    <3>4. /\ tp \in Nat /\ s.at - Skew <= tp /\ tp <= s.at + Skew
          /\ tp - tr <= 2 * Skew /\ tr - tp <= 2 * Skew + late
      BY <1>1, <1>8, <1>9, <3>3
    <3>5. e \in Entry /\ e.tat = After(s.req, replica[k].tat, tr)
      BY <1>1, <3>1, <3>2, <3>3, LeftFacts
    <3>6. InBurst(k, e.tat, time)
      BY <1>0, <1>1, <1>6, <3>1, <3>5, StayInBurst
    <3>7. ASSUME RefundsPass, k \notin lost PROVE Near(s.tat, e.tat, late)
      <4>1. s.was = mirror[k]
        BY <1>7, <3>7 DEF Succeeds
      <4>2. Near(mirror[k], replica[k].tat, late)
        BY <1>1, <1>6, <1>9, <3>7, NearAfter
      <4>3. InBurst(s.req.key, mirror[k], s.at) /\ InBurst(s.req.key, replica[k].tat, time)
        BY <1>6, <1>8, <3>1, <4>1
      <4>4. Near(After(s.req, mirror[k], tp), After(s.req, replica[k].tat, tr), late)
        BY <1>1, <1>8, <1>9, <3>1, <3>3, <3>4, <3>7, <4>2, <4>3, StayNear
      <4>. QED  BY <3>1, <3>5, <4>1, <4>4
    <3>8. ASSUME RefundsPass PROVE Remembers(s.tat, e.tat, time)
      <4>1. Remembers(mirror[k], replica[k].tat, time)
        BY <1>6, <3>8
      <4>2. InBurst(s.req.key, s.was, s.at)
        BY <1>8, <3>1
      <4>3. Remembers(After(s.req, s.was, tp), After(s.req, replica[k].tat, tr), time)
        BY <1>1, <1>7, <1>8, <3>1, <3>3, <3>4, <3>8, <4>1, <4>2, StayRemembered
      <4>. QED  BY <3>1, <3>5, <4>3
    <3>. QED  BY <3>5, <3>6, <3>7, <3>8
  <2>. QED  BY <2>1, <2>2
<1>11. TypeOK'
  BY <1>0, <1>3, <1>4, <1>5, <1>8, <1>9, <1>10 DEF TypeOK, old
<1>12. ASSUME NEW j \in Keys, j # k PROVE KeyInv(j)'
  <2>1. /\ stream'[j] = stream[j] /\ primary'[j] = primary[j]
        /\ replica'[j] = replica[j] /\ mirror'[j] = mirror[j]
    BY <1>0, <1>3, <1>4, <1>12 DEF TypeOK
  <2>2. KeyInv(j)
    BY DEF FollowInv
  <2>3. RefundsPass /\ j \notin lost => Near(mirror[j], replica[j].tat, lag')
    BY <1>0, <1>1, <1>4, <1>9, <2>2, StateFacts, NearAfter DEF KeyInv
  <2>4. Linked(j)'
    BY <1>4, <2>1, <2>2 DEF KeyInv, Linked, Succeeds
  <2>. QED  BY <1>4, <2>1, <2>2, <2>3, <2>4, Zenon DEF KeyInv
<1>13. KeyInv(k)'
  <2> DEFINE new == stream'[k]
  <2>1. /\ new = Tail(old) /\ replica'[k] = e /\ mirror'[k] = s.tat
        /\ primary'[k] = primary[k]
    BY <1>0, <1>3, <1>4 DEF TypeOK, old
  <2>2. \A i \in 1..Len(new) : Decided(k, new[i], time)
    BY <1>5, <1>6, <2>1
  <2>3. new = <<>> => Succeeds(k, s.tat, primary[k].tat, time)
    <3>1. new = <<>> => Len(old) = 1
      BY <1>5, <2>1
    <3>. QED  BY <1>6, <3>1 DEF s
  <2>4. new # <<>> => /\ Succeeds(k, s.tat, new[1].was, new[1].at)
                      /\ Succeeds(k, new[Len(new)].tat, primary[k].tat, time)
    <3>1. new # <<>> => Len(old) - 1 >= 1
      BY <1>5, <2>1
    <3>. QED  BY <1>5, <1>6, <2>1, <3>1 DEF s
  <2>5. \A i \in 1..(Len(new) - 1) : Succeeds(k, new[i].tat, new[i + 1].was, new[i + 1].at)
    BY <1>5, <1>6, <2>1
  <2> HIDE DEF new
  <2>6. Linked(k)'
    BY <1>4, <2>1, <2>3, <2>4, <2>5 DEF Linked, Succeeds, new
  <2>7. \A i \in 1..Len(stream'[k]) : Decided(k, stream'[k][i], time')
    BY <1>4, <2>2 DEF new
  <2>. QED  BY <1>4, <1>6, <1>10, <2>1, <2>6, <2>7, Zenon DEF KeyInv
<1>. QED  BY <1>11, <1>12, <1>13 DEF FollowInv

\* Every step keeps the keys of the two servers as close as that.
LEMMA FollowInvStep == FollowInv /\ [Next]_vars => FollowInv'
<1> SUFFICES ASSUME FollowInv, [Next]_vars PROVE FollowInv'
  OBVIOUS
<1>1. ASSUME Pass PROVE FollowInv'
  <2>1. /\ time' = time + 1 /\ time < EndOfTime
        /\ UNCHANGED <<primary, stream, replica, mirror, lag, lost>>
    BY <1>1 DEF Pass
  <2>2. TypeOK'
    BY <2>1, ReplicationAssumption DEF FollowInv, TypeOK
  <2>3. time \in Nat /\ FirstTime \in Nat /\ TypeOK
    BY ReplicationAssumption DEF FollowInv, TypeOK
  <2>4. ASSUME NEW k \in Keys PROVE KeyInv(k)'
    <3>1. KeyInv(k)
      BY DEF FollowInv
    <3>2. /\ primary[k].tat \in U64 \cup {None} /\ replica[k].tat \in U64 \cup {None}
          /\ mirror[k] \in U64 \cup {None} /\ stream[k] \in Seq(Command)
      BY <2>3, StateFacts
    <3>3. \A s : Decided(k, s, time) => Decided(k, s, time + 1)
      <4>1. FirstTime..time \subseteq FirstTime..(time + 1)
        BY <2>3
      <4>. QED  BY <4>1, Zenon DEF Decided
    <3>4. /\ InBurst(k, primary[k].tat, time + 1) /\ InBurst(k, replica[k].tat, time + 1)
          /\ RefundsPass => Remembers(mirror[k], replica[k].tat, time + 1)
      BY <2>3, <3>1, <3>2, TimePasses DEF KeyInv
    <3>5. Linked(k)'
      <4>1. CASE stream[k] = <<>>
        <5>1. Succeeds(k, mirror[k], primary[k].tat, time + 1)
          BY <2>3, <3>1, <3>2, <4>1, TimePasses DEF KeyInv, Linked
        <5>. QED  BY <2>1, <3>1, <4>1, <5>1 DEF KeyInv, Linked, Succeeds
      <4>2. CASE stream[k] # <<>>
        <5>1. Len(stream[k]) \in 1..Len(stream[k])
          BY <3>2, <4>2
        <5>2. stream[k][Len(stream[k])].tat \in U64 \cup {None}
          BY <3>1, <5>1 DEF KeyInv, Decided
        <5>3. Succeeds(k, stream[k][Len(stream[k])].tat, primary[k].tat, time + 1)
          BY <2>3, <3>1, <3>2, <4>2, <5>2, TimePasses DEF KeyInv, Linked
        <5>. QED  BY <2>1, <3>1, <4>2, <5>3 DEF KeyInv, Linked, Succeeds
      <4>. QED  BY <4>1, <4>2
    <3>. QED  BY <2>1, <3>1, <3>3, <3>4, <3>5, Zenon DEF KeyInv
  <2>. QED  BY <2>2, <2>4 DEF FollowInv
<1>2. CASE UNCHANGED vars
  BY <1>2 DEF vars, FollowInv, TypeOK, KeyInv, Linked, Succeeds
<1>. QED  BY <1>1, <1>2, PrimaryStep, RefusedStep, FollowStep DEF Next

\* What the theorems below rest on.
LEMMA FollowInvariant == Spec => []FollowInv
BY FollowInit, FollowInvStep, PTL DEF Spec

-----------------------------------------------------------------------------
\* A replica, however late and with its own clock, has forgotten at most one call of
\* what is still to pay, whatever refunds failed on the primary (lib.rs:64-91).
THEOREM ForgetsLittle ==
    ASSUME RefundsPass
    PROVE  Spec => []ForgetsAtMostOneCall
<1>1. FollowInv => ForgetsAtMostOneCall
  BY DEF FollowInv, KeyInv, Remembers, ForgetsAtMostOneCall
<1>. QED  BY <1>1, FollowInvariant, PTL

\* What a replica, or a server restarted from its file, holds against a client too
\* much is at most one call and the delay, until a refund fails on the primary.
THEOREM BlocksLittle ==
    ASSUME RefundsPass
    PROVE  Spec => []BlocksNoLongerThanLag
<1>1. FollowInv => BlocksNoLongerThanLag
  BY DEF FollowInv, KeyInv, Near, BlocksNoLongerThanLag
<1>. QED  BY <1>1, FollowInvariant, PTL

\* Clocks that step back, and refunds that are lost, do not let a key block for longer
\* than a burst (mod.rs:175-189).
THEOREM BlocksForABurst == Spec => []BlocksNoLongerThanBurst
<1>1. FollowInv => BlocksNoLongerThanBurst
  BY DEF FollowInv, KeyInv, InBurst, BlocksNoLongerThanBurst
<1>. QED  BY <1>1, FollowInvariant, PTL
=============================================================================
