------------------------------ MODULE CellTime ------------------------------
(***************************************************************************)
(* Durations, instants and machine integers as redis-cell uses them.       *)
(*                                                                         *)
(* A duration or an instant is an integer number of ticks.  A tick stands  *)
(* for the nanosecond of the time crate; how many ticks make a microsecond,*)
(* a millisecond and a second are parameters, so that a small instance     *)
(* still has times that are not whole milliseconds.  Instants count from   *)
(* the Unix epoch.  The width of i64 and u64 is a parameter as well.       *)
(***************************************************************************)
EXTENDS Integers

CONSTANTS
    Us,      \* ticks in a microsecond
    Ms,      \* ticks in a millisecond
    Sec,     \* ticks in a second
    IntMax   \* the largest i64

ASSUME TimeAssumption ==
    /\ Us \in Nat \ {0} /\ Ms \in Nat \ {0} /\ Sec \in Nat \ {0}
    /\ Us <= Ms /\ Ms <= Sec
    /\ IntMax \in Nat

I64 == (-IntMax - 1)..IntMax
U64 == 0..(2 * IntMax + 1)

\* Two's-complement wrap-around of the release build (no overflow checks).
AsI64(x) ==
    IF x \in I64 THEN x
    ELSE ((x + IntMax + 1) % (2 * IntMax + 2)) - IntMax - 1

AsU64(x) == IF x \in U64 THEN x ELSE x % (2 * IntMax + 2)

Later(a, b) == IF a > b THEN a ELSE b

\* Rust's division and its casts to an integer round toward zero.
TruncDiv(a, b) ==
    LET Magnitude(x) == IF x < 0 THEN -x ELSE x
        q == Magnitude(a) \div Magnitude(b)
    IN  IF (a < 0) = (b < 0) THEN q ELSE -q

\* time::Duration::whole_milliseconds and whole_microseconds.
WholeMilliseconds(d) == TruncDiv(d, Ms)
WholeMicroseconds(d) == TruncDiv(d, Us)

\* `(a as f64 / b as f64) as i64`: a division by zero gives an infinity or a
\* NaN, which the cast turns into an end of the i64 range or into 0.
FloatQuotient(a, b) ==
    IF b # 0 THEN TruncDiv(a, b)
    ELSE IF a = 0 THEN 0
    ELSE IF a > 0 THEN IntMax ELSE -IntMax - 1
=============================================================================
