----------------------------- MODULE MCThrottle ------------------------------
(* Instances of the command for TLC.  The commands use one key; with 4 ticks   *)
(* in a second the rates are 4, 2 and 1 ticks per unit, the last from a        *)
(* quotient that is cut and below a millisecond of 2 ticks.  A negative count  *)
(* and a negative burst are among them: the code takes any i64.                *)
EXTENDS Throttle

K1 == {"k1"}

Words(argc, burst, count, period, quantity) ==
    [argc |-> argc, key |-> "k1", max_burst |-> burst, count |-> count,
     period |-> period, quantity |-> quantity]

Sent ==
    {Words(4, 0, 1, 1, None), Words(5, None, 1, 1, None), Words(6, 0, 0, 1, 1),
     Words(5, 1, 1, 1, None), Words(6, 1, 1, 1, 2)}
    \cup {Words(6, 1, 2, 1, n) : n \in {0, 2}}
    \cup {Words(6, 1, 3, 1, n) : n \in {-2, 1, 3}}
    \cup {Words(6, 1, -1, 1, n) : n \in {1, 2}} \cup {Words(6, -2, 1, 1, 1)}

Asked == {RequestOf(cmd) : cmd \in {cmd \in Sent : Refusal(cmd) = None}}
=============================================================================
