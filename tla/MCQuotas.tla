------------------------------ MODULE MCQuotas ------------------------------
(* The sets of requests that the runs of the limiter give to clients.  All    *)
(* are on one key: keys share no state, and what is hard happens on one key.  *)
EXTENDS Integers

K1 == {"k1"}

\* A call with the given burst, emission interval and quantity.
Throttle(burst, period, quantity) ==
    [key |-> "k1", max_burst |-> burst, period |-> period, quantity |-> quantity]

\* A limit of 2 at one per 2 ticks, asked for nothing, one, all and more than
\* all of it; the same key with a slower and with a larger, faster quota; and a
\* zero rate.  With 3 ticks to a millisecond no interval is whole milliseconds.
SubMs == {Throttle(1, 2, n) : n \in 0..3} \cup {Throttle(0, 5, 1), Throttle(3, 1, 3), Throttle(1, 0, 1)}

\* The same, and calls that give back a unit and more than the burst.
SubMsRefunds == SubMs \cup {Throttle(1, 2, n) : n \in {-4, -1}}

\* Calls that take units and calls that give them back.
Refunds == {Throttle(1, 2, n) : n \in {-3, -1, 1, 2}}

\* What two limiters contend with: a unit taken, all taken, a peek.
Contended == {Throttle(2, 2, n) : n \in {0, 1, 3}}
ContendedRefunds == Contended \cup {Throttle(2, 2, -1)}

\* A unit taken and a unit given back, for ever.
TakeAndGive == {Throttle(3, 1, n) : n \in {-1, 1}}

\* An interval of one microsecond and a half when a microsecond has 2 ticks.
SubUs == {Throttle(2, 3, n) : n \in 0..1}

\* Two of a limit of 7 taken, and a refund that can overshoot; another quota.
Replicated == {Throttle(6, 1, -4), Throttle(6, 1, 2), Throttle(0, 2, 1)}

\* One unit at a time, and more than the limit.
Greedy == {Throttle(0, 1, n) : n \in {1, 2}}
=============================================================================
