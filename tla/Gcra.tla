-------------------------------- MODULE Gcra ---------------------------------
(***************************************************************************)
(* The generic cell rate algorithm of src/src/cell/mod.rs: the decision on *)
(* one call and its answer, as functions of what the call has read.        *)
(*                                                                         *)
(* The theoretical arrival time (TAT) of a key is the instant at which all *)
(* that was taken has been paid for at the rate of one unit per emission   *)
(* interval (period).  A call is limited if it would bring the TAT further *)
(* ahead than the tolerance (Dvt) of its quota.                            *)
(***************************************************************************)
EXTENDS Store

CONSTANT Keys

\* A call of rate_limit on a limiter built by RateLimiter::new: the quota
\* (max_burst, and the period of max_rate), the key and the quantity.
Request == [key : Keys, max_burst : I64, period : I64, quantity : I64]

-----------------------------------------------------------------------------
(* The quota, as RateLimiter::new and rate_limit derive it.                *)

Limit(r)     == AsI64(r.max_burst + 1)
Dvt(r)       == AsI64(r.period * Limit(r))     \* delay_variation_tolerance

\* Mutant of Increment: a quantity of 0 is taken for the default of 1.
DefaultedIncrement(r) ==
    AsI64(r.period * (IF r.quantity = 0 THEN 1 ELSE r.quantity))

Increment(r) == AsI64(r.period * r.quantity)

(* The decision, from what get_with_time returned for the call c.          *)

Tat(c)    == IF c.tat_val = None THEN c.now ELSE c.tat_val

NewTat(c) == Later(c.now, Tat(c)) + Increment(c.req)
Diff(c)   == c.now - (NewTat(c) - Dvt(c.req))

\* Mutant of Limited: the comparison is made in whole milliseconds.
CoarseLimited(c) == WholeMilliseconds(Diff(c)) < 0

Limited(c) == Diff(c) < 0

(* The reply.  NoRetry is the Duration of -1 s that means "do not retry".  *)

NoRetry == -Sec

\* Mutants of RetryAfter: a call for the whole limit is taken for one that can
\* never succeed; sub-millisecond waits are dropped.
StrictRetryAfter(c) ==
    IF Limited(c) /\ Increment(c.req) < Dvt(c.req) THEN -Diff(c) ELSE NoRetry
CoarseRetryAfter(c) ==
    IF Limited(c) /\ Increment(c.req) <= Dvt(c.req)
    THEN WholeMilliseconds(-Diff(c)) * Ms ELSE NoRetry

RetryAfter(c) ==
    IF Limited(c) /\ Increment(c.req) <= Dvt(c.req) THEN -Diff(c) ELSE NoRetry

\* Mutant of ResetAfter: an allowed call answers the TTL from before it.
StaleResetAfter(c) == Tat(c) - c.now

ResetAfter(c) == (IF Limited(c) THEN Tat(c) ELSE NewTat(c)) - c.now

\* Mutant of Remaining: a blocked call is charged in its own answer.
ChargedRemaining(c) ==
    LET next == Dvt(c.req) - (NewTat(c) - c.now)
    IN  IF next > -c.req.period
        THEN FloatQuotient(WholeMicroseconds(next),
                           WholeMicroseconds(c.req.period))
        ELSE 0

Remaining(c) ==
    LET next == Dvt(c.req) - ResetAfter(c)
    IN  IF next > -c.req.period
        THEN FloatQuotient(WholeMicroseconds(next),
                           WholeMicroseconds(c.req.period))
        ELSE 0
=============================================================================
