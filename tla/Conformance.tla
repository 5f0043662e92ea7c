----------------------------- MODULE Conformance -----------------------------
(***************************************************************************)
(* The bound a rate limiter exists for, checked over every window of time. *)
(*                                                                         *)
(* An observer opens a window on a key at any moment and adds up, in ticks *)
(* of the emission interval, what calls are allowed to take in it, less    *)
(* what is given back of that.  History variables only: the limiter's      *)
(* steps are those of RateLimiter.                                         *)
(***************************************************************************)
EXTENDS Promises

VARIABLES
    start,    \* when the window on each key was opened
    used,     \* what calls took since and nobody gave back
    resets    \* how often since a key expired before its TAT and was recreated

audit == <<start, used, resets>>
allVars == <<clock, db, lim, reply, start, used, resets>>

AuditInit ==
    /\ Init
    /\ start = [k \in Keys |-> clock]
    /\ used = [k \in Keys |-> 0]
    /\ resets = [k \in Keys |-> 0]

OpenWindow(k) ==
    /\ start' = [start EXCEPT ![k] = clock]
    /\ used' = [used EXCEPT ![k] = 0]
    /\ resets' = [resets EXCEPT ![k] = 0]
    /\ UNCHANGED vars

\* The key was missing although its last TAT is still in the future.
Forgiven(c) ==
    /\ c.tat_val = None
    /\ db[c.req.key].tat # None
    /\ db[c.req.key].tat > c.now

\* The update is stored.  So is a refund whose TTL is refused: its call fails.
Stored(p) ==
    LET k == lim[p].req.key
    IN  reply'[p].kind = "ok" \/ db'[k].tat # db[k].tat

\* What is taken belongs to the window in which the call read the store, what is
\* given back to that in which it is stored.
InWindow(c) == c.now >= start[c.req.key] \/ Increment(c.req) < 0

Account(p) ==
    LET c == lim[p]
        k == c.req.key
    IN  IF Stored(p) /\ InWindow(c)
        THEN /\ used' = [used EXCEPT ![k] = Later(0, @ + Increment(c.req))]
             /\ resets' = [resets EXCEPT ![k] = @ + (IF Forgiven(c) THEN 1 ELSE 0)]
             /\ UNCHANGED start
        ELSE UNCHANGED audit

Update(p) == CompareAndSwap(p) \/ SetIfNotExists(p)

AuditNext ==
    \/ \E p \in Limiters : Update(p) /\ Account(p)
    \/ \E p \in Limiters :
          ((\E r \in Requests : Begin(p, r)) \/ GetWithTime(p)) /\ UNCHANGED audit
    \/ Tick /\ UNCHANGED audit
    \/ \E k \in Keys : OpenWindow(k)

AuditSpec == AuditInit /\ [][AuditNext]_allVars

\* In every window on a key, what calls have taken, less what was given back of it,
\* amounts to at most the burst of a quota in use on the key, plus the time the window
\* has lasted, plus less than a millisecond for each time the key expired before its TAT.
WindowBound ==
    \A k \in Keys :
        used[k] > 0 =>
            \E r \in Requests :
                /\ r.key = k
                /\ used[k] <= Dvt(r) + (clock - start[k]) + resets[k] * (Ms - 1)

\* The same without the allowance for expiry.
ExactWindowBound ==
    \A k \in Keys :
        used[k] > 0 =>
            \E r \in Requests :
                r.key = k /\ used[k] <= Dvt(r) + (clock - start[k])
=============================================================================
