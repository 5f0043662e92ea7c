------------------------------ MODULE Promises ------------------------------
(***************************************************************************)
(* What the answers of rate_limit promise about the requests that follow.  *)
(*                                                                         *)
(* retry_after, reset_after and remaining are computed from one read of    *)
(* one key; the client acts on them later, when time has passed, the key   *)
(* may have expired and its TAT may lie in the past.  The properties below *)
(* compare an answer with what the limiter would decide in every later     *)
(* state, as long as no other call intervened, which is the case for the   *)
(* only limiter of a store between two calls.                              *)
(***************************************************************************)
EXTENDS RateLimiter

\* The decision a call with request r would get if it read the store now.
Peek(r)   == [Idle EXCEPT !.req = r,
                          !.tat_val = Visible(db[r.key], clock),
                          !.now = clock]
Admits(r) == ~Limited(Peek(r))

Asking(r, n) == [r EXCEPT !.quantity = n]

\* p's last call was answered and nothing has used the store since.
Answered(p) ==
    /\ Limiters = {p}
    /\ lim[p].pc = "idle"
    /\ reply[p].kind = "ok"

KeyLive(r) == IsLive(db[r.key], clock)

\* After a blocked call, the same call is admitted once retry_after has passed
\* (mod.rs:182-184), is still blocked at any moment before that while the key
\* lives, and is never admitted when there is no retry_after at all.
RetryPromise ==
    \A p \in Limiters :
        LET a == reply[p]
            retryAt == a.now + a.retry_after
        IN  Answered(p) /\ a.limited =>
               IF a.retry_after = NoRetry THEN ~Admits(a.req)
               ELSE /\ clock >= retryAt => Admits(a.req)
                    /\ clock < retryAt /\ KeyLive(a.req) => ~Admits(a.req)

\* Once reset_after has passed the whole limit can be taken in one call, and
\* not a moment earlier while the key lives (mod.rs:187, 192 and 233).
ResetPromise ==
    \A p \in Limiters :
        LET a == reply[p]
            resetAt == a.now + a.reset_after
            everything == Asking(a.req, Limit(a.req))
        IN  Answered(p) =>
               /\ clock >= resetAt => Admits(everything)
               /\ clock < resetAt /\ KeyLive(a.req) => ~Admits(everything)

\* The remaining quantity can be taken in one call at any later time, and at
\* the time of the answer nothing more can (mod.rs:227-232).  A blocked call that
\* found a TAT in the past answers with a negative reset_after and is excepted:
\* RemainingWithinLimit is about that case.
RemainingPromise ==
    \A p \in Limiters :
        LET a == reply[p]
        IN  Answered(p) /\ a.reset_after >= 0 =>
               /\ a.remaining > 0 => Admits(Asking(a.req, a.remaining))
               /\ clock = a.now => ~Admits(Asking(a.req, a.remaining + 1))

\* No more can remain than the limit of the key.
RemainingWithinLimit ==
    \A p \in Limiters :
        reply[p].kind = "ok" => reply[p].remaining <= Limit(reply[p].req)

-----------------------------------------------------------------------------
Peeking(p) == lim[p].pc = "update" /\ lim[p].req.quantity = 0

\* Whether a call with request r is admitted that finds the entry e at time t.
AllowedBy(e, r, t) ==
    ~Limited([Idle EXCEPT !.req = r, !.tat_val = Visible(e, t), !.now = t])

\* A call with quantity 0 goes through the update (mod.rs:191-210): it creates the key,
\* or rewrites its TAT and its TTL.  Whatever is asked at whatever time from then on
\* comes out as it would have without the peek, but in the last millisecond before
\* the TAT, in which the key may or may not have expired.
PeekKeepsVerdicts ==
    [][\A p \in Limiters : Peeking(p) /\ lim'[p].pc = "idle" =>
           \A r \in Requests, t \in clock..LastTick :
               AllowedBy(db'[r.key], r, t) = AllowedBy(db[r.key], r, t)
               \/ db'[r.key].tat - t \in 1..(Ms - 1)]_vars

\* The same without the exception: "If quantity is 0, no update is performed"
\* (mod.rs:94-96).
PeekMakesNoDifference ==
    [][\A p \in Limiters : Peeking(p) /\ lim'[p].pc = "idle" =>
           \A r \in Requests, t \in clock..LastTick :
               AllowedBy(db'[r.key], r, t) = AllowedBy(db[r.key], r, t)]_vars

-----------------------------------------------------------------------------
\* The only limiter of a store can lose a compare-and-swap to nobody, only to
\* the expiry of its key between the read and the swap.  The next attempt then
\* finds the key missing and creates it, so the call never fails for contention.
LosesOnlyToExpiry ==
    \A p \in Limiters :
        Limiters = {p} =>
           /\ lim[p].i <= 1
           /\ ~(reply[p].kind = "error" /\ reply[p].why = "contention")

\* A call ends, whatever the other limiters do to its key.
CallsEnd == \A p \in Limiters : lim[p].pc # "idle" ~> lim[p].pc = "idle"

-----------------------------------------------------------------------------
\* An update whose set_expire failed leaves a value that never expires; such a
\* value is one whose TAT has passed, so it blocks no later request.
StrayKeyHoldsNoDebt ==
    \A k \in Keys :
        db[k].tat # None /\ db[k].expire = None => db[k].tat <= clock

\* A key expires less than a millisecond before its TAT, so what a client is
\* forgiven when its key expires is less than a millisecond: the TTL is cut to
\* whole milliseconds (redis/mod.rs:347) on a clock cut to milliseconds too.
DebtOutlivesKeyBriefly ==
    \A k \in Keys :
        db[k].tat # None /\ ~IsLive(db[k], clock) => db[k].tat - clock < Ms
=============================================================================
