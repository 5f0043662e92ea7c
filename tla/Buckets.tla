------------------------------- MODULE Buckets -------------------------------
(***************************************************************************)
(* The rate limiter implements the leaky buckets of LeakyBucket: the       *)
(* refinement mapping.                                                     *)
(*                                                                         *)
(* What is in the bucket of a key is how far its TAT is ahead of the       *)
(* clock; a key that is missing, expired or past its TAT is an empty       *)
(* bucket.  A call pours its increment into a bucket that holds the        *)
(* tolerance of its quota (mod.rs:62-70).                                  *)
(***************************************************************************)
EXTENDS RateLimiter

Pouring(r) == [key |-> r.key, capacity |-> Dvt(r), amount |-> Increment(r)]

\* What the entry e owes at time t.
Owed(e, t) ==
    IF Visible(e, t) # None /\ Visible(e, t) > t THEN Visible(e, t) - t ELSE 0

Level(k) == Owed(db[k], clock)

\* What the answer of a call tells its caller.
Verdict(answer) ==
    IF answer.kind = "ok"
    THEN [verdict |-> IF answer.limited THEN "blocked" ELSE "granted",
          call |-> Pouring(answer.req)]
    ELSE IF answer.kind = "error"
    THEN [verdict |-> "failed", call |-> Pouring(answer.req)]
    ELSE [verdict |-> "none"]

\* How far the call c has come, when the store shows it the value tat.  The value
\* it has read and that of now are the same bucket if both are there or neither is.
Progress(c, tat) ==
    IF c.pc = "idle" THEN [stage |-> "resting"]
    ELSE IF c.pc = "get"
    THEN [stage |-> "begun", asks |-> Pouring(c.req), losses |-> c.i]
    ELSE IF (c.tat_val = None) # (tat = None)
    THEN [stage |-> "beaten", asks |-> Pouring(c.req), losses |-> c.i]
    ELSE [stage |-> "looked", asks |-> Pouring(c.req), losses |-> c.i,
          at |-> c.now, level |-> Later(c.now, Tat(c)) - c.now,
          poured |-> IF tat = None THEN 0 ELSE tat - c.tat_val]

Stage(p) ==
    Progress(lim[p], IF lim[p].pc = "update" THEN Visible(db[lim[p].req.key], clock)
                                             ELSE None)

Bucket == INSTANCE LeakyBucket WITH
    Callers  <- Limiters,
    Calls    <- {Pouring(r) : r \in Requests},
    Grace    <- IF StoreKind = "redis" THEN Ms ELSE 0,
    Attempts <- MaxCasAttempts + 1,
    now      <- clock,
    level    <- [k \in Keys |-> Level(k)],
    call     <- [p \in Limiters |-> Stage(p)],
    answer   <- [p \in Limiters |-> Verdict(reply[p])]

\* The limiter, with its reads, swaps, lost races, retries, expiring keys and
\* refused TTLs, does what the leaky buckets do (mod.rs:97-237): a call is blocked on
\* the level at its last look, is granted on that level if its bucket is as though
\* nobody had poured since, looks again if not, and fails after so many attempts and
\* no fewer.  Nothing else changes a level but a refund whose TTL is refused, which
\* empties its bucket, and expiry, which forgets less than a millisecond.
ImplementsBuckets == Bucket!Spec
=============================================================================
