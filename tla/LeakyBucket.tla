----------------------------- MODULE LeakyBucket ------------------------------
(***************************************************************************)
(* What a rate limiter promises, without the algorithm: the comments of    *)
(* src/src/cell/mod.rs (lines 62-70) describe the quota as a leaky bucket. *)
(*                                                                         *)
(* There is one bucket for each key.  It leaks one tick's worth in a tick  *)
(* of time.  A call pours its amount in, all or nothing, if the bucket can *)
(* hold it; a negative amount takes some out.  A call looks at the bucket  *)
(* and pours later, into a bucket that is as though nobody had poured      *)
(* since; if somebody did it looks again, up to a number of attempts.      *)
(***************************************************************************)
EXTENDS Integers

CONSTANTS
    Keys,
    Callers,
    Calls,     \* what may be asked: records of a key, a capacity and an amount
    Grace,     \* a level below this may be forgotten
    Attempts   \* how often a call may try to pour

VARIABLES
    now,       \* the time
    level,     \* what is in each bucket
    call,      \* how far each caller's call has come
    answer     \* what each caller was last told

vars == <<now, level, call, answer>>

Max0(x) == IF x > 0 THEN x ELSE 0

-----------------------------------------------------------------------------
(* The stages of a call.                                                   *)

Resting == [stage |-> "resting"]

Begun(c, losses) == [stage |-> "begun", asks |-> c, losses |-> losses]

\* The call has seen the bucket at time t with l in it.  What was poured since puts
\* off the moment at which the bucket is empty, by d in all.
Looked(c, losses, t, l, d) ==
    [stage |-> "looked", asks |-> c, losses |-> losses, at |-> t, level |-> l,
     poured |-> d]

\* What the call has seen is no longer the bucket that is there.
Beaten(c, losses) == [stage |-> "beaten", asks |-> c, losses |-> losses]

LooksAt(p, k) == call[p].stage = "looked" /\ call[p].asks.key = k

\* The look of p is good: the bucket is as though nobody had poured since.
Undisturbed(p) == call[p].stage = "looked" /\ call[p].poured = 0

Disturbed(p) ==
    \/ call[p].stage = "beaten"
    \/ call[p].stage = "looked" /\ call[p].poured # 0

\* p goes to a stage of its own; the calls of the others stay where they are.
Moves(p, stage) == call' = [call EXCEPT ![p] = stage]

\* p's call is over, and whoever looks at the bucket it poured the amount into is
\* disturbed by it.  If the bucket stood empty that time counts as poured, too.
Pours(p, k, amount) ==
    \E idle \in (IF call[p].level > 0 THEN {0} ELSE 0..call[p].at),
       beaten \in SUBSET {q \in Callers \ {p} : LooksAt(q, k)} :
          call' = [q \in Callers |->
                      IF q = p THEN Resting
                      ELSE IF q \in beaten THEN Beaten(call[q].asks, call[q].losses)
                      ELSE IF LooksAt(q, k)
                      THEN [call[q] EXCEPT !.poured = @ + amount + idle]
                      ELSE call[q]]

Tell(p, verdict, c) == answer' = [answer EXCEPT ![p] = [verdict |-> verdict, call |-> c]]

Nothing == [verdict |-> "none"]

-----------------------------------------------------------------------------
Init ==
    /\ now \in Nat
    /\ level = [k \in Keys |-> 0]
    /\ call = [p \in Callers |-> Resting]
    /\ answer = [p \in Callers |-> Nothing]

Begin(p, c) ==
    /\ call[p] = Resting
    /\ Moves(p, Begun(c, 0))
    /\ answer' = [answer EXCEPT ![p] = Nothing]
    /\ UNCHANGED <<now, level>>

\* A call with a rate of zero is turned down.
TurnDown(p, c) ==
    /\ Tell(p, "failed", c)
    /\ call[p] = Resting
    /\ c.capacity = 0 /\ c.amount = 0
    /\ UNCHANGED <<now, level, call>>

\* The bucket can hold the amount now.
Look(p) ==
    /\ UNCHANGED <<now, level, answer>>
    /\ call[p].stage = "begun"
    /\ LET c == call[p].asks
       IN  /\ level[c.key] + c.amount <= c.capacity
           /\ Moves(p, Looked(c, call[p].losses, now, level[c.key], 0))

\* The bucket cannot hold the amount now.
Block(p) ==
    /\ call[p].stage = "begun"
    /\ LET c == call[p].asks
       IN  /\ Tell(p, "blocked", c)
           /\ level[c.key] + c.amount > c.capacity
    /\ Moves(p, Resting)
    /\ UNCHANGED <<now, level>>

\* The amount is poured in, and has leaked since the look like the rest.
Grant(p) ==
    /\ Undisturbed(p)
    /\ LET c == call[p].asks
       IN  /\ Tell(p, "granted", c)
           /\ level' = [level EXCEPT ![c.key] =
                           Max0(call[p].level + c.amount - (now - call[p].at))]
           /\ Pours(p, c.key, c.amount)
    /\ UNCHANGED now

\* More is taken out than there was.  That may be refused: the bucket is empty
\* although the call fails.
Overdraw(p) ==
    /\ Undisturbed(p)
    /\ LET c == call[p].asks
       IN  /\ Tell(p, "failed", c)
           /\ call[p].level + c.amount < 0
           /\ level' = [level EXCEPT ![c.key] = 0]
           /\ Pours(p, c.key, c.amount)
    /\ UNCHANGED now

\* Somebody has poured since the look: look again.
Lose(p) ==
    /\ UNCHANGED <<now, level, answer>>
    /\ Disturbed(p)
    /\ call[p].losses + 1 < Attempts
    /\ Moves(p, Begun(call[p].asks, call[p].losses + 1))

\* The same at the last attempt: the call is given up, without an effect.
GiveUp(p) ==
    /\ Disturbed(p)
    /\ Tell(p, "failed", call[p].asks)
    /\ call[p].losses + 1 = Attempts
    /\ Moves(p, Resting)
    /\ UNCHANGED <<now, level>>

\* Every bucket leaks.  What is left in a nearly empty one may be forgotten, also
\* while a call is looking at it.
Pass ==
    /\ UNCHANGED answer
    /\ now' = now + 1
    /\ \E forgotten \in SUBSET {k \in Keys : level[k] < Grace} :
          /\ level' = [k \in Keys |-> IF k \in forgotten THEN 0 ELSE Max0(level[k] - 1)]
          /\ \E beaten \in SUBSET {q \in Callers : \E k \in forgotten : LooksAt(q, k)} :
                call' = [q \in Callers |->
                            IF q \in beaten THEN Beaten(call[q].asks, call[q].losses)
                            ELSE call[q]]

Next ==
    \/ \E p \in Callers :
          \/ \E c \in Calls : Begin(p, c) \/ TurnDown(p, c)
          \/ Look(p) \/ Block(p) \/ Grant(p) \/ Overdraw(p) \/ Lose(p) \/ GiveUp(p)
    \/ Pass

Spec == Init /\ [][Next]_vars
=============================================================================
