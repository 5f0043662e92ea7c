------------------------------- MODULE Throttle ------------------------------
(***************************************************************************)
(* CL.THROTTLE (src/src/lib.rs) and the harness it runs in                 *)
(* (src/src/redis/mod.rs): arguments to a quota, one call of rate_limit,   *)
(* its result to the integers of the reply, and what Redis is told to      *)
(* replicate.                                                              *)
(*                                                                         *)
(* Redis runs one command at a time, so there is one limiter, Cell.  The   *)
(* steps of rate_limit are those of RateLimiter; the time they take and    *)
(* the expiry of keys between them are kept.                               *)
(***************************************************************************)
EXTENDS Promises

CONSTANTS
    Cell,       \* the limiter
    Commands    \* the commands clients send, see Command

\* The arguments after the command name, and how many words there are.  None
\* stands for a word that is not an i64.
Number  == I64 \cup {None}
Command ==
    [argc : Nat, key : Keys, max_burst : Number, count : Number, period : Number,
     quantity : Number]

VARIABLES
    command,      \* the command being run
    answer,       \* what the client of the last command got
    replicated,   \* whether Redis was told to replicate the last command
    before        \* the keys when the last command started (history variable)

cmdVars == <<command, answer, replicated, before>>
throttleVars == <<clock, db, lim, reply, command, answer, replicated, before>>

-----------------------------------------------------------------------------
(* Arguments.                                                              *)

Quantity(cmd) == IF cmd.argc = 6 THEN cmd.quantity ELSE 1

Refusal(cmd) ==
    IF cmd.argc \notin {5, 6} THEN "usage"
    ELSE IF None \in {cmd.max_burst, cmd.count, cmd.period, Quantity(cmd)} THEN "parse"
    ELSE None

\* The cast of a float to i64 saturates.
Saturated(x) == IF x > IntMax THEN IntMax ELSE IF x < -IntMax - 1 THEN -IntMax - 1 ELSE x

\* Rate::per_period for a period in seconds.  The code divides in f64, which cuts
\* to the same integer as long as the period is below 2^53 ns (104 days); longer
\* periods are not modelled.
PerPeriod(n, seconds) ==
    IF n = 0 \/ seconds = 0 THEN 0 ELSE Saturated(FloatQuotient(seconds * Sec, n))

RequestOf(cmd) ==
    [key |-> cmd.key, max_burst |-> cmd.max_burst,
     period |-> PerPeriod(cmd.count, cmd.period), quantity |-> Quantity(cmd)]

ASSUME ThrottleAssumption ==
    /\ Limiters = {Cell}
    /\ Commands \subseteq Command
    /\ None \notin Commands
    /\ \A cmd \in Commands : Refusal(cmd) = None => RequestOf(cmd) \in Requests

-----------------------------------------------------------------------------
(* The reply.                                                              *)

\* Mutants of Seconds: partial seconds are dropped; a second is always added.
FlooredSeconds(d) == TruncDiv(d, Sec)
PaddedSeconds(d)  == TruncDiv(d, Sec) + 1

\* Whole seconds, one more when there is a part of at least a millisecond.  The
\* f64 of seconds the code cuts is exact enough for durations below 2^22 s.
Seconds(d) ==
    LET whole == TruncDiv(d, Sec)
    IN  whole + (IF WholeMilliseconds(d - whole * Sec) > 0 THEN 1 ELSE 0)

Array(result) ==
    [kind |-> "array", req |-> result.req, now |-> result.now, at |-> clock,
     limited |-> result.limited, limit |-> Limit(result.req),
     remaining |-> result.remaining,
     retry_after |-> Seconds(result.retry_after),
     reset_after |-> Seconds(result.reset_after)]

Failure(why) == [kind |-> "error", why |-> why]

NoAnswer == [kind |-> "none"]

-----------------------------------------------------------------------------
ThrottleInit ==
    /\ Init
    /\ command = None
    /\ answer = NoAnswer
    /\ replicated = FALSE
    /\ before = db

\* The command starts.  Arguments are refused before the limiter exists.
Run(cmd) ==
    /\ command = None
    /\ before' = db
    /\ replicated' = FALSE
    /\ \/ /\ Refusal(cmd) # None
          /\ answer' = Failure(Refusal(cmd))
          /\ UNCHANGED <<command, vars>>
       \/ /\ Refusal(cmd) = None
          /\ answer' = NoAnswer
          /\ command' = cmd
          /\ Begin(Cell, RequestOf(cmd))

\* The store's clock runs and the limiter works on the command.
Working == command # None /\ Step(Cell) /\ UNCHANGED cmdVars
Passing == Tick /\ UNCHANGED cmdVars

Returned == command # None /\ lim[Cell].pc = "idle" /\ reply[Cell] # NoReply

\* Mutant of Finish: what a peek writes is not replicated.
FinishWithoutPeeks ==
    /\ Returned
    /\ command' = None
    /\ IF reply[Cell].kind = "ok"
       THEN /\ answer' = Array(reply[Cell])
            /\ replicated' = (reply[Cell].req.quantity # 0)
       ELSE answer' = Failure(reply[Cell].why) /\ replicated' = FALSE
    /\ UNCHANGED <<vars, before>>

\* The command ends.  An error leaves run before the call that replicates, and
\* the harness turns it into an error reply.
Finish ==
    /\ Returned
    /\ command' = None
    /\ \/ /\ reply[Cell].kind = "ok"
          /\ answer' = Array(reply[Cell])
          /\ replicated' = TRUE
       \/ /\ reply[Cell].kind = "error"
          /\ answer' = Failure(reply[Cell].why)
          /\ replicated' = FALSE
    /\ UNCHANGED <<vars, before>>

ThrottleNext ==
    \/ \E cmd \in Commands : Run(cmd)
    \/ Working
    \/ Finish
    \/ Passing

ThrottleSpec == ThrottleInit /\ [][ThrottleNext]_throttleVars

-----------------------------------------------------------------------------
(* What the client may count on, in seconds.                               *)

Told == command = None /\ answer.kind = "array"

\* A client that was blocked and waits the seconds it was told, and less than a
\* millisecond more, is admitted (lib.rs:69-72); and it was not told to wait a
\* whole second more than needed.  The millisecond is the part that the rounding
\* does not look at.
RetryInSeconds ==
    Told /\ answer.limited /\ answer.retry_after >= 0 =>
        /\ clock >= answer.at + answer.retry_after * Sec + Ms - 1 =>
               Admits(answer.req)
        /\ clock <= answer.now + (answer.retry_after - 1) * Sec /\ KeyLive(answer.req) =>
               ~Admits(answer.req)

\* As the comment on the rounding says, no millisecond should be needed.
RetryNeverEarly ==
    Told /\ answer.limited /\ answer.retry_after >= 0 =>
        (clock >= answer.at + answer.retry_after * Sec => Admits(answer.req))

\* The whole limit is back when the seconds until reset, and less than a
\* millisecond, have passed (lib.rs:73-76), and no whole second earlier.
ResetInSeconds ==
    Told =>
        LET everything == Asking(answer.req, answer.limit)
        IN  /\ clock >= answer.at + answer.reset_after * Sec + Ms - 1 =>
                   Admits(everything)
            /\ clock <= answer.now + (answer.reset_after - 1) * Sec
                    /\ KeyLive(answer.req) =>
                   ~Admits(everything)

\* What a command changed without telling replicas (lib.rs:89-91 is not reached
\* after an error) is a key that holds no debt and will not expire: the value of
\* an update whose TTL Redis refused.
OnlyStraysUnreplicated ==
    command = None /\ ~replicated =>
        \A k \in Keys :
            db[k] # before[k] => db[k].expire = None /\ db[k].tat <= clock
=============================================================================
