# redis-cell in TLA+

A verification project for redis-cell, a module that gives Redis (or Valkey) one
command, `CL.THROTTLE`: a rate limiter that follows the generic cell rate
algorithm (GCRA). The modules below are translated from the Rust sources under
`src/src/`; TLC checks them on small instances and the TLA+ proof system (TLAPS)
proves the main results for all values of their constants.

The idea of the algorithm, which every property here is about: for each key one
instant is stored, the *theoretical arrival time* (TAT), the time up to which the
key's rate has been used up. A call of quantity `q` moves it ahead by `q` emission
intervals, and is allowed if it is then ahead of now by no more than the *delay
variation tolerance* (DVT), which is `max_burst + 1` intervals.

## Inventory

| component | state | operations | modelled in |
|---|---|---|---|
| rate limiter, `cell/mod.rs` | the quota; inside a call: attempt, TAT read, time read | `RateLimiter::new`, `rate_limit` | `Gcra`, `RateLimiter`; abstractly `LeakyBucket` |
| stores, `cell/store.rs` | key to TAT; on Redis also an expiry | `get_with_time`, `compare_and_swap_with_ttl`, `set_if_not_exists_with_ttl` | `Store` |
| key wrappers, `redis/mod.rs:205-397` | an open key | open, `read`, `is_empty`, `write`, `set_expire`, close | `RedisKeys` |
| rate arithmetic, `cell/mod.rs:11-49` | none | `Rate::per_period` and its shorthands | `Throttle` (exact quotients) |
| command, `lib.rs:27-113` | none between commands | `run`, and again on a replica | `Throttle`, `Replication` |
| command harness, `redis/mod.rs:46-66` | none | arguments in, error reply out | `Throttle` |
| module load, `lib.rs:115-148`, the two C files | the command registered with the server | `RedisModule_OnLoad`, `Init` of either header | `ModuleLoad` |
| bindings, `include/redismodule.h`, `include/valkeymodule.h`, `redis/raw.rs`, `build.rs` | a table of function pointers in each image | fetch them, forward to the server | the tables in `ModuleLoad`; the effects on keys in `Store` and `RedisKeys` |
| `Redis::call`, `coerce_integer`, `redis/mod.rs:75-189` | none | none: nothing calls it | no |
| errors, macros, tests, packaging | none | | no |

How they interact. Redis runs one command at a time. `Throttle_RedisCommand`
hands the arguments to `Command::harness`, which calls `ThrottleCommand::run`. It
parses the numbers, builds an `InternalRedisStore` and a `RateLimiter` from the
quota *in the command* (nothing about the quota is stored), calls `rate_limit`
once, rounds the answer to seconds, replies and asks Redis to replicate the
command as it is. `rate_limit` reads the key and the clock, decides, and updates the
key by compare-and-swap or by set-if-not-exists, in a loop that starts over when
the update fails. The loop is written for stores that other limiters use at the
same time; `MemoryStore` is one, used by the tests.

What is hard here:

* Time passes and keys expire *within* one command. The key that was read can be
  gone when it is swapped (`store.rs:180-183`).
* Times have four units. The TAT is in nanoseconds, the TTL in milliseconds, the
  remaining quantity is computed in microseconds and the answer is in seconds.
  Every conversion cuts something off.
* The stored TAT is stale by nature. It can lie in the past, it may have been
  written under another quota, and it may be lost to expiry.
* Outside Redis several limiters interleave between their read and their update.
* An update is two calls to Redis, and the second can be refused.
* A command is executed again on each replica, and from the append-only file after a
  restart, later and on another clock; clocks step back.
* The arguments of the command are any i64: quantities, bursts, counts and periods can
  be negative.
* An image fetches some 300 functions by name and ignores which the server lacks. The
  pointers are static, so what they hold depends on earlier loads.

What makes each component correct:

* *Limiter*: over every window of time on a key, no more is allowed than the burst
  and the rate; the answers (`retry_after`, `reset_after`, `remaining`) hold when the
  client acts on them; a call ends; a peek decides nothing but what the last millisecond
  before a TAT leaves open.
* *Store*: an update changes the key only if it is as it was read; the TTL loses no
  debt; a failed update leaves nothing that matters.
* *Command*: the seconds in the answer are safe to wait for; what changes on the
  primary is replicated; what a replica makes of it stays close to the primary.
* *Module load*: a loaded module serves its command, a refused one leaves nothing behind,
  and nothing but a function that is missing and needed can kill the server.

## Modules

`CellTime` holds durations and instants in ticks (a tick stands for a nanosecond),
with the lengths of a microsecond, a millisecond and a second and the width of an
i64 as constants, and the conversions as the code makes them: division that cuts
toward zero, wrap-around of the release build, saturating casts from floats.

`Store` has the store operations as functions from the entry of a key and the
instant of the call to the entry left and the result. `StoreKind` selects
`InternalRedisStore` or `MemoryStore`. An entry is the TAT and the expiry; an
expired entry stays in the model until it is overwritten, but no operation sees it.
That is what lets a property speak of the debt that expiry forgot.

`Gcra` is the decision on one call and its answer, as functions of what the call has
read: `NewTat`, `Diff`, `Limited`, `RetryAfter`, `ResetAfter`, `Remaining`, one operator per
variable of the code.

`RateLimiter` is `rate_limit` as a state machine. Its state is the clock, the
entries (`db`), the local variables of each limiter's call (`lim`: `i`, `tat_val` and
`now` as in the code) and the last result of each limiter (`reply`). One action per
stretch of code between two store calls: `Begin` (mod.rs:97-133), `GetWithTime`
(134-189, which also decides and answers a blocked call), `CompareAndSwap` and
`SetIfNotExists` (191-225, the update, the answer, the error, or the next attempt),
and `Tick`.

`LeakyBucket` is the abstract specification: what the comments at mod.rs:62-70 promise,
without TATs, stores or keys that expire. Each key is a bucket with a level that leaks one
tick's worth in a tick. A call looks at its bucket (`Look`) and is blocked then and there
(`Block`) if the bucket cannot hold its amount. Otherwise it pours later, and only if the
look is undisturbed, that is, if the bucket is as though nobody had poured since the look:
the amount goes on top of the level seen, less what has leaked (`Grant`). Every pour puts
its amount, and the time for which the bucket stood empty, on the looks of all others at
that bucket (`Pours`), so two calls cannot both pour on one look. A disturbed call looks
again (`Lose`) and fails after exactly `Attempts` attempts (`GiveUp`), without effect. A
call can fail with an effect in one way: a refund of more than there was may be refused
and still empty the bucket (`Overdraw`). In a tick a level below `Grace` may be forgotten,
which disturbs the looks at it.

`Buckets` is the refinement mapping. The level of a key is how far its TAT is ahead of the
clock, if the key is there and not expired; capacity and amount of a call are its DVT and
increment; `Grace` is a millisecond on Redis and nothing in memory. The stage of a call is
read off its local variables: what it has poured on it is how far the TAT in the store is
from the one it read, and it is beaten if only one of the two is there.
`ImplementsBuckets` is `LeakyBucket`'s specification under that mapping. A limiter that
answers without writing, lets an idle key save up credit, decides on a value or a time of
an earlier attempt, or makes an attempt more or less does not satisfy it: TLC refuses each
of these.

`Promises` compares the last answer of a limiter with what the limiter would decide
(`Admits`) in every later state, and holds the other properties of calls and keys. A peek is
judged on the two entries before and after it: every request at every time from then on is
asked of both.

`Conformance` adds an auditor with history variables: a window on a key that can be opened
at any moment, and what calls took since then and nobody gave back (`used`, not below 0).
Only an update that changed the TAT or was answered has taken or given anything. A call
that takes counts in the window in which it read the store, one that gives back in the one
in which it is stored, also if it then fails because its TTL is refused. TLC finds the
bound violated if either is counted the other way.

`RedisKeys` takes the operations of `InternalRedisStore` apart: a key is opened (that is
when Redis looks it up and finds it expired or not), the clock is read or the value
compared, the value written, the expiry set, and time passes between these calls.
`AsAtomic` ties it to `Store`: the calls of an operation do together what the atomic
operation does at the instant of opening, except that the TTL counts from a later one.

`Throttle` composes the command with one limiter: `Run` (arguments and refusals),
`Working` (the steps of `rate_limit`), `Finish` (rounding, reply, replication).

`Replication` runs the decisions of `Gcra` on two servers. The primary executes a command
in one step and appends it to a stream, blocked or not (`RunThrottle`; lib.rs:89-91 comes
after the answer in both cases), writes the TAT of a refund whose TTL is refused and appends
nothing (`RunRefused`), or deletes an expired key and appends the deletion (`Expire`). The replica takes the commands in order at any later time and decides again
(`Follow`). Each decision reads a clock that is anywhere within `Skew` of the time, so it may
step back. The same model is a server that is restarted from its append-only file, where
the delay is the age of the command. The properties compare the replica's keys with those the
primary had at the same point of the stream (`mirror`), and one of
them leaves out the keys of refunds that failed (`lost`).

`ModuleLoad` follows `RedisModule_OnLoad` through the `Init` of either header: the pointers are
fetched group by group, then the name is tested (Valkey only), the attributes are set and
the command is created. A call of a null pointer kills the server. Around it are the
events a server can bring about: loads of any image in any order, unloads (after which the loader may
keep the image and its pointers), another module that owns the command's name, and restarts
with another server version. A function the program calls is a name of its own; those it never
calls are one name per part of the header, since all that matters of them is that Init asks
for them and may not get them.

`MCQuotas`, `MCPromises`, `MCConformance`, `MCRedisKeys`, `MCThrottle`, `MCReplication` and
`MCModuleLoad` give TLC the calls that clients make, and the images and servers. A definition that a comment calls a mutant is a deliberate bug of
the definition that follows it, used to see that each property can fail.

The proofs are in modules of their own: `GcraProofs` (types and arithmetic of `CellTime`,
`Store` and `Gcra`, without any state), `RateLimiterProofs` (types; the only limiter of a
store), `AnswerProofs` (the promises of `Promises`), `ConformanceProofs` (the bound and the
buckets), `ThrottleProofs`, `RedisKeysProofs`, `ReplicationProofs` and `LoadProofs`.

## Runs

Passing:

| run | instance | shows |
|---|---|---|
| `redis` | one limiter on Redis, 3 ticks a millisecond, intervals of 2, 5, 1 and 0 ticks on one key, quantities 0 to 3 of 2, refunds of 1 and 4, 8 instants | the bound over every window, refunds included, the three promises of an answer, a peek changes no verdict, now or later, but in the last millisecond before the TAT, a key that expires between read and swap costs one retry; keys expire before their TAT and less than a millisecond is forgiven each time; all of it implements the leaky bucket |
| `shared_memory` | two limiters, one `MemoryStore`, quantities 0, 1, 3 of 3 and a refund, one retry | lost updates, lost creations and exhausted retries; together the limiters keep the exact bound |
| `contention` | two limiters that take and give back for ever, with fairness | every call ends; each pours only on a look since which nobody poured, and tries as often as it may, refunds included |
| `handles` | one limiter on Redis, single calls on keys, 3 ticks a millisecond, a refund | operations made of several calls do what the atomic ones do although keys expire in between; the retry promise and the bound on forgiven debt hold on the finer steps too |
| `commands` | the command on Redis, 4 ticks a second, 2 a millisecond, bad arguments, zero rate, refunds, negative counts and bursts | waiting the seconds answered, plus less than a millisecond, is enough, and none is a second too long; an update whose `set_expire` is refused leaves a stray key, which blocks nobody and is all that goes unreplicated |
| `replication` | a primary and a replica, two quotas with limits of 7 and 1, increments of 2 ticks, a refund of 4 ticks, a skew of 1, up to 2 commands under way | the replica is behind by at most one call and the skew as long as there is anything to pay, ahead by at most that and the delay until a refund fails on the primary; stepping clocks and lost refunds do not make a key block longer than a burst and the skew |
| `module_load` | one Redis and two Valkey images; servers that know one prefix or both, an early one, one that lacks needed functions; a foreign owner of the name | what is loaded serves its command; only a missing function that is needed kills the server; elsewhere a load succeeds |

Violations. Each checks what a doc, comment or test says, and TLC finds a behaviour
of the code that contradicts it; `PROJECT.json` quotes the text under "findings".

| run | the code |
|---|---|
| `peek` | a call with quantity 0 sets the TTL anew, which moves the expiry by a millisecond: a call 3 ticks later is blocked that would be allowed without it |
| `overstated` | a blocked call that finds a TAT in the past answers a negative reset and more remaining than the limit |
| `sub_microsecond` | `remaining` divides whole microseconds, and overstates for other intervals |
| `before_epoch` | a refund larger than the time since 1970 wraps the TAT to a date centuries ahead; its TTL is refused, and a key without TTL blocks every later call |
| `early_retry` | a wait below a millisecond is answered as 0 seconds |

Two disagreements have no run. A call makes `MAX_CAS_ATTEMPTS + 1` attempts before it
fails with the message "after {} attempts" that names `MAX_CAS_ATTEMPTS` (mod.rs:217-223,
expected by the test at line 491); `ImplementsBuckets` in `contention` and `TypeOK` in
`shared_memory` have the number that are made. And a refund that overshoots is written on
the primary, its TTL is refused, and the error leaves `run` at `lib.rs:64`, before
`replicate_verbatim` (89-91): the replica never hears of it and goes on holding the debt
that was given back, while the comment at `redis/mod.rs:143-146` expects results "close
enough for almost all purposes". `BlocksNoLongerThanLag` leaves such keys out (`lost`);
without the exception TLC finds it violated.

### Bounds

Only clocks and streams need one: calls can come at any instant between `FirstTick` and
`LastTick` (`EndOfTime` for the two servers), without limit on their number. The last instant
is chosen so that on Redis a key is created, used up, expires and is created again within the
run (`redis` lasts 7 ticks with tolerances of 3 to 5, `handles` and `commands` last 11). In memory nothing
expires, and the 4 ticks of `shared_memory` are for buckets that leak between the steps of two
calls. `replication` has two instants, 5 and 6,
and clocks that read 4 to 7: the servers differ by their clocks and by a delay of up to one tick,
and debts are given back there, so no time needs to pass for them to be gone. `contention` is about losing
swaps, for which hardly any time needs to pass: it has two instants. `redis`, `handles`, `commands`
and `replication` start at an instant large enough that no TAT precedes the epoch; `before_epoch` starts
too early for that. `IntMax = 127` keeps every product below the overflow; the theorems
speak of whatever DVT and increment the wrapped product gives. In `shared_memory` the two limiters are a symmetry set: which is which makes no
difference to an invariant. Two limiters are enough for every race of the
loop, which is between one call and the update that came first; `MAX_CAS_ATTEMPTS` is 1 or 2
instead of 5, so that all attempts can be lost within a run. There is one key: a call touches
only its own key, and the proofs are for any set of keys. In `replication` a stream holds
`MaxPending = 2` commands: enough for one server to have allowed both while the other is
still to decide on either. In `module_load` two images have the same build, because a name clash needs
two.

### Fairness

`contention` has weak fairness of each limiter's own `Step`. `rate_limit` is straight-line
code that waits for nothing, so a call that has begun keeps running. `module_load` has weak
fairness of each image's `OnLoad`, which is straight-line code in the server's main thread; the
servers are not made to load, unload or restart anything. No fairness is asked of the
clock, of clients or of the replica.

### Assumptions about what is not under `src/`

* Redis drops a key when its clock, in milliseconds, is past the expiry. The clock
  runs during a command, as the comment at `store.rs:180-183` assumes (servers that
  freeze the time during a command show fewer behaviours).
* `RedisModule_SetExpire` refuses a negative number of milliseconds other than -1,
  which removes the expiry (`REDISMODULE_NO_EXPIRE`). `RedisModule_StringSet` drops
  the expiry of the key.
* The clock does not step back, although that of `now_utc` may; only in `Replication` does it.
* A primary replicates the deletion of an expired key before it runs a command on it, a
  replica and a server that loads its file expire nothing themselves, and the stream keeps
  the order of commands on a key.
* A server loads one module at a time and runs no command meanwhile; it forgets a module
  whose `OnLoad` fails; a command name has one owner. Its set of functions does not change
  while it runs.
* Keys hold what this command wrote.
* The operations of `MemoryStore` are atomic ("will need a mutex", `store.rs:87-88`).
* A release build: integers wrap around.
* Quotients and seconds in f64 are exact, which they are for periods below 104 days.

## Proofs

| theorem | says | needs |
|---|---|---|
| `TypeCorrect` | `Spec => []TypeOK` | nothing |
| `AloneNeverContends` | the only limiter of a store retries at most once, after an expiry, and never fails for contention | one retry allowed |
| `RetryHolds` | `Spec => []RetryPromise` | nothing |
| `ResetHolds` | `Spec => []ResetPromise` | `InRange` |
| `RemainingHolds` | `Spec => []RemainingPromise` | `InRange`, `WholeRates` |
| `PeeksDecideNothing` | `Spec => PeekKeepsVerdicts`, an action property over all later times | `InRange`, `Sound` |
| `StraysHoldNoDebt` | `Spec => []StrayKeyHoldsNoDebt` | `InRange`, one limiter on Redis |
| `ForgivesUnderAMillisecond` | `Spec => []DebtOutlivesKeyBriefly` | `InRange`, `Sound` |
| `BoundHolds` | `AuditSpec => []WindowBound`, refunds included | `InRange`, `Sound` |
| `SharedBoundHolds` | `AuditSpec => []ExactWindowBound`, any number of limiters, refunds included | `InRange`, in memory |
| `LimiterImplementsBuckets` | `Spec => ImplementsBuckets`, the refinement, refunds included | `InRange`, `Sound` |
| `CommandsAreCalls` | `ThrottleSpec => Spec`: a command takes the steps of one limiter | nothing |
| `CommandsFillBuckets` | `ThrottleSpec => ImplementsBuckets`: commands, too, implement the buckets | `InRange` |
| `SecondsAreEnough` | `ThrottleSpec => []RetryInSeconds` | nothing |
| `SecondsToReset` | `ThrottleSpec => []ResetInSeconds` | `InRange` |
| `OnlyStraysStayBehind` | `ThrottleSpec => []OnlyStraysUnreplicated` | `InRange` |
| `CommandsStrayWithoutDebt` | `ThrottleSpec => []StrayKeyHoldsNoDebt` | `InRange`, on Redis |
| `CallsAreAtomic` | `KeysSpec => AsAtomic`, an action property | nothing |
| `CommandsNeverContend` | `KeysSpec => []LosesOnlyToExpiry` | one retry allowed |
| `KeysForgiveUnderAMillisecond` | `KeysSpec => []DebtOutlivesKeyBriefly` | `InRange` |
| `KeysKeepRetryPromise` | `KeysSpec => []RetryPromise` | nothing |
| `ForgetsLittle` | `[]ForgetsAtMostOneCall` of `Replication`, for any skew, delay and number of commands under way | `RefundsPass` |
| `BlocksLittle` | `[]BlocksNoLongerThanLag`, until a refund is lost | `RefundsPass` |
| `BlocksForABurst` | `[]BlocksNoLongerThanBurst` | nothing |
| `WhatIsLoadedServes`, `NullOnlyIfMissing` | `[]LoadedServes` and `[]DiesOnlyOfMissing` of `ModuleLoad`, for any images and servers | nothing |

Beyond the last column the constants carry only the assumptions named in the modules
(`TimeAssumption`, `StoreAssumption`, `LimiterAssumption`, `ThrottleAssumption`,
`KeysAssumption`, `ReplicationAssumption`, `LoadAssumption`). Every quota, any mix of quotas
on a key, any length of the units and any bound on the clock are covered. The hypotheses:

* `InRange`: no TAT leaves the range of a u64. A refund is no larger than the time since
  1970, and the latest clock plus the DVT fits. Negative counts, bursts and quantities are
  allowed. `before_epoch` shows what happens to a larger refund.
* `WholeRates`: every emission interval is a whole number of microseconds;
  `sub_microsecond` shows that it cannot be left out.
* `Alone`: at most one limiter uses the store, as inside Redis.
* `Sound`: the store is in memory or has one limiter. Two limiters on a store that behaves
  like `InternalRedisStore` would break the bound: the one that loses a creation sets its own
  TTL on the value of the other (`store.rs:231`), which then expires with its debt. Redis runs
  one command at a time, so this does not happen in the program.
* `RefundsPass`: a refund is of at least twice the skew, and of more if its quota is smaller
  than another on the key, so that no clock is late enough to block it. A smaller one can be blocked on the
  primary and allowed on the replica, which then forgets its amount, and does so again with every
  repetition (TLC shows it for a refund of 1 tick and a skew of 1). It holds
  of itself where nothing is given back.

*Answers.* A promise is about a later state, which its reply does not determine. The
invariant `AnswerInv` keeps what the reply was computed from: until another call of the
limiter begins, there is a call `c` with `reply[p] = Result(c)` whose key is as `c` left it
(`LeftBy`): not written by a blocked call, and holding what `Write` made of `NewTat(c)` at some
instant since, if it was allowed. A step can only let the clock run, another limiter of the
store being excluded by `Answered`. From there the TAT a later call starts from (`Base`) is that
of the call or, once that is past or the key expired, the clock, and each promise is
arithmetic: `Admits` compares `Base` with the clock (`AdmitsIff`, `RetryKept`, `ResetKept`), and
`remaining` is a quotient to be multiplied again (`WholeIntervals`, `OneMore`).
`RetryPromise` needs no hypothesis at all, since a blocked call has written nothing.

*Strays, expiry, peeks.* `SoleKeyInv` adds `AsRead`, that the key is as the call read it,
and `UpdateOutcome` follows: an update that finds what was read stores what `Write` makes
of `NewTat` over it, and any other changes nothing. A TTL is refused for a negative one
alone, and then the TAT is before the read of the clock (`RefusedWrite`). `Fits` says of
one entry that if it expires, it does so less than two milliseconds before its TAT in
whole milliseconds; it is kept by every write (`WriteFits`) and gives
`DebtOutlivesKeyBriefly` (`DebtAtExpiry`). Every verdict is a matter of the time and of
the TAT a call would start from then (`StartsFrom`, `VerdictFacts`). A peek writes the TAT
it found or the time it read (`PeekedTat`), so before and after it that TAT is the same as
long as both entries are live, and by `Fits` they are, but for the last millisecond
(`PeekStep`).

*The command.* `CommandSteps` maps the steps, so all of the above holds of commands.
`Linked` says that the answer of the client is the last reply in seconds, seen at a later
instant, and `SecondsBounds` what the rounding makes of a duration, also of a negative one.
`OnlyStrays` follows a command until it ends.

*The single calls on keys.* `KeysInv` says what an open key stands for (`HeldBy`): the entry
that was found when it was opened, until the value is written over it, and one that lets the
update go ahead (`Wins`). So when the last call of an update sets the expiry, the entry is
what `Store` makes of the one found, at the instant of opening but for the TTL, which
is `EndsAsAtomic`.

*Why the bound needs an invariant.* `WindowBound` speaks of a sum and says nothing
of what is stored, so no step can be shown to keep it. The invariant `AuditInv`
reads the TAT as an account book:

1. `DebtBounded`: the TAT is ahead of the clock by at most the DVT of some quota in
   use. This is what a call must pass to be allowed. With `BucketInv`, below, it is `QuotaInv`.
2. `OnTheBooks`: what was used in the window, counted from its opening, is no more than
   what is booked on the key (`Booked`, the later of the opening and the TAT), plus a millisecond
   for each reset. A call that takes adds its increment to both sides. One that
   gives back subtracts it from the first, which stops at 0, and lowers the TAT by no more.
3. `AllFit`: a key's expiry comes less than two milliseconds before its TAT in
   whole milliseconds, so an expired key is behind its TAT by less than one. One of
   them is lost by cutting the TTL, the other by cutting the clock.
4. `HeldInv`, `OpenedMeanwhile`: what a call between its read and its update
   may rely on. With one limiter the key is as it was read, or has expired. In
   memory the swap itself checks, and a TAT that is found again is the book as it is now, whatever
   was written to it since.
5. `Tolerated`: the sum alone, as long as the bound has to hold after a refund has moved the TAT
   down.

(2) and (5) give the bound. `AloneNeverContends` rests on `SoleInv`, which adds
`SecondAttempt`: a second attempt has found the key expired, and an expired key
stays expired until it is created.

*The refinement* rests on `BucketInv`: `HeldInv`, that an update finds what its call has
read (`AsRead` for one limiter; in memory, that nothing disappears and nothing expires),
and that every entry `Fits` its expiry. A blocked call is `Block` at its read, any other
`Look`. A look is undisturbed as long as the store shows the call what it has read
(`LookFacts`), which is what the swap tests. So an update that stores is `Grant`; one
whose TTL is refused is `Overdraw`, for the TTL was negative; one that stores nothing is
`Lose`, or `GiveUp` at the last attempt (`UpdateOutcome`). A write moves the TAT by its
increment, and by the time for which the bucket stood empty when the writer looked, and
that is what `Pours` adds to the looks of the others; one who has read a missing key is
beaten when it is created (`WriteDisturbs`). A `Tick` is `Pass`: the buckets forgotten are
the keys that expire in it, by `Fits` within a millisecond (`ForgottenLevel`), and a key
that a call on Redis found missing stays so, so that no other look is disturbed.

*Replication.* A command maps a TAT to a TAT. If both servers allow it, the maps are a
maximum and an addition, and bring two TATs no further apart than they and the clocks were. If
one blocks, its TAT was nearly a DVT ahead of its clock, and the other's is now at most a
DVT ahead of its own. So differences do not add up. The invariant `FollowInv` says that the
stream leads step by step from the mirror to the primary (`Linked`, `Decided`), that every TAT on
the way was within a burst (`InBurst`), and that mirror and replica are `Near`. Where a refund
failed a link is missing: what the primary has written off without telling (`Succeeds`). From
then on they are no longer near; but what was written off is past, so of a TAT still to
be paid the replica `Remembers` all but one call. Where one of the two blocks a refund they would
drift apart by its amount each time, which is what `RefundsPass` excludes.

*Module load.* `LoadInv` adds to the two properties what the table holds while `OnLoad`
runs and after it: of the needed functions that `Init` has come to, all that the server exports.

Left to TLC: `CallsEnd` and `LoadsWhereItFits`, which are liveness, out of the prover's
reach like `ENABLED`. Every other property of a passing run is the statement of a
theorem.

## Not modelled

Overflow of DVT or increment past i64: the operators wrap, but no run reaches it, and nothing
says what should happen there. The rounding of f64 beyond 2^53 (`cell/mod.rs:42`): the
integers of a model have no mantissa. Foreign values in a key, on which
`get_with_time` panics (`store.rs:209`), and arguments that are not UTF-8
(`redis/mod.rs:56`): the server dies at once, and no state is left to relate. A clock that
steps back *between the read and the update* of a call. `Redis::call`, `Reply` and
`coerce_integer`, which nothing calls. The constants, callback types and functions of the
headers that the program never uses, except that `Init` fetches the latter. Logging, wording,
allocation.

## Plan

Done, in this order: `CellTime`, `Store`, `RateLimiter`, `Promises`, `Conformance` and their
proofs, `RedisKeys`, `Throttle`; then `Gcra` (split off `RateLimiter`), `Replication`,
`ModuleLoad`, `LeakyBucket` and `Buckets`, and their proofs; then the proofs about answers,
commands and single calls on keys; then refunds, in the bound over a window and in
`Replication`, with their proofs. What would come next:

1. The bound over a window stated of `LeakyBucket` alone, from which that of the limiter
   would follow by the refinement.
2. The refinement of `LeakyBucket` by the single calls on keys, where a level changes two calls before
   its caller is answered.
