# A verification development for go-redis-kit

This directory models `rediskit`, the intent API over Redis of this repository
(`src/rediskit`), and the labs it grew from, in TLA+. TLC checks the models on small
instances; TLAPS proves the theorems for every value of the constants. `PROJECT.json`
maps each definition to the lines it stands for and lists the runs, the mutants that
show each property can fail, the findings, the hazards and the theorems.

Run a check with `tlc -config <cfg> <module>` and a proof with `tlapm <module>.tla`.

## 1. The system

`rediskit` is a Go library; a process holds one `Client` over one logical Redis (single,
sentinel or cluster) and gets the parts below from it. The parts share nothing in memory
but the connection pool, the key builder, the clock and the metrics recorder; they meet in
Redis, where a command or a Lua script is atomic and nothing else is.

| Part (source) | State | Operations | What is hard | What makes it correct |
|---|---|---|---|---|
| Lock (`lock.go`, `script.go` 19-33) | key `lock:name` (token, PX), counter `lock:fence:name`; per session `Lock{key, token, ttl, fence}` | `Obtain`, `ObtainWithFence`, `Release`, `Refresh` | expiry under a stalled holder; retries of commands already executed; attempts executed after the caller gave up; fence drawn in a second round trip; clean-up with a context that is done | only the owner's key is released or refreshed; two at work only after an expiry; fences in the order of the locks; answers mean what `errors.go` says; every lock ends |
| Fence check of a resource (`labs/01` 609-616) | largest fence seen | compare and keep the larger | writes of holders that outlived their lock | a stale write is rejected |
| RateLimiter (`ratelimit.go`, `script.go` 44-74) | hash `rl:key` (t, ts, expiry) | `Allow`, `AllowN` | the caller's clock is read before the round trip; clocks differ; retries; expiry of an idle bucket | at most capacity plus refill is admitted; nobody is refused too early; a refusal takes nothing |
| TokenStore (`tokenstore.go`, `script.go` 80-86) | key `token:key` (token, PX) | `Save`, `Load`, `Rotate`, `Revoke` | concurrent rotation and replay; retries; late executions | a token is rotated once; revoked stays revoked; every token ends |
| Cache (`cache.go`) | cached values; in-process flights of singleflight | `Get`, `Set`, `Delete`, `GetOrLoad` | back-fill racing a writer; joining an old flight; cancellation of one of many waiters; load timeout | one load per flight; waiters are independent; staleness is bounded |
| KeyBuilder (`keys.go`, `escape.go`) | namespace | `Build`, `Qualify` | parts that contain the separator; keys of two modules that coincide | injective keys |
| Errors (`errors.go`) | none | `MapError`, `MapNotFound` | errors that wrap several causes | the documented precedence |
| Metrics hook (`observability.go`) | counters outside | go-redis hooks | none | counts match calls |
| Client, options, serializer | configuration | construction, `Close` | none | defaults |
| Lab lock and watchdog (`labs/05`) | key `lock:counter`, counter `app:counter`, a goroutine per lock that refreshes it | `spinAcquire`, `startWatchdog`, `Release`, a read and a write | the refresher races the expiry, the release and its own errors; commands that were given up are executed later | the lock lasts as long as the work; no update is lost; everybody ends |
| Circuit breaker (`labs/06` 500-554) | keys `cb:name:open`, `cb:name:failures` | `allow`, `onSuccess`, `onFailure` | three steps of one call, between which others act | the downstream is spared after `threshold` failures |
| Hot-key rebuild (`labs/06` 159-220) | the hot key and a rebuild lock | `rebuildHotKey` | the lock expires under a slow load; answers are lost | one rebuild per expiry |
| Null cache and Bloom filter (`labs/06` 38-157) | `user:id`, a bitmap | `Add`, `MightContain`, `GetUser` | the user is created between the load and the SET of the sentinel | nobody who exists is answered absent |
| Limiters (`labs/06` 286-371, `labs/01` 147-175 and 465-533) | counter, sorted set, hashes | `allowFixed`, `allowSliding`, `allowToken`, `allowLeaky` | the clock of the caller; edges of windows; expiry | the bound of each algorithm |
| Queues, stream, archive (`labs/01` 121-145, 355-386, 572-600, 654-737) | lists, sorted set, stream with groups, counters | move, acknowledge, reclaim; pick and remove; read, bill, claim; GETDEL and INCRBY | crashes between two commands; answers that are lost; overlapping workers | nothing is lost; what is done twice has a cause |

The parts call Redis through go-redis, which is not in the repository: it sends a command,
waits for the answer, and sends the command again up to `maxRetries` times (options.go
77-79; default 3, -1 for none) when the connection fails or times out, also when the server
executed the command and only the answer was lost. This delivery is made of:

* *request*: the call stores its command and waits;
* *execution* (`Serve`): the server executes it atomically and an answer is under way;
* *answer* (`...Returns`, `Return`): the code after the call runs;
* `Retry`: the answer, or the attempt, is lost, and the same command is sent again;
* `Abandon`/`ServeLate`: the server may execute an attempt the client gave up on later;
* `TimeOut`, `Refuse`, `Fail`: the call fails: retries used up, context done, error reply.

Which part of it a model has:

| Model | Repeated executions (`Retry`) | Attempts executed late |
|---|---|---|
| `Locker` (and `FencedResource` for the lock) | every command | every command |
| `FencedResource`, the write | yes: a write that was sent stays sent | yes: also after its session ended |
| `TokenStore` | every command | every command |
| `RateLimiter` | the script | no: `Tick` waits for a call, and a caller that gave up is a call still on its way |
| `Cache` | SET and DEL, which are idempotent | a SET (`ServeLate`); a late DEL would do what an expiry does and is left out |
| `Watchdog` | SET, SETNX, Release, Refresh | the same four (`Abandon`, `ServeLate`) |
| `UserCache` | SET | a SET (`LatePut`) |
| other labs | lost answers and errors where section 2 says so | no |

A context may end at any time. The code notices only when it sends, so the models choose it
there, which gives the same behaviours with fewer states.

## 2. The modules

| Module | What it models or states |
|---|---|
| `Locker` | the four operations of one lock name, the network, expiry, crashes; its properties |
| `Lease`, `LockerLease` | what a TTL lock promises, free of Redis; that `Locker` implements it |
| `FencedResource` | `Locker` composed with a resource guarded by the fence check |
| `RateLimiter` | the token bucket of one key, with clocks, delays and retries |
| `RateLimiterWindow` | `RateLimiter` with a record of what was admitted when |
| `TokenStore` | the token of one session, with concurrent callers |
| `Cache` | `GetOrLoad` with singleflight, `Set` and `Delete`, over a database that changes |
| `Keys`, `Errors` | the key builder; the map from errors to sentinels |
| `Watchdog` | labs/05: the lock that a watchdog keeps alive around a read and a write |
| `CircuitBreaker`, `HotKey`, `UserCache`, `LabLimiters` | labs/06 (and the limiters of labs/01) |
| `ReliableQueue`, `DelayQueue`, `OrderStream`, `Archive` | labs/01 |
| `LockerProofs`, `FencedResourceProofs`, `RateLimiterProofs`, `TokenStoreProofs`, `CacheProofs` | the theorems about rediskit |
| `LabProofs` | the theorems about the breaker, the hot key, the guarded user, the limiters, the watchdog |
| `LabDataProofs` | those about the queues, the stream, the archive, the error map and the key builder, and about `MCLabs` as a whole |
| `SumTheorems` | sums over finite sets, for the proofs that need them |
| `MC...` | instances for TLC |

A definition named `X_Y` in a module is a faulty variant of `X` that no action uses. Each
property of each passing run is checked to fail when `X` is replaced by such a variant.

### Locker

`pc[p]` is the command process `p` is waiting for (`setnx`, `incr`, `cleanup`, `release`,
`refresh`), `held` while it works under its `Lock`, or `idle`. `Obtain` draws the token
(lock.go 45; a random number is modelled as a number never drawn twice) and sends the
SETNX; `ObtainReturns` is lines 50-57 and, for `ObtainWithFence`, 64-68; `FenceReturns` is
74-75; a failed INCR goes to `cleanup`, the Release of line 71, whose own result is dropped
(`CleanupReturns`). When the context is the reason for the failure, the clean-up is refused
by go-redis before it is sent: `Fail` and `Fence` then end the call at once. `Refresh` that
fails with an error leaves the caller with its Lock; `ErrLockLost` ends its session.

Three kinds of ttl tell apart what the code does with them: `whole`, `submilli` (SETNX
rounds it up to a millisecond, `Milliseconds()` in Refresh gives 0) and `none` (SETNX sends
no PX). Time is not counted: `Expire` may happen whenever the key has a TTL. A TTL that
cannot run out before the caller's timeouts would exclude behaviours; the code sets no such
relation, so none is assumed.

History variables: `expired[p]`, Redis expired the key p's session had set; `older[p]`, the
sessions that had set the key before p's did; `steady[p]`, p's lock had not expired when its
INCR was executed; `issued`, tokens drawn.

### FencedResource

`Send(p)` sends a write of a process that holds a Lock with a fence; `Write(w)` is the guard's
comparison when the write is executed, at once or long after its session ended, and as often
as it is retried, since a write that was sent stays in `sent`. A rejected write changes nothing
and is left out. `overtaken` collects the sessions, older than a writer, that were at work
when it sent the write that was accepted.

### RateLimiter

All amounts are the script's millitokens times `Per/1000`, which are integers: capacity
`Limit * Per`, refill `Limit` per millisecond, `n` tokens cost `n * Per`. The rounding of
floating-point numbers is not modelled. `AllowN(c)` reads a clock that is off by one of
`Offsets` (ratelimit.go 39) and sends; `Serve(c)` is the whole script (44-74): refill with
the clamp of 57-60, the comparison, `HSET`, `PEXPIRE`. `Tick` advances Redis's clock and
waits for calls that are older than `MaxDelay`, the sum of the client's timeouts and retries.
`Per` is in whole milliseconds, as lines 31-34 compute it. `Return` is one step for nil,
ErrRateLimited and MapError's sentinel: nothing is done with the outcome afterwards. `taken`
(history) is what a call has paid in all its attempts.

`RateAssumption` asks that delay and clock spread together stay within one period. It is the
condition under which a bucket that Redis expired (two periods after its last use) would have
been full again; a period below the client's timeouts is outside it.

### TokenStore

`Save`, `Rotate` and `Revoke` send one request each (`req[p]`); `RotateScript` is the
compare-and-set. Callers rotate tokens whose Save or Rotate returned nil (`handed`), among
them tokens they rotated before (a replay). `stored`, `spent`, `rewritten` and `over` are
history: `rewritten` collects the tokens that were stored again after they had been handed
out, which only an abandoned attempt executed late does (theorem `RetriesRewriteNothing`);
`over` holds from a Revoke until the next Save, one executed late included.

### Cache

One key. A value is the version of the database it was read from. A caller's `pc` is `get`
(lines 91-98), `missed` (about to call DoChan), `waiting` in the select, or `answered`: the
result is in its channel, but the select may still take `ctx.Done` (`GiveUp`). The flight of a
process has its own steps: `recheck` (105), `loading` (113), `backfill` (117). `Finish` is
singleflight's end of a flight, external: it forgets the key and sends the result to every
waiter in one critical section. `Recheck` uses the context of the caller that started the
flight, so it may fail at any time; the loader and the back-fill do not. Commands here are
idempotent, so a retry is an execution that may be repeated (`Fill`, `Answered`).

`Store` tells three kinds of ttl apart: `whole`, `none`, and `keep`, which is -1 ns: jitterTTL
leaves it alone and go-redis reads it as KeepTTL.

History: `fresh` is the newest version for which the cache was refreshed (a Delete or Set
executed after the write), `since[c]` its value when c's call began, `overtaken` the versions
that a flight, a SET or a writer still held when a newer one refreshed the cache, `upsets`
what entitles a process to one more load.

### Keys and Errors

`Keys` is two questions about operators. `Build` works on sequences of characters, among them
the separator, the percent sign and the two characters of an escape, and is injective on its
nonempty parts. `KeyOf` is the key each part of rediskit passes to `Qualify` (lock.go 49 and
68, ratelimit.go 43, tokenstore.go 26, cache.go 33), over sequences of words that end with the
separator; two different resources have one key in the cases `ModulesApart` lists and no
others: a cache key that begins with another part's prefix, and the fence counter of a lock
`x` and the lock named `fence:x`. `MapNotFound` is the switch of errors.go 59-86 over the set
of causes that `errors.Is` and `errors.As` find in an error.

### Watchdog

Time is counted, in ticks, for the key's ttl and for each watchdog's ticker. `Acquire` is one
attempt of spinAcquire that succeeds. `dog[p]` is the watchdog: `starting` until its goroutine
runs, `ticking`, `due` from the tick until its Refresh is executed, `off`. A wait of `starting`
or `due` of more than `MaxDelay` ticks is possible and puts the process into `excused`, as does
a Refresh that fails, since the watchdog then ends without a word (main.go 164-166).
`DelayAssumption` is what "a Refresh every third of the ttl" is good for: the delay before the
ticker, a period and the delay of the Refresh fit into a ttl. `WatchdogStops` is an action of
its own, because closing the channel does not wait: a `Refresh` may still follow `Release`.

`Abandon(p)` gives up an attempt of the command that p or its watchdog waits for: the SETNX of
spinAcquire, the SET of the counter, Release, Refresh. The attempt stays in `astray`, the call
goes on with its retry (or fails), and `ServeLate` executes the attempt whenever it arrives,
also after p has released the lock and others have worked. A SETNX executed late, or whose
answer is lost, leaves a token nobody remembers (`orphan`), or p's own when its retry had
succeeded with the same token. `lapsed`, `excused`, `misread`, `wrote` (whose SET was executed),
`behind` (SETs on their way after which somebody read) and `overrun` (one of those was
executed) are history.

### CircuitBreaker, HotKey, UserCache

A call of the breaker is `Allow`, `Downstream` and the report; the callers interleave between
them. `strikes` (history) counts the failed downstream calls since the breaker last started
over: a success deletes the counter (main.go 536), also of failures of concurrent calls, and
an expired open key lets everybody through, not one probe as the comment on half-open says;
both start over. `DownstreamSpared` bounds the strikes in between.

`HotKey` has one step per command of rebuildHotKey. Readers that lose the race for the lock
wait, look once and load on their own (`SecondLook`), as the comment accepts; `loads` counts
the loads under the lock. `upsets` counts what entitles to one more: a lock that expired under
a holder at work, a SET or second look that failed, a lost SETNX answer.

`UserCache` follows one id: its bits in the bitmap, which other ids set too, the cached value
or sentinel, and calls that race the creation of the user. `settled` holds the calls that
began after Add had returned and when no sentinel was stored, about to be stored or on its
way.

### LabLimiters

One key, one of five algorithms per behaviour. A reading is older than its execution by up to
`Lag`, so readings may arrive in any order, and the scripts of the labs, unlike
rateLimitScript, do not clamp a reading that is behind: `TakeToken` and `AllowLeaky` then
take back what was refilled or leaked too early, which is what keeps `BucketBound`. The bucket
of labs/01 expires after `ceil(capacity / rate)`, when it would be full on Redis's clock; with
readings that lag that is too early, and `BriefBound` says by how much. The fixed window
admits up to twice its limit around an edge (the comment of line 292), and no more.

### ReliableQueue, DelayQueue, OrderStream, Archive

The labs demonstrate one pass with one worker; the models let the same steps be taken by
several workers, again and again, with crashes where the demo stages one. In `ReliableQueue`
a worker moves, runs and acknowledges, and `Reclaim` moves back whatever lies in processing:
the code does not ask how long it has been there. `DelayQueue` reads, runs and removes in three steps. `OrderStream` has the stream, the
pending list of each group, the set billProcessed asks, worker-1 and the claiming worker-2,
whose loop (714-717) bills without asking, and n1, the one consumer of notify. Each of them
may die between two steps, lose the answer of its XREADGROUP (the entries are pending then,
with nobody at them) or fail an XACK, whose error the code drops. Billing has somebody who
claims; notify has nobody (709-717), so `OrdersAreDone` speaks of billing alone and
`NotifiedInTheEnd` fails. `again` and `unsure` are history. In `Archive`
`lost` and `doubled` record that a delta was lost or added twice.

### MCLabs

The ten parts of the labs other than `Watchdog`, with `Keys` and `Errors` among them, share no
variable and no key. `MCLabs` checks them in one run: a behaviour chooses a `part` at the beginning and takes steps of that part only; the others
keep their initial state. The states of the parts add up, and a property of one part is
checked in exactly the behaviours of its own specification. Its fairness (`LabsFairness`)
repeats that of `ReliableQueue` and `OrderStream` for the part that runs. `Watchdog` has
a run of its own, because its time and its late attempts make it as large as the others together.

## 3. The runs

Passing runs:

| Run | Instance | What it shows |
|---|---|---|
| `locker_lease` | 2 processes, 2 sessions, 1 retry, 1 late attempt, whole ttls | `OwnsKey`, `MutualExclusion`, `FenceOrder`, and `ImplementsLease` |
| `locker_answers` | 2 processes, 2 sessions, no retries, 1 late attempt, whole ttls, fair | `LostMeansExpired`, `NotObtainedMeansOther`, `ReleaseIsFinal`: the answers mean what errors.go says; `CallsReturn`, `AbandonedLockFreed` |
| `fenced_resource` | 2 processes, 2 sessions, 1 retry, ttls `whole` and `submilli`, writes executed at any time | `SteadyStaleWriteRejected`, `OwnerAccepted` |
| `rl_window` | 2 clients, clocks that lag by up to 1 ms, delays, 1 retry | `RateBoundUpToRegress`, `DenialJustified` |
| `token_store` | 2 callers, 3 tokens, 1 retry, 1 late attempt, all ttls | `AlwaysExpires`, `RotateOnce`, `RevokeSticks` |
| `cache` | 2 callers of one process, 1 writer, 2 versions, 2 calls, 1 late SET, whole ttls, fair | `StaleOnlyByRace`, `NoExtraLoad`, `WaitersIndependent`; `CallsReturn`, `AgreesInTheEnd` |
| `watchdog` | 2 goroutines, ttl 6, delay 1, 1 attempt given up, fair | `LapseOnlyExcused`, `NoLostUpdate`; `EveryGoroutineEnds` |
| `labs` | see below | `DownstreamSpared`; `OneRebuild`; `NoFalseAbsence`; `LimitsHold`; `JobsAreSafe`, `BillingFaithful`, `WorkIsDone`; `ViewsConserved`; `KeysDistinct`; `BlameIsRight` |

The type invariants are checked in `locker_lease`, `rl_window`, `token_store`, `cache`,
`watchdog` and `labs`.

Why the bounds are enough. The interesting schedules of the lock need two processes: one
that loses its lock and one that gets it; the second session shows reuse. One retry
separates "executed twice" from "executed once", and more retries repeat it; one late attempt
at a time is enough for a command that overtakes its successor. `fenced_resource` leaves out
ttl `none`: its Refresh does what that of `submilli` does, and a key that never expires is one
that `Expire`, always optional, does not reach. The limiter run is long
enough for the bucket to be used, to expire (after `2 * Per`) and to be used again. Three
tokens are a token, its successor and the one a replay asks for. Two calls and two versions
are a call that loads the old version and one that meets what it left, or waits with it. The theorems below hold
without these bounds.

The watchdog: with a ttl of 6 ticks and a usual delay of 1 the lock is refreshed several times
before it is released; two goroutines are one that leaves something behind and one that
meets it, and one attempt given up is what it leaves.

The instance of `labs`: three callers of a breaker with threshold 3, so that calls under way when it opens add to
the failures that opened it; three readers of a hot key (a holder, one whose lock expired, one that waits) and
two upsets; two askers and two bits; limit 2 in windows of 3 ticks over 6, so that windows
pass, keys expire and come back; two jobs and two workers per queue with one mishap; one order
that may be in the stream twice, three mishaps and two rounds of claiming; two overlapping
archive jobs; all lists of up to two parts with three characters in all, among them `%`, `3`, `A`,
which is the length of an escape. Everything that goes wrong in these parts needs two actors
and one mishap; the further ones show that the bounds count them.

Runs that show a disagreement (each with a finding that quotes the line):

| Run | What the code does |
|---|---|
| `locker_fence_cleanup` | the clean-up of `ObtainWithFence` uses the context that failed it |
| `fenced_inversion` | a lock that expires between SETNX and INCR gets a fence newer than the next lock's |
| `cache_stale` | a back-fill that was loaded before a write overwrites the Delete after it |
| `token_rotate_retry` | a Rotate that succeeded answers `ErrTokenNotFound` when its first answer was lost |

More disagreements are stated in the modules and have no run of their own. TLC finds each of
the properties below violated when it is checked in the instance named; `PROJECT.json` quotes
what the repository says.

| Property | Instance | What the code does |
|---|---|---|
| `OwnsKey` | `MCLockerLease.cfg` with `TTLs = {"submilli", "none"}` | a Refresh of a lock with ttl 0 or below a millisecond sends PEXPIRE 0, which deletes the lock and answers 1 (lock.go 98); `OwnsKeyHolds` assumes `WholeTTLs` |
| `RateBound` | `RateLimiter`, 2 clients, `Offsets = {0}`, `Limit = 2`, `Per = 3`, `MaxDelay = 2`, no retries, `MaxTime = 9`, `MaxCalls = 6` | scripts that arrive out of order move `ts` backwards and refill an interval twice; `RateBoundUpToRegress` says by how much |
| `DeniedTookNothing` | the same with 1 client, 1 retry, `MaxTime = 4`, `MaxCalls = 3` | a call whose first answer was lost is refused by its retry, and its tokens are gone |
| `CounterExact` | `MCWatchdog.cfg` | a SET that go-redis gave up is executed after the next holder wrote, and an update is lost under a lock that excluded |
| `BilledOnce` | `OrderStream`, 1 order, `MaxFails = 1`, `MaxClaims = 1` | the worker that claims an order bills it again when the first one died before its XACK |
| `NotifiedInTheEnd` | the same | an entry of the notify group that was not acknowledged stays pending for ever |

And the breaker has no half-open state (`Allow` after `OpenExpires`): its comment
(labs/06 505-506) lets one probe through after the cooldown and reopens when it fails, the
code lets every call through and needs `threshold` failures again.

`token_rotate_retry` stands for a family, to which `DeniedTookNothing` belongs: the answer of a
command that was executed is lost, and go-redis sends the command again. In the lock, the
instance of `locker_answers` with `MaxRetries = 1` violates
`LostMeansExpired` (a Release that deleted the key answers `ErrLockLost`) and
`NotObtainedMeansOther` (an Obtain that succeeded answers `ErrLockNotObtained`, and its own
token keeps the lock until the TTL). With ttl 0 `AbandonedLockFreed`
fails: such a lock outlives its holder, while `Save` and `Rotate` refuse the same ttl.
docs/07 (509-518) names the risk of retrying commands that are not idempotent; the
library leaves the retries on, and `token_rotate_retry` and these instances show what the comments promise that then
fails.

## 4. Fairness

`Locker!FairSpec`, `Cache!FairSpec`, `Watchdog!WatchdogFairness` and `MCLabs!LabsFairness`
state fairness. In `Locker`,
`WF(ClientStep(p))`: a call that waits is answered or times out, because go-redis bounds each
attempt by its read, write and pool timeouts and the number of attempts by `maxRetries`. `WF(Expire /\ ~Live(lockKey))`: the
TTL of a key nobody refreshes any more runs out. Nothing is assumed of the server, of callers,
or of late attempts.

In `Cache`, `WF(CallerStep(c))` and `WF(FlightStep(h))` are the same, and that a goroutine
that can run does; for `loading` it is `loadTimeout` (options.go 84), under the documented
duty of a loader to obey its context. No fairness makes a SET execute or a writer go on.
`WF(Expire)` needs a ttl, so the run with liveness takes whole ttls only: a stale value stored
without a ttl stays.

In `Watchdog`: time passes (`WF(Tick)`), and as long as some goroutine can go on, one of them
does (`WF(\E p \in G : Advances(p))`). To go on is to finish the command one is at work with,
which go-redis bounds; to obtain the lock when the key is free, which spinAcquire tries every
20 ms; or, for a watchdog, to take the channel that is closed, the one case of its select that
stays ready. Fairness to each goroutine is not needed: each has finitely many steps, so
that after those of one the others go on. Nothing makes a Refresh or a
Release succeed, and no attempt that was given up need be executed. In `ReliableQueue` and `OrderStream` workers go on and somebody reclaims, or
claims, what is pending: the recovery the labs call for; crashes and mishaps are bounded, and
`OrdersAreDone` excuses behaviours that used up `MaxClaims`.

## 5. What is proved

Every theorem below is about the specification the runs check, for every value of its
constants that the named assumptions allow: any set of processes (finite where the proof
counts its members, which the assumption then says), any ttl, limit or threshold, any number
of retries and late attempts unless the theorem says otherwise. Each follows the same pattern:
an inductive invariant, one step per action, and the property from the invariant. TLC checked
each invariant before it was proved.

*Lock* (`LockerProofs`): `TypeCorrect`, and four layers.

* `LockInv`, for every kind of ttl: tokens differ between sessions and are not ahead of
  `issued` (so a fresh one matches nothing), a process whose SETNX was answered 1, or that
  works and has not expired, owns the key, and a release on its way belongs to a session that
  has stopped working (so its execution cannot take the key from one that works).
  `OwnsKeyHolds` and `MutualExclusionHolds` follow for ttls of at least a millisecond
  (`WholeTTLs`; section 3 says why it is needed). `OwnsKey` alone is not inductive: it says
  nothing of requests on their way.
* `FenceInv` adds that no fence is ahead of the counter, that of two holders one came first,
  and that whatever a session drew in time lies below what the sessions after it draw.
  `FenceOrderHolds` needs no assumption on ttls or retries: `steady` already excludes the
  session that lost its lock before its INCR.
* `AnswerInv` is about the answers, without retries (`NoRetries`; `token_rotate_retry` and
  section 3 show that they are wrong with them): an abandoned SETNX belongs to a session that
  ended with an error, a SETNX is executed once, and a session that was answered ok or
  not_obtained has no token in the key. It gives `NotObtainedHolds` and `ReleaseFinalHolds`;
  `LostHolds` (`ErrLockLost` only after an expiry) needs `WholeTTLs` as well, since a PEXPIRE 0
  deletes the key of a session that never expired.
* `LeaseRefined`: under `WholeTTLs` every step of `Locker` is a step of `Lease` (grant, enter,
  leave, free, lapse) or a stutter, with the retries and the late executions. `OneWorkerHolds`
  carries the promise of `Lease` back to the lock.

*Fence check* (`FencedResourceProofs`): `GuardInv` says that the owner of the lock that has
not written yet has, or will be answered, a fence above what the guard has seen and above every
write of others that may still be executed (`OwnerAhead`); and that the sessions a write
overtakes, and the writes they sent, lie below its fence (`SessionsBeaten`, `WritesBeaten`).
It rests on `FenceInv` and gives
`StaleWriteHolds` and `OwnerAcceptedHolds`, for every kind of ttl.

*RateLimiter* (`RateLimiterProofs`), for every limit, period, set of clients and clock spread
within `RateAssumption`: `TypeCorrect` (the bucket is between empty and full);
`RateBoundUpToRegressHolds`; `OrderedRateBound`, that the documented rate is kept as long as
`ts` never moved backwards. `BucketInv` adds to the bound that a call's
reading is at most `MaxDelay` old and that `ts` was read before the last use: together they
give `ExpiredFull`, the reason why starting with a full bucket after the expiry admits nothing
extra. `DenialJustifiedHolds` is the other half of the promise, of `RateLimiterWindow`:
nobody is refused too early. `WindowInv` says of every reading `x` that what the bucket lacks
was paid after `x`, or a whole capacity was, up to what was refilled since (`Backed`); a script
whose reading is behind `ts`, a refill, an expiry and a payment each keep it.

*TokenStore* (`TokenStoreProofs`), for every set of callers, retries and late attempts:
`TypeCorrect`; `RotateOnceHolds`, from `RotateInv`, which adds that what a call in progress
writes has never been handed out, that a rotated token has been handed out and, unless it was
rewritten, is not current, and that at most one call in progress has won a token;
`RetriesRewriteNothing`, that without late executions the exception of `RotateOnce` is empty;
`AlwaysExpiresHolds` and `RevokeSticksHolds`, from `SessionInv`: a Rotate on its way compares
with a token, never with nothing, and once a session is over no caller waits for a Save.

*Cache* (`CacheProofs`), for every finite set of callers and every set of processes and
writers: `CacheTypeCorrect`, whose invariant counts loads against the calls that started their
flight; `StaleByRaceHolds`, from `RaceInv`: any value older than the last refresh that is
cached, or that a flight, a SET on its way or an answer still carries, was held by somebody
when that refresh was executed; `NoExtraLoadHolds`, from `LoadInv`: a process that has loaded
still runs the flight, or the value is cached, or an upset paid for the next load;
`WaitersIndependentHolds`, from `Blame`: a waiter is answered an error only when the loader
failed, never because of the context of the caller that started the flight.

*Labs*, part by part (`LabProofs`, `LabDataProofs`):

* Watchdog: `Enough(p)` bounds from below what is left of the ttl by the place of p's watchdog
  in its round; `DelayAssumption` is exactly what makes it positive, and gives `LapseHolds`.
  `CountInv` is about the counter: a goroutine at work whose lock did not lapse is alone, what
  it is about to write is due (`WriteDue`), and so is every SET on its way that nobody has
  read past; all of those belong to one goroutine. `NoLostUpdateHolds` follows, for any number
  of attempts given up. It excuses a SET that is executed after somebody had read
  (`overrun`): then the update is lost (`CounterExact` fails), and no lock of this form can
  prevent it.
* Breaker and hot key: counting. How many calls or readers are at a place is a cardinality,
  and every step moves one of them; the invariants say that the strikes (loads) so far and
  those that can still come fit into the bound. `DownstreamSparedHolds`, `OneRebuildHolds`.
* Guarded user: `UserInv` relates the history `settled` to the bits, the cached sentinel and
  the sentinels on their way. `NoFalseAbsenceHolds`.
* Limiters: each algorithm has an invariant over the record of what was admitted, about pairs
  of requests: counters and edges (fixed), members (sliding), what the bucket owes since
  request `i` (buckets), with `IdleAssumption` for the key that expires. `LimitersHold`.
* List queue: every run of a job, done, in hand or queued, is paid for by its first place in
  the queue or by a Reclaim. Delay queue: a run that is not followed by the removal belongs
  to a picker that still holds the job, or to a mishap. `ListJobsSafeHolds`,
  `DelayedJobsSafeHolds`; together `JobsAreSafeHolds`.
* Order stream: an order that is not billed is pending in a place from which it will be
  (`Pending`, `Kept`): all its entries before the set was asked, one that the first worker bills
  now, or does not have in hand, after. `BillingFaithfulHolds`.
* Archive: a view is in the current key, in one job's hands or in the total; the hands are a
  sum over a finite set, and `SumChanges` says what one job does to it. `ViewsConservedHolds`.
* Keys: two lists of parts with one key have the same nonempty parts. `FlattenSeq` is unfolded
  into what the first i characters of a part become (`FlattenIs`), so that two parts
  with one escape are compared from the front (`SameNext`, `EscapedInjective`); an escape has
  no separator (`NoSeparator`), so the first one after the namespace's tells where the first part
  ends (`Key2Injective`). The prefixes of the parts of rediskit are compared word by word
  (`Beginning`, `FenceMeetsLock`). It is a statement about every typed state, and
  `KeysDistinctHolds` makes it one about the behaviours of the labs.
* Errors: `BlameHolds`, for every set of causes.

Each of these is a theorem about the part's own specification (`WatchdogSpec`, `BreakerSpec`
and so on). `LabsInvariant` then takes the invariants of the ten parts of `MCLabs`
together along `LabsSpec`: a step of one part is a stutter of the others. `LabsTypeCorrect`, `JobsAreSafeHolds` and
`LabsAreSafe` state the properties of the run `labs` of that specification.

Sums. A fold over a finite set has no closed form, and the induction theorems of the library
cannot be used here. `SumTheorems` goes around them: a subset for which two sums
differ too much would have one of least size (`NoBadSubset`), and taking one element from
it gives a smaller one. The sequence lemmas (`RemoveFirstHolds` and its like) are written with the
least index in the same way.

Only model-checked:

* liveness (`CallsReturn`, `AbandonedLockFreed`, `AgreesInTheEnd`, `EveryGoroutineEnds`,
  `WorkIsDone`): its argument is about fairness and ENABLED, which the prover does not do;
* the four runs that show a violation, of which a theorem has nothing to say.

## 6. What is not modelled, and why

* One logical Redis that executes commands one after the other. Failover to a replica that
  lags loses a lock or a token; the library's comment (lock.go 10-12) takes one Redis as given.
* One lock name, one bucket, one token key: scripts touch one key, and keys of different
  names are independent, except where two names build the same key (`Keys`).
* A caller of the limiter that gave up, and whose attempt is executed after more than
  `MaxDelay`. Two callers that load one cache key with different types (cache.go 130-133).
* The random source fails (lock.go 34-36): Obtain returns before anything is sent.
* Floating-point rounding, serialization, logging, metrics, construction of the client.
* labs/05: AcquireWithFence, the forerunner of ObtainWithFence. labs/06: the TTL statistics of
  section 4; sessions and the JWT blacklist, single commands whose errors are dropped;
  rotateRefresh, whose compare-and-set TokenStore has in rediskit's form. labs/01: the demos
  of hashes, sets, leaderboards, bitmaps, HyperLogLog and geo, which send one command after another from
  one goroutine. labs/00 connects and prints.
* Parts of the table in section 1 without a module; `PROJECT.json` has the reasons.

## 7. Plan

The library came first, because its promises are about safety under concurrency: `Locker`,
`Lease`, `FencedResource`, `RateLimiter`, `TokenStore`, with their main invariants as theorems,
and `Cache`; then the labs, the keys and the errors; then the proofs of section 5, which
cover every safety property the passing runs check. What is left:

1. Liveness stays with the runs: the prover has no ENABLED.
2. `Keys` has lists of at most two parts. With longer ones `EscapedInjective` and
   `NoSeparator` stand as they are, and the step from one separator to the next would be one
   more least counterexample, over the list.
