# A TLA+ model of the task queue

This directory holds TLA+ specifications of the distributed task queue in
`src/`, TLC configurations that check them on small instances, and TLAPS proofs
about both brokers, the producers, the worker runtime, the scheduler, the
maintenance loops and the algorithms for instances of any size. `PROJECT.json` maps
each definition to the lines it models and lists runs, mutants, hazards, findings and
theorems.

## The system

Producers hand jobs to a **broker**; **workers** claim them under a lease with a
visibility deadline, run a handler and report. A claim consumes an attempt. A
lease that is not renewed in time is recovered by any worker's reaper; a job
whose attempts are used up is dead-lettered. A **scheduler** inside each worker
turns cron entries into jobs, normally on the worker that holds a leader lease.
Workers renew their leases, sweep for expired ones and send heartbeats in loops
whose intervals derive from the visibility timeout.

| Part | Code | Module | State |
|---|---|---|---|
| Job lifecycle and broker contract | `job.go`, `broker.go` | `Broker` | modelled |
| Redis broker | `internal/rdb/*.go`, `scripts/*.lua` | `TimedSets`, `RedisBroker` | modelled, proved |
| Memory broker | `internal/memory/memory.go` | `TimedSets`, `MemoryBroker` | modelled, proved |
| Worker runtime | `server.go`, `worker.go`, `maintenance.go` | `Server` (on `Broker`), `Leases` | modelled, untimed and timed, proved |
| Heartbeats, worker registry | `maintenance.go`, `heartbeat.lua`, `memory.go` | `Registry` | modelled, proved |
| Scheduler, schedule store, leader lease | `scheduler.go`, `cron.go`, `rdb/cron.go`, `memory/cron.go` | `Scheduler` | modelled, proved |
| Producer client | `client.go`, `rdb/enqueue.go` | `Producer` (on `RedisBroker`), `Server!Client` | modelled, proved |
| Queue selector | `queues.go` | `QueueSelector`; `Orders` in both brokers | modelled, proved |
| Retry backoff | `backoff.go` | `Backoff` | modelled, proved |
| Cron expressions | `internal/cron/cron.go` | `CronSchedule`; `Scheduler!Next` | modelled from terms on, proved |
| Mux, errors, encoding, examples, test support | `handler.go`, `errors.go`, ... | - | not modelled |

## The modules

**Broker** is the abstract contract: a state, owner, attempt count and budget
per job, and the set of leases whose deadline has passed. There is one operation
per method of the Go interfaces that changes a job. `validTransitions` is the
table of `job.go`.

**TimedSets** has what both brokers share: sorted sets with scores, the batch of
due members a limit admits, and the clock.

**RedisBroker** has one action per Lua script, which Redis runs atomically. Its
variables are the keys: the job hashes (one function per field), the ready lists,
the active, delayed and retry sorted sets, the dead set, the unique keys with
their expiry, the two counters and the server's clock. `Dequeue` walks the queues
in the order given and drops up to `SkipLimit` IDs without envelope from each.
`Reap` is one script for one queue, so that a multi-queue reap that fails half-way
is among the behaviours. `Purge` is the expiry of a completed envelope, or the
eviction of one in `Evictable`. `window` is a history variable: the interval
during which a job's unique key was promised to it. The Redis broker has no
`Inspector`, hence no replay and no purge of dead jobs.

**MemoryBroker** has one action per method, each under the mutex, replay, purge,
statistics and `Close` included. `OperatorIDs` are the argument lists of
`RetryDead` and `PurgeDead`, which may name a job twice; `repeated` records that a
replay did. `Sublist` and `Only` are the loops that filter a list. The loop of
`removeDeadLocked` is `removeDead`: after removing the first occurrence of a job some
number of times, the occurrences that many places in remain.

**Producer** puts producers in front of the Redis broker. `ttlOf` is the conversion
of the ttl given to `Unique` into what the script gets. The reply of a call may be
lost after the script ran; the producer then calls again with a new job.

**Server** composes the broker contract with the workers. An action is one broker
call or one critical section of `Server.mu` with the local computation around it.
`run[w][s]` is the job goroutine in a slot, `inFlight` the map of cancel
functions, `renewal` the renewal loop between reading the IDs, calling `Extend`
and cancelling what was lost. `phase` follows `Run`: running, stopping (context
cancelled), draining, cancelled (after `ShutdownTimeout`), stopped. Replies may be
lost, calls fail and workers crash and restart, `MaxFaults` times in all. Deadlines
are abstract: a lease may lapse at any time (`LeaseLapses`). `Server` is built on
the contract, which both brokers are shown to implement.

**Scheduler** has the schedule store, the lease and, per worker, the scheduler
loop cut at every broker call: seeding, `AcquireLease`, reading the server's time,
reading the due entries, `Enqueue`, `ClaimCron`. Worker clocks run up to `Slow`
behind and `Fast` ahead of the server's. `Every` are entries counted from the
instant (`@every`), the others lie on a grid of `Period`; `Dormant` entries belong
to another build. A unique key may expire at any moment (`KeyExpires`), which stands
for a pass or a claim that is held up for longer than `cronUniqueTTL`. Three history
variables: `fired` are the ticks that got a job, `refired` those that got a second one,
and `exposed` those whose key was gone, or whose entry was removed, while they were
`Open`, that is, not yet passed by their entry or still held by a pass.

**Timing**, **Leases** and **Registry** model the loops of `maintenance.go` in real
time. Every timer counts down, so time itself is not bounded; a tick passes only
when nothing is due. A loop is its interval, with the code's integer division, its
floor of a second and its jitter, followed by a call. A call has three steps: it is
sent with what the loop knows then, its script runs at some moment, and the reply, or
an error, arrives at most `Latency` after it was sent. An error says nothing about the
script, which may have run or not, and a renewal or a beat that was sent may run when
its worker is gone. So a lease runs from the script of `Dequeue` or `extend.lua`,
while the sleep starts at the reply; handlers that start during a renewal are not in
it; and what is cancelled is what the reply is about. `Leases` has claims, renewal,
sweeps queue by queue in batches of `reapBatch`, and the shutdown sequence. `owner` and
`left` are the lease of a job at the broker, `handlers` and `cancelled` the in-flight
map of a worker. `Registry` has the beats, the sorted set they prune and the record
that expires. `orphanFor`, `passedOver`, `staleFor`, `missed` and `silentFor` are
history variables that measure waits.

**Backoff**, **QueueSelector** and **CronSchedule** are the algorithms, one action per
pass of their loops, each with a reference definition beside it. Backoff computes in
signed integers of `Width` bits that wrap. QueueSelector counts the weights up in
`Sums`, and `pick` is the first position whose sum exceeds the number drawn. CronSchedule works on a small calendar of
the same shape as the real one: months of unequal length, one of them longer in
leap years, and weeks that run across months.

Lists and sorted sets hold IDs as numbers, which is the order Redis uses between
members of equal score. Payloads, reasons and time stamps that nothing reads are
left out.

## The runs

| Run | Distinct states | What it shows |
|---|---|---|
| RedisStore | 431,175 | Producers that retry, two workers, two queues, one unique key, an envelope that vanishes: types, `Placement`, `FailedCountsDead`, `AttemptBudget`, `UniqueWindow`, `OncePerWindow`, `AnswerHolds`, `NoEarlyRecovery`, `LegalTransitions`, `ImplementsContract` |
| MemoryStore | 373,896 | Two workers and queues, limits of one, replay and purge: `NothingLost`, `StatsAddUp`, `UniqueWindow`, `NoEarlyRecovery`, `ImplementsContract` |
| ServerPool | 801,178 | Two workers with two slots, two faults, two renewal failures: types, `LeaseHasRun`, `NoLeakedEntry`, `OutcomeJustified` |
| ServerSingle | 87,882 | One slot each: `RunsTracked`, `NoSupersededReport`, `LostLeaseStopsHandler`, `ShutdownEnds`, and `JobsSettle` while one worker stays up |
| SchedulerRace | 716,650 | Two schedulers, no clock fast, one entry of their own and one of another build, keys that expire at any moment: types, `OnceIfKeyOutlives`, `NeverEarly`, `NoSkippedTick`, `NextOnServerClock`, `TicksFire` |
| Maintenance | 844,509 | Timeouts of eight and eleven ticks, slow calls, three faults, a batch of one: `RecoveryBound`, `OverlapBound`, `LeaseKept`, `PhantomBound`, `HealthyListed` |
| Algorithms | 197,921 | All 5-bit durations, three queues with weights up to three, every combination of some day fields: `DelayExact`, `FairShare`, `OrderComplete`, `FirstFiring`, `Terminates` |

What the timed run says in the code's units: a leased job that nobody runs, because its
worker died or a reply or report was lost, is free again within one visibility timeout
and one sweep interval, which is the "roughly one and a half times" of `server.go:91`;
every failed call and every full batch ahead of it adds a sweep, and slow calls add
themselves. A healthy worker loses a lease only after two renewals in a row have
failed. A worker that is cut off runs on without its lease only for the time by which
three slow renewals and two more calls exceed one timeout. A dead worker stays in the
registry for one ttl and one beat.

### Disagreements

Five runs end in a counterexample to a sentence of the repository.

- `ServerStaleRun`: "losing one lease stops exactly one handler" (`worker.go:73`). The
  in-flight map has one cancel function per job ID. When a worker with two slots
  re-claims a job that its own earlier run lost, `trackJob` overwrites the earlier run's
  entry, and the next renewal finds the lease held again: the earlier handler is never
  cancelled. With one slot the property holds (`ServerSingle`).
- `ServerHanded`: every accepted job "will be handed to a handler at least once"
  (`README.md:61`). A claim whose reply is lost uses up the last attempt of a job,
  and the reaper dead-letters it unseen.
- `MemoryReplay`: brokers "must enforce" the lifecycle "identically" (`job.go:20`).
  The memory broker queues a dead job twice if `RetryDead` names it twice; the
  second copy is claimed while the first is active.
- `SchedulerSkew`: "All time comes from the Redis server, never a worker"
  (`README.md:115`). The next fire time comes from the worker's clock; a fast one
  passes over ticks that are still to come.
- `SchedulerRefire`: "N schedulers racing still fire each tick exactly once"
  (`scheduler.go:15`, `README.md:131`). A tick is enqueued before it is claimed, so only
  its unique key, kept for `cronUniqueTTL`, stands between two schedulers. One that has
  read the due entries and is delayed for longer than that enqueues the tick again.
  What does hold is `OnceIfKeyOutlives` (`SchedulerRace`): a second job needs a key that
  was gone, or an entry that was removed, while the tick was open. `cronUniqueTTL` says
  as much: the key "only has to outlive a retry of the same tick".

### Observations

Met while modelling, with no run of their own:

- `RunsTracked`, by which every run that holds its lease is renewed, and
  `NoSupersededReport` are also checked with one slot only. With two slots `untrackJob`,
  which deletes by job ID, removes the entry of the later of two runs of a job when the
  earlier one returns, so that its lease is renewed no more; and the fence of `ack.lua`
  compares worker IDs and cannot tell the two runs apart.
- `heartbeat.lua:52` prunes with the ttl of the worker that beats. In a fleet with very
  different visibility timeouts a worker with a short one removes healthy workers that
  beat less often from the sorted set, until their next beat. `HealthyListed` is about
  fleets where two slow beats of every worker fit into every ttl.
- `Reap` applies its limit to each queue (`rdb/maintenance.go:25`), while `broker.go:75`
  describes a limit per call. `RecoveryBound` counts the batches of one queue.
- `TicksFire` needs fewer foreign entries due than `cronBatch`: a full batch of them
  (`server.go:43`) leaves no room for the known ones.
- A ttl given to `Unique` that is below a millisecond becomes zero, which the script
  takes for no uniqueness (`rdb/enqueue.go:44`).
- `cron.go:14` calls both 0 and 7 Sunday, but the parser folds 7 into 0 before it
  compares the ends of a range (`cron.go:219`): `5-7` is refused as inverted, and `0-7`
  is accepted and means Sunday alone. `FirstFiring` sets ranges of days that end in 7
  aside.
- A field counts as `*` only if its text is that (`cron.go:129`). In the model a field is
  a set of terms, so `*,*`, which the code treats as a restriction that admits every
  day, is the same as `*`.
- The search limit of five years is shorter than the gap of eight between leap days
  around a year such as 2100: for that time `0 0 29 2 *` has no next firing.
- `promote.lua:36` promotes delayed jobs before retries, up to one limit: a standing
  backlog of delayed jobs starves the retries.

### Bounds

Every action has few participants, and the bounds let each of them meet its
interesting case: two workers for fencing and re-delivery; a budget of two for
retry, recovery and exhaustion of one job; two queues and two jobs with limits of one
or two for batches cut short; two time units for a deadline that is set, moved and
passed (one in MemoryStore, where a deadline is set and passed). `MaxTime` stops the
clock. `MaxReplayed` bounds replays of dead jobs, which could otherwise go on for ever;
`MaxIDs` bounds the argument lists of the operator calls. `MaxFaults` bounds lost
replies, failed calls, crashes, planned stops of schedulers and removals of entries.
In the Server runs one job is enough, because the runtime treats different jobs
independently except for the slots, which its goroutines hold one each;
`maxRenewFailures` is 3 in the code and in Maintenance, 2 in `ServerPool` and 1
elsewhere.

In Maintenance eight ticks are the least timeout for which a third, a half, the jitter
and one slow call are all different; three faults are enough for `maxRenewFailures`.
Only `w2` dies or shuts down, and timers are punctual: a paused process is the subject
of the untimed modules. Leases are looked at from two sides. As "lease", `w2` runs one
job while `w1` sweeps two queues. As "backlog", `w2` claims two jobs of one queue and
crashes, and `w1` recovers them in batches of one. In both `w1` claims nothing; fleets
where everybody does everything are left to the proofs. In SchedulerRace the batch
limit is not reached and no entry is `@every`; SchedulerProofs covers both.

In Algorithms five bits have the overflow, the cap near the largest
duration and the doublings in between; the calendar of sixteen months has two leap
years and is longer than the search. `subject` selects which of several machines
that share no state a behaviour is about, so that TLC does not form their product.

In the brokers a bounded set of jobs and a stopped clock leave nothing to do in the end,
so deadlock is not checked; the same holds for Server and Scheduler once the jobs are
settled or the ticks are fired, and for the algorithms when they have returned. The
loops of Maintenance never stop, and deadlock is checked. Symmetry is used only for
safety properties.

### Fairness

`FairSpec` of Server assumes that Go runs every goroutine that can run, that the
loops poll again after their sleeps, and that the timers of `drain` fire. Handlers
may hang. `JobsSettle` is conditional on `HandlersReturn`: handlers return, and time
passes deadlines nobody moves. Faults are bounded, and the workers
outside `Mortal` neither stop nor crash: no queue settles its jobs otherwise.
`FairSpec` of Scheduler assumes that the loops of the workers outside `Mortal` go on
and that a lease nobody renews runs out. It does not assume that clocks agree.
`FairSpec` of the algorithms says that a call runs until it returns.

## The proofs

Eight modules hold proofs. Two are about the Redis broker and its producers. They
prove, for all finite sets of jobs, all sets of queues, workers and keys, and all positive limits and timeouts
(`RedisAssumption`), what RedisStore checks on a small instance:

- `TypeCorrect`, `PlacementSafe`, `BudgetSafe`, `FailuresCounted`, `Deduplication`:
  the invariants `TypeOK`, `Placement`, `AttemptBudget`, `FailedCountsDead` and
  `UniqueWindow`;
- `RecoveryTimely`: the action property `NoEarlyRecovery`;
- `RedisImplements`: the Redis broker implements `Broker`;
- `RedisTransitions`: its state changes follow the lifecycle graph;
- `CollapsedDuplicates` and `AnswersReliable`: `OncePerWindow` and `AnswerHolds`, for any
  producers with any keys and ttls (`ProducerAssumption`).

The argument rests on one inductive invariant, `IInv` (theorem `Invariance`). The
properties are not inductive by themselves. `Placement` needs `Fresh`: an ID that
has not been enqueued occurs nowhere, or `Enqueue` would put it in a second place.
`NoEarlyRecovery` needs `LeaseClock`: the score that the reaper compares equals the
deadline on the envelope. `UniqueWindow` needs `KeyWindows`: a key lives at least
as long as every window promised under it. `FailedCountsDead` needs `Placement`, by
which a job that is dead-lettered was not in the dead set before. There is one
lemma per script in `RedisScriptProofs`, with one step per conjunct it can disturb. What
a script does to the ready lists is stated there first, from facts on sequences without
repetitions. `RedisBrokerProofs` puts them together; its refinement proof has one simulation
lemma per script under `IInv`. A lease is `expired` in the contract when its
deadline has been reached, so `Tick` maps to `Lapse`.

The producers add two facts to `IInv` (`PInv`). `KeyTaken`: a key that has not expired is
held by a stored job whose window ends when the key does, so a refusal is never due to a
leftover. `OwnWindow`: the jobs a producer has made carry its key and the ttl it asked for,
from which `UniqueWindow` gives the distance between two of them.

`MemoryBrokerProofs` proves for the memory broker, for all finite sets of jobs and of
queues and all workers, keys, limits and argument lists (`MemoryAssumption`):

- `MemoryKeepsJobs` and `MemoryUnique`: the invariants `NothingLost` and `UniqueWindow`,
  whatever operators do;
- `MemoryTidy`: until an operator replays a job twice in one call, every job is only in
  the structure its state names, and there once;
- `MemoryFigures`: the invariant `StatsAddUp`;
- `MemoryRecoveryTimely`: the action property `NoEarlyRecovery`;
- `MemoryImplements`: the memory broker implements `Broker` until such a replay.

The inductive invariant `MInv` has two halves, because a repeated replay breaks one of
them for good. `NothingLost` survives it: a job that is claimed twice is still in the map
or the list its state names. `Tidy`, which says that it is nowhere else, holds while
`repeated` is false, and carries the two action properties: the head of a queue is a
pending job, a score in the lease map is the deadline its holder was told, and a member
of the dead-letter list is dead and has no owner. The first part of the module says which
elements `Only`, `Sublist` and `removeDead` leave, and that they repeat none that was not
repeated; this takes counting positions (`RankFacts`), not induction. Reap, Promote,
RetryDead and PurgeDead are instances of one lemma, `MoveInv`, about jobs that change
places together. `StatsAddUp` follows from `MInv` by counting: under `Tidy` the four figures
of a queue are the sizes of disjoint sets of jobs that together are its stored jobs
outside the dead-letter list (`QueueFigures`). `SumFunction` folds over the set of queues, which is why that set is
assumed finite; `SumFacts` shows that the number of these jobs in a set of queues obeys
the equation of the fold, and that only one function on the subsets does.

The lemmas that count take a hypothesis on how finite sets are counted (`JobsCount`,
`Counting`, in `AlgorithmProofs` `IntervalSize`). It is proved from the library's theorems
at the end of the module, before the theorems (`JobsCounted`, `Counted`,
`IntervalsCounted`), none of which has it as an assumption. The
theorems of the library are thus in scope only where they are used, which keeps the
obligations of the long lemmas small.

`ServerProofs` proves about the worker runtime, for any fleet, number of slots, of renewal
failures tolerated and of faults (`ServerAssumption`):

- `ServerTypeCorrect`, `LeasesAccounted`, `EntriesAccounted`, `OutcomesJustified`: the
  invariants `ServerTypeOK`, `LeaseHasRun`, `NoLeakedEntry` and `OutcomeJustified`;
- `SingleRunsTracked` and `SingleNotSuperseded`: `RunsTracked` and `NoSupersededReport`,
  if `Concurrency = 1`. The hypothesis is needed: see the observations above;
- `ServerImplements`: the runtime changes jobs only through operations of `Broker`;
- `ContractBudget`: the contract by itself keeps `AttemptBudget`. With
  `ServerImplements` it holds of the runtime, and with the two refinements above of
  every broker that implements the contract.

The invariants of the runtime are inductive together with `RunOK`, which ties what a
goroutine is about to report to what its handler returned. With one slot a worker cannot
claim while it has a run, so that `OneSlot` is inductive as well: a run that has started
is recorded, and if its worker holds the lease, it is the run of the latest claim.

`SchedulerProofs` proves, for any workers, finitely many entries, any clock skew, period,
batch and number of faults (`SchedulerAssumption`):

- `SchedulerTypeCorrect`, `TickFiresOnce`, `FiringNeverEarly`: the invariants
  `SchedulerTypeOK`, `OnceIfKeyOutlives` and `NeverEarly`;
- `TicksNotSkipped`: the action property `NoSkippedTick`;
- `ClaimsOnServerClock`: `NextOnServerClock`, if no clock is fast (`Fast = 0`). The
  hypothesis is needed, as SchedulerSkew shows.

The inductive invariant is `SInv`. `NeverEarly` needs `Reached`: the instants a pass has
read are past on the server's clock, and stay so. `OnceIfKeyOutlives` needs `Settled`: a
live key stands for a tick that was fired, and a fired tick has its key, was exposed, or
is open no more. A tick that is no longer open stays so, because a pass
reads only what the store holds, and schedules move forward only (`NotReopened`) unless
their entry is removed, which exposes its ticks. The two
action properties need `Ahead`: the fire time a scheduler is about to claim lies after
the tick it has just enqueued, and no further than a reading of its clock allows.

`LeasesProofs` and `RegistryProofs` are about `Leases` and
`Registry`, each as a machine of its own. They prove, for any workers and finitely many
jobs, any queues, batch, visibility timeouts, latency and number of faults (`TimingAssumption`,
`LeasesAssumption`, `RegistryAssumption`), what Maintenance checks:

- `StaleHandlersEnd`, `RecoveryInTime`, `PhantomsFade`: the invariants `OverlapBound`,
  `RecoveryBound` and `PhantomBound`;
- `HealthyKeepLease`: the action property `LeaseKept`, if two renewal intervals and four
  calls fit into the visibility timeout, that is, if a call takes less than about a
  twelfth of it. At worst the four calls are the reply to the claim, a renewal that was
  under way when the handler started, one that fails and the one that comes too late;
- `HealthyStayListed`: the action property `HealthyListed`, if two beat intervals and
  three calls of any worker fit into the time to live of every worker. In a fleet with
  equal timeouts that means calls shorter than a third of a beat interval.

A bound on a history timer is never inductive, because it does not say how far the
countdown that will end the wait has come. The invariants add the two up. `SinceLease`
bounds the time since the lease of a running handler was last extended, or claimed: from
the failures counted and what is left of the sleep or call, or, if the call under way has
extended it or the handler started after that call was made (`Fresh`), from that call
alone. `Kept` says that what is left of the lease makes up a visibility timeout with it,
and that a stale handler has been stale for at most the excess. `Waits` says that an
orphaned job has waited as long as its lease has run down or, past the deadline, that
its wait and the time to the next sweep of its queue (`NextSweep`) stay within the
bound; a failed call or a full batch adds one sweep to both sides. `Passed` bounds the
full batches: each took `reapBatch` leases with an earlier deadline, none of which can
get ahead of the job again. In the registry, `Current` says that entry and record of a
worker that is up are no older than `SinceBeat`, and `Fades` that an entry of a dead
worker that has outlived a staying worker's time to live waits for that worker's next
beat (`NextBeat`), a last beat of the dead worker itself included.

`AlgorithmProofs` proves that the algorithms compute what their reference definitions
say, each as a machine of its own, for every input:

- `DelaysExact`: the invariant `DelayExact`, for any width of a duration, any base, cap,
  jitter and attempt (`BackoffAssumption`);
- `SharesFair` and `OrdersComplete`: `FairShare` and `OrderComplete`, for any list of
  different queues and any positive weights (`SelectorAssumption`);
- `NextIsFirst`: `FirstFiring`, for any lengths of hours, days, weeks and months, any
  leap cycle, any instant and any parsed specification without a range of days that ends
  in the day with two numbers. `CronAssumption` says that the
  leap month is not the longest, `SpecAssumption` that a term without a slash has step
  one, and `HorizonAssumption` that the calendar reaches to the end of every search.

`BackoffInv` says that the delay so far is `Base` doubled once per pass made, or the
ceiling once the exact value has passed it; a pass whose product does not fit into
`Width` bits always shows as a smaller number, because the delay is below the ceiling.
`SelectorInv` says during a call that order and pool together are the queues and that
`remaining` is the last of the running sums of the pool. The numbers that pick a position
are then the interval between two running sums (`ShareFair`), which is as long as the
weight. `CronInv` says that no minute before `t` fires. It is kept because every jump
passes over minutes that share the field that failed: months are intervals of days
(`MonthUnique`), days and hours intervals of minutes. That parsed bits mean what the specification says is `MatchesFires`.

These proofs need induction on numbers. `Inductive` states it for a set of numbers, from
the well-foundedness of `<`, and the recursive functions (`TwoTo`, `Sums`, `FirstDay`) are
shown to exist before they are unfolded.

## Only model-checked

Liveness under fairness is outside the prover's logic and stays with TLC: `Terminates`,
`JobsSettle`, `LostLeaseStopsHandler`, `ShutdownEnds`, `TicksFire`. Every invariant and every
action property of the passing runs is also a theorem.

## Not modelled

- Encoding of hashes and replies, key names and script loading: data conversion.
- The handler mux and error values: a table fixed before `Run`; the outcome of a
  handler is any of nil, error or `ErrSkipRetry`, a panic being an error.
- Probabilities of the queue selector: `FairShare` counts the numbers that pick a queue,
  and assumes that the random source returns each of them equally often.
- Splitting cron text into fields and terms, and the names of months and days; time
  zones, in which local minutes are missing or repeated.
- Redis failover, which may lose acknowledged writes: no code deals with it.
- `ListDead`, `Workers` and other readers: they change no state.
- Validation of options and configurations, which precedes every call.
- Examples and test support.
