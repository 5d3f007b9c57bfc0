----------------------------- MODULE Scheduler -----------------------------
(***************************************************************************)
(* The cron scheduler: schedulerLoop of every worker, over the leader      *)
(* lease, the cron store and the unique keys of the broker.  Each broker   *)
(* call is one step, so schedulers interleave between the calls of one     *)
(* pass.  The lease and the unique keys lapse at any moment: a scheduler   *)
(* may pause for longer than any TTL.  Locals that are no longer needed    *)
(* are reset.                                                              *)
(***************************************************************************)
EXTENDS Integers, FiniteSets

CONSTANTS
  Worker, NoOwner,
  Entry,        \* schedule IDs: naturals, ordered like the ID strings
  Every,        \* entries with an "@every" spec; the others fire on a grid
  Dormant,      \* stored entries this build does not know, or that never fire
  Period,       \* between two ticks of an entry
  cronBatch,    \* due entries read per pass
  Slow, Fast,   \* how far a worker's clock may be off
  Mortal,       \* workers that may stop or crash
  MaxFaults,    \* bound on failed calls, stops, crashes and removed entries
  MaxTime       \* bound on the broker's clock

ASSUME SchedulerAssumption ==
  /\ NoOwner \notin Worker /\ Mortal \subseteq Worker
  /\ Entry \subseteq Nat /\ IsFiniteSet(Entry) /\ Every \cup Dormant \subseteq Entry
  /\ {Period, cronBatch} \subseteq Nat \ {0}
  /\ {Slow, Fast, MaxFaults, MaxTime} \subseteq Nat

VARIABLES
  now,       \* the broker's clock
  lease,     \* holder of the scheduler lease
  cron,      \* next fire time of each stored entry
  keys,      \* ticks whose unique key is live
  pc,        \* where each scheduler is in its loop
  leader,    \* Server.leader of each worker
  seeded,    \* entries this run of seedSchedules is done with
  asOf,      \* time read: its own when it seeds, the server's for a pass
  due,       \* due entries the pass has left, as <<ID, FireAt>>
  next,      \* fire time the pass will advance the current entry to
  faults,
  fired,     \* history: ticks a job was enqueued for
  refired,   \* history: ticks more than one job was enqueued for
  exposed    \* history: ticks whose key lapsed, or entry was removed, too early

store == <<lease, cron, keys>>
local == <<pc, leader, seeded, asOf, due, next>>
history == <<fired, refired, exposed>>
vars == <<now, store, local, faults, history>>

NoTime == -1
Time == 0..(MaxTime + Fast + Period)

\* Schedule.Next: strictly after t.
Next(e, t) == IF e \in Every THEN t + Period ELSE (t \div Period + 1) * Period

\* The readings of a worker's own clock.
Readings == {t \in Time : now - Slow <= t /\ t <= now + Fast}

Init ==
  /\ now = 0
  /\ lease = NoOwner
  /\ cron = [e \in Entry |-> IF e \in Dormant THEN 0 ELSE NoTime]
  /\ keys = {}
  /\ pc = [w \in Worker |-> "down"]
  /\ leader = [w \in Worker |-> FALSE]
  /\ seeded = [w \in Worker |-> {}]
  /\ asOf = [w \in Worker |-> 0]
  /\ due = [w \in Worker |-> {}]
  /\ next = [w \in Worker |-> 0]
  /\ faults = 0
  /\ fired = {} /\ refired = {} /\ exposed = {}

Goto(w, from, to) == pc[w] = from /\ pc' = [pc EXCEPT ![w] = to]
Fault == faults < MaxFaults /\ faults' = faults + 1

-----------------------------------------------------------------------------
(* One pass of schedulerLoop.                                              *)

\* The loop starts with seedSchedules, which reads the worker's clock once.
Start(w) ==
  /\ Goto(w, "down", "seed")
  /\ \E t \in Readings : asOf' = [asOf EXCEPT ![w] = t]
  /\ UNCHANGED <<now, store, leader, seeded, due, next, faults, history>>

\* Mutant: a stored entry is overwritten.
ScheduleCronIfAbsent_Overwrites(w, e) ==
  /\ pc[w] = "seed"
  /\ e \notin Dormant \cup seeded[w]
  /\ seeded' = [seeded EXCEPT ![w] = @ \cup {e}]
  /\ cron' = [cron EXCEPT ![e] = Next(e, asOf[w])]
  /\ UNCHANGED <<now, lease, keys, pc, leader, asOf, due, next, faults, history>>

\* seedSchedules, one entry: ScheduleCronIfAbsent leaves a stored entry alone.
ScheduleCronIfAbsent(w, e) ==
  /\ pc[w] = "seed"
  /\ e \notin Dormant \cup seeded[w]
  /\ seeded' = [seeded EXCEPT ![w] = @ \cup {e}]
  /\ \/ cron[e] # NoTime /\ UNCHANGED cron
     \/ cron[e] = NoTime /\ cron' = [cron EXCEPT ![e] = Next(e, asOf[w])]
  /\ UNCHANGED <<now, lease, keys, pc, leader, asOf, due, next, faults, history>>

\* seedSchedules ends when all entries are done, or at the first error.
seedSchedules(w) ==
  /\ Goto(w, "seed", "sleep")
  /\ \/ seeded[w] \cup Dormant = Entry /\ UNCHANGED faults
     \/ seeded[w] \cup Dormant # Entry /\ Fault
  /\ seeded' = [seeded EXCEPT ![w] = {}]
  /\ asOf' = [asOf EXCEPT ![w] = 0]
  /\ UNCHANGED <<now, store, leader, due, next, history>>

\* The lease is taken if it is free or already the caller's.
AcquireLease(w) ==
  LET held == lease \in {w, NoOwner}
  IN  /\ Goto(w, "sleep", IF held THEN "time" ELSE "sleep")
      /\ lease' = IF held THEN w ELSE lease
      /\ leader' = [leader EXCEPT ![w] = held]
      /\ UNCHANGED <<now, cron, keys, seeded, asOf, due, next, faults, history>>

\* The call fails, or only its reply is lost: the flag keeps its value.
AcquireFailed(w) ==
  /\ pc[w] = "sleep"
  /\ Fault
  /\ lease' \in {lease, IF lease = NoOwner THEN w ELSE lease}
  /\ UNCHANGED <<now, cron, keys, local, history>>

\* DueCron is two calls: the server's time, then the range up to it.
serverTime(w) ==
  /\ Goto(w, "time", "range")
  /\ asOf' = [asOf EXCEPT ![w] = now]
  /\ UNCHANGED <<now, store, leader, seeded, due, next, faults, history>>

\* Soonest first, ties broken by ID.
Sooner(d, x) == d[2] < x[2] \/ (d[2] = x[2] /\ d[1] < x[1])

\* Mutant: entries that are not stored count as due.
DueCron_Missing(w) ==
  /\ Goto(w, "range", "fire")
  /\ due' = [due EXCEPT ![w] = {<<e, cron[e]>> : e \in {e \in Entry : cron[e] <= asOf[w]}}]
  /\ asOf' = [asOf EXCEPT ![w] = 0]
  /\ UNCHANGED <<now, store, leader, seeded, next, faults, history>>

\* Mutant: the range has no upper end.
DueCron_Unbounded(w) ==
  /\ Goto(w, "range", "fire")
  /\ due' = [due EXCEPT ![w] = {<<e, cron[e]>> : e \in {e \in Entry : cron[e] # NoTime}}]
  /\ asOf' = [asOf EXCEPT ![w] = 0]
  /\ UNCHANGED <<now, store, leader, seeded, next, faults, history>>

DueCron(w) ==
  LET ripe == {<<e, cron[e]>> : e \in {e \in Entry : cron[e] # NoTime /\ cron[e] <= asOf[w]}}
  IN  /\ Goto(w, "range", "fire")
      /\ due' = [due EXCEPT ![w] =
                   {d \in ripe : Cardinality({x \in ripe : Sooner(x, d)}) < cronBatch}]
      /\ asOf' = [asOf EXCEPT ![w] = 0]
      /\ UNCHANGED <<now, store, leader, seeded, next, faults, history>>

\* Either call fails: the pass is over.
DueCronFailed(w) ==
  /\ pc[w] \in {"time", "range"} /\ pc' = [pc EXCEPT ![w] = "sleep"]
  /\ asOf' = [asOf EXCEPT ![w] = 0]
  /\ Fault
  /\ UNCHANGED <<now, store, leader, seeded, due, next, history>>

\* The pass is at d: it is the first of the due entries left.
Current(w, d) == d \in due[w] /\ \A x \in due[w] \ {d} : Sooner(d, x)
Rest(w, d) == [due EXCEPT ![w] = @ \ {d}]

passDone(w) ==
  /\ due[w] = {}
  /\ Goto(w, "fire", "sleep")
  /\ UNCHANGED <<now, store, leader, seeded, asOf, due, next, faults, history>>

\* Mutant: an entry this build cannot advance ends the pass.
skipEntry_Returns(w, d) ==
  /\ pc[w] = "fire" /\ Current(w, d) /\ d[1] \in Dormant
  /\ due' = [due EXCEPT ![w] = {}]
  /\ UNCHANGED <<now, store, pc, leader, seeded, asOf, next, faults, history>>

\* An entry this build cannot advance is left alone.
skipEntry(w, d) ==
  /\ pc[w] = "fire" /\ Current(w, d) /\ d[1] \in Dormant
  /\ due' = Rest(w, d)
  /\ UNCHANGED <<now, store, pc, leader, seeded, asOf, next, faults, history>>

\* A job is stored for the tick unless its unique key is live.
Materialise(d) ==
  IF d \in keys THEN UNCHANGED <<keys, history>>
  ELSE /\ keys' = keys \cup {d}
       /\ fired' = fired \cup {d}
       /\ refired' = IF d \in fired THEN refired \cup {d} ELSE refired
       /\ UNCHANGED exposed

\* Mutant: one tick too many is skipped.
Enqueue_TwoAhead(w, d) ==
  /\ Current(w, d) /\ d[1] \notin Dormant
  /\ Goto(w, "fire", "claim")
  /\ next' = [next EXCEPT ![w] = Next(d[1], Next(d[1], now))]
  /\ Materialise(d)
  /\ UNCHANGED <<now, lease, cron, leader, seeded, asOf, due, faults>>

\* fireDueSchedules, one entry: the next fire time is computed from the
\* worker's clock, then the job is enqueued.
Enqueue(w, d) ==
  /\ Current(w, d) /\ d[1] \notin Dormant
  /\ Goto(w, "fire", "claim")
  /\ \E t \in Readings :
       next' = [next EXCEPT ![w] = Next(d[1], IF t < d[2] THEN d[2] ELSE t)]
  /\ Materialise(d)
  /\ UNCHANGED <<now, lease, cron, leader, seeded, asOf, due, faults>>

\* Enqueue fails, with or without having stored the job: no claim.
EnqueueFailed(w, d) ==
  /\ pc[w] = "fire" /\ Current(w, d) /\ d[1] \notin Dormant
  /\ Fault
  /\ due' = Rest(w, d)
  /\ Materialise(d) \/ UNCHANGED <<keys, history>>
  /\ UNCHANGED <<now, lease, cron, pc, leader, seeded, asOf, next>>

\* Mutant: the entry is advanced without a look at where it is.
ClaimCron_Blind(w, d) ==
  /\ Current(w, d)
  /\ Goto(w, "claim", "fire")
  /\ due' = Rest(w, d)
  /\ cron' = [cron EXCEPT ![d[1]] = next[w]]
  /\ next' = [next EXCEPT ![w] = 0]
  /\ UNCHANGED <<now, lease, keys, leader, seeded, asOf, faults, history>>

\* Compare-and-set: only the scheduler that finds the tick unmoved advances it.
ClaimCron(w, d) ==
  /\ Current(w, d)
  /\ Goto(w, "claim", "fire")
  /\ due' = Rest(w, d)
  /\ cron' = IF cron[d[1]] = d[2] THEN [cron EXCEPT ![d[1]] = next[w]] ELSE cron
  /\ next' = [next EXCEPT ![w] = 0]
  /\ UNCHANGED <<now, lease, keys, leader, seeded, asOf, faults, history>>

\* A claim that fails before it reaches the broker; one whose reply is lost
\* has the effect of ClaimCron.
ClaimFailed(w, d) ==
  /\ Current(w, d)
  /\ Goto(w, "claim", "fire")
  /\ Fault
  /\ due' = Rest(w, d)
  /\ next' = [next EXCEPT ![w] = 0]
  /\ UNCHANGED <<now, store, leader, seeded, asOf, history>>

-----------------------------------------------------------------------------
(* Shutdown, crashes and the broker's clock.                               *)

Down(w) ==
  /\ pc[w] # "down" /\ w \in Mortal /\ Fault
  /\ pc' = [pc EXCEPT ![w] = "down"]
  /\ leader' = [leader EXCEPT ![w] = FALSE]
  /\ seeded' = [seeded EXCEPT ![w] = {}]
  /\ asOf' = [asOf EXCEPT ![w] = 0]
  /\ due' = [due EXCEPT ![w] = {}]
  /\ next' = [next EXCEPT ![w] = 0]
  /\ UNCHANGED <<now, cron, keys, history>>

\* The context is cancelled: the rest of the pass fails call by call and
\* changes nothing, and a leader gives its lease back, if it still has it.
ReleaseLease(w) ==
  /\ Down(w)
  /\ lease' = IF leader[w] /\ lease = w THEN NoOwner ELSE lease

\* The process dies, or ReleaseLease fails: the lease stays.
Crash(w) == Down(w) /\ UNCHANGED lease

\* A tick is open while its entry has not moved past it, or a pass holds it.
Open(d) == cron[d[1]] <= d[2] \/ \E w \in Worker : d \in due[w]

\* An operator removes an entry: a worker that starts registers it anew.
RemoveCron(e) ==
  /\ cron[e] # NoTime /\ Fault
  /\ cron' = [cron EXCEPT ![e] = NoTime]
  /\ exposed' = exposed \cup {d \in fired : d[1] = e}
  /\ UNCHANGED <<now, lease, keys, local, fired, refired>>

LeaseExpires ==
  /\ lease # NoOwner
  /\ lease' = NoOwner
  /\ UNCHANGED <<now, cron, keys, local, faults, history>>

\* cronUniqueTTL has passed.
KeyExpires(d) ==
  /\ d \in keys
  /\ keys' = keys \ {d}
  /\ exposed' = IF Open(d) THEN exposed \cup {d} ELSE exposed
  /\ UNCHANGED <<now, lease, cron, local, faults, fired, refired>>

Tick ==
  /\ now < MaxTime
  /\ now' = now + 1
  /\ UNCHANGED <<store, local, faults, history>>

Pass(w) ==
  \/ Start(w)
  \/ \E e \in Entry : ScheduleCronIfAbsent(w, e)
  \/ seedSchedules(w)
  \/ AcquireLease(w) \/ serverTime(w) \/ DueCron(w)
  \/ passDone(w)
  \/ \E d \in due[w] : skipEntry(w, d) \/ Enqueue(w, d) \/ ClaimCron(w, d)

Step ==
  \/ \E w \in Worker :
       \/ Pass(w)
       \/ AcquireFailed(w) \/ DueCronFailed(w)
       \/ \E d \in due[w] : EnqueueFailed(w, d) \/ ClaimFailed(w, d)
       \/ ReleaseLease(w) \/ Crash(w)
  \/ \E e \in Entry : RemoveCron(e)
  \/ LeaseExpires
  \/ \E d \in keys : KeyExpires(d)
  \/ Tick

Spec == Init /\ [][Step]_vars

\* The loops of the workers that never stop keep going, and leases run out.
FairSpec == Spec /\ (\A w \in Worker \ Mortal : WF_vars(Pass(w))) /\ WF_vars(LeaseExpires)

-----------------------------------------------------------------------------
(* Properties.                                                             *)

\* Every component keeps its type, and a scheduler that is about to claim
\* still has the entry it enqueued for in front of it.
SchedulerTypeOK ==
  /\ now \in 0..MaxTime /\ faults \in 0..MaxFaults
  /\ lease \in Worker \cup {NoOwner}
  /\ cron \in [Entry -> Time \cup {NoTime}]
  /\ pc \in [Worker -> {"down", "seed", "sleep", "time", "range", "fire", "claim"}]
  /\ leader \in [Worker -> BOOLEAN]
  /\ seeded \in [Worker -> SUBSET Entry]
  /\ asOf \in [Worker -> Time] /\ next \in [Worker -> Time]
  /\ due \in [Worker -> SUBSET (Entry \X Time)]
  /\ keys \cup fired \cup refired \cup exposed \subseteq Entry \X Time
  /\ \A w \in Worker : pc[w] = "claim" => due[w] # {}

\* "N schedulers racing still fire each tick exactly once" (scheduler.go,
\* README.md): a tick gets at most one job.
FiresOnce == refired = {}

\* The unique key "only has to outlive a retry of the same tick" (server.go):
\* however passes overlap, fail, crash or are repeated, a tick whose key lasts
\* until its entry has moved past it and no pass holds it gets one job, even
\* when the key has lapsed since, unless the entry is registered anew.
OnceIfKeyOutlives == refired \subseteq exposed

\* No job is enqueued before its tick is due on the server's clock, whatever
\* the clocks of the schedulers say (rdb/cron.go DueCron).
NeverEarly == \A d \in fired : d[2] <= now

\* A stored schedule moves past a tick only after a job was enqueued for it:
\* neither a crash between Enqueue and ClaimCron, nor a failed Enqueue, nor a
\* restarting worker that seeds its entries again makes a tick disappear
\* (scheduler.go: "claiming first ... would silently skip the tick").
NoSkippedTick ==
  [][\A e \in Entry : NoTime \notin {cron[e], cron'[e]} /\ cron'[e] # cron[e] =>
       <<e, cron[e]>> \in fired /\ cron'[e] > cron[e]]_vars

\* A claim moves a schedule no further than to its next tick on the server's
\* clock: ticks that are still to come are not passed over ("All time comes
\* from the Redis server, never a worker", README.md).
NextOnServerClock ==
  [][\A e \in Entry : NoTime \notin {cron[e], cron'[e]} /\ cron'[e] # cron[e] =>
       cron'[e] <= Next(e, IF now < cron[e] THEN cron[e] ELSE now)]_vars

\* A schedule that is due moves on, with NoSkippedTick after a job was
\* enqueued: as long as one scheduler stays up, neither a crashed leader, a
\* lapsed lease nor entries of other builds hold a tick back for ever
\* (fireDueSchedules).
TicksFire == \A e \in Entry \ Dormant : []<>(cron[e] = NoTime \/ cron[e] > now)
=============================================================================
