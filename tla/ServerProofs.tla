----------------------------- MODULE ServerProofs -----------------------------
(***************************************************************************)
(* The theorems about the worker runtime.  SInv is inductive: next to the  *)
(* properties themselves it says what the goroutine of a run knows about   *)
(* its job.  Each step changes the runs, the entries of inFlight or the    *)
(* broker in one of a few ways, and the lemmas below show for each way     *)
(* which conjuncts of SInv survive it.  A pool with one slot has a         *)
(* stronger invariant, OneSlot.                                            *)
(***************************************************************************)
EXTENDS Server, TLAPS

\* What a run knows: its job, and what its handler returned for it.
RunOK ==
  \A w \in Worker, s \in Slot :
    LET r == run[w][s]
    IN  /\ r.pc # "free" => r.job \in Job
        /\ r.pc \in {"returned", "reported"} =>
             /\ r.outcome # "none"
             /\ r.outcome = "nil" => r.job \in succeeded
             /\ r.outcome = "skip" => r.job \in skipped

SInv == ServerTypeOK /\ RunOK /\ LeaseHasRun /\ NoLeakedEntry /\ OutcomeJustified

\* With a single slot a worker cannot claim while it has a run: its run is
\* recorded once it has started, and belongs to the lease if it holds one.
OneSlot ==
  \A w \in Worker, s \in Slot, j \in Job :
    run[w][s].job = j =>
      /\ run[w][s].pc \in {"running", "returned", "reported"} => inFlight[w][j] # 0
      /\ run[w][s].pc # "free" /\ Holds(w, j) => run[w][s].attempt = attempt[j]

-----------------------------------------------------------------------------
(* The broker.                                                             *)

\* The variables of the broker are functions on Job.
LEMMA BrokerDomains ==
  ASSUME BrokerTypeOK
  PROVE  /\ DOMAIN state = Job /\ DOMAIN owner = Job /\ DOMAIN attempt = Job
         /\ DOMAIN maxAttempts = Job
         /\ \A j \in Job : attempt[j] \in Nat /\ maxAttempts[j] \in Nat
  BY Zenon DEF BrokerTypeOK

\* The states of job.go.
LEMMA StateNames ==
  States = {"none", "scheduled", "retry", "pending", "active", "completed", "dead", "gone"}
  BY Zenon DEF States, validTransitions

\* What a step of the broker may do to the jobs without the worker runtime
\* having a say: no lease begins, and no job is settled but an exhausted one.
NoNewLease == \A w \in Worker, j \in Job : Holds(w, j)' => Holds(w, j) /\ attempt'[j] = attempt[j]
NotSettled ==
  \A j \in Job :
    /\ state'[j] \in {"completed", "gone"} => state'[j] = state[j]
    /\ state'[j] = "dead" => Exhausted(j)' \/ (state[j] = "dead" /\ ~ Exhausted(j))

\* A client enqueues a job, which is then neither leased nor settled.
LEMMA EnqueueStep ==
  ASSUME BrokerTypeOK, NEW j \in Job, NEW max \in Budgets, NEW to, Enqueue(j, max, to)
  PROVE  BrokerTypeOK' /\ NoNewLease /\ NotSettled
<1>1. max \in Nat /\ to \in States
  BY BrokerAssumption, StateNames, Zenon DEF Enqueue
<1>2. BrokerTypeOK'
  BY <1>1, Zenon DEF BrokerTypeOK, Enqueue
<1>3. NoNewLease /\ NotSettled
  BY BrokerDomains, Zenon DEF Enqueue, NoNewLease, NotSettled, Holds, Exhausted
<1> QED BY <1>2, <1>3, Zenon

\* A claim starts one lease, with one more attempt, and settles nothing.
LEMMA DequeueStep ==
  ASSUME BrokerTypeOK, NEW w \in Worker, NEW j \in Job, Dequeue(w, j)
  PROVE  /\ BrokerTypeOK' /\ NotSettled /\ attempt'[j] = attempt[j] + 1
         /\ \A v \in Worker, i \in Job : Holds(v, i)' =>
              \/ v = w /\ i = j
              \/ i # j /\ Holds(v, i) /\ attempt'[i] = attempt[i]
<1>1. BrokerTypeOK'
  BY StateNames DEF BrokerTypeOK, Dequeue
<1>2. NotSettled
  BY BrokerDomains, Zenon DEF Dequeue, NotSettled, Exhausted
<1>3. \A v \in Worker, i \in Job : Holds(v, i)' =>
        \/ v = w /\ i = j
        \/ i # j /\ Holds(v, i) /\ attempt'[i] = attempt[i]
  BY BrokerDomains, Zenon DEF Dequeue, Holds
<1> QED BY <1>1, <1>2, <1>3, BrokerDomains, Zenon DEF Dequeue

\* A lease ends.
LEMMA LeaveStep ==
  ASSUME BrokerTypeOK, NEW w \in Worker, NEW j \in Job, NEW to \in States \ {"active"},
         Leave(w, j, to)
  PROVE  /\ BrokerTypeOK' /\ NoNewLease /\ ~ Holds(w, j)'
         /\ state' = [state EXCEPT ![j] = to] /\ UNCHANGED <<attempt, maxAttempts>>
<1>1. BrokerTypeOK'
  BY Zenon DEF BrokerTypeOK, Leave
<1>2. NoNewLease /\ ~ Holds(w, j)'
  BY BrokerDomains, Zenon DEF Leave, NoNewLease, Holds
<1> QED BY <1>1, <1>2, Zenon DEF Leave

\* Renewal and the passing of deadlines move no job.
LEMMA DeadlineStep ==
  ASSUME BrokerTypeOK, expired' \subseteq Job, UNCHANGED <<state, owner, attempt, maxAttempts>>
  PROVE  BrokerTypeOK' /\ NoNewLease /\ NotSettled
  BY Zenon DEF BrokerTypeOK, NoNewLease, NotSettled, Holds, Exhausted

\* A renewal creates no lease and settles no job.
LEMMA ExtendStep ==
  ASSUME BrokerTypeOK, NEW w \in Worker, NEW ids, Extend(w, ids)
  PROVE  BrokerTypeOK' /\ NoNewLease /\ NotSettled
  BY DeadlineStep, Zenon DEF Extend, BrokerTypeOK

\* The expiry of leases creates no lease and settles no job.
LEMMA LapseStep ==
  ASSUME BrokerTypeOK, NEW ids \in SUBSET Job, Lapse(ids)
  PROVE  BrokerTypeOK' /\ NoNewLease /\ NotSettled
  BY DeadlineStep, Zenon DEF Lapse, BrokerTypeOK

\* Orphans are recovered or, when exhausted, dead-lettered.
LEMMA ReapStep ==
  ASSUME BrokerTypeOK, NEW ids \in SUBSET Job, Reap(ids)
  PROVE  BrokerTypeOK' /\ NoNewLease /\ NotSettled
<1>1. state' \in [Job -> States] /\ owner' \in [Job -> Worker \cup {NoOwner}]
  BY StateNames, Zenon DEF Reap, BrokerTypeOK
<1>2. BrokerTypeOK'
  BY <1>1, Zenon DEF Reap, BrokerTypeOK
<1>3. NoNewLease
  BY Zenon DEF Reap, NoNewLease, Holds
<1>4. NotSettled
  BY Zenon DEF Reap, NotSettled, Exhausted
<1> QED BY <1>2, <1>3, <1>4, Zenon

\* Due jobs become pending.
LEMMA PromoteStep ==
  ASSUME BrokerTypeOK, NEW ids \in SUBSET Job, Promote(ids)
  PROVE  BrokerTypeOK' /\ NoNewLease /\ NotSettled
<1>1. state' \in [Job -> States]
  BY StateNames, Zenon DEF Promote, BrokerTypeOK
<1>2. BrokerTypeOK'
  BY <1>1, Zenon DEF Promote, BrokerTypeOK
<1>3. NoNewLease
  BY Zenon DEF Promote, NoNewLease, Holds
<1>4. NotSettled
  BY Zenon DEF Promote, NotSettled, Exhausted
<1> QED BY <1>2, <1>3, <1>4, Zenon

\* A step that leaves the broker alone.
LEMMA BrokerIdle ==
  ASSUME BrokerTypeOK, UNCHANGED brokerVars
  PROVE  BrokerTypeOK' /\ NoNewLease /\ NotSettled
  BY DeadlineStep, Zenon DEF brokerVars, BrokerTypeOK

-----------------------------------------------------------------------------
(* The runs.                                                               *)

\* Every run keeps its place, its job and what its handler returned; it may
\* be cancelled.
RunsSame ==
  \A w \in Worker, s \in Slot :
    /\ run'[w][s].pc = run[w][s].pc /\ run'[w][s].job = run[w][s].job
    /\ run'[w][s].outcome = run[w][s].outcome /\ run'[w][s].attempt = run[w][s].attempt

\* Every run that has yet to report still has.
RunsGoOn ==
  \A w \in Worker, s \in Slot :
    Unreported(w, s) => Unreported(w, s)' /\ run'[w][s].job = run[w][s].job

\* No run moves, no entry changes and no lease begins.
Quiet == RunsSame /\ UNCHANGED inFlight /\ NoNewLease

\* A run keeps what it knows.
LEMMA RunOKKept ==
  ASSUME RunOK, RunsSame, UNCHANGED <<succeeded, skipped>>
  PROVE  RunOK'
  BY DEF RunOK, RunsSame

\* An entry of inFlight still names its run.
LEMMA EntriesKept ==
  ASSUME NoLeakedEntry, ServerTypeOK, RunsSame, UNCHANGED inFlight
  PROVE  NoLeakedEntry'
<1> SUFFICES ASSUME NEW w \in Worker, NEW j \in Job, inFlight[w][j] # 0
             PROVE  LET r == run'[w][inFlight[w][j]]
                    IN  r.job = j /\ r.pc \in {"running", "returned", "reported"}
  BY Zenon DEF NoLeakedEntry
<1>1. inFlight[w][j] \in Slot
  BY DEF ServerTypeOK
<1> QED BY <1>1 DEF NoLeakedEntry, RunsSame

\* Unless a fault happens, a lease that goes on has its run.
LEMMA LeasesKept ==
  ASSUME LeaseHasRun, ServerTypeOK, RunsGoOn,
         faults' = 0 => faults = 0 /\ \A w \in Worker, j \in Job : Holds(w, j)' => Holds(w, j)
  PROVE  LeaseHasRun'
  BY DEF LeaseHasRun, RunsGoOn, Unreported

\* Jobs that the step does not settle stay justified.
LEMMA OutcomesKept ==
  ASSUME OutcomeJustified, NotSettled, succeeded \subseteq succeeded', skipped \subseteq skipped'
  PROVE  OutcomeJustified'
  BY Zenon DEF OutcomeJustified, NotSettled

\* A step that leaves the runs where they are preserves the invariant if the
\* broker begins no lease, or a fault happens, and settles no job.
LEMMA QuietStep ==
  ASSUME SInv, ServerTypeOK', RunsSame, UNCHANGED <<inFlight, history>>, NotSettled,
         faults' = 0 => faults = 0 /\ NoNewLease
  PROVE  SInv'
<1>1. RunOK'
  BY RunOKKept, Zenon DEF SInv, history
<1>2. NoLeakedEntry'
  BY EntriesKept, Zenon DEF SInv
<1>3. LeaseHasRun'
  BY LeasesKept, Zenon DEF SInv, RunsSame, RunsGoOn, Unreported, NoNewLease
<1>4. OutcomeJustified'
  BY OutcomesKept, Zenon DEF SInv, history
<1> QED BY <1>1, <1>2, <1>3, <1>4, Zenon DEF SInv

\* A fault is counted.
LEMMA FaultCounted ==
  ASSUME ServerTypeOK, Fault
  PROVE  faults' \in 0..MaxFaults /\ faults' # 0
  BY ServerAssumption DEF ServerTypeOK, Fault

\* The steps of the broker that no worker's run takes part in.
LEMMA EnvironmentInv ==
  ASSUME SInv, UNCHANGED <<workerVars, faults, history>>, BrokerTypeOK', NoNewLease, NotSettled
  PROVE  SInv' /\ Quiet
<1>1. ServerTypeOK'
  BY Zenon DEF SInv, ServerTypeOK, workerVars, history
<1>2. RunsSame
  BY Zenon DEF RunsSame, workerVars
<1> QED BY <1>1, <1>2, QuietStep, Zenon DEF workerVars, Quiet

\* Clients, deadlines, the reap loop and the promote loop.
LEMMA ClientInv ==
  ASSUME SInv,
         Client \/ (\E j \in Job : LeaseLapses(j)) \/ \E w \in Worker : reapLoop(w) \/ promoteLoop(w)
  PROVE  SInv' /\ Quiet
<1>1. BrokerTypeOK
  BY Zenon DEF SInv, ServerTypeOK
<1>2. BrokerTypeOK' /\ NoNewLease /\ NotSettled /\ UNCHANGED <<workerVars, faults, history>>
  <2>1. CASE Client
    BY <1>1, <2>1, EnqueueStep, Zenon DEF Client
  <2>2. CASE \E j \in Job : LeaseLapses(j)
    BY <1>1, <2>2, LapseStep, Zenon DEF LeaseLapses
  <2>3. CASE \E w \in Worker : reapLoop(w)
    BY <1>1, <2>3, ReapStep, Zenon DEF reapLoop
  <2>4. CASE \E w \in Worker : promoteLoop(w)
    BY <1>1, <2>4, PromoteStep, Zenon DEF promoteLoop
  <2> QED BY <2>1, <2>2, <2>3, <2>4, Zenon
<1> QED BY <1>2, EnvironmentInv, Zenon

\* The fetch loop starts a run for the lease it was given.
LEMMA FetchInv ==
  ASSUME SInv, NEW w \in Worker, NEW s \in Slot, NEW j \in Job, fetchLoop(w, s, j)
  PROVE  SInv'
<1>1. ServerTypeOK /\ BrokerTypeOK
  BY Zenon DEF SInv, ServerTypeOK
<1> DEFINE r == Claimed(j, attempt[j] + 1)
<1>2. /\ run[w][s].pc = "free" /\ run' = [run EXCEPT ![w][s] = r]
      /\ UNCHANGED <<phase, inFlight, renewal, failures, faults, history>>
  BY Zenon DEF fetchLoop
<1>3. /\ r.pc = "claimed" /\ r.job = j
      /\ r \in Goroutine
  BY <1>1, BrokerDomains DEF Claimed, Goroutine
<1> HIDE DEF r
<1>4. BrokerTypeOK' /\ NotSettled /\ \A v \in Worker, i \in Job : Holds(v, i)' =>
        \/ v = w /\ i = j
        \/ i # j /\ Holds(v, i) /\ attempt'[i] = attempt[i]
  BY <1>1, DequeueStep, ZenonT(30) DEF fetchLoop
<1>5. \A v \in Worker, t \in Slot :
        run'[v][t] = IF v = w /\ t = s THEN r ELSE run[v][t]
  BY <1>1, <1>2, Zenon DEF ServerTypeOK
<1>6. ServerTypeOK'
  BY <1>1, <1>2, <1>3, <1>4, Zenon DEF ServerTypeOK, history
<1>7. RunOK'
  BY <1>2, <1>3, <1>5 DEF SInv, RunOK, history
<1>8. NoLeakedEntry'
  <2>1. \A v \in Worker, i \in Job : inFlight[v][i] # 0 => inFlight[v][i] \in Slot
    BY <1>1 DEF ServerTypeOK
  <2>2. \A i \in Job : inFlight[w][i] # 0 => inFlight[w][i] # s
    BY <1>2, Zenon DEF SInv, NoLeakedEntry
  <2> QED BY <1>2, <1>5, <2>1, <2>2 DEF SInv, NoLeakedEntry
<1>9. LeaseHasRun'
  <2> SUFFICES ASSUME NEW v \in Worker, NEW i \in Job, faults = 0, Holds(v, i)'
               PROVE  \E t \in Slot : run'[v][t].job = i /\ Unreported(v, t)'
    BY <1>2, Zenon DEF LeaseHasRun
  <2>1. CASE v = w /\ i = j
    BY <1>3, <1>5, <2>1, Zenon DEF Unreported
  <2>2. CASE Holds(v, i)
    BY <1>2, <1>5, <2>2 DEF SInv, LeaseHasRun, Unreported
  <2> QED BY <1>4, <2>1, <2>2, Zenon
<1>10. OutcomeJustified'
  BY <1>2, <1>4, OutcomesKept, Zenon DEF SInv, history
<1> QED BY <1>6, <1>7, <1>8, <1>9, <1>10, Zenon DEF SInv

\* A claim whose reply is lost is a fault.
LEMMA FetchLostInv ==
  ASSUME SInv, NEW w \in Worker, NEW j \in Job, fetchLost(w, j)
  PROVE  SInv'
<1>1. ServerTypeOK /\ BrokerTypeOK
  BY Zenon DEF SInv, ServerTypeOK
<1>2. BrokerTypeOK' /\ NotSettled /\ faults' \in 0..MaxFaults /\ faults' # 0
  BY <1>1, DequeueStep, FaultCounted, Zenon DEF fetchLost
<1>3. ServerTypeOK' /\ RunsSame /\ UNCHANGED <<inFlight, history>>
  BY <1>1, <1>2, Zenon DEF fetchLost, ServerTypeOK, RunsSame, workerVars, history
<1> QED BY <1>2, <1>3, QuietStep, Zenon

\* Only the run in slot s of worker w changes, from one place to the next.
Moves(w, s, from, to) ==
  /\ run[w][s].pc = from /\ run'[w][s].pc = to /\ run'[w][s].job = run[w][s].job
  /\ run'[w][s].attempt = run[w][s].attempt
  /\ \A v \in Worker, t \in Slot : v # w \/ t # s => run'[v][t] = run[v][t]

\* A step of a run that sets its place keeps the rest of it.
LEMMA MovesPlace ==
  ASSUME ServerTypeOK, NEW w \in Worker, NEW s \in Slot, NEW from, run[w][s].pc = from,
         NEW to \in {"running", "reported"}, run' = [run EXCEPT ![w][s].pc = to]
  PROVE  /\ Moves(w, s, from, to) /\ run'[w][s].outcome = run[w][s].outcome
         /\ run' \in [Worker -> [Slot -> Goroutine]]
<1> DEFINE r == [run[w][s] EXCEPT !.pc = to]
<1>1. run[w][s] \in Goroutine
  BY Zenon DEF ServerTypeOK
<1>2. /\ r \in Goroutine /\ r.pc = to /\ r.job = run[w][s].job
      /\ r.attempt = run[w][s].attempt /\ r.outcome = run[w][s].outcome
  BY <1>1, Zenon DEF Goroutine
<1>3. run' = [run EXCEPT ![w][s] = r]
  BY Zenon
<1> HIDE DEF r
<1>4. run \in [Worker -> [Slot -> Goroutine]]
  BY Zenon DEF ServerTypeOK
<1>5. run' \in [Worker -> [Slot -> Goroutine]] /\ run'[w][s] = r
  BY <1>2, <1>3, <1>4
<1>6. \A v \in Worker, t \in Slot : v # w \/ t # s => run'[v][t] = run[v][t]
  BY <1>3, <1>4
<1> QED BY <1>2, <1>5, <1>6, Zenon DEF Moves

\* The goroutine records its run and calls the handler.
LEMMA TrackInv ==
  ASSUME SInv, NEW w \in Worker, NEW s \in Slot, trackJob(w, s)
  PROVE  SInv' /\ NoNewLease /\ Moves(w, s, "claimed", "running")
<1>1. ServerTypeOK /\ BrokerTypeOK /\ RunOK /\ NoLeakedEntry
  BY Zenon DEF SInv, ServerTypeOK
<1> DEFINE j == run[w][s].job
<1>2. /\ run[w][s].pc = "claimed" /\ run' = [run EXCEPT ![w][s].pc = "running"]
      /\ inFlight' = [inFlight EXCEPT ![w][j] = s]
      /\ handed' = handed \cup {j} /\ j \in Job
      /\ UNCHANGED <<brokerVars, phase, renewal, failures, faults, succeeded, skipped>>
  BY <1>1, Zenon DEF trackJob, RunOK
<1> HIDE DEF j
<1>3. BrokerTypeOK' /\ NoNewLease /\ NotSettled
  BY <1>1, <1>2, BrokerIdle, Zenon
<1>4. /\ Moves(w, s, "claimed", "running") /\ run'[w][s].outcome = run[w][s].outcome
      /\ run' \in [Worker -> [Slot -> Goroutine]]
  BY <1>1, <1>2, MovesPlace, Zenon
<1>5. ServerTypeOK'
  BY <1>1, <1>2, <1>3, <1>4, Zenon DEF ServerTypeOK
<1>6. RunOK'
  BY <1>1, <1>2, <1>4 DEF RunOK, Moves
<1>7. NoLeakedEntry'
  <2> SUFFICES ASSUME NEW v \in Worker, NEW i \in Job, inFlight'[v][i] # 0
               PROVE  LET r == run'[v][inFlight'[v][i]]
                      IN  r.job = i /\ r.pc \in {"running", "returned", "reported"}
    BY Zenon DEF NoLeakedEntry
  <2>1. CASE v = w /\ i = j
    <3>1. inFlight'[v][i] = s
      BY <1>1, <1>2, <2>1, Zenon DEF ServerTypeOK
    <3> QED BY <1>4, <2>1, <3>1, Zenon DEF Moves, j
  <2>2. CASE ~ (v = w /\ i = j)
    <3>1. inFlight'[v][i] = inFlight[v][i] /\ inFlight[v][i] \in Slot
      BY <1>1, <1>2, <2>2 DEF ServerTypeOK
    <3>2. ~ (v = w /\ inFlight[v][i] = s)
      BY <1>1, <1>2, <3>1, Zenon DEF NoLeakedEntry
    <3> QED BY <1>1, <1>4, <3>1, <3>2 DEF Moves, NoLeakedEntry
  <2> QED BY <2>1, <2>2, Zenon
<1>8. LeaseHasRun'
  <2>1. RunsGoOn
    BY <1>4, Zenon DEF Moves, RunsGoOn, Unreported
  <2> QED BY <1>2, <1>3, <2>1, LeasesKept, Zenon DEF SInv, NoNewLease
<1>9. OutcomeJustified'
  BY <1>2, <1>3, OutcomesKept, Zenon DEF SInv
<1> QED BY <1>3, <1>4, <1>5, <1>6, <1>7, <1>8, <1>9, Zenon DEF SInv

\* The handler returns, and its run remembers how.
LEMMA InvokeInv ==
  ASSUME SInv, NEW w \in Worker, NEW s \in Slot, NEW outcome \in {"nil", "error", "skip"},
         invoke(w, s, outcome)
  PROVE  SInv' /\ NoNewLease /\ Moves(w, s, "running", "returned")
<1>1. ServerTypeOK /\ BrokerTypeOK /\ RunOK /\ NoLeakedEntry
  BY Zenon DEF SInv, ServerTypeOK
<1> DEFINE j == run[w][s].job
<1>2. /\ run[w][s].pc = "running" /\ j \in Job
      /\ run' = [run EXCEPT ![w][s] = [@ EXCEPT !.pc = "returned", !.outcome = outcome]]
      /\ succeeded' = (IF outcome = "nil" THEN succeeded \cup {j} ELSE succeeded)
      /\ skipped' = (IF outcome = "skip" THEN skipped \cup {j} ELSE skipped)
      /\ UNCHANGED <<brokerVars, phase, inFlight, renewal, failures, faults, handed>>
  BY <1>1, Zenon DEF invoke, RunOK
<1> HIDE DEF j
<1>3. BrokerTypeOK' /\ NoNewLease /\ NotSettled
  BY <1>1, <1>2, BrokerIdle, Zenon
<1>4. /\ Moves(w, s, "running", "returned") /\ run'[w][s].outcome = outcome
      /\ run' \in [Worker -> [Slot -> Goroutine]]
  <2> DEFINE q == [run[w][s] EXCEPT !.pc = "returned"]
             r == [q EXCEPT !.outcome = outcome]
  <2>1. run \in [Worker -> [Slot -> Goroutine]]
    BY <1>1, Zenon DEF ServerTypeOK
  <2>2. /\ q \in Goroutine /\ q.pc = "returned" /\ q.job = run[w][s].job
        /\ q.attempt = run[w][s].attempt
    <3>1. run[w][s] \in Goroutine
      BY <2>1, Zenon
    <3> QED BY <3>1, Zenon DEF Goroutine
  <2>3. run' = [run EXCEPT ![w][s] = r]
    BY <1>2, Zenon
  <2> HIDE DEF q
  <2>4. /\ r \in Goroutine /\ r.pc = "returned" /\ r.job = run[w][s].job
        /\ r.attempt = run[w][s].attempt /\ r.outcome = outcome
    BY <2>2, Zenon DEF Goroutine
  <2> HIDE DEF r
  <2>5. run' \in [Worker -> [Slot -> Goroutine]] /\ run'[w][s] = r
    BY <2>1, <2>3, <2>4, Zenon
  <2>6. \A v \in Worker, t \in Slot : v # w \/ t # s => run'[v][t] = run[v][t]
    BY <2>1, <2>3, Zenon
  <2> QED BY <1>2, <2>4, <2>5, <2>6, Zenon DEF Moves
<1>5. ServerTypeOK'
  BY <1>1, <1>2, <1>3, <1>4, Zenon DEF ServerTypeOK
<1>6. RunOK'
  BY <1>1, <1>2, <1>4 DEF RunOK, Moves, j
<1>7. NoLeakedEntry'
  <2>1. \A v \in Worker, i \in Job : inFlight[v][i] # 0 => inFlight[v][i] \in Slot
    BY <1>1 DEF ServerTypeOK
  <2> QED BY <1>1, <1>2, <1>4, <2>1 DEF Moves, NoLeakedEntry
<1>8. LeaseHasRun'
  <2>1. RunsGoOn
    BY <1>4, Zenon DEF Moves, RunsGoOn, Unreported
  <2> QED BY <1>2, <1>3, <2>1, LeasesKept, Zenon DEF SInv, NoNewLease
<1>9. OutcomeJustified'
  BY <1>2, <1>3, OutcomesKept, Zenon DEF SInv
<1> QED BY <1>3, <1>4, <1>5, <1>6, <1>7, <1>8, <1>9, Zenon DEF SInv

\* A run that has reported leaves every conjunct as it was if the job it
\* reported on is no longer leased to its worker, or the report was lost.
LEMMA ReportedInv ==
  ASSUME SInv, NEW w \in Worker, NEW s \in Slot, NEW j \in Job,
         run[w][s].pc = "returned", run[w][s].job = j,
         run' = [run EXCEPT ![w][s].pc = "reported"],
         UNCHANGED <<phase, inFlight, renewal, failures, history>>,
         faults' \in 0..MaxFaults,
         faults' = 0 => faults = 0 /\ ~ Holds(w, j)',
         BrokerTypeOK', NoNewLease, OutcomeJustified'
  PROVE  SInv' /\ Moves(w, s, "returned", "reported")
<1>1. ServerTypeOK /\ RunOK /\ NoLeakedEntry
  BY Zenon DEF SInv
<1>2. /\ Moves(w, s, "returned", "reported") /\ run'[w][s].outcome = run[w][s].outcome
      /\ run' \in [Worker -> [Slot -> Goroutine]]
  BY <1>1, MovesPlace, Zenon
<1>3. ServerTypeOK'
  BY <1>1, <1>2, Zenon DEF ServerTypeOK, history
<1>4. RunOK'
  BY <1>1, <1>2 DEF RunOK, Moves, history
<1>5. NoLeakedEntry'
  <2>1. \A v \in Worker, i \in Job : inFlight[v][i] # 0 => inFlight[v][i] \in Slot
    BY <1>1 DEF ServerTypeOK
  <2> QED BY <1>1, <1>2, <2>1 DEF Moves, NoLeakedEntry
<1>6. LeaseHasRun'
  <2> SUFFICES ASSUME NEW v \in Worker, NEW i \in Job, faults' = 0, Holds(v, i)'
               PROVE  \E t \in Slot : run'[v][t].job = i /\ Unreported(v, t)'
    BY Zenon DEF LeaseHasRun
  <2>1. faults = 0 /\ Holds(v, i) /\ ~ (v = w /\ i = j)
    BY Zenon DEF NoNewLease
  <2>2. PICK t \in Slot : run[v][t].job = i /\ Unreported(v, t)
    BY <2>1, Zenon DEF SInv, LeaseHasRun
  <2> QED BY <1>2, <2>1, <2>2, ZenonT(30) DEF Moves, Unreported
<1> QED BY <1>2, <1>3, <1>4, <1>5, <1>6, Zenon DEF SInv

\* The outcome is reported.
LEMMA ReportInv ==
  ASSUME SInv, NEW w \in Worker, NEW s \in Slot, report(w, s)
  PROVE  SInv' /\ NoNewLease /\ Moves(w, s, "returned", "reported")
<1>1. ServerTypeOK /\ BrokerTypeOK /\ RunOK
  BY Zenon DEF SInv, ServerTypeOK
<1>2. PICK j \in Job : run[w][s].job = j
  BY <1>1, Zenon DEF report, RunOK
<1>3. /\ run[w][s].pc = "returned" /\ run' = [run EXCEPT ![w][s].pc = "reported"]
      /\ UNCHANGED <<phase, inFlight, renewal, failures, faults, history>>
  BY Zenon DEF report
<1>4. faults' \in 0..MaxFaults
  BY <1>1, <1>3, Zenon DEF ServerTypeOK
<1>5. \/ \E to \in {"completed", "gone"} : run[w][s].outcome = "nil" /\ Leave(w, j, to)
      \/ run[w][s].outcome = "skip" /\ Leave(w, j, "dead")
      \/ run[w][s].outcome = "error" /\ Leave(w, j, IF Exhausted(j) THEN "dead" ELSE "retry")
      \/ ~ Holds(w, j) /\ UNCHANGED brokerVars
  BY <1>2, Zenon DEF report, Ack, Kill, Nack
<1>6. ASSUME NEW to \in {"completed", "gone", "dead", "retry"}, Leave(w, j, to),
             to \in {"completed", "gone"} => run[w][s].outcome = "nil",
             to = "dead" => run[w][s].outcome = "skip" \/ Exhausted(j)
      PROVE  SInv' /\ NoNewLease /\ Moves(w, s, "returned", "reported")
  <2>1. /\ BrokerTypeOK' /\ NoNewLease /\ ~ Holds(w, j)'
        /\ state' = [state EXCEPT ![j] = to] /\ UNCHANGED <<attempt, maxAttempts>>
    BY <1>1, <1>6, LeaveStep, StateNames, Zenon
  <2>2. /\ run[w][s].outcome = "nil" => j \in succeeded
        /\ run[w][s].outcome = "skip" => j \in skipped
    BY <1>1, <1>2, <1>3, Zenon DEF RunOK
  <2>3. OutcomeJustified'
    BY <1>1, <1>3, <1>6, <2>1, <2>2, BrokerDomains, Zenon DEF SInv, OutcomeJustified, Exhausted, history
  <2> QED BY <1>2, <1>3, <1>4, <2>1, <2>3, ReportedInv, Zenon
<1>7. CASE ~ Holds(w, j) /\ UNCHANGED brokerVars
  <2>1. BrokerTypeOK' /\ NoNewLease /\ NotSettled
    BY <1>1, <1>7, BrokerIdle, Zenon
  <2>2. OutcomeJustified' /\ ~ Holds(w, j)'
    BY <1>3, <1>7, <2>1, OutcomesKept, Zenon DEF SInv, history, NoNewLease
  <2> QED BY <1>2, <1>3, <1>4, <2>1, <2>2, ReportedInv, Zenon
<1> QED BY <1>5, <1>6, <1>7, Zenon

\* The report is lost, which is a fault.
LEMMA ReportLostInv ==
  ASSUME SInv, NEW w \in Worker, NEW s \in Slot, reportLost(w, s)
  PROVE  SInv' /\ NoNewLease /\ Moves(w, s, "returned", "reported")
<1>1. ServerTypeOK /\ BrokerTypeOK /\ RunOK
  BY Zenon DEF SInv, ServerTypeOK
<1>2. PICK j \in Job : run[w][s].job = j
  BY <1>1, Zenon DEF reportLost, RunOK
<1>3. /\ run[w][s].pc = "returned" /\ run' = [run EXCEPT ![w][s].pc = "reported"]
      /\ UNCHANGED <<brokerVars, phase, inFlight, renewal, failures, history>>
  BY Zenon DEF reportLost
<1>4. faults' \in 0..MaxFaults /\ faults' # 0
  BY <1>1, FaultCounted, Zenon DEF reportLost
<1>5. BrokerTypeOK' /\ NoNewLease /\ NotSettled
  BY <1>1, <1>3, BrokerIdle, Zenon
<1>6. OutcomeJustified'
  BY <1>3, <1>5, OutcomesKept, Zenon DEF SInv, history
<1> QED BY <1>2, <1>3, <1>4, <1>5, <1>6, ReportedInv, Zenon

\* The entry is deleted and the slot freed.
LEMMA UntrackInv ==
  ASSUME SInv, NEW w \in Worker, NEW s \in Slot, untrackJob(w, s)
  PROVE  SInv'
<1>1. ServerTypeOK /\ BrokerTypeOK /\ RunOK /\ NoLeakedEntry
  BY Zenon DEF SInv, ServerTypeOK
<1>2. PICK j \in Job : run[w][s].job = j
  BY <1>1, Zenon DEF untrackJob, RunOK
<1>3. /\ run[w][s].pc = "reported" /\ run' = [run EXCEPT ![w][s] = Idle]
      /\ inFlight' = [inFlight EXCEPT ![w][j] = 0]
      /\ UNCHANGED <<brokerVars, phase, renewal, failures, faults, history>>
  BY <1>2, Zenon DEF untrackJob
<1>4. BrokerTypeOK' /\ NoNewLease /\ NotSettled
  BY <1>1, <1>3, BrokerIdle, Zenon
<1>5. Idle \in Goroutine /\ Idle.pc = "free"
  BY Zenon DEF Idle, Goroutine
<1>6. /\ run'[w][s] = Idle /\ run' \in [Worker -> [Slot -> Goroutine]]
      /\ \A v \in Worker, t \in Slot : v # w \/ t # s => run'[v][t] = run[v][t]
  BY <1>1, <1>3, <1>5, Zenon DEF ServerTypeOK
<1>7. ServerTypeOK'
  BY <1>1, <1>3, <1>4, <1>6, Zenon DEF ServerTypeOK, history
<1>8. RunOK'
  BY <1>1, <1>3, <1>5, <1>6 DEF RunOK, history
<1>9. NoLeakedEntry'
  <2> SUFFICES ASSUME NEW v \in Worker, NEW i \in Job, inFlight'[v][i] # 0
               PROVE  LET r == run'[v][inFlight'[v][i]]
                      IN  r.job = i /\ r.pc \in {"running", "returned", "reported"}
    BY Zenon DEF NoLeakedEntry
  <2>1. inFlight'[v][i] = inFlight[v][i] /\ inFlight[v][i] \in Slot /\ ~ (v = w /\ i = j)
    BY <1>1, <1>3 DEF ServerTypeOK
  <2>2. ~ (v = w /\ inFlight[v][i] = s)
    BY <1>1, <1>2, <2>1 DEF NoLeakedEntry
  <2> QED BY <1>1, <1>6, <2>1, <2>2 DEF NoLeakedEntry
<1>10. LeaseHasRun'
  <2>1. RunsGoOn
    BY <1>3, <1>6, Zenon DEF RunsGoOn, Unreported
  <2> QED BY <1>3, <1>4, <2>1, LeasesKept, Zenon DEF SInv, NoNewLease
<1>11. OutcomeJustified'
  BY <1>3, <1>4, OutcomesKept, Zenon DEF SInv, history
<1> QED BY <1>7, <1>8, <1>9, <1>10, <1>11, Zenon DEF SInv

\* A crash takes the runs and the entries of its worker with it; it is a fault.
LEMMA CrashInv ==
  ASSUME SInv, NEW w \in Worker, Crash(w)
  PROVE  SInv'
<1>1. ServerTypeOK /\ BrokerTypeOK /\ RunOK /\ NoLeakedEntry
  BY Zenon DEF SInv, ServerTypeOK
<1>2. /\ phase' = [phase EXCEPT ![w] = "crashed"]
      /\ run' = [run EXCEPT ![w] = [s \in Slot |-> Idle]]
      /\ inFlight' = [inFlight EXCEPT ![w] = [j \in Job |-> 0]]
      /\ renewal' = [renewal EXCEPT ![w] = Asleep]
      /\ failures' = [failures EXCEPT ![w] = 0]
      /\ UNCHANGED <<brokerVars, history>>
  BY Zenon DEF Crash
<1>3. faults' \in 0..MaxFaults /\ faults' # 0
  BY <1>1, FaultCounted, Zenon DEF Crash
<1>4. BrokerTypeOK' /\ NoNewLease /\ NotSettled
  BY <1>1, <1>2, BrokerIdle, Zenon
<1>5. Idle \in Goroutine /\ Idle.pc = "free"
  BY Zenon DEF Idle, Goroutine
<1>6. /\ run' \in [Worker -> [Slot -> Goroutine]]
      /\ \A v \in Worker, t \in Slot : run'[v][t] = IF v = w THEN Idle ELSE run[v][t]
  BY <1>1, <1>2, <1>5, Zenon DEF ServerTypeOK
<1>7. /\ inFlight' \in [Worker -> [Job -> Slot \cup {0}]]
      /\ \A v \in Worker, i \in Job : inFlight'[v][i] = IF v = w THEN 0 ELSE inFlight[v][i]
      /\ \A v \in Worker, i \in Job : inFlight[v][i] # 0 => inFlight[v][i] \in Slot
  BY <1>1, <1>2 DEF ServerTypeOK
<1>8. renewal' \in [Worker -> RenewalState]
  BY <1>1, <1>2, Zenon DEF ServerTypeOK, Asleep, RenewalState
<1>9. failures' \in [Worker -> 0..(maxRenewFailures - 1)]
  BY <1>1, <1>2, ServerAssumption DEF ServerTypeOK
<1>10. ServerTypeOK'
  BY <1>1, <1>2, <1>3, <1>4, <1>6, <1>7, <1>8, <1>9, Zenon DEF ServerTypeOK, history
<1>11. RunOK'
  BY <1>1, <1>2, <1>5, <1>6, Zenon DEF RunOK, history
<1>12. NoLeakedEntry'
  BY <1>1, <1>6, <1>7 DEF NoLeakedEntry
<1>13. LeaseHasRun'
  BY <1>3, Zenon DEF LeaseHasRun
<1>14. OutcomeJustified'
  BY <1>2, <1>4, OutcomesKept, Zenon DEF SInv, history
<1> QED BY <1>10, <1>11, <1>12, <1>13, <1>14, Zenon DEF SInv

\* The renewal loop collects the IDs, renews, fails to, or has runs cancelled.
LEMMA RenewalInv ==
  ASSUME SInv, NEW w \in Worker, inFlightIDs(w) \/ renewLoop(w) \/ renewFail(w)
  PROVE  SInv' /\ Quiet
<1>1. ServerTypeOK /\ BrokerTypeOK
  BY Zenon DEF SInv, ServerTypeOK
<1>2. UNCHANGED <<phase, run, inFlight, history>>
  BY Zenon DEF inFlightIDs, renewLoop, renewFail
<1>3. renewal[w].ids \in SUBSET Job
  BY <1>1, Zenon DEF ServerTypeOK, RenewalState
<1>4. ASSUME NEW ids \in SUBSET Job
      PROVE  ToCancel(ids) \in RenewalState
  BY Zenon DEF ToCancel, Asleep, RenewalState
<1>5. renewal' \in [Worker -> RenewalState]
  <2>1. CASE inFlightIDs(w)
    BY <1>1, <2>1 DEF inFlightIDs, ServerTypeOK, RenewalState
  <2>2. CASE renewLoop(w)
    <3>1. Lost(w, renewal[w].ids) \in SUBSET Job
      BY <1>3, Zenon DEF Lost
    <3> QED BY <1>1, <1>4, <2>2, <3>1, Zenon DEF renewLoop, ServerTypeOK
  <2>3. CASE renewFail(w)
    BY <1>1, <1>3, <1>4, <2>3, Zenon DEF renewFail, ServerTypeOK
  <2> QED BY <2>1, <2>2, <2>3, Zenon
<1>6. failures' \in [Worker -> 0..(maxRenewFailures - 1)]
  <2>1. failures \in [Worker -> 0..(maxRenewFailures - 1)] /\ maxRenewFailures \in Nat \ {0}
    BY <1>1, ServerAssumption, Zenon DEF ServerTypeOK
  <2>2. CASE inFlightIDs(w) \/ renewLoop(w)
    BY <2>1, <2>2 DEF inFlightIDs, renewLoop
  <2>3. CASE renewFail(w)
    BY <2>1, <2>3 DEF renewFail
  <2> QED BY <2>2, <2>3, Zenon
<1>7. faults' \in 0..MaxFaults /\ (faults' = 0 => faults = 0)
  <2>1. CASE UNCHANGED faults
    BY <1>1, <2>1, Zenon DEF ServerTypeOK
  <2>2. CASE Fault
    BY <1>1, <2>2, FaultCounted, Zenon
  <2> QED BY <2>1, <2>2, Zenon DEF inFlightIDs, renewLoop, renewFail
<1>8. BrokerTypeOK' /\ NoNewLease /\ NotSettled
  <2>1. UNCHANGED brokerVars \/ Extend(w, renewal[w].ids)
    BY Zenon DEF inFlightIDs, renewLoop, renewFail
  <2> QED BY <1>1, <2>1, BrokerIdle, ExtendStep, Zenon
<1>9. ServerTypeOK' /\ RunsSame
  BY <1>1, <1>2, <1>5, <1>6, <1>7, <1>8, Zenon DEF ServerTypeOK, RunsSame, history
<1> QED BY <1>2, <1>7, <1>8, <1>9, QuietStep, Zenon DEF Quiet

\* Cancelling a run leaves it where it is.
LEMMA CancelInv ==
  ASSUME SInv, NEW w \in Worker, NEW j \in Job, cancelJob(w, j)
  PROVE  SInv' /\ Quiet
<1>1. ServerTypeOK /\ BrokerTypeOK
  BY Zenon DEF SInv, ServerTypeOK
<1>2. UNCHANGED <<brokerVars, phase, inFlight, failures, faults, history>>
  BY Zenon DEF cancelJob
<1>3. renewal' \in [Worker -> RenewalState]
  <2>1. renewal[w].ids \ {j} \in SUBSET Job
    BY <1>1, Zenon DEF ServerTypeOK, RenewalState
  <2>2. ToCancel(renewal[w].ids \ {j}) \in RenewalState
    BY <2>1, Zenon DEF ToCancel, Asleep, RenewalState
  <2>3. renewal' = [renewal EXCEPT ![w] = ToCancel(renewal[w].ids \ {j})]
    BY Zenon DEF cancelJob
  <2> QED BY <1>1, <2>2, <2>3, Zenon DEF ServerTypeOK
<1>4. run' \in [Worker -> [Slot -> Goroutine]] /\ RunsSame
  <2> DEFINE s == inFlight[w][j]
             r == [run[w][s] EXCEPT !.cancelled = TRUE]
  <2>1. CASE s = 0
    BY <1>1, <2>1, Zenon DEF cancelJob, ServerTypeOK, RunsSame
  <2>2. CASE s # 0
    <3>1. s \in Slot /\ run \in [Worker -> [Slot -> Goroutine]]
      BY <1>1, <2>2 DEF ServerTypeOK
    <3>2. run[w][s] \in Goroutine
      BY <3>1, Zenon
    <3>3. run' = [run EXCEPT ![w][s] = r]
      BY <2>2, Zenon DEF cancelJob
    <3> HIDE DEF s
    <3>4. /\ r \in Goroutine /\ r.pc = run[w][s].pc /\ r.job = run[w][s].job
          /\ r.attempt = run[w][s].attempt /\ r.outcome = run[w][s].outcome
      BY <3>2, Zenon DEF Goroutine
    <3> HIDE DEF r
    <3>5. /\ run' \in [Worker -> [Slot -> Goroutine]] /\ run'[w][s] = r
          /\ \A v \in Worker, t \in Slot : v # w \/ t # s => run'[v][t] = run[v][t]
      BY <3>1, <3>3, <3>4, Zenon
    <3> QED BY <3>4, <3>5, Zenon DEF RunsSame
  <2> QED BY <2>1, <2>2, Zenon
<1>5. BrokerTypeOK' /\ NoNewLease /\ NotSettled
  BY <1>1, <1>2, BrokerIdle, Zenon
<1>6. ServerTypeOK'
  BY <1>1, <1>2, <1>3, <1>4, <1>5, Zenon DEF ServerTypeOK, history
<1> QED BY <1>2, <1>4, <1>5, <1>6, QuietStep, Zenon DEF Quiet

\* Shutting down and coming back move no run.
LEMMA PhaseInv ==
  ASSUME SInv, NEW w \in Worker,
         \/ Shutdown(w) \/ FetchExit(w) \/ drainDone(w) \/ drainTimeout(w) \/ drainAbandon(w)
         \/ Restart(w)
  PROVE  SInv' /\ Quiet
<1>1. ServerTypeOK /\ BrokerTypeOK
  BY Zenon DEF SInv, ServerTypeOK
<1>2. /\ UNCHANGED <<brokerVars, inFlight, failures, faults, history>>
      /\ \E to \in {"stopping", "draining", "cancelled", "stopped", "running"} :
           phase' = [phase EXCEPT ![w] = to]
  BY Zenon DEF Shutdown, FetchExit, drainDone, drainTimeout, drainAbandon, Restart, SetPhase
<1>3. phase' \in [Worker -> {"running", "stopping", "draining", "cancelled", "stopped", "crashed"}]
  BY <1>1, <1>2, Zenon DEF ServerTypeOK
<1>4. renewal' \in [Worker -> RenewalState]
  <2>1. UNCHANGED renewal \/ renewal' = [renewal EXCEPT ![w] = Asleep]
    BY Zenon DEF Shutdown, FetchExit, drainDone, drainTimeout, drainAbandon, Restart
  <2>2. Asleep \in RenewalState
    BY Zenon DEF Asleep, RenewalState
  <2> QED BY <1>1, <2>1, <2>2, Zenon DEF ServerTypeOK
<1>5. run' \in [Worker -> [Slot -> Goroutine]] /\ RunsSame
  <2>1. CASE UNCHANGED run
    BY <1>1, <2>1, Zenon DEF ServerTypeOK, RunsSame
  <2>2. CASE drainTimeout(w)
    <3> DEFINE r(s) == [run[w][s] EXCEPT !.cancelled = run[w][s].pc # "free"]
    <3>1. run \in [Worker -> [Slot -> Goroutine]]
      BY <1>1, Zenon DEF ServerTypeOK
    <3>2. run' = [run EXCEPT ![w] = [s \in Slot |-> r(s)]]
      BY <2>2, Zenon DEF drainTimeout
    <3>3. ASSUME NEW s \in Slot
          PROVE  /\ r(s) \in Goroutine /\ r(s).pc = run[w][s].pc /\ r(s).job = run[w][s].job
                 /\ r(s).attempt = run[w][s].attempt /\ r(s).outcome = run[w][s].outcome
      <4>1. run[w][s] \in Goroutine
        BY <3>1, Zenon
      <4> QED BY <4>1, Zenon DEF Goroutine
    <3> HIDE DEF r
    <3>4. /\ run' \in [Worker -> [Slot -> Goroutine]]
          /\ \A v \in Worker, s \in Slot : run'[v][s] = IF v = w THEN r(s) ELSE run[v][s]
      BY <3>1, <3>2, <3>3, Zenon
    <3> QED BY <3>3, <3>4, Zenon DEF RunsSame
  <2> QED BY <2>1, <2>2, Zenon DEF Shutdown, FetchExit, drainDone, drainAbandon, Restart
<1>6. BrokerTypeOK' /\ NoNewLease /\ NotSettled
  BY <1>1, <1>2, BrokerIdle, Zenon
<1>7. ServerTypeOK'
  BY <1>1, <1>2, <1>3, <1>4, <1>5, <1>6, Zenon DEF ServerTypeOK, history
<1> QED BY <1>2, <1>5, <1>6, <1>7, QuietStep, Zenon DEF Quiet

\* The initial state satisfies the invariant.
LEMMA ServerInitInv == Init => SInv
<1> SUFFICES ASSUME Init PROVE SInv
  BY Zenon
<1>1. BrokerTypeOK
  BY StateNames, Zenon DEF Init, BrokerInit, BrokerTypeOK
<1>2. Idle \in Goroutine /\ Idle.pc = "free"
  BY Zenon DEF Idle, Goroutine
<1>3. ServerTypeOK
  BY <1>1, <1>2, ServerAssumption DEF Init, ServerTypeOK, Asleep, RenewalState
<1>4. RunOK /\ LeaseHasRun /\ NoLeakedEntry /\ OutcomeJustified
  <2>1. \A w \in Worker, s \in Slot : run[w][s].pc = "free"
    BY <1>2, Zenon DEF Init
  <2>2. \A j \in Job : state[j] = "none" /\ \A w \in Worker : inFlight[w][j] = 0
    BY Zenon DEF Init, BrokerInit
  <2> QED BY <2>1, <2>2, Zenon DEF RunOK, LeaseHasRun, NoLeakedEntry, OutcomeJustified, Holds
<1> QED BY <1>3, <1>4, Zenon DEF SInv

\* Every step of the runtime preserves the invariant.
LEMMA ServerNextInv == SInv /\ [Next]_vars => SInv'
<1> SUFFICES ASSUME SInv, [Next]_vars PROVE SInv'
  BY Zenon
<1>1. CASE UNCHANGED vars
  <2>1. BrokerTypeOK' /\ NoNewLease /\ NotSettled
    BY <1>1, BrokerIdle, Zenon DEF vars, SInv, ServerTypeOK
  <2> QED BY <1>1, <2>1, EnvironmentInv, Zenon DEF vars
<1>2. CASE Next
  BY <1>2, ClientInv, FetchInv, FetchLostInv, TrackInv, InvokeInv, ReportInv, ReportLostInv,
     UntrackInv, CrashInv, RenewalInv, CancelInv, PhaseInv, Zenon DEF Next
<1> QED BY <1>1, <1>2, Zenon

\* SInv holds in every reachable state of the worker runtime (worker.go, server.go).
THEOREM ServerInvariance == Spec => []SInv
  BY ServerInitInv, ServerNextInv, PTL DEF Spec

\* The variables of the runtime keep their types: the fields of Server and the
\* locals of runJob, renewLoop and drain.
THEOREM ServerTypeCorrect == Spec => []ServerTypeOK
<1>1. SInv => ServerTypeOK
  BY Zenon DEF SInv
<1> QED BY <1>1, ServerInvariance, PTL

\* A pool of any size, in any interleaving of its goroutines, loops, shutdowns
\* and re-deliveries, keeps no lease it is done with (worker.go runJob).
THEOREM LeasesAccounted == Spec => []LeaseHasRun
<1>1. SInv => LeaseHasRun
  BY Zenon DEF SInv
<1> QED BY <1>1, ServerInvariance, PTL

\* trackJob and untrackJob leave no entry behind, even when two runs of one job
\* overlap in the same worker.
THEOREM EntriesAccounted == Spec => []NoLeakedEntry
<1>1. SInv => NoLeakedEntry
  BY Zenon DEF SInv
<1> QED BY <1>1, ServerInvariance, PTL

\* Whatever is lost, repeated or interrupted, a job is completed only after a
\* handler returned nil and dead-lettered only when exhausted or skipped.
THEOREM OutcomesJustified == Spec => []OutcomeJustified
<1>1. SInv => OutcomeJustified
  BY Zenon DEF SInv
<1> QED BY <1>1, ServerInvariance, PTL

-----------------------------------------------------------------------------
(* A pool with one slot.                                                   *)

\* With one slot, the slots of a worker are all the same one.
LEMMA OnlySlot ==
  ASSUME Concurrency = 1, NEW s \in Slot
  PROVE  \A t \in Slot : t = s
  BY DEF Slot

\* A step that moves no run, and one that moves a run that is recorded.
LEMMA QuietOneSlot ==
  ASSUME OneSlot, Quiet
  PROVE  OneSlot'
  BY DEF Quiet, RunsSame, OneSlot, NoNewLease

\* A run that returns or has reported keeps OneSlot.
LEMMA MoveOneSlot ==
  ASSUME OneSlot, NoNewLease, NEW w \in Worker, NEW s \in Slot, UNCHANGED inFlight,
         Moves(w, s, "running", "returned") \/ Moves(w, s, "returned", "reported")
  PROVE  OneSlot'
  BY DEF Moves, OneSlot, NoNewLease

\* The only run of a worker is claimed: its lease is new.
LEMMA FetchOneSlot ==
  ASSUME Concurrency = 1, SInv, OneSlot, NEW w \in Worker, NEW s \in Slot, NEW j \in Job,
         fetchLoop(w, s, j)
  PROVE  OneSlot'
<1>1. BrokerTypeOK /\ ServerTypeOK
  BY Zenon DEF SInv, ServerTypeOK
<1>2. /\ attempt'[j] = attempt[j] + 1
      /\ \A v \in Worker, i \in Job : Holds(v, i)' =>
           \/ v = w /\ i = j
           \/ i # j /\ Holds(v, i) /\ attempt'[i] = attempt[i]
  BY <1>1, DequeueStep, Zenon DEF fetchLoop
<1> DEFINE r == Claimed(j, attempt[j] + 1)
<1>3. r.pc = "claimed" /\ r.job = j /\ r.attempt = attempt[j] + 1
  BY Zenon DEF Claimed
<1>4. run' = [run EXCEPT ![w][s] = r] /\ UNCHANGED inFlight
  BY Zenon DEF fetchLoop
<1> HIDE DEF r
<1>5. /\ run'[w][s] = r
      /\ \A v \in Worker, t \in Slot : v # w \/ t # s => run'[v][t] = run[v][t]
  BY <1>1, <1>4, Zenon DEF ServerTypeOK
<1> SUFFICES ASSUME NEW v \in Worker, NEW t \in Slot, NEW i \in Job, run'[v][t].job = i
             PROVE  /\ run'[v][t].pc \in {"running", "returned", "reported"} => inFlight'[v][i] # 0
                    /\ run'[v][t].pc # "free" /\ Holds(v, i)' => run'[v][t].attempt = attempt'[i]
  BY Zenon DEF OneSlot
<1>6. CASE v = w
  BY <1>2, <1>3, <1>5, <1>6, OnlySlot, Zenon
<1>7. CASE v # w
  BY <1>2, <1>4, <1>5, <1>7 DEF OneSlot
<1> QED BY <1>6, <1>7, Zenon

\* A claim whose reply is lost leaves its worker without a run.
LEMMA FetchLostOneSlot ==
  ASSUME Concurrency = 1, SInv, OneSlot, NEW w \in Worker, NEW j \in Job, fetchLost(w, j)
  PROVE  OneSlot'
<1>1. BrokerTypeOK
  BY Zenon DEF SInv, ServerTypeOK
<1>2. \A v \in Worker, i \in Job : Holds(v, i)' =>
           \/ v = w /\ i = j
           \/ i # j /\ Holds(v, i) /\ attempt'[i] = attempt[i]
  BY <1>1, DequeueStep, Zenon DEF fetchLost
<1>3. UNCHANGED <<run, inFlight>> /\ \A t \in Slot : run[w][t].pc = "free"
  BY OnlySlot, Zenon DEF fetchLost, workerVars
<1> QED BY <1>2, <1>3, ZenonT(30) DEF OneSlot

\* The run is recorded, or its entry and the run itself are gone.
LEMMA TrackOneSlot ==
  ASSUME Concurrency = 1, SInv, OneSlot, NEW w \in Worker, NEW s \in Slot,
         trackJob(w, s), NoNewLease, Moves(w, s, "claimed", "running")
  PROVE  OneSlot'
<1> SUFFICES ASSUME NEW v \in Worker, NEW t \in Slot, NEW i \in Job, run'[v][t].job = i
             PROVE  /\ run'[v][t].pc \in {"running", "returned", "reported"} => inFlight'[v][i] # 0
                    /\ run'[v][t].pc # "free" /\ Holds(v, i)' => run'[v][t].attempt = attempt'[i]
  BY Zenon DEF OneSlot
<1>1. run[v][t].job = i /\ run'[v][t].attempt = run[v][t].attempt
  BY Zenon DEF Moves
<1>2. inFlight \in [Worker -> [Job -> Slot \cup {0}]] /\ s # 0
  BY DEF SInv, ServerTypeOK, Slot
<1>3. inFlight' = [inFlight EXCEPT ![w][run[w][s].job] = s]
  BY Zenon DEF trackJob
<1>4. run'[v][t].pc \in {"running", "returned", "reported"} => inFlight'[v][i] # 0
  <2>1. CASE v = w /\ t = s
    BY <1>1, <1>2, <1>3, <2>1, Zenon
  <2>2. CASE ~ (v = w /\ t = s)
    <3>1. v # w
      BY <2>2, OnlySlot, Zenon
    <3> QED BY <1>1, <1>3, <1>2, <2>2, <3>1, Zenon DEF OneSlot, Moves
  <2> QED BY <2>1, <2>2, Zenon
<1>5. run'[v][t].pc # "free" /\ Holds(v, i)' => run'[v][t].attempt = attempt'[i]
  BY <1>1 DEF Moves, OneSlot, NoNewLease
<1> QED BY <1>4, <1>5, Zenon

\* Untracking a job keeps OneSlot.
LEMMA UntrackOneSlot ==
  ASSUME Concurrency = 1, SInv, OneSlot, NEW w \in Worker, NEW s \in Slot, untrackJob(w, s)
  PROVE  OneSlot'
<1>1. /\ inFlight' = [inFlight EXCEPT ![w][run[w][s].job] = 0]
      /\ run' = [run EXCEPT ![w][s] = Idle] /\ UNCHANGED brokerVars
  BY Zenon DEF untrackJob
<1>2. ServerTypeOK /\ Idle.pc = "free"
  BY Zenon DEF SInv, Idle
<1>3. /\ run'[w][s] = Idle
      /\ \A v \in Worker, t \in Slot : v # w => run'[v][t] = run[v][t] /\ inFlight'[v] = inFlight[v]
  BY <1>1, <1>2, Zenon DEF ServerTypeOK
<1>4. \A t \in Slot : run'[w][t].pc = "free"
  BY <1>2, <1>3, OnlySlot, Zenon
<1> QED BY <1>1, <1>3, <1>4 DEF OneSlot, Holds, brokerVars

\* A crash keeps OneSlot.
LEMMA CrashOneSlot ==
  ASSUME SInv, OneSlot, NEW w \in Worker, Crash(w)
  PROVE  OneSlot'
<1>1. /\ run' = [run EXCEPT ![w] = [s \in Slot |-> Idle]]
      /\ inFlight' = [inFlight EXCEPT ![w] = [j \in Job |-> 0]] /\ UNCHANGED brokerVars
  BY Zenon DEF Crash
<1>2. ServerTypeOK /\ Idle.pc = "free"
  BY Zenon DEF SInv, Idle
<1>3. /\ \A t \in Slot : run'[w][t].pc = "free"
      /\ \A v \in Worker : v # w => run'[v] = run[v] /\ inFlight'[v] = inFlight[v]
  BY <1>1, <1>2, Zenon DEF ServerTypeOK
<1> QED BY <1>1, <1>3 DEF OneSlot, Holds, brokerVars

\* Every step of a runtime with one slot preserves both invariants.
LEMMA OneSlotNext ==
  ASSUME Concurrency = 1, SInv, OneSlot, [Next]_vars
  PROVE  OneSlot'
<1>1. CASE UNCHANGED vars
  BY <1>1, ZenonT(30) DEF vars, workerVars, brokerVars, OneSlot, Holds
<1>2. ASSUME Client \/ (\E j \in Job : LeaseLapses(j)) \/ \E w \in Worker : reapLoop(w) \/ promoteLoop(w)
      PROVE  OneSlot'
  BY <1>2, ClientInv, QuietOneSlot, Zenon
<1>3. ASSUME NEW w \in Worker, inFlightIDs(w) \/ renewLoop(w) \/ renewFail(w) PROVE OneSlot'
  BY <1>3, RenewalInv, QuietOneSlot, Zenon
<1>4. ASSUME NEW w \in Worker, NEW j \in Job, cancelJob(w, j) PROVE OneSlot'
  BY <1>4, CancelInv, QuietOneSlot, Zenon
<1>5. ASSUME NEW w \in Worker,
             \/ Shutdown(w) \/ FetchExit(w) \/ drainDone(w) \/ drainTimeout(w) \/ drainAbandon(w)
             \/ Restart(w)
      PROVE  OneSlot'
  BY <1>5, PhaseInv, QuietOneSlot, Zenon
<1>6. ASSUME NEW w \in Worker, NEW s \in Slot, trackJob(w, s) PROVE OneSlot'
  BY <1>6, TrackInv, TrackOneSlot, Zenon
<1>7. ASSUME NEW w \in Worker, NEW s \in Slot, NEW outcome \in {"nil", "error", "skip"},
             invoke(w, s, outcome)
      PROVE  OneSlot'
  <2>1. UNCHANGED inFlight
    BY <1>7, Zenon DEF invoke
  <2> QED BY <1>7, <2>1, InvokeInv, MoveOneSlot, Zenon
<1>8. ASSUME NEW w \in Worker, NEW s \in Slot, report(w, s) \/ reportLost(w, s) PROVE OneSlot'
  <2>1. UNCHANGED inFlight
    BY <1>8, Zenon DEF report, reportLost
  <2> QED BY <1>8, <2>1, ReportInv, ReportLostInv, MoveOneSlot, Zenon
<1> QED BY <1>1, <1>2, <1>3, <1>4, <1>5, <1>6, <1>7, <1>8, FetchOneSlot, FetchLostOneSlot,
           UntrackOneSlot, CrashOneSlot, ZenonT(30) DEF Next

\* A pool with one slot satisfies OneSlot in every reachable state.
THEOREM OneSlotInvariance ==
  ASSUME Concurrency = 1
  PROVE  Spec => [](SInv /\ OneSlot)
<1>1. Init => OneSlot
  <2>1. Init => \A w \in Worker, s \in Slot : run[w][s].pc = "free"
    BY DEF Init, Idle
  <2> QED BY <2>1, Zenon DEF OneSlot
<1>2. SInv /\ OneSlot /\ [Next]_vars => OneSlot'
  BY OneSlotNext, Zenon
<1> QED BY <1>1, <1>2, ServerInitInv, ServerNextInv, PTL DEF Spec

\* With one slot, renewal knows of every run at work that holds a lease; with
\* more it does not, because runs of one job share an entry (worker.go trackJob).
THEOREM SingleRunsTracked ==
  ASSUME Concurrency = 1
  PROVE  Spec => []RunsTracked
<1>1. SInv /\ OneSlot => RunsTracked
  BY Zenon DEF SInv, RunOK, OneSlot, RunsTracked
<1> QED BY <1>1, OneSlotInvariance, PTL

\* What NoSupersededReport asks of one step.
ReportIsLatest ==
  \A w \in Worker, s \in Slot :
    LET j == run[w][s].job
    IN  report(w, s) /\ state'[j] # state[j] => run[w][s].attempt = attempt[j]

\* With one slot, no report of an older claim is accepted for a newer one.
THEOREM SingleNotSuperseded ==
  ASSUME Concurrency = 1
  PROVE  Spec => NoSupersededReport
<1>1. SInv /\ OneSlot => ReportIsLatest
  <2> SUFFICES ASSUME SInv, OneSlot, NEW w \in Worker, NEW s \in Slot, report(w, s),
                      state'[run[w][s].job] # state[run[w][s].job]
               PROVE  run[w][s].attempt = attempt[run[w][s].job]
    BY Zenon DEF ReportIsLatest
  <2>1. PICK j \in Job : run[w][s].job = j
    BY Zenon DEF SInv, RunOK, report
  <2>2. Holds(w, j)
    BY <2>1, Zenon DEF report, Ack, Kill, Nack, Leave, brokerVars
  <2> QED BY <2>1, <2>2, Zenon DEF OneSlot, report
<1>2. SInv /\ OneSlot /\ [Next]_vars => [ReportIsLatest]_vars
  BY <1>1, Zenon
<1> QED BY <1>2, OneSlotInvariance, PTL DEF Spec, NoSupersededReport, ReportIsLatest

-----------------------------------------------------------------------------
(* The broker contract, and the runtime as a client of it.                 *)

\* The invariant of the contract: only active jobs have a deadline to miss, and
\* a job that was never enqueued was never claimed.
BInv ==
  /\ BrokerTypeOK /\ AttemptBudget
  /\ \A j \in expired : state[j] = "active"
  /\ \A j \in Job : state[j] = "none" => attempt[j] = 0

\* The empty broker satisfies BInv.
LEMMA BrokerInitInv == BrokerInit => BInv
  BY StateNames DEF BrokerInit, BInv, BrokerTypeOK, AttemptBudget

\* Ending a lease leaves the budget as it is.
LEMMA LeaveBudget ==
  ASSUME BInv, NEW w \in Worker, NEW j \in Job,
         NEW to \in {"completed", "gone", "dead", "retry"}, Leave(w, j, to),
         to = "retry" => ~ Exhausted(j)
  PROVE  BInv'
<1>1. BrokerTypeOK'
  BY LeaveStep, StateNames, Zenon DEF BInv
<1>2. AttemptBudget'
  BY BrokerDomains, BrokerAssumption DEF BInv, AttemptBudget, Leave, Holds, Exhausted
<1>3. /\ \A i \in expired' : state'[i] = "active"
      /\ \A i \in Job : state'[i] = "none" => attempt'[i] = 0
  BY BrokerDomains, Zenon DEF BInv, BrokerTypeOK, Leave
<1> QED BY <1>1, <1>2, <1>3, Zenon DEF BInv

\* Every operation of the contract preserves its invariant.
LEMMA BrokerNextInv == BInv /\ [BrokerNext]_brokerVars => BInv'
<1> SUFFICES ASSUME BInv, [BrokerNext]_brokerVars PROVE BInv'
  BY Zenon
<1>1. BrokerTypeOK /\ AttemptBudget
  BY Zenon DEF BInv
<1>2. CASE UNCHANGED brokerVars
  BY <1>2, Zenon DEF brokerVars, BInv, BrokerTypeOK, AttemptBudget
<1>3. ASSUME NEW j \in Job, NEW max \in Budgets, NEW to \in {"pending", "scheduled"},
             Enqueue(j, max, to)
      PROVE  BInv'
  <2>1. max \in Nat \ {0}
    BY BrokerAssumption, Zenon
  <2>2. AttemptBudget'
    BY <1>1, <1>3, <2>1, BrokerDomains DEF BInv, AttemptBudget, Enqueue
  <2>3. BrokerTypeOK'
    BY <1>1, <1>3, EnqueueStep, Zenon
  <2>4. /\ \A i \in expired' : state'[i] = "active"
        /\ \A i \in Job : state'[i] = "none" => attempt'[i] = 0
    BY <1>1, <1>3, BrokerDomains, Zenon DEF BInv, BrokerTypeOK, Enqueue
  <2> QED BY <2>2, <2>3, <2>4, Zenon DEF BInv
<1>4. ASSUME NEW w \in Worker, NEW j \in Job, Dequeue(w, j) PROVE BInv'
  <2>1. AttemptBudget'
    BY <1>1, <1>4, BrokerDomains, BrokerAssumption DEF AttemptBudget, Dequeue
  <2>2. BrokerTypeOK'
    BY <1>1, <1>4, DequeueStep, Zenon
  <2>3. /\ \A i \in expired' : state'[i] = "active"
        /\ \A i \in Job : state'[i] = "none" => attempt'[i] = 0
    BY <1>1, <1>4, BrokerDomains, Zenon DEF BInv, BrokerTypeOK, Dequeue
  <2> QED BY <2>1, <2>2, <2>3, Zenon DEF BInv
<1>5. ASSUME NEW w \in Worker, NEW j \in Job, Ack(w, j) \/ Nack(w, j) \/ Kill(w, j) PROVE BInv'
  BY <1>5, LeaveBudget, Zenon DEF Ack, Nack, Kill
<1>6. ASSUME NEW w \in Worker, NEW ids \in SUBSET Job, Extend(w, ids) PROVE BInv'
  BY <1>1, <1>6, ExtendStep, Zenon DEF BInv, AttemptBudget, Extend
<1>7. ASSUME NEW ids \in SUBSET Job, Reap(ids) PROVE BInv'
  <2>1. AttemptBudget'
    BY <1>1, <1>7, BrokerDomains, BrokerAssumption DEF BInv, AttemptBudget, Reap, Exhausted
  <2>2. BrokerTypeOK'
    BY <1>1, <1>7, ReapStep, Zenon
  <2>3. /\ \A i \in expired' : state'[i] = "active"
        /\ \A i \in Job : state'[i] = "none" => attempt'[i] = 0
    BY <1>1, <1>7, BrokerDomains, Zenon DEF BInv, BrokerTypeOK, Reap
  <2> QED BY <2>1, <2>2, <2>3, Zenon DEF BInv
<1>8. ASSUME NEW ids \in SUBSET Job, Promote(ids) PROVE BInv'
  <2>1. AttemptBudget'
    BY <1>1, <1>8, BrokerDomains, Zenon DEF AttemptBudget, Promote
  <2>2. BrokerTypeOK'
    BY <1>1, <1>8, PromoteStep, Zenon
  <2>3. /\ \A i \in expired' : state'[i] = "active"
        /\ \A i \in Job : state'[i] = "none" => attempt'[i] = 0
    BY <1>1, <1>8, BrokerDomains, Zenon DEF BInv, BrokerTypeOK, Promote
  <2> QED BY <2>1, <2>2, <2>3, Zenon DEF BInv
<1>9. ASSUME NEW ids \in SUBSET Job, RetryDead(ids) PROVE BInv'
  <2>1. state' \in [Job -> States] /\ attempt' \in [Job -> Nat]
    BY <1>1, <1>9, StateNames, Zenon DEF RetryDead, BrokerTypeOK
  <2>2. BrokerTypeOK'
    BY <1>1, <1>9, <2>1, Zenon DEF RetryDead, BrokerTypeOK
  <2>3. AttemptBudget'
    BY <1>1, <1>9, BrokerDomains DEF AttemptBudget, RetryDead
  <2>4. /\ \A i \in expired' : state'[i] = "active"
        /\ \A i \in Job : state'[i] = "none" => attempt'[i] = 0
    BY <1>1, <1>9, Zenon DEF BInv, BrokerTypeOK, RetryDead
  <2> QED BY <2>2, <2>3, <2>4, Zenon DEF BInv
<1>10. ASSUME NEW ids \in SUBSET Job, Remove(ids) PROVE BInv'
  <2>1. state' \in [Job -> States] /\ owner' \in [Job -> Worker \cup {NoOwner}]
    BY <1>1, <1>10, StateNames, Zenon DEF Remove, BrokerTypeOK
  <2>2. BrokerTypeOK'
    BY <1>1, <1>10, <2>1, Zenon DEF Remove, BrokerTypeOK
  <2>3. AttemptBudget'
    BY <1>1, <1>10, BrokerDomains, Zenon DEF AttemptBudget, Remove
  <2>4. /\ \A i \in expired' : state'[i] = "active"
        /\ \A i \in Job : state'[i] = "none" => attempt'[i] = 0
    BY <1>1, <1>10, Zenon DEF BInv, BrokerTypeOK, Remove
  <2> QED BY <2>2, <2>3, <2>4, Zenon DEF BInv
<1>11. ASSUME NEW ids \in SUBSET Job, Lapse(ids) PROVE BInv'
  BY <1>1, <1>11, LapseStep, Zenon DEF BInv, AttemptBudget, Lapse
<1> QED BY <1>2, <1>3, <1>4, <1>5, <1>6, <1>7, <1>8, <1>9, <1>10, <1>11, Zenon DEF BrokerNext

\* Whoever implements the contract of broker.go keeps to the attempt budget.
THEOREM ContractBudget == BrokerSpec => []AttemptBudget
<1>1. BInv => AttemptBudget
  BY Zenon DEF BInv
<1> QED BY <1>1, BrokerInitInv, BrokerNextInv, PTL DEF BrokerSpec

\* The worker runtime touches the broker only through the operations of the
\* contract: with everything else hidden it is a behaviour of the contract.
THEOREM ServerImplements == Spec => BrokerSpec
<1>1. Init => BrokerInit
  BY Zenon DEF Init
<1>2. SInv /\ [Next]_vars => [BrokerNext]_brokerVars
  <2> SUFFICES ASSUME SInv, [Next]_vars, ~ UNCHANGED brokerVars PROVE BrokerNext
    BY Zenon
  <2>1. CASE Client
    BY <2>1, Zenon DEF Client, BrokerNext
  <2>2. ASSUME NEW j \in Job, LeaseLapses(j) PROVE BrokerNext
    <3>1. {j} \in SUBSET Job
      BY Zenon
    <3> QED BY <2>2, <3>1, Zenon DEF LeaseLapses, BrokerNext
  <2>3. ASSUME NEW w \in Worker, NEW j \in Job, Dequeue(w, j) PROVE BrokerNext
    BY <2>3, Zenon DEF BrokerNext
  <2>4. ASSUME NEW w \in Worker, NEW s \in Slot, report(w, s) PROVE BrokerNext
    <3>1. run[w][s].job \in Job
      BY <2>4, Zenon DEF SInv, RunOK, report
    <3> QED BY <2>4, <3>1, Zenon DEF report, BrokerNext
  <2>5. ASSUME NEW w \in Worker, Extend(w, renewal[w].ids) PROVE BrokerNext
    <3>1. renewal[w].ids \in SUBSET Job
      BY Zenon DEF SInv, ServerTypeOK, RenewalState
    <3> QED BY <2>5, <3>1, Zenon DEF BrokerNext
  <2>6. ASSUME NEW ids \in SUBSET Job, Reap(ids) \/ Promote(ids) PROVE BrokerNext
    BY <2>6, Zenon DEF BrokerNext
  <2>7. Next
    BY Zenon DEF vars
  <2>8. ASSUME NEW w \in Worker, NEW s \in Slot,
               \/ trackJob(w, s) \/ reportLost(w, s) \/ untrackJob(w, s)
               \/ \E outcome \in {"nil", "error", "skip"} : invoke(w, s, outcome)
        PROVE  FALSE
    BY <2>8, Zenon DEF trackJob, reportLost, untrackJob, invoke
  <2>9. ASSUME NEW w \in Worker,
               \/ Shutdown(w) \/ FetchExit(w) \/ drainDone(w) \/ drainTimeout(w)
               \/ drainAbandon(w) \/ Restart(w) \/ Crash(w) \/ inFlightIDs(w)
               \/ \E j \in Job : cancelJob(w, j)
        PROVE  FALSE
    BY <2>9, Zenon DEF Shutdown, FetchExit, drainDone, drainTimeout, drainAbandon, Restart,
                       SetPhase, Crash, inFlightIDs, cancelJob
  <2>10. ASSUME NEW w \in Worker, renewLoop(w) \/ renewFail(w) PROVE BrokerNext
    BY <2>5, <2>10, Zenon DEF renewLoop, renewFail
  <2>11. ASSUME NEW w \in Worker, reapLoop(w) \/ promoteLoop(w) PROVE BrokerNext
    BY <2>6, <2>11, Zenon DEF reapLoop, promoteLoop
  <2>12. ASSUME NEW w \in Worker, NEW j \in Job,
                fetchLost(w, j) \/ \E s \in Slot : fetchLoop(w, s, j)
         PROVE  BrokerNext
    BY <2>3, <2>12, Zenon DEF fetchLost, fetchLoop
  <2> QED BY <2>1, <2>2, <2>4, <2>7, <2>8, <2>9, <2>10, <2>11, <2>12, Zenon DEF Next
<1> QED BY <1>1, <1>2, ServerInvariance, PTL DEF Spec, BrokerSpec
=============================================================================
