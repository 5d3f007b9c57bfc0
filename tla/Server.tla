-------------------------------- MODULE Server --------------------------------
(***************************************************************************)
(* The worker runtime on top of the broker contract: the fetch loop with   *)
(* its concurrency slots, the goroutine that runs a job, the renewal loop, *)
(* the reap and promote loops, graceful shutdown, and what can go wrong    *)
(* with them: lost replies, failed calls and crashes, at most MaxFaults of *)
(* these.  One action is one broker call or one critical section of        *)
(* Server.mu, together with the local computation around it.  A slot       *)
(* names the goroutine, and so the context, of one run.                    *)
(***************************************************************************)
EXTENDS Broker

CONSTANTS
  Concurrency,       \* Config.Concurrency
  maxRenewFailures,
  Mortal,            \* the workers that may be shut down or crash
  MaxFaults,         \* bound on the number of faults
  NoJob

ASSUME ServerAssumption ==
  /\ Concurrency \in Nat \ {0} /\ maxRenewFailures \in Nat \ {0}
  /\ Mortal \subseteq Worker /\ MaxFaults \in Nat /\ NoJob \notin Job

VARIABLES
  phase,     \* how far Run has come; "crashed" without one
  run,       \* run[w][s], the job goroutine in slot s of worker w
  inFlight,  \* inFlight[w][j], the slot whose cancel function is stored for j, or 0
  renewal,   \* what the renewal loop of each worker is doing, and with which IDs
  failures,  \* its count of consecutive failures
  faults,    \* number of faults so far
  handed, succeeded, skipped \* history: jobs a handler was called for, returned
                             \* nil for, returned ErrSkipRetry for

workerVars == <<phase, run, inFlight, renewal, failures>>
history == <<handed, succeeded, skipped>>
vars == <<brokerVars, workerVars, faults, history>>

Slot == 1..Concurrency
Goroutine ==
  [pc : {"free", "claimed", "running", "returned", "reported"}, job : Job \cup {NoJob},
   attempt : Nat, outcome : {"none", "nil", "error", "skip"}, cancelled : BOOLEAN]
RenewalState == [pc : {"asleep", "calling", "cancelling"}, ids : SUBSET Job]
Idle == [pc |-> "free", job |-> NoJob, attempt |-> 0, outcome |-> "none", cancelled |-> FALSE]
Claimed(j, n) ==
  [pc |-> "claimed", job |-> j, attempt |-> n, outcome |-> "none", cancelled |-> FALSE]
Asleep == [pc |-> "asleep", ids |-> {}]
Up(w) == phase[w] # "crashed"

Init ==
  /\ BrokerInit
  /\ phase = [w \in Worker |-> "running"]
  /\ run = [w \in Worker |-> [s \in Slot |-> Idle]]
  /\ inFlight = [w \in Worker |-> [j \in Job |-> 0]]
  /\ renewal = [w \in Worker |-> Asleep]
  /\ failures = [w \in Worker |-> 0]
  /\ faults = 0
  /\ handed = {} /\ succeeded = {} /\ skipped = {}

\* A call fails, or its reply is lost.
Fault == faults < MaxFaults /\ faults' = faults + 1

-----------------------------------------------------------------------------
(* Claiming and running a job.                                             *)

\* The fetch loop takes a slot, claims a job and starts its goroutine.  It may
\* do so once more after ctx was cancelled.
fetchLoop(w, s, j) ==
  /\ phase[w] \in {"running", "stopping"}
  /\ run[w][s].pc = "free" /\ \A t \in 1..(s - 1) : run[w][t].pc # "free"
  /\ Dequeue(w, j)
  /\ run' = [run EXCEPT ![w][s] = Claimed(j, attempt[j] + 1)]
  /\ UNCHANGED <<phase, inFlight, renewal, failures, faults, history>>

\* The job is claimed, but the reply does not arrive.
fetchLost(w, j) ==
  /\ phase[w] \in {"running", "stopping"} /\ \E s \in Slot : run[w][s].pc = "free"
  /\ Fault
  /\ Dequeue(w, j)
  /\ UNCHANGED <<workerVars, history>>

\* Mutant: the run is not recorded.
trackJob_Unrecorded(w, s) ==
  /\ run[w][s].pc = "claimed"
  /\ run' = [run EXCEPT ![w][s].pc = "running"]
  /\ handed' = handed \cup {run[w][s].job}
  /\ UNCHANGED <<brokerVars, phase, inFlight, renewal, failures, faults, succeeded, skipped>>

\* runJob records the run under its job ID and calls the handler.
trackJob(w, s) ==
  LET j == run[w][s].job
  IN  /\ run[w][s].pc = "claimed"
      /\ run' = [run EXCEPT ![w][s].pc = "running"]
      /\ inFlight' = [inFlight EXCEPT ![w][j] = s]
      /\ handed' = handed \cup {j}
      /\ UNCHANGED <<brokerVars, phase, renewal, failures, faults, succeeded, skipped>>

\* The handler returns nil, an error (or panics), or ErrSkipRetry.
invoke(w, s, outcome) ==
  LET j == run[w][s].job
  IN  /\ run[w][s].pc = "running"
      /\ run' = [run EXCEPT ![w][s] = [@ EXCEPT !.pc = "returned", !.outcome = outcome]]
      /\ succeeded' = IF outcome = "nil" THEN succeeded \cup {j} ELSE succeeded
      /\ skipped' = IF outcome = "skip" THEN skipped \cup {j} ELSE skipped
      /\ UNCHANGED <<brokerVars, phase, inFlight, renewal, failures, faults, handed>>

\* Mutant: the report uses the context of the job, so it fails once the run
\* is cancelled.
report_OnJobContext(w, s) ==
  LET r == run[w][s]
  IN  /\ r.pc = "returned"
      /\ run' = [run EXCEPT ![w][s].pc = "reported"]
      /\ \/ ~ r.cancelled /\ r.outcome = "nil" /\ Ack(w, r.job)
         \/ ~ r.cancelled /\ r.outcome = "skip" /\ Kill(w, r.job)
         \/ ~ r.cancelled /\ r.outcome = "error" /\ Nack(w, r.job)
         \/ (r.cancelled \/ ~ Holds(w, r.job)) /\ UNCHANGED brokerVars
      /\ UNCHANGED <<phase, inFlight, renewal, failures, faults, history>>

\* Mutant: a recovered panic is taken for success.
report_PanicSucceeds(w, s) ==
  LET r == run[w][s]
  IN  /\ r.pc = "returned"
      /\ run' = [run EXCEPT ![w][s].pc = "reported"]
      /\ \/ r.outcome \in {"nil", "error"} /\ Ack(w, r.job)
         \/ r.outcome = "skip" /\ Kill(w, r.job)
         \/ ~ Holds(w, r.job) /\ UNCHANGED brokerVars
      /\ UNCHANGED <<phase, inFlight, renewal, failures, faults, history>>

\* The outcome is reported, whether or not the run was cancelled.  A report
\* that the broker refuses is logged only.
report(w, s) ==
  LET r == run[w][s]
  IN  /\ r.pc = "returned"
      /\ run' = [run EXCEPT ![w][s].pc = "reported"]
      /\ \/ r.outcome = "nil" /\ Ack(w, r.job)
         \/ r.outcome = "skip" /\ Kill(w, r.job)
         \/ r.outcome = "error" /\ Nack(w, r.job)
         \/ ~ Holds(w, r.job) /\ UNCHANGED brokerVars
      /\ UNCHANGED <<phase, inFlight, renewal, failures, faults, history>>

\* The report does not reach the broker within reportTimeout.
reportLost(w, s) ==
  /\ run[w][s].pc = "returned"
  /\ Fault
  /\ run' = [run EXCEPT ![w][s].pc = "reported"]
  /\ UNCHANGED <<brokerVars, phase, inFlight, renewal, failures, history>>

\* Mutant: the entry in inFlight is left behind.
untrackJob_KeepsEntry(w, s) ==
  /\ run[w][s].pc = "reported"
  /\ run' = [run EXCEPT ![w][s] = Idle]
  /\ UNCHANGED <<brokerVars, phase, inFlight, renewal, failures, faults, history>>

\* The deferred calls of runJob and of its goroutine: whatever is recorded
\* under the job ID is deleted, and the slot is freed.
untrackJob(w, s) ==
  /\ run[w][s].pc = "reported"
  /\ inFlight' = [inFlight EXCEPT ![w][run[w][s].job] = 0]
  /\ run' = [run EXCEPT ![w][s] = Idle]
  /\ UNCHANGED <<brokerVars, phase, renewal, failures, faults, history>>

-----------------------------------------------------------------------------
(* The renewal loop, which runs until the worker has drained.              *)

Renewing(w) == phase[w] \notin {"stopped", "crashed"}

inFlightIDs(w) ==
  /\ Renewing(w) /\ renewal[w].pc = "asleep"
  /\ LET ids == {j \in Job : inFlight[w][j] # 0}
     IN  \/ /\ ids # {}
            /\ renewal' = [renewal EXCEPT ![w] = [pc |-> "calling", ids |-> ids]]
            /\ UNCHANGED failures
         \/ /\ ids = {}
            /\ failures' = [failures EXCEPT ![w] = 0]
            /\ UNCHANGED renewal
  /\ UNCHANGED <<brokerVars, phase, run, inFlight, faults, history>>

\* The runs recorded under the IDs are to be cancelled, one by one.
ToCancel(ids) == IF ids = {} THEN Asleep ELSE [pc |-> "cancelling", ids |-> ids]

\* Mutant: the IDs returned as lost are ignored.
renewLoop_IgnoresLost(w) ==
  /\ Renewing(w) /\ renewal[w].pc = "calling"
  /\ Extend(w, renewal[w].ids)
  /\ renewal' = [renewal EXCEPT ![w] = Asleep]
  /\ failures' = [failures EXCEPT ![w] = 0]
  /\ UNCHANGED <<phase, run, inFlight, faults, history>>

renewLoop(w) ==
  LET ids == renewal[w].ids
  IN  /\ Renewing(w) /\ renewal[w].pc = "calling"
      /\ Extend(w, ids)
      /\ renewal' = [renewal EXCEPT ![w] = ToCancel(Lost(w, ids))]
      /\ failures' = [failures EXCEPT ![w] = 0]
      /\ UNCHANGED <<phase, run, inFlight, faults, history>>

\* Mutant: the count is not reset when the loop gives up.
renewFail_NoReset(w) ==
  LET ids == renewal[w].ids
      giveUp == failures[w] + 1 >= maxRenewFailures
  IN  /\ Renewing(w) /\ renewal[w].pc = "calling"
      /\ Fault
      /\ Extend(w, ids) \/ UNCHANGED brokerVars
      /\ renewal' = [renewal EXCEPT ![w] = ToCancel(IF giveUp THEN ids ELSE {})]
      /\ failures' = [failures EXCEPT ![w] = @ + 1]
      /\ UNCHANGED <<phase, run, inFlight, history>>

\* The call fails, or succeeds without an answer; after maxRenewFailures of
\* these in a row everything is cancelled.
renewFail(w) ==
  LET ids == renewal[w].ids
      giveUp == failures[w] + 1 >= maxRenewFailures
  IN  /\ Renewing(w) /\ renewal[w].pc = "calling"
      /\ Fault
      /\ Extend(w, ids) \/ UNCHANGED brokerVars
      /\ renewal' = [renewal EXCEPT ![w] = ToCancel(IF giveUp THEN ids ELSE {})]
      /\ failures' = [failures EXCEPT ![w] = IF giveUp THEN 0 ELSE @ + 1]
      /\ UNCHANGED <<phase, run, inFlight, history>>

cancelJob(w, j) ==
  /\ Renewing(w) /\ renewal[w].pc = "cancelling" /\ j \in renewal[w].ids
  /\ renewal' = [renewal EXCEPT ![w] = ToCancel(@.ids \ {j})]
  /\ run' = IF inFlight[w][j] = 0 THEN run
            ELSE [run EXCEPT ![w][inFlight[w][j]].cancelled = TRUE]
  /\ UNCHANGED <<brokerVars, phase, inFlight, failures, faults, history>>

-----------------------------------------------------------------------------
(* Maintenance, shutdown and the environment.                              *)

\* Mutant: a worker recovers only its own jobs.
reapLoop_OwnOnly(w) ==
  /\ phase[w] = "running"
  /\ \E ids \in SUBSET {j \in Job : owner[j] = w} : Reap(ids)
  /\ UNCHANGED <<workerVars, faults, history>>

reapLoop(w) ==
  /\ phase[w] = "running"
  /\ \E ids \in SUBSET Job : Reap(ids)
  /\ UNCHANGED <<workerVars, faults, history>>

promoteLoop(w) ==
  /\ phase[w] = "running"
  /\ \E ids \in SUBSET Job : Promote(ids)
  /\ UNCHANGED <<workerVars, faults, history>>

SetPhase(w, from, to) ==
  /\ phase[w] \in from
  /\ phase' = [phase EXCEPT ![w] = to]
  /\ UNCHANGED <<brokerVars, inFlight, failures, faults, history>>

\* ctx is cancelled; then the fetch loop notices.
Shutdown(w) == w \in Mortal /\ SetPhase(w, {"running"}, "stopping") /\ UNCHANGED <<run, renewal>>
FetchExit(w) == SetPhase(w, {"stopping"}, "draining") /\ UNCHANGED <<run, renewal>>

Drained(w) == \A s \in Slot : run[w][s].pc = "free"

\* drain returns because every job has been reported and maintenance stops.
drainDone(w) ==
  /\ Drained(w) /\ SetPhase(w, {"draining", "cancelled"}, "stopped")
  /\ renewal' = [renewal EXCEPT ![w] = Asleep]
  /\ UNCHANGED run

\* ShutdownTimeout passes: the context of all runs is cancelled.
drainTimeout(w) ==
  /\ ~ Drained(w) /\ SetPhase(w, {"draining"}, "cancelled")
  /\ run' = [run EXCEPT ![w] = [s \in Slot |-> [run[w][s] EXCEPT !.cancelled = run[w][s].pc # "free"]]]
  /\ UNCHANGED renewal

\* Mutant: after cancelling, drain waits for the handlers without a limit.
drainAbandon_Never(w) == FALSE

\* forceGracePeriod passes: the runs that are left go on without renewal.
drainAbandon(w) ==
  /\ ~ Drained(w) /\ SetPhase(w, {"cancelled"}, "stopped")
  /\ renewal' = [renewal EXCEPT ![w] = Asleep]
  /\ UNCHANGED run

\* The process dies, taking every goroutine with it.
Crash(w) ==
  /\ w \in Mortal /\ Up(w) /\ Fault
  /\ phase' = [phase EXCEPT ![w] = "crashed"]
  /\ run' = [run EXCEPT ![w] = [s \in Slot |-> Idle]]
  /\ inFlight' = [inFlight EXCEPT ![w] = [j \in Job |-> 0]]
  /\ renewal' = [renewal EXCEPT ![w] = Asleep]
  /\ failures' = [failures EXCEPT ![w] = 0]
  /\ UNCHANGED <<brokerVars, history>>

\* A worker with a configured WorkerID comes back under the same name.
Restart(w) == SetPhase(w, {"crashed"}, "running") /\ UNCHANGED <<run, renewal>>

Client == \E j \in Job, max \in Budgets, to \in {"pending", "scheduled"} :
  Enqueue(j, max, to) /\ UNCHANGED <<workerVars, faults, history>>

\* Time passes the deadline of a lease: its holder stalled, crashed or renews
\* too late.
LeaseLapses(j) == Lapse({j}) /\ UNCHANGED <<workerVars, faults, history>>

Next ==
  \/ Client
  \/ \E j \in Job : LeaseLapses(j)
  \/ \E w \in Worker, s \in Slot :
       \/ \E j \in Job : fetchLoop(w, s, j)
       \/ trackJob(w, s)
       \/ \E outcome \in {"nil", "error", "skip"} : invoke(w, s, outcome)
       \/ report(w, s) \/ reportLost(w, s) \/ untrackJob(w, s)
  \/ \E w \in Worker, j \in Job : fetchLost(w, j) \/ cancelJob(w, j)
  \/ \E w \in Worker :
       \/ inFlightIDs(w) \/ renewLoop(w) \/ renewFail(w)
       \/ reapLoop(w) \/ promoteLoop(w)
       \/ Shutdown(w) \/ FetchExit(w) \/ drainDone(w) \/ drainTimeout(w) \/ drainAbandon(w)
       \/ Crash(w) \/ Restart(w)

Spec == Init /\ [][Next]_vars

\* Go schedules every goroutine, the loops poll again and again, and timers
\* fire.  Handlers may still hang.
FairSpec ==
  /\ Spec
  /\ \A w \in Worker :
       /\ WF_vars(\E s \in Slot, j \in Job : fetchLoop(w, s, j))
       /\ WF_vars(inFlightIDs(w) \/ renewLoop(w) \/ \E j \in Job : cancelJob(w, j))
       /\ \A s \in Slot : WF_vars(trackJob(w, s) \/ report(w, s) \/ untrackJob(w, s))
       /\ WF_vars(reapLoop(w)) /\ WF_vars(promoteLoop(w))
       /\ WF_vars(FetchExit(w) \/ drainDone(w) \/ drainTimeout(w) \/ drainAbandon(w))

-----------------------------------------------------------------------------
(* Properties.                                                             *)

\* Every variable of the runtime keeps its type.
ServerTypeOK ==
  /\ BrokerTypeOK
  /\ phase \in [Worker -> {"running", "stopping", "draining", "cancelled", "stopped", "crashed"}]
  /\ run \in [Worker -> [Slot -> Goroutine]]
  /\ inFlight \in [Worker -> [Job -> Slot \cup {0}]]
  /\ renewal \in [Worker -> RenewalState]
  /\ failures \in [Worker -> 0..(maxRenewFailures - 1)] /\ faults \in 0..MaxFaults
  /\ handed \subseteq Job /\ succeeded \subseteq Job /\ skipped \subseteq Job

Unreported(w, s) == run[w][s].pc \in {"claimed", "running", "returned"}

\* Without faults, every lease a worker holds belongs to a run of its own that
\* has yet to report: the runtime never keeps a job it is done with, not even
\* across re-delivery to itself, cancellation and shutdown, and so a graceful
\* stop leaves no lease behind (worker.go runJob; server.go Run: "even then
\* their failures are reported so the jobs retry promptly").
LeaseHasRun ==
  \A w \in Worker, j \in Job : faults = 0 /\ Holds(w, j) =>
    \E s \in Slot : run[w][s].job = j /\ Unreported(w, s)

\* What is in inFlight is a run of that job that is still at work: an entry
\* left behind would be renewed for ever.
NoLeakedEntry ==
  \A w \in Worker, j \in Job : inFlight[w][j] # 0 =>
    LET r == run[w][inFlight[w][j]] IN r.job = j /\ r.pc \in {"running", "returned", "reported"}

\* A job is complete only after a handler returned nil for it, and dead only
\* with its attempts used up or on a handler's request (README, delivery
\* contract).
OutcomeJustified ==
  \A j \in Job :
    /\ state[j] \in {"completed", "gone"} => j \in succeeded
    /\ state[j] = "dead" => Exhausted(j) \/ j \in skipped

\* While the run that holds the lease of a job is at work the job is in
\* inFlight, so that the lease is extended (server.go: "renewal keeps extending
\* the lease for as long as the worker is alive").
RunsTracked ==
  \A w \in Worker, s \in Slot :
    LET r == run[w][s]
    IN  r.pc = "running" /\ Holds(w, r.job) /\ r.attempt = attempt[r.job] =>
          inFlight[w][r.job] # 0

\* A report that the broker accepts comes from the latest claim of the job
\* (ack.lua: a worker "whose job was re-delivered must not be able to mark it
\* done").
NoSupersededReport ==
  [][\A w \in Worker, s \in Slot :
       LET j == run[w][s].job
       IN  report(w, s) /\ state'[j] # state[j] => run[w][s].attempt = attempt[j]]_vars

\* A dead-lettered job was given to a handler, or is about to be (README:
\* every job "will be handed to a handler at least once").
DeadWasHanded ==
  \A j \in Job : state[j] = "dead" =>
    j \in handed \/ \E w \in Worker, s \in Slot : run[w][s].job = j

\* A handler that has lost its lease is cancelled, returns or dies with its
\* process or with maintenance (worker.go: "losing one lease stops exactly one
\* handler").  With several slots a later run of the job takes over the entry
\* that would cancel it.
LostLeaseStopsHandler ==
  \A w \in Worker, s \in Slot :
    run[w][s].pc = "running" /\ ~ Holds(w, run[w][s].job) ~>
      run[w][s].pc # "running" \/ run[w][s].cancelled \/ Holds(w, run[w][s].job)
        \/ phase[w] = "stopped"

\* A worker told to stop stops, even if its handlers hang (server.go drain).
ShutdownEnds == \A w \in Mortal : phase[w] = "stopping" ~> phase[w] \in {"stopped", "crashed"}

\* Every handler returns, and time passes every deadline that is not moved.
HandlersReturn ==
  /\ \A w \in Worker, s \in Slot :
       WF_vars(\E outcome \in {"nil", "error", "skip"} : invoke(w, s, outcome))
  /\ \A j \in Job : WF_vars(LeaseLapses(j))

\* If handlers return, every accepted job is completed or dead-lettered in the
\* end, as long as one worker stays up (README: "Poison pills terminate").
JobsSettle ==
  HandlersReturn =>
    \A j \in Job : state[j] # "none" ~> state[j] \in {"completed", "gone", "dead"}
=============================================================================
