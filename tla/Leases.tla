------------------------------- MODULE Leases -------------------------------
(***************************************************************************)
(* The timing of leases: claims, renewal, recovery and shutdown of a fleet *)
(* of workers on the Redis broker, in ticks of real time.  Clocks are      *)
(* timers that count down, so time is unbounded.  A call to the broker is  *)
(* sent, runs its script at any moment, and is answered, or has failed,    *)
(* within Latency.  A script that has run may still be reported as failed, *)
(* and a renewal that was sent may still run when its worker is gone.      *)
(* Timers are punctual and no process is paused.                           *)
(***************************************************************************)
EXTENDS Timing, Sequences, FiniteSets

CONSTANTS
  Job, NoOwner, NoJob,
  Queue, queueOf,     \* the queue of each job
  Queues,             \* Config.Queues of each worker
  reapBatch,          \* leases a sweep takes from one queue at most
  ShutdownTimeout, forceGracePeriod, maxRenewFailures

ASSUME LeasesAssumption ==
  /\ NoOwner \notin Worker /\ NoJob \notin Job /\ IsFiniteSet(Job)
  /\ queueOf \in [Job -> Queue] /\ Queues \in [Worker -> Seq(Queue)]
  /\ {reapBatch, ShutdownTimeout, forceGracePeriod, maxRenewFailures} \subseteq Nat \ {0}

VARIABLES
  phase,      \* "off", "serving", "draining", "cancelling" or "gone"
  patience,   \* what is left of the shutdown timeout or the grace period
  claiming,   \* the job a Dequeue has claimed, until its reply is in
  claimIn,    \* longest time to that reply
  renewal,    \* the renewal loop: asleep, or the call it has made
  renewIn,    \* what is left of its sleep, or longest time to the reply
  failures,   \* consecutive failed renewals
  sweeping,   \* whether the reap loop is in a call
  swept,      \* queues swept so far in that call
  reapIn,     \* what is left of its sleep, or longest time to the reply
  handlers,   \* jobs tracked in flight
  cancelled,  \* those of them whose context is cancelled
  owner,      \* holder of the lease of each job, at the broker
  left,       \* what is left of the lease; negative once it has expired
  faults,     \* history: failed calls
  orphanFor,  \* history: how long the lease has had no handler
  passedOver, \* history: sweeps with a full batch that left the expired lease
  staleFor    \* history: how long a handler has run on without the lease

process == <<phase, patience>>
claim == <<claiming, claimIn>>
renew == <<renewal, renewIn, failures>>
reap == <<sweeping, swept, reapIn>>
runs == <<handlers, cancelled>>
lease == <<owner, left, orphanFor, passedOver>>
leaseVars == <<process, claim, renew, reap, runs, lease, faults, staleFor>>

Up(w) == phase[w] \in {"serving", "draining", "cancelling"}

\* Mutant: two renewals per visibility timeout instead of three.
RenewInterval_Half(w) == Interval(VisibilityTimeout[w] \div 2)
RenewInterval(w) == Interval(VisibilityTimeout[w] \div 3)
ReapInterval(w) == Interval(VisibilityTimeout[w] \div 2)

Asleep == [pc |-> "asleep", ids |-> {}, lost |-> {}]
Covers(w, q) == q \in {Queues[w][i] : i \in DOMAIN Queues[w]}

LeasesInit ==
  /\ phase = [w \in Worker |-> "off"] /\ patience = [w \in Worker |-> 0]
  /\ claiming = [w \in Worker |-> NoJob] /\ claimIn = [w \in Worker |-> 0]
  /\ renewal = [w \in Worker |-> Asleep] /\ renewIn = [w \in Worker |-> 0]
  /\ failures = [w \in Worker |-> 0]
  /\ sweeping = [w \in Worker |-> FALSE] /\ swept = [w \in Worker |-> 0]
  /\ reapIn = [w \in Worker |-> 0]
  /\ handlers = [w \in Worker |-> {}] /\ cancelled = [w \in Worker |-> {}]
  /\ owner = [j \in Job |-> NoOwner] /\ left = [j \in Job |-> 0]
  /\ faults = 0
  /\ orphanFor = [j \in Job |-> 0] /\ passedOver = [j \in Job |-> 0]
  /\ staleFor = [w \in Worker |-> [j \in Job |-> 0]]

Fault == faults < MaxFaults /\ faults' = faults + 1

-----------------------------------------------------------------------------
(* Leases are taken, and dropped.                                          *)

\* Free the jobs of S.
Drop(S) ==
  /\ owner' = [j \in Job |-> IF j \in S THEN NoOwner ELSE owner[j]]
  /\ left' = [j \in Job |-> IF j \in S THEN 0 ELSE left[j]]
  /\ orphanFor' = [j \in Job |-> IF j \in S THEN 0 ELSE orphanFor[j]]

\* The script of a Dequeue claims a job; the lease runs from now on.  (A
\* worker that claims the job of its own stale handler again is the subject of
\* module Server.)
Dequeue(w, j) ==
  /\ phase[w] = "serving" /\ claiming[w] = NoJob
  /\ Covers(w, queueOf[j]) /\ owner[j] = NoOwner /\ j \notin handlers[w]
  /\ owner' = [owner EXCEPT ![j] = w]
  /\ left' = [left EXCEPT ![j] = VisibilityTimeout[w]]
  /\ claiming' = [claiming EXCEPT ![w] = j]
  /\ claimIn' = [claimIn EXCEPT ![w] = Latency]
  /\ UNCHANGED <<process, renew, reap, runs, orphanFor, passedOver, faults, staleFor>>

EndClaim(w) ==
  /\ claiming' = [claiming EXCEPT ![w] = NoJob]
  /\ claimIn' = [claimIn EXCEPT ![w] = 0]

\* The reply arrives and the handler starts.
trackJob(w) ==
  /\ Up(w) /\ claiming[w] # NoJob
  /\ EndClaim(w)
  /\ handlers' = [handlers EXCEPT ![w] = @ \cup {claiming[w]}]
  /\ UNCHANGED <<process, renew, reap, cancelled, lease, faults, staleFor>>

\* The reply is lost: nobody runs the job.
DequeueFailed(w) ==
  /\ Up(w) /\ claiming[w] # NoJob
  /\ Fault
  /\ EndClaim(w)
  /\ UNCHANGED <<process, renew, reap, runs, lease, staleFor>>

Forget(w, S) ==
  /\ handlers' = [handlers EXCEPT ![w] = @ \ S]
  /\ cancelled' = [cancelled EXCEPT ![w] = @ \ S]
  /\ staleFor' = [staleFor EXCEPT ![w] = [j \in Job |-> IF j \in S THEN 0 ELSE @[j]]]

\* The handler returns and its outcome is reported; without the lease the
\* broker refuses the report.  The handler counts as running until then.
Finish(w, j) ==
  /\ Up(w) /\ j \in handlers[w]
  /\ Forget(w, {j})
  /\ \/ /\ owner[j] = w /\ Drop({j})
        /\ passedOver' = [passedOver EXCEPT ![j] = 0]
     \/ owner[j] # w /\ UNCHANGED lease
  /\ UNCHANGED <<process, claim, renew, reap, faults>>

\* The report fails: the job stays leased until the lease runs out.
FinishUnreported(w, j) ==
  /\ Up(w) /\ j \in handlers[w]
  /\ Fault
  /\ Forget(w, {j})
  /\ UNCHANGED <<process, claim, renew, reap, lease>>

-----------------------------------------------------------------------------
(* The renewal loop.                                                       *)

Sleep(w) ==
  /\ renewal' = [renewal EXCEPT ![w] = Asleep]
  /\ renewIn' = [renewIn EXCEPT ![w] = RenewInterval(w)]

\* The loop wakes up with nothing in flight.
RenewIdle(w) ==
  /\ Up(w) /\ renewal[w].pc = "asleep" /\ renewIn[w] = 0 /\ handlers[w] = {}
  /\ failures' = [failures EXCEPT ![w] = 0]
  /\ Sleep(w)
  /\ UNCHANGED <<process, claim, reap, runs, lease, faults, staleFor>>

\* The loop wakes up and asks to extend the leases of what is in flight now.
RenewAsk(w) ==
  /\ Up(w) /\ renewal[w].pc = "asleep" /\ renewIn[w] = 0 /\ handlers[w] # {}
  /\ renewal' = [renewal EXCEPT ![w] = [pc |-> "asked", ids |-> handlers[w], lost |-> {}]]
  /\ renewIn' = [renewIn EXCEPT ![w] = Latency]
  /\ UNCHANGED <<process, claim, failures, reap, runs, lease, faults, staleFor>>

\* The script runs: the leases the worker holds start anew, the others are
\* reported as lost.
Extend(w) ==
  LET held == {j \in renewal[w].ids : owner[j] = w}
  IN  /\ renewal[w].pc = "asked"
      /\ renewal' = [renewal EXCEPT ![w].pc = "extended", ![w].lost = renewal[w].ids \ held]
      /\ left' = [j \in Job |-> IF j \in held THEN VisibilityTimeout[w] ELSE left[j]]
      /\ passedOver' = [j \in Job |-> IF j \in held THEN 0 ELSE passedOver[j]]
      /\ UNCHANGED <<process, claim, renewIn, failures, reap, runs, owner, orphanFor,
                     faults, staleFor>>

\* The renewal succeeds: the handlers whose lease is lost are cancelled.
RenewOK(w) ==
  /\ Up(w) /\ renewal[w].pc = "extended"
  /\ failures' = [failures EXCEPT ![w] = 0]
  /\ cancelled' = [cancelled EXCEPT ![w] = @ \cup (handlers[w] \cap renewal[w].lost)]
  /\ Sleep(w)
  /\ UNCHANGED <<process, claim, reap, handlers, lease, faults, staleFor>>

\* Mutant: a failed renewal gives up one failure late.
GivesUp_Late(w) == failures[w] + 1 > maxRenewFailures
GivesUp(w) == failures[w] + 1 >= maxRenewFailures

\* The renewal fails, whether or not its script has run; after
\* maxRenewFailures in a row everything it was about is cancelled.
RenewFailed(w) ==
  /\ Up(w) /\ renewal[w].pc # "asleep"
  /\ Fault
  /\ failures' = [failures EXCEPT ![w] = IF GivesUp(w) THEN 0 ELSE @ + 1]
  /\ cancelled' = [cancelled EXCEPT
                     ![w] = @ \cup (IF GivesUp(w) THEN handlers[w] \cap renewal[w].ids ELSE {})]
  /\ Sleep(w)
  /\ UNCHANGED <<process, claim, reap, handlers, lease, staleFor>>

-----------------------------------------------------------------------------
(* The reap loop, which runs until its worker shuts down.                  *)

ReapAsk(w) ==
  /\ phase[w] = "serving" /\ ~ sweeping[w] /\ reapIn[w] = 0
  /\ sweeping' = [sweeping EXCEPT ![w] = TRUE]
  /\ reapIn' = [reapIn EXCEPT ![w] = Latency]
  /\ UNCHANGED <<process, claim, renew, swept, runs, lease, faults, staleFor>>

Expired(q) == {j \in Job : queueOf[j] = q /\ owner[j] # NoOwner /\ left[j] <= 0}

\* What one script takes from a queue: the oldest deadlines, up to reapBatch.
Batches(q) ==
  {S \in SUBSET Expired(q) :
     /\ Cardinality(S) <= reapBatch
     /\ S # Expired(q) => Cardinality(S) = reapBatch
     /\ \A j \in S, k \in Expired(q) \ S : left[j] <= left[k]}

\* Mutant: a worker recovers its own jobs only.
Reap_OwnOnly(w) ==
  LET q == Queues[w][swept[w] + 1]
      S == {j \in Expired(q) : owner[j] = w}
  IN  /\ phase[w] = "serving" /\ sweeping[w] /\ swept[w] < Len(Queues[w])
      /\ swept' = [swept EXCEPT ![w] = @ + 1]
      /\ Drop(S)
      /\ passedOver' = [j \in Job |-> IF j \in S THEN 0 ELSE passedOver[j]]
      /\ UNCHANGED <<process, claim, renew, sweeping, reapIn, runs, faults, staleFor>>

\* The script of the next queue runs.
Reap(w) ==
  LET q == Queues[w][swept[w] + 1]
  IN  /\ phase[w] = "serving" /\ sweeping[w] /\ swept[w] < Len(Queues[w])
      /\ swept' = [swept EXCEPT ![w] = @ + 1]
      /\ \E S \in Batches(q) :
           /\ Drop(S)
           /\ passedOver' = [j \in Job |-> IF j \in S THEN 0
                                           ELSE IF j \in Expired(q) THEN passedOver[j] + 1
                                           ELSE passedOver[j]]
      /\ UNCHANGED <<process, claim, renew, sweeping, reapIn, runs, faults, staleFor>>

\* The call ends: every queue is swept, or one of its scripts failed.
ReapDone(w) ==
  /\ phase[w] = "serving" /\ sweeping[w]
  /\ \/ swept[w] = Len(Queues[w]) /\ UNCHANGED faults
     \/ Fault
  /\ sweeping' = [sweeping EXCEPT ![w] = FALSE] /\ swept' = [swept EXCEPT ![w] = 0]
  /\ \E d \in jitter(ReapInterval(w)) : reapIn' = [reapIn EXCEPT ![w] = d]
  /\ UNCHANGED <<process, claim, renew, runs, lease, staleFor>>

-----------------------------------------------------------------------------
(* Workers come and go.                                                    *)

Start(w) ==
  /\ phase[w] = "off"
  /\ phase' = [phase EXCEPT ![w] = "serving"]
  /\ Sleep(w)
  /\ \E d \in jitter(ReapInterval(w)) : reapIn' = [reapIn EXCEPT ![w] = d]
  /\ UNCHANGED <<patience, claim, failures, sweeping, swept, runs, lease, faults, staleFor>>

\* The calls under Run's context are abandoned.  A job whose Dequeue was under
\* way stays leased; a script of a sweep that still runs can only free jobs
\* sooner, and is left out.
Abandon(w) ==
  /\ EndClaim(w)
  /\ sweeping' = [sweeping EXCEPT ![w] = FALSE] /\ swept' = [swept EXCEPT ![w] = 0]
  /\ reapIn' = [reapIn EXCEPT ![w] = 0]

\* Run's context is cancelled: no more claims and no more sweeps, but the
\* leases are renewed while the handlers get ShutdownTimeout to return.
Shutdown(w) ==
  /\ w \in Mortal /\ phase[w] = "serving"
  /\ phase' = [phase EXCEPT ![w] = "draining"]
  /\ patience' = [patience EXCEPT ![w] = ShutdownTimeout]
  /\ Abandon(w)
  /\ UNCHANGED <<renew, runs, lease, faults, staleFor>>

DrainCancel(w) ==
  /\ phase[w] = "draining" /\ patience[w] = 0 /\ handlers[w] # {}
  /\ phase' = [phase EXCEPT ![w] = "cancelling"]
  /\ patience' = [patience EXCEPT ![w] = forceGracePeriod]
  /\ cancelled' = [cancelled EXCEPT ![w] = handlers[w]]
  /\ UNCHANGED <<claim, renew, reap, handlers, lease, faults, staleFor>>

\* The process ends; a renewal it has sent may still be under way.
Leave(w) ==
  /\ phase' = [phase EXCEPT ![w] = "gone"]
  /\ patience' = [patience EXCEPT ![w] = 0]
  /\ Forget(w, handlers[w])
  /\ Abandon(w)
  /\ \/ renewal[w].pc = "asked" /\ UNCHANGED <<renewal, renewIn>>
     \/ /\ renewal[w].pc # "asked"
        /\ renewal' = [renewal EXCEPT ![w] = Asleep] /\ renewIn' = [renewIn EXCEPT ![w] = 0]
  /\ failures' = [failures EXCEPT ![w] = 0]
  /\ UNCHANGED <<lease, faults>>

\* Every handler has returned, or patience is out.
DrainDone(w) ==
  /\ phase[w] \in {"draining", "cancelling"}
  /\ handlers[w] = {} \/ (phase[w] = "cancelling" /\ patience[w] = 0)
  /\ Leave(w)

Crash(w) == w \in Mortal /\ Up(w) /\ Leave(w)

-----------------------------------------------------------------------------
(* Time passes when nothing is overdue and the workers that stay are up.   *)

Due(w) ==
  \/ Up(w) /\ (renewIn[w] = 0 \/ (claiming[w] # NoJob /\ claimIn[w] = 0))
  \/ phase[w] = "serving" /\ reapIn[w] = 0
  \/ phase[w] \in {"draining", "cancelling"} /\ (patience[w] = 0 \/ handlers[w] = {})

Down(n) == IF n > 0 THEN n - 1 ELSE 0
Attended(j) == owner[j] # NoOwner /\ (j \in handlers[owner[j]] \/ claiming[owner[j]] = j)
Stale(w, j) == j \in handlers[w] \ cancelled[w] /\ owner[j] # w

Tick ==
  /\ \A w \in Worker : ~ Due(w)
  /\ \A w \in Worker \ Mortal : phase[w] = "serving"
  /\ renewal' = [w \in Worker |-> IF Up(w) \/ renewIn[w] > 0 THEN renewal[w] ELSE Asleep]
  /\ renewIn' = [w \in Worker |-> Down(renewIn[w])]
  /\ claimIn' = [w \in Worker |-> Down(claimIn[w])]
  /\ reapIn' = [w \in Worker |-> Down(reapIn[w])]
  /\ patience' = [w \in Worker |-> Down(patience[w])]
  /\ left' = [j \in Job |-> IF owner[j] = NoOwner THEN 0 ELSE left[j] - 1]
  /\ orphanFor' = [j \in Job |-> IF owner[j] # NoOwner /\ ~ Attended(j)
                                 THEN orphanFor[j] + 1 ELSE 0]
  /\ staleFor' = [w \in Worker |-> [j \in Job |->
                    IF Stale(w, j) THEN staleFor[w][j] + 1 ELSE 0]]
  /\ UNCHANGED <<phase, claiming, failures, sweeping, swept, runs, owner, passedOver, faults>>

LeasesNext ==
  \/ \E w \in Worker, j \in Job : Dequeue(w, j) \/ Finish(w, j) \/ FinishUnreported(w, j)
  \/ \E w \in Worker : trackJob(w) \/ DequeueFailed(w)
  \/ \E w \in Worker : RenewIdle(w) \/ RenewAsk(w) \/ Extend(w) \/ RenewOK(w) \/ RenewFailed(w)
  \/ \E w \in Worker : ReapAsk(w) \/ Reap(w) \/ ReapDone(w)
  \/ \E w \in Worker : Start(w) \/ Shutdown(w) \/ DrainCancel(w) \/ DrainDone(w) \/ Crash(w)
  \/ Tick

-----------------------------------------------------------------------------
(* Properties.                                                             *)

\* The job of a dead worker, or of one whose reply or report was lost, is free
\* again within one visibility timeout and one sweep of any of the workers
\* that stay and consume its queue, longer by a sweep for every failed call
\* and for every full batch of other jobs that can be ahead of it, and by two
\* slow calls: a last renewal, and the sweep under way when the lease expires
\* (server.go: "worst-case recovery after a worker dies is roughly one and a
\* half times this value").
RecoveryBound ==
  \A j \in Job, w \in Worker \ Mortal : owner[j] # NoOwner /\ Covers(w, queueOf[j]) =>
    orphanFor[j] <=
      VisibilityTimeout[owner[j]] + 2 * Latency
        + (1 + faults + ((Cardinality(Job) - 1) \div reapBatch)) * (ReapInterval(w) + Latency)

\* A handler that is running, not cancelled, loses its lease only when at least two
\* renewals in a row have failed: neither one failed or slow call nor a
\* shutdown in progress makes a healthy worker's job run twice (server.go:
\* "renewal keeps extending the lease for as long as the worker is alive").
LeaseKept ==
  [][\A w \in Worker, j \in Job :
       owner[j] = w /\ j \in handlers[w] \ cancelled[w] /\ j \in handlers'[w] /\ owner'[j] # w =>
         failures[w] >= 2]_leaseVars

\* A handler that has lost its lease is cancelled soon: it runs on next to its
\* successor only for as long as maxRenewFailures slow renewals, the reply to
\* its claim and the call that was under way then, outlast one visibility
\* timeout (renewLoop cancels lost jobs, or all jobs when it gives up, "a false
\* negative costs duplicated side effects").
OverlapMax(w) ==
  maxRenewFailures * (RenewInterval(w) + Latency) + 2 * Latency - VisibilityTimeout[w]
OverlapBound ==
  \A w \in Worker, j \in Job : Stale(w, j) => staleFor[w][j] <= OverlapMax(w)
=============================================================================
