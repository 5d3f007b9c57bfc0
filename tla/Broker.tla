------------------------------- MODULE Broker -------------------------------
(***************************************************************************)
(* What every broker promises: the job lifecycle of job.go and the         *)
(* operations of the Broker interface of broker.go, without lists, sorted  *)
(* sets or clocks.  A lease is only "live" or "expired" here; RedisBroker   *)
(* shows how deadlines and a server clock implement that, and Server runs   *)
(* the worker runtime on top of this contract.                             *)
(***************************************************************************)
EXTENDS Integers

CONSTANTS
  Job,       \* job identifiers; NewID mints each of them at most once
  Worker,    \* worker identifiers, the fencing tokens of leases
  NoOwner,   \* the empty owner string
  Budgets    \* the values of MaxAttempts that producers use

ASSUME BrokerAssumption ==
  /\ NoOwner \notin Worker
  /\ Budgets \subseteq Nat \ {0}

VARIABLES
  state,        \* Job.State; "none" before Enqueue, "gone" once deleted
  owner,        \* Job.Owner, the worker whose lease the job is under
  attempt,      \* Job.Attempt, claims so far
  maxAttempts,  \* Job.MaxAttempts
  expired       \* the active jobs whose visibility deadline has passed

brokerVars == <<state, owner, attempt, maxAttempts, expired>>

\* The lifecycle graph, with "none" for the empty state of an unstored job.
validTransitions ==
  [none      |-> {"pending", "scheduled"},
   scheduled |-> {"pending"},
   retry     |-> {"pending"},
   pending   |-> {"active"},
   active    |-> {"completed", "retry", "dead", "pending"},
   completed |-> {},
   dead      |-> {"pending"},
   gone      |-> {}]

CanTransition(from, to) == to \in validTransitions[from]

States == DOMAIN validTransitions

Exhausted(j) == attempt[j] >= maxAttempts[j]

\* Mutant: any worker passes.
Holds_Unfenced(w, j) == state[j] = "active"

\* The fence every completing operation passes.
Holds(w, j) == state[j] = "active" /\ owner[j] = w

BrokerTypeOK ==
  /\ state \in [Job -> States]
  /\ owner \in [Job -> Worker \cup {NoOwner}]
  /\ attempt \in [Job -> Nat]
  /\ maxAttempts \in [Job -> Nat]
  /\ expired \subseteq Job

BrokerInit ==
  /\ state = [j \in Job |-> "none"]
  /\ owner = [j \in Job |-> NoOwner]
  /\ attempt = [j \in Job |-> 0]
  /\ maxAttempts = [j \in Job |-> 0]
  /\ expired = {}

-----------------------------------------------------------------------------
(* Operations.  One that fails its guard returns an error and changes      *)
(* nothing, so only the successful outcome is an action.                   *)

Enqueue(j, max, to) ==
  /\ state[j] = "none"
  /\ to \in {"pending", "scheduled"}
  /\ state' = [state EXCEPT ![j] = to]
  /\ maxAttempts' = [maxAttempts EXCEPT ![j] = max]
  /\ UNCHANGED <<owner, attempt, expired>>

\* A claim consumes an attempt and starts a live lease.
Dequeue(w, j) ==
  /\ state[j] = "pending"
  /\ state' = [state EXCEPT ![j] = "active"]
  /\ owner' = [owner EXCEPT ![j] = w]
  /\ attempt' = [attempt EXCEPT ![j] = @ + 1]
  /\ UNCHANGED <<maxAttempts, expired>>

\* The lease ends and the job moves to state "to".
Leave(w, j, to) ==
  /\ Holds(w, j)
  /\ state' = [state EXCEPT ![j] = to]
  /\ owner' = [owner EXCEPT ![j] = NoOwner]
  /\ expired' = expired \ {j}
  /\ UNCHANGED <<attempt, maxAttempts>>

\* A completed envelope may be retained for a while or deleted at once.
Ack(w, j) == \E to \in {"completed", "gone"} : Leave(w, j, to)

Nack(w, j) == Leave(w, j, IF Exhausted(j) THEN "dead" ELSE "retry")

Kill(w, j) == Leave(w, j, "dead")

\* The jobs of the batch ids that w no longer holds are reported as lost.
Lost(w, ids) == {j \in ids : ~ Holds(w, j)}

Extend(w, ids) ==
  /\ expired' = expired \ (ids \ Lost(w, ids))
  /\ UNCHANGED <<state, owner, attempt, maxAttempts>>

\* Recovery of the orphans in ids: the exhausted ones are dead-lettered.
Reap(ids) ==
  /\ ids # {} /\ ids \subseteq expired
  /\ state' = [j \in Job |-> IF j \notin ids THEN state[j]
                             ELSE IF Exhausted(j) THEN "dead" ELSE "pending"]
  /\ owner' = [j \in Job |-> IF j \in ids THEN NoOwner ELSE owner[j]]
  /\ expired' = expired \ ids
  /\ UNCHANGED <<attempt, maxAttempts>>

Promote(ids) ==
  /\ ids # {} /\ \A j \in ids : state[j] \in {"scheduled", "retry"}
  /\ state' = [j \in Job |-> IF j \in ids THEN "pending" ELSE state[j]]
  /\ UNCHANGED <<owner, attempt, maxAttempts, expired>>

\* An operator replays dead-lettered jobs with a fresh budget.
RetryDead(ids) ==
  /\ ids # {} /\ \A j \in ids : state[j] = "dead"
  /\ state' = [j \in Job |-> IF j \in ids THEN "pending" ELSE state[j]]
  /\ attempt' = [j \in Job |-> IF j \in ids THEN 0 ELSE attempt[j]]
  /\ UNCHANGED <<owner, maxAttempts, expired>>

\* Envelopes disappear: PurgeDead, retention of completed jobs, eviction.
Remove(ids) ==
  /\ ids # {} /\ \A j \in ids : state[j] \notin {"none", "gone"}
  /\ state' = [j \in Job |-> IF j \in ids THEN "gone" ELSE state[j]]
  /\ owner' = [j \in Job |-> IF j \in ids THEN NoOwner ELSE owner[j]]
  /\ expired' = expired \ ids
  /\ UNCHANGED <<attempt, maxAttempts>>

\* Time passes the deadlines of the jobs in ids.
Lapse(ids) ==
  /\ ids # {} /\ \A j \in ids : state[j] = "active" /\ j \notin expired
  /\ expired' = expired \cup ids
  /\ UNCHANGED <<state, owner, attempt, maxAttempts>>

BrokerNext ==
  \/ \E j \in Job, max \in Budgets, to \in {"pending", "scheduled"} : Enqueue(j, max, to)
  \/ \E w \in Worker, j \in Job :
       Dequeue(w, j) \/ Ack(w, j) \/ Nack(w, j) \/ Kill(w, j)
  \/ \E w \in Worker, ids \in SUBSET Job : Extend(w, ids)
  \/ \E ids \in SUBSET Job :
       Reap(ids) \/ Promote(ids) \/ RetryDead(ids) \/ Remove(ids) \/ Lapse(ids)

BrokerSpec == BrokerInit /\ [][BrokerNext]_brokerVars

-----------------------------------------------------------------------------

\* A job waiting to run always has an attempt left, a claimed one is within
\* its budget, and only a claimed one has an owner: no path through retry,
\* orphan recovery or replay hands out more than MaxAttempts claims
\* (job.go Exhausted, consumed by dequeue.lua, nack.lua and reap.lua).
AttemptBudget ==
  \A j \in Job :
    /\ state[j] \in {"pending", "scheduled", "retry"} => attempt[j] < maxAttempts[j]
    /\ state[j] \in {"active", "dead", "completed"} => attempt[j] \in 1..maxAttempts[j]
    /\ state[j] = "active" <=> owner[j] # NoOwner

\* Every state change is an edge of the lifecycle graph (job.go CanTransition),
\* deletion of the envelope aside; in particular an active job is never
\* claimed again without first leaving the active state.
LegalTransitions ==
  [][\A j \in Job :
       /\ state'[j] \notin {state[j], "gone"} => CanTransition(state[j], state'[j])
       /\ state[j] = "active" /\ state'[j] = "active" =>
            owner'[j] = owner[j] /\ attempt'[j] = attempt[j]]_brokerVars
=============================================================================
