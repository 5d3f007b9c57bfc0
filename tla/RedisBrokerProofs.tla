------------------------- MODULE RedisBrokerProofs --------------------------
(***************************************************************************)
(* The theorems about the Redis broker.  IInv is inductive: the lemmas of  *)
(* the modules extended here show it script by script.  The safety         *)
(* properties and the refinement of the broker contract follow from it.    *)
(***************************************************************************)
EXTENDS RedisScriptProofs, Producer

\* The initial state satisfies the invariant.
LEMMA InitInv ==
  ASSUME JobsCount, Init
  PROVE  IInv
<1>1. ready \in [Queue -> Seq(Job)] /\ NoRepeats /\ \A q \in Queue : Range(ready[q]) = {}
  BY DEF Init, NoRepeats, IsInjective, Range
<1>2. TypeOK
  BY <1>1, RedisAssumption, Zenon DEF Init, TypeOK, ZSet, EmptyZSet
<1>3. Fresh
  BY Zenon DEF Init, Fresh, EmptyZSet
<1>4. Placement
  BY <1>1, Zenon DEF Init, Placement, Exists, NoStrays, EmptyZSet
<1>5. LeaseClock
  BY Zenon DEF Init, LeaseClock
<1>6. AttemptBudget
  BY Zenon DEF Init, AttemptBudget, Contract!AttemptBudget
<1>7. FailedCountsDead
  BY Zenon DEF Init, FailedCountsDead, JobsCount
<1>8. KeyWindows /\ UniqueWindow
  BY Zenon DEF Init, KeyWindows, UniqueWindow
<1> QED BY <1>2, <1>3, <1>4, <1>5, <1>6, <1>7, <1>8, Zenon DEF IInv

\* The queues a worker asks for are queues.
LEMMA OrderFacts ==
  ASSUME NEW order \in Orders
  PROVE  \A p \in DOMAIN order : order[p] \in Queue
<1>1. PICK Q \in SUBSET Queue : order \in Bijection(1..Cardinality(Q), Q)
  BY Zenon DEF Orders
<1>2. order \in [1..Cardinality(Q) -> Q]
  BY <1>1, Zenon DEF Bijection, Injection
<1> QED BY <1>2, Zenon

\* Every step of the broker preserves the invariant.
LEMMA NextInv ==
  ASSUME JobsCount, IInv, [Next]_vars
  PROVE  IInv'
<1>1. ASSUME NEW j \in Job, NEW q \in Queue, NEW max \in Budgets, NEW runAt \in 0..MaxTime,
             NEW key \in Key, NEW ttl \in UniqueTTLs, Enqueue(j, q, max, runAt, key, ttl)
      PROVE  IInv'
  BY <1>1, EnqueueInv, RedisAssumption, Zenon
<1>2. ASSUME NEW w \in Worker, NEW order \in Orders, NEW vt \in VisibilityTimeouts,
             Dequeue(w, order, vt)
      PROVE  IInv'
  <2>1. PICK p \in DOMAIN order, skip \in 0..(SkipLimit - 1) :
          Claim(w, order[p], {order[i] : i \in 1..(p - 1)}, skip, vt)
    BY <1>2, Zenon DEF Dequeue
  <2>2. order[p] \in Queue
    BY OrderFacts, Zenon
  <2> QED BY <2>1, <2>2, ClaimInv, Zenon
<1>3. ASSUME NEW order \in Orders, DequeueNone(order) PROVE IInv'
  BY <1>3, DequeueNoneInv, Zenon
<1>4. ASSUME NEW w \in Worker, NEW j \in Job, Ack(w, j) \/ Kill(w, j) PROVE IInv'
  BY <1>4, AckInv, DeadLetterInv, Zenon DEF Kill
<1>5. ASSUME NEW w \in Worker, NEW j \in Job, NEW retryAt \in 0..MaxTime, Nack(w, j, retryAt)
      PROVE  IInv'
  BY <1>5, NackInv, Zenon
<1>6. ASSUME NEW w \in Worker, NEW ids \in SUBSET Job, NEW vt \in VisibilityTimeouts,
             Extend(w, ids, vt)
      PROVE  IInv'
  BY <1>6, ExtendInv, Zenon
<1>7. ASSUME NEW q \in Queue, Reap(q) PROVE IInv'
  BY <1>7, RecoverInv, Zenon DEF Reap
<1>8. ASSUME Promote PROVE IInv'
  BY <1>8, ReleaseInv, Zenon DEF Promote
<1>9. ASSUME NEW j \in Job, Purge(j) PROVE IInv'
  BY <1>9, PurgeInv, Zenon
<1>10. ASSUME Tick PROVE IInv'
  BY <1>10, TickInv, Zenon
<1>11. ASSUME UNCHANGED vars PROVE IInv'
  <2>1. TypeOK' /\ Fresh' /\ LeaseClock' /\ FailedCountsDead' /\ KeyWindows' /\ UniqueWindow'
    BY <1>11, Zenon DEF IInv, vars, hash, TypeOK, Fresh, LeaseClock, FailedCountsDead, KeyWindows,
                 UniqueWindow
  <2>2. Placement' /\ AttemptBudget'
    BY <1>11, Zenon DEF IInv, vars, hash, Placement, InPlace, Exists, NoStrays, NoRepeats,
                 AttemptBudget, Contract!AttemptBudget
  <2> QED BY <2>1, <2>2, Zenon DEF IInv
<1> QED
  BY <1>1, <1>2, <1>3, <1>4, <1>5, <1>6, <1>7, <1>8, <1>9, <1>10, <1>11, Zenon DEF Next, Serve

\* A step that recovers a job ends an expired lease.
LEMMA RecoveryStep ==
  ASSUME IInv, [Next]_vars, NEW j \in Job, recoveries'[j] # recoveries[j]
  PROVE  state[j] = "active" /\ deadline[j] <= now
<1>1. PICK q \in Queue : Reap(q)
  <2> SUFFICES ASSUME ~ \E q \in Queue : Reap(q) PROVE recoveries' = recoveries
    BY Zenon
  <2>1. \A k, q, max, runAt, key, ttl :
          Enqueue(k, q, max, runAt, key, ttl) => recoveries' = recoveries
    BY DEF Enqueue
  <2>2. \A w, order, vt : Dequeue(w, order, vt) => recoveries' = recoveries
    BY DEF Dequeue, Claim
  <2>3. \A w, k, retryAt : Ack(w, k) \/ Nack(w, k, retryAt) \/ Kill(w, k) =>
          recoveries' = recoveries
    BY ZenonT(30) DEF Ack, Nack, Kill, DeadLetter, EndLease
  <2>4. \A w, ids, vt : Extend(w, ids, vt) => recoveries' = recoveries
    BY Zenon DEF Extend
  <2>5. \A order, k : DequeueNone(order) \/ Promote \/ Purge(k) \/ Tick => recoveries' = recoveries
    BY Zenon DEF DequeueNone, hash, Promote, Release, Purge, Tick
  <2>6. UNCHANGED vars => recoveries' = recoveries
    BY Zenon DEF vars, hash
  <2> QED BY <2>1, <2>2, <2>3, <2>4, <2>5, <2>6, Zenon DEF Next, Serve
<1>2. PICK batch \in DueBatches(active[q], ReapLimit) : Recover(q, batch)
  BY <1>1, Zenon DEF Reap
<1>3. j \in batch /\ Exists(j)
  BY <1>2, Zenon DEF Recover
<1>4. queue[j] = q /\ state[j] = "active" /\ active[q][j] <= now
  BY <1>3, OrphanFacts, Zenon DEF IInv
<1> QED BY <1>4, Zenon DEF IInv, LeaseClock

-----------------------------------------------------------------------------
(* The refinement, script by script.                                       *)

\* The expired leases, as Contract sees them.
Expired == {j \in Job : state[j] = "active" /\ deadline[j] <= now}

\* A step that is an operation of the contract or none.
Simulated == Contract!BrokerNext \/ UNCHANGED <<state, owner, attempt, maxAttempts, Expired>>

\* The initial states of the Redis broker are initial states of the contract.
LEMMA InitSim == Init => Contract!BrokerInit
  BY Zenon DEF Init, Contract!BrokerInit

\* Storing a job is Enqueue of the contract.
LEMMA EnqueueSim ==
  ASSUME IInv, NEW j \in Job, NEW q \in Queue, NEW max \in Budgets,
         NEW runAt \in 0..MaxTime, NEW key \in Key, NEW ttl \in Nat,
         Enqueue(j, q, max, runAt, key, ttl)
  PROVE  Simulated
<1>1. PICK to \in {"pending", "scheduled"} : state' = [state EXCEPT ![j] = to]
  BY Zenon DEF Enqueue
<1>2. /\ state[j] = "none" /\ maxAttempts' = [maxAttempts EXCEPT ![j] = max]
      /\ UNCHANGED <<owner, attempt, deadline, now>>
  BY Zenon DEF Enqueue
<1>3. \A k \in Job : state'[k] = "active" <=> state[k] = "active"
  BY <1>1, <1>2, Zenon DEF IInv, TypeOK
<1>4. Expired' = Expired
  BY <1>2, <1>3, Zenon DEF Expired
<1>5. Contract!Enqueue(j, max, to)
  BY <1>1, <1>2, <1>4, Zenon DEF Contract!Enqueue, Expired
<1> QED BY <1>5, Zenon DEF Simulated, Contract!BrokerNext

\* Claiming a job is Dequeue of the contract; its lease is not yet expired.
LEMMA ClaimSim ==
  ASSUME IInv, NEW w \in Worker, NEW q \in Queue, NEW passed,
         NEW skip \in 0..(SkipLimit - 1), NEW vt \in VisibilityTimeouts,
         Claim(w, q, passed, skip, vt)
  PROVE  Simulated
<1> SUFFICES ASSUME NEW j, j = ready[q][skip + 1] PROVE Simulated
  BY Zenon
<1>1. TypeOK /\ Placement
  BY Zenon DEF IInv
<1>2. j \in Job /\ j \in Range(ready[q])
  BY <1>1, ClaimReady, Zenon DEF LosesOnly, Placement
<1>3. /\ Exists(j)
      /\ state' = [state EXCEPT ![j] = "active"]
      /\ owner' = [owner EXCEPT ![j] = w]
      /\ attempt' = [attempt EXCEPT ![j] = @ + 1]
      /\ deadline' = [deadline EXCEPT ![j] = now + vt]
      /\ UNCHANGED <<maxAttempts, now>>
  BY Zenon DEF Claim
<1>4. queue[j] = q /\ state[j] = "pending"
  BY <1>1, <1>2, <1>3, Zenon DEF Placement, NoStrays, InPlace
<1>5. /\ \A k \in Job : state'[k] = IF k = j THEN "active" ELSE state[k]
      /\ \A k \in Job : deadline'[k] = IF k = j THEN now + vt ELSE deadline[k]
      /\ now \in Nat /\ vt \in Nat \ {0}
  BY <1>1, <1>2, <1>3, RedisAssumption, Zenon DEF TypeOK
<1>6. Expired' = Expired
  BY <1>3, <1>4, <1>5 DEF Expired
<1>7. Contract!Dequeue(w, j)
  BY <1>3, <1>4, <1>6, Zenon DEF Contract!Dequeue, Expired
<1> QED BY <1>2, <1>7, Zenon DEF Simulated, Contract!BrokerNext

\* Dropping a lease is Leave of the contract.
LEMMA LeaveSim ==
  ASSUME IInv, NEW w \in Worker, NEW j \in Job,
         NEW to \in {"completed", "gone", "retry", "dead"}, EndLease(w, j, to)
  PROVE  Contract!Leave(w, j, to)
<1>1. /\ state[j] = "active" /\ owner[j] = w
      /\ state' = [state EXCEPT ![j] = to]
      /\ owner' = [owner EXCEPT ![j] = NoOwner]
      /\ UNCHANGED <<attempt, maxAttempts, deadline, now>>
  BY Zenon DEF EndLease, Holds
<1>2. \A k \in Job : state'[k] = IF k = j THEN to ELSE state[k]
  BY <1>1, Zenon DEF IInv, TypeOK
<1>3. Expired' = Expired \ {j}
  BY <1>1, <1>2, Zenon DEF Expired
<1> QED BY <1>1, <1>3, Zenon DEF Contract!Leave, Contract!Holds, Expired

\* Ack, Nack and Kill are the operations of the contract of the same name.
LEMMA ReportSim ==
  ASSUME IInv, NEW w \in Worker, NEW j \in Job, NEW retryAt,
         Ack(w, j) \/ Nack(w, j, retryAt) \/ Kill(w, j)
  PROVE  Simulated
<1>1. CASE Ack(w, j)
  <2>1. PICK to \in {"completed", "gone"} : EndLease(w, j, to)
    BY <1>1, Zenon DEF Ack
  <2>2. Contract!Leave(w, j, to)
    BY <2>1, LeaveSim, Zenon
  <2> QED BY <2>2, Zenon DEF Contract!Ack, Simulated, Contract!BrokerNext
<1>2. CASE Kill(w, j)
  <2>1. Contract!Leave(w, j, "dead")
    BY <1>2, LeaveSim, Zenon DEF Kill, DeadLetter
  <2> QED BY <2>1, Zenon DEF Contract!Kill, Simulated, Contract!BrokerNext
<1>3. CASE Nack(w, j, retryAt)
  <2>1. Exhausted(j) => Contract!Leave(w, j, "dead")
    BY <1>3, LeaveSim, Zenon DEF Nack, DeadLetter
  <2>2. ~ Exhausted(j) => Contract!Leave(w, j, "retry")
    BY <1>3, LeaveSim, Zenon DEF Nack
  <2>3. Contract!Nack(w, j)
    <3>1. CASE Exhausted(j)
      BY <2>1, <3>1, Zenon DEF Contract!Nack, Contract!Leave, Contract!Exhausted, Exhausted
    <3>2. CASE ~ Exhausted(j)
      BY <2>2, <3>2, Zenon DEF Contract!Nack, Contract!Leave, Contract!Exhausted, Exhausted
    <3> QED BY <3>1, <3>2, Zenon
  <2> QED BY <2>3, Zenon DEF Simulated, Contract!BrokerNext
<1> QED BY <1>1, <1>2, <1>3, Zenon

\* Renewal is Extend of the contract: the renewed leases are expired no more.
LEMMA ExtendSim ==
  ASSUME IInv, NEW w \in Worker, NEW ids \in SUBSET Job, NEW vt \in VisibilityTimeouts,
         Extend(w, ids, vt)
  PROVE  Simulated
<1>1. /\ deadline' = [j \in Job |-> IF j \in ids /\ Holds(w, j) THEN now + vt ELSE deadline[j]]
      /\ UNCHANGED <<state, owner, attempt, maxAttempts, now>>
  BY Zenon DEF Extend
<1>2. now \in Nat /\ vt \in Nat \ {0} /\ ~ (now + vt <= now)
  BY RedisAssumption DEF IInv, TypeOK
<1>3. Expired' = Expired \ {j \in ids : Holds(w, j)}
  BY <1>1, <1>2, Zenon DEF Expired
<1>4. ids \ Contract!Lost(w, ids) = {j \in ids : Holds(w, j)}
  BY Zenon DEF Contract!Lost, Contract!Holds, Holds
<1>5. Contract!Extend(w, ids)
  BY <1>1, <1>3, <1>4, Zenon DEF Contract!Extend, Expired
<1> QED BY <1>5, Zenon DEF Simulated, Contract!BrokerNext

\* Reaping is Reap of the contract on the members of the batch that are still
\* stored, and invisible if there are none.
LEMMA RecoverSim ==
  ASSUME IInv, NEW q \in Queue, NEW batch \in DueBatches(active[q], ReapLimit),
         Recover(q, batch)
  PROVE  Simulated
<1> DEFINE orphans == {j \in batch : Exists(j)}
<1>1. TypeOK /\ Placement /\ LeaseClock
  BY Zenon DEF IInv
<1>2. \A j \in orphans : j \in Job /\ state[j] = "active" /\ deadline[j] <= now
  BY <1>1, OrphanFacts, Zenon DEF LeaseClock
<1>3. /\ owner' = [j \in Job |-> IF j \in orphans THEN NoOwner ELSE owner[j]]
      /\ state' = [j \in Job |-> IF j \in orphans /\ Exhausted(j) THEN "dead"
                                 ELSE IF j \in orphans THEN "pending" ELSE state[j]]
      /\ UNCHANGED <<attempt, maxAttempts, deadline, now>>
  BY Zenon DEF Recover
<1> HIDE DEF orphans
<1>4. Expired' = Expired \ orphans
  BY <1>3, Zenon DEF Expired
<1>5. CASE orphans = {}
  <2>1. state' = state /\ owner' = owner
    BY <1>1, <1>3, <1>5, Zenon DEF TypeOK
  <2> QED BY <1>3, <1>4, <1>5, <2>1, Zenon DEF Simulated
<1>6. CASE orphans # {}
  <2>1. orphans \in SUBSET Job /\ orphans \subseteq Expired
    BY <1>2, Zenon DEF Expired
  <2>2. state' = [j \in Job |-> IF j \notin orphans THEN state[j]
                                ELSE IF Exhausted(j) THEN "dead" ELSE "pending"]
    BY <1>3, Zenon
  <2>3. PICK ids \in SUBSET Job : ids = orphans
    BY <2>1, Zenon
  <2>4. Contract!Reap(ids)
    BY <1>3, <1>4, <1>6, <2>1, <2>2, <2>3,
    Zenon DEF Contract!Reap, Contract!Exhausted, Exhausted, Expired
  <2> QED BY <2>4, Zenon DEF Simulated, Contract!BrokerNext
<1> QED BY <1>5, <1>6, Zenon

\* Promotion is Promote of the contract on the members of the two batches that
\* are still stored, and invisible if there are none.
LEMMA ReleaseSim ==
  ASSUME IInv, NEW n, NEW m,
         NEW first \in DueBatches(delayed, n), NEW second \in DueBatches(retry, m),
         Release(first, second)
  PROVE  Simulated
<1> DEFINE moved == {j \in first \cup second : Exists(j)}
<1>1. TypeOK /\ Placement /\ AttemptBudget
  BY Zenon DEF IInv
<1>2. \A j \in moved : j \in Job /\ state[j] \in {"scheduled", "retry"}
  BY <1>1, ReleaseFacts, Zenon
<1>3. {j \in first : Exists(j)} \cup {j \in second : Exists(j)} = moved
  BY Zenon
<1>4. /\ state' = [j \in Job |-> IF j \in moved THEN "pending" ELSE state[j]]
      /\ owner' = [j \in Job |-> IF j \in moved THEN NoOwner ELSE owner[j]]
      /\ UNCHANGED <<attempt, maxAttempts, deadline, now>>
  BY <1>3, Zenon DEF Release
<1> HIDE DEF moved
<1>5. owner' = owner
  <2>1. \A j \in moved : owner[j] = NoOwner
    BY <1>1, <1>2, Zenon DEF AttemptBudget, Contract!AttemptBudget
  <2> QED BY <1>1, <1>4, <2>1, Zenon DEF TypeOK
<1>6. Expired' = Expired
  BY <1>2, <1>4, Zenon DEF Expired
<1>7. CASE moved = {}
  <2>1. state' = state
    BY <1>1, <1>4, <1>7, Zenon DEF TypeOK
  <2> QED BY <1>4, <1>5, <1>6, <2>1, Zenon DEF Simulated
<1>8. CASE moved # {}
  <2>1. moved \in SUBSET Job
    BY <1>2, Zenon
  <2>2. Contract!Promote(moved)
    BY <1>2, <1>4, <1>5, <1>6, <1>8, Zenon DEF Contract!Promote, Expired
  <2> QED BY <2>1, <2>2, Zenon DEF Simulated, Contract!BrokerNext
<1> QED BY <1>7, <1>8, Zenon

\* The loss of an envelope is Remove of the contract.
LEMMA PurgeSim ==
  ASSUME IInv, NEW j \in Job, Purge(j)
  PROVE  Simulated
<1>1. TypeOK
  BY Zenon DEF IInv
<1>2. state' = [k \in Job |-> IF k \in {j} THEN "gone" ELSE state[k]]
  BY <1>1, Zenon DEF Purge, TypeOK
<1>3. owner' = [k \in Job |-> IF k \in {j} THEN NoOwner ELSE owner[k]]
  BY <1>1, Zenon DEF Purge, TypeOK
<1>4. state[j] \notin {"none", "gone"} /\ UNCHANGED <<attempt, maxAttempts, deadline, now>>
  BY Zenon DEF Purge, Exists
<1>5. Expired' = Expired \ {j}
  BY <1>2, <1>4, Zenon DEF Expired
<1>6. Contract!Remove({j})
  BY <1>2, <1>3, <1>4, <1>5, Zenon DEF Contract!Remove, Expired
<1> QED BY <1>6, Zenon DEF Simulated, Contract!BrokerNext

\* A tick lapses the leases whose deadline it reaches.
LEMMA TickSim ==
  ASSUME IInv, Tick
  PROVE  Simulated
<1>1. now' = now + 1 /\ UNCHANGED <<state, owner, attempt, maxAttempts, deadline>>
  BY Zenon DEF Tick, hash
<1>2. now \in Nat /\ deadline \in [Job -> Nat]
  BY Zenon DEF IInv, TypeOK
<1>3. Expired \subseteq Expired' /\ Expired' \in SUBSET Job
  BY <1>1, <1>2 DEF Expired
<1> DEFINE late == Expired' \ Expired
<1>4. \A j \in late : j \in Job /\ state[j] = "active" /\ j \notin Expired
  BY <1>1, Zenon DEF Expired
<1>5. Expired' = Expired \cup late
  BY <1>3, Zenon
<1>6. PICK ids \in SUBSET Job : ids = late
  BY <1>3, Zenon
<1>7. ids # {} => Contract!Lapse(ids)
  BY <1>1, <1>4, <1>5, <1>6, Zenon DEF Contract!Lapse, Expired
<1>8. ids = {} => Expired' = Expired
  BY <1>3, <1>6, Zenon
<1> QED BY <1>1, <1>7, <1>8, Zenon DEF Simulated, Contract!BrokerNext

\* Every step of the Redis broker is a step of the contract, or none.
LEMMA NextSim == IInv /\ [Next]_vars => [Contract!BrokerNext]_(Contract!brokerVars)
<1> SUFFICES ASSUME IInv, [Next]_vars PROVE Simulated
  BY Zenon DEF Simulated, Contract!brokerVars, Expired
<1>1. ASSUME NEW j \in Job, NEW q \in Queue, NEW max \in Budgets, NEW runAt \in 0..MaxTime,
             NEW key \in Key, NEW ttl \in UniqueTTLs, Enqueue(j, q, max, runAt, key, ttl)
      PROVE  Simulated
  BY <1>1, EnqueueSim, RedisAssumption, Zenon
<1>2. ASSUME NEW w \in Worker, NEW order \in Orders, NEW vt \in VisibilityTimeouts,
             Dequeue(w, order, vt)
      PROVE  Simulated
  <2>1. PICK p \in DOMAIN order, skip \in 0..(SkipLimit - 1) :
          Claim(w, order[p], {order[i] : i \in 1..(p - 1)}, skip, vt)
    BY <1>2, Zenon DEF Dequeue
  <2>2. order[p] \in Queue
    BY OrderFacts, Zenon
  <2> QED BY <2>1, <2>2, ClaimSim, Zenon
<1>3. ASSUME NEW order \in Orders, DequeueNone(order) \/ UNCHANGED vars PROVE Simulated
  BY <1>3, Zenon DEF DequeueNone, vars, hash, Simulated, Expired
<1>4. ASSUME NEW w \in Worker, NEW j \in Job, NEW retryAt,
             Ack(w, j) \/ Nack(w, j, retryAt) \/ Kill(w, j)
      PROVE  Simulated
  BY <1>4, ReportSim, Zenon
<1>5. ASSUME NEW w \in Worker, NEW ids \in SUBSET Job, NEW vt \in VisibilityTimeouts,
             Extend(w, ids, vt)
      PROVE  Simulated
  BY <1>5, ExtendSim, Zenon
<1>6. ASSUME NEW q \in Queue, Reap(q) PROVE Simulated
  BY <1>6, RecoverSim, Zenon DEF Reap
<1>7. ASSUME Promote PROVE Simulated
  BY <1>7, ReleaseSim, Zenon DEF Promote
<1>8. ASSUME NEW j \in Job, Purge(j) \/ Tick PROVE Simulated
  BY <1>8, PurgeSim, TickSim, Zenon
<1>9. ASSUME Tick \/ UNCHANGED vars PROVE Simulated
  <2>1. CASE UNCHANGED vars
    BY <2>1, Zenon DEF vars, hash, Simulated, Expired
  <2> QED BY <1>9, <2>1, TickSim, Zenon
<1> QED BY <1>1, <1>2, <1>3, <1>4, <1>5, <1>6, <1>7, <1>8, <1>9, Zenon DEF Next, Serve

\* What LegalTransitions asks of one step.
LegalStep ==
  \A j \in Job :
    /\ state'[j] \notin {state[j], "gone"} => Contract!CanTransition(state[j], state'[j])
    /\ state[j] = "active" /\ state'[j] = "active" =>
         owner'[j] = owner[j] /\ attempt'[j] = attempt[j]

\* The edges of the lifecycle graph that the operations of the contract use.
LEMMA Edges ==
  /\ \A to \in {"pending", "scheduled"} : Contract!CanTransition("none", to)
  /\ \A to \in {"completed", "retry", "dead", "pending"} : Contract!CanTransition("active", to)
  /\ \A from \in {"scheduled", "retry", "dead"} : Contract!CanTransition(from, "pending")
  /\ Contract!CanTransition("pending", "active")
  BY DEF Contract!CanTransition, Contract!validTransitions

\* Every operation of the contract follows the lifecycle graph.
LEMMA OperationsLegal ==
  ASSUME TypeOK, Contract!BrokerNext
  PROVE  LegalStep
<1>1. /\ DOMAIN state = Job /\ DOMAIN owner = Job /\ DOMAIN attempt = Job
      /\ state = [j \in Job |-> state[j]] /\ owner = [j \in Job |-> owner[j]]
      /\ attempt = [j \in Job |-> attempt[j]]
  BY Zenon DEF TypeOK
<1>2. ASSUME NEW j \in Job, NEW max \in Budgets, NEW to \in {"pending", "scheduled"},
             Contract!Enqueue(j, max, to)
      PROVE  LegalStep
  BY <1>1, <1>2, Edges, Zenon DEF Contract!Enqueue, LegalStep
<1>3. ASSUME NEW w \in Worker, NEW j \in Job, Contract!Dequeue(w, j) PROVE LegalStep
  BY <1>1, <1>3, Edges, Zenon DEF Contract!Dequeue, LegalStep
<1>4. ASSUME NEW w \in Worker, NEW j \in Job,
             NEW to \in {"completed", "gone", "retry", "dead"}, Contract!Leave(w, j, to)
      PROVE  LegalStep
  BY <1>1, <1>4, Edges, Zenon DEF Contract!Leave, Contract!Holds, LegalStep
<1>5. ASSUME NEW w \in Worker, NEW j \in Job,
             Contract!Ack(w, j) \/ Contract!Nack(w, j) \/ Contract!Kill(w, j)
      PROVE  LegalStep
  <2>1. PICK to \in {"completed", "gone", "retry", "dead"} : Contract!Leave(w, j, to)
    BY <1>5, Zenon DEF Contract!Ack, Contract!Nack, Contract!Kill, Contract!Leave
  <2> QED BY <1>4, <2>1, Zenon
<1>6. ASSUME NEW w \in Worker, NEW ids \in SUBSET Job, Contract!Extend(w, ids)
      PROVE  LegalStep
  BY <1>6, Zenon DEF Contract!Extend, LegalStep
<1>7. ASSUME NEW ids \in SUBSET Job, Contract!Reap(ids) PROVE LegalStep
  BY <1>7, Edges, Zenon DEF Contract!Reap, LegalStep
<1>8. ASSUME NEW ids \in SUBSET Job, Contract!Promote(ids) \/ Contract!RetryDead(ids)
      PROVE  LegalStep
  BY <1>8, Edges, Zenon DEF Contract!Promote, Contract!RetryDead, LegalStep
<1>9. ASSUME NEW ids \in SUBSET Job, Contract!Remove(ids) \/ Contract!Lapse(ids)
      PROVE  LegalStep
  BY <1>9, Zenon DEF Contract!Remove, Contract!Lapse, LegalStep
<1> QED BY <1>2, <1>3, <1>5, <1>6, <1>7, <1>8, <1>9, Zenon DEF Contract!BrokerNext

-----------------------------------------------------------------------------
(* Producers, calling again after answers they never got.                  *)

\* A key that is held is held by a stored job, whose window it closes.
KeyTaken ==
  \A k \in Key : unique[k] > now =>
    \E j \in Job : /\ state[j] # "none" /\ window[j].key = k
                   /\ window[j].from <= now /\ window[j].until = unique[k]

\* The job a producer has made is stored, under its key and for its ttl.
OwnWindow ==
  \A p \in Producer, j \in Job : j \in made[p] =>
    /\ state[j] # "none"
    /\ ttlOf(p) > 0 => /\ window[j].key = UniqueKey[p]
                       /\ window[j].until = window[j].from + ttlOf(p)

\* The inductive invariant of the producers and the broker.
PInv ==
  /\ IInv
  /\ answer \in [Producer -> {"error", "ok", "duplicate"}]
  /\ made \in [Producer -> SUBSET Job]
  /\ KeyTaken /\ OwnWindow

\* The ttl that reaches the script is the one asked for.
LEMMA TTLFacts ==
  ASSUME NEW p \in Producer
  PROVE  /\ ttlOf(p) \in Nat
         /\ ttlOf(p) > 0 => UniqueKey[p] \in Key
         /\ UniqueKey[p] # NoKey => AskedTTL(p) = ttlOf(p)
<1>1. /\ UniqueTTL[p] \in Nat /\ UniqueKey[p] \in Key \cup {NoKey}
      /\ Milli \in Nat \ {0} /\ defaultUniqueTTL \in Nat \ {0}
  BY ProducerAssumption, Zenon
<1>2. UniqueTTL[p] \div Milli \in Nat
  BY <1>1, SMT
<1> QED BY <1>1, <1>2, SMT DEF ttlOf, AskedTTL

\* Whatever else happens, a stored job is never as if it had not been stored.
LEMMA StoredStays ==
  ASSUME IInv, Contract!BrokerNext \/ UNCHANGED state, NEW j \in Job, state[j] # "none"
  PROVE  state'[j] # "none"
<1>1. CASE UNCHANGED state
  BY <1>1, Zenon
<1>2. CASE Contract!BrokerNext
  <2>1. state'[j] \notin {state[j], "gone"} => Contract!CanTransition(state[j], state'[j])
    BY <1>2, OperationsLegal, Zenon DEF IInv, LegalStep
  <2>2. state[j] \in {"none", "scheduled", "retry", "pending", "active", "completed",
                      "dead", "gone"}
    BY Zenon DEF IInv, TypeOK
  <2>3. ~ Contract!CanTransition(state[j], "none")
    BY <2>2 DEF Contract!CanTransition, Contract!validTransitions
  <2> QED BY <2>1, <2>3, Zenon
<1> QED BY <1>1, <1>2, Zenon

\* Workers, maintenance and the clock leave the keys and their windows alone.
LEMMA ServeKeeps ==
  ASSUME IInv, Serve
  PROVE  UNCHANGED <<unique, window>> /\ now' \in {now, now + 1}
<1>1. ASSUME NEW w \in Worker, NEW j \in Job, NEW to, EndLease(w, j, to)
      PROVE  UNCHANGED <<unique, window, now>>
  BY <1>1, Zenon DEF EndLease
<1>2. ASSUME NEW w \in Worker, NEW j \in Job, NEW retryAt,
             Ack(w, j) \/ Nack(w, j, retryAt) \/ Kill(w, j)
      PROVE  UNCHANGED <<unique, window, now>>
  <2>1. \E to : EndLease(w, j, to)
    BY <1>2, Zenon DEF Ack, Nack, Kill, DeadLetter
  <2> QED BY <1>1, <2>1, Zenon
<1>3. ASSUME NEW w \in Worker, NEW order \in Orders, NEW vt, Dequeue(w, order, vt)
      PROVE  UNCHANGED <<unique, window, now>>
  BY <1>3, Zenon DEF Dequeue, Claim
<1>4. ASSUME NEW order, DequeueNone(order) PROVE UNCHANGED <<unique, window, now>>
  BY <1>4, Zenon DEF DequeueNone
<1>5. ASSUME NEW w, NEW ids, NEW vt, Extend(w, ids, vt) PROVE UNCHANGED <<unique, window, now>>
  BY <1>5, Zenon DEF Extend
<1>6. ASSUME NEW q, Reap(q) PROVE UNCHANGED <<unique, window, now>>
  BY <1>6, Zenon DEF Reap, Recover
<1>7. ASSUME Promote PROVE UNCHANGED <<unique, window, now>>
  BY <1>7, Zenon DEF Promote, Release
<1>8. ASSUME NEW j, Purge(j) PROVE UNCHANGED <<unique, window, now>>
  BY <1>8, Zenon DEF Purge
<1>9. ASSUME Tick PROVE UNCHANGED <<unique, window>> /\ now' = now + 1
  BY <1>9, Zenon DEF Tick
<1> QED BY <1>2, <1>3, <1>4, <1>5, <1>6, <1>7, <1>8, <1>9, Zenon DEF Serve

\* What stands about keys, windows and the jobs made survives any step that
\* leaves keys and windows alone.
LEMMA OthersKeep ==
  ASSUME PInv, IInv', Contract!BrokerNext \/ UNCHANGED state,
         UNCHANGED <<unique, window>>, now' \in {now, now + 1}, UNCHANGED made
  PROVE  KeyTaken' /\ OwnWindow'
<1>1. \A j \in Job : state[j] # "none" => state'[j] # "none"
  BY StoredStays, Zenon DEF PInv
<1>2. /\ now \in Nat /\ unique \in [Key -> Nat]
      /\ \A j \in Job : window[j].from \in Nat /\ window[j].until \in Nat
  BY Zenon DEF PInv, IInv, TypeOK
<1>3. KeyTaken'
  <2> SUFFICES ASSUME NEW k \in Key, unique[k] > now'
               PROVE  \E j \in Job : /\ state'[j] # "none" /\ window[j].key = k
                                     /\ window[j].from <= now' /\ window[j].until = unique[k]
    BY Zenon DEF KeyTaken
  <2>1. unique[k] > now
    BY <1>2
  <2>2. PICK j \in Job : /\ state[j] # "none" /\ window[j].key = k
                         /\ window[j].from <= now /\ window[j].until = unique[k]
    BY <2>1, Zenon DEF PInv, KeyTaken
  <2>3. window[j].from <= now'
    BY <1>2, <2>2
  <2> QED BY <1>1, <2>2, <2>3, Zenon
<1>4. OwnWindow'
  <2>1. OwnWindow
    BY Zenon DEF PInv
  <2> QED BY <1>1, <2>1, Zenon DEF OwnWindow, ttlOf
<1> QED BY <1>3, <1>4, Zenon

\* Accepted stores the job under the producer's key and for its ttl; the key is
\* held from then on.
LEMMA AcceptedInv ==
  ASSUME PInv, NEW p \in Producer, NEW j \in Job, NEW q \in Queue, NEW max \in Budgets,
         NEW runAt \in 0..MaxTime, Accepted(p, j, q, max, runAt)
  PROVE  PInv'
<1>1. PICK key \in Key : /\ UniqueKey[p] \in {key, NoKey}
                         /\ Enqueue(j, q, max, runAt, key, ttlOf(p))
  BY Zenon DEF Accepted
<1>2. PICK ttl \in Nat : ttl = ttlOf(p)
  BY TTLFacts, Zenon
<1>3. IInv /\ KeyTaken /\ OwnWindow /\ Enqueue(j, q, max, runAt, key, ttl)
  BY <1>1, <1>2, Zenon DEF PInv
<1>4. IInv'
  BY <1>3, EnqueueInv, Zenon
<1>5. /\ state[j] = "none" /\ UNCHANGED now
      /\ \E to \in {"pending", "scheduled"} : state' = [state EXCEPT ![j] = to]
  BY <1>3, Zenon DEF Enqueue
<1>6. \A k \in Job : /\ k # j => state'[k] = state[k]
                     /\ state'[j] # "none"
  <2>1. state \in [Job -> {"none", "scheduled", "retry", "pending", "active",
                           "completed", "dead", "gone"}]
    BY <1>3, Zenon DEF IInv, TypeOK
  <2> QED BY <1>5, <2>1, Zenon
<1>7. \A x \in Producer : made'[x] = IF x = p THEN made[p] \cup {j} ELSE made[x]
  BY Zenon DEF Accepted, PInv
<1>8. /\ answer' \in [Producer -> {"error", "ok", "duplicate"}]
      /\ made' \in [Producer -> SUBSET Job]
  <2>1. /\ answer \in [Producer -> {"error", "ok", "duplicate"}]
        /\ made \in [Producer -> SUBSET Job]
        /\ answer' \in {[answer EXCEPT ![p] = "ok"], answer}
        /\ made' = [made EXCEPT ![p] = @ \cup {j}]
    BY Zenon DEF PInv, Accepted, Call
  <2> QED BY <2>1, Zenon
<1>9. /\ unique \in [Key -> Nat] /\ now \in Nat
      /\ window \in [Job -> [key : Key \cup {NoKey}, from : Nat, until : Nat]]
  BY <1>3, Zenon DEF IInv, TypeOK
<1>10. \A x \in Producer : j \notin made[x]
  BY <1>3, <1>5, Zenon DEF OwnWindow
<1>11. KeyTaken'
  <2>1. CASE ttl = 0 /\ UNCHANGED <<unique, window>>
    <3>1. \A i \in Job : state[i] # "none" => state'[i] # "none"
      BY <1>5, <1>6, Zenon
    <3> QED BY <1>3, <1>5, <2>1, <3>1, Zenon DEF KeyTaken
  <2>2. CASE /\ unique' = [unique EXCEPT ![key] = now + ttl]
             /\ window' = [window EXCEPT ![j] = [key |-> key, from |-> now, until |-> now + ttl]]
    <3> SUFFICES ASSUME NEW k \in Key, unique'[k] > now
                 PROVE  \E i \in Job : /\ state'[i] # "none" /\ window'[i].key = k
                                       /\ window'[i].from <= now /\ window'[i].until = unique'[k]
      BY <1>5, Zenon DEF KeyTaken
    <3>1. CASE k = key
      <4>1. unique'[k] = now + ttl /\ window'[j] = [key |-> key, from |-> now, until |-> now + ttl]
        BY <1>9, <2>2, <3>1, Zenon
      <4>2. /\ state'[j] # "none" /\ window'[j].key = k
            /\ window'[j].from <= now /\ window'[j].until = unique'[k]
        BY <1>6, <1>9, <3>1, <4>1
      <4> QED BY <4>2, Zenon
    <3>2. CASE k # key
      <4>1. unique'[k] = unique[k]
        BY <1>9, <2>2, <3>2, Zenon
      <4>2. PICK i \in Job : /\ state[i] # "none" /\ window[i].key = k
                             /\ window[i].from <= now /\ window[i].until = unique[k]
        BY <1>3, <4>1, Zenon DEF KeyTaken
      <4>3. i # j /\ window'[i] = window[i] /\ state'[i] = state[i]
        BY <1>5, <1>6, <1>9, <2>2, <4>2, Zenon
      <4> QED BY <4>1, <4>2, <4>3, Zenon
    <3> QED BY <3>1, <3>2, Zenon
  <2> QED BY <1>3, <2>1, <2>2, Zenon DEF Enqueue
<1>12. OwnWindow'
  <2> SUFFICES ASSUME NEW x \in Producer, NEW i \in Job, i \in made'[x]
               PROVE  /\ state'[i] # "none"
                      /\ ttlOf(x) > 0 => /\ window'[i].key = UniqueKey[x]
                                         /\ window'[i].until = window'[i].from + ttlOf(x)
    BY Zenon DEF OwnWindow, ttlOf
  <2>1. CASE i = j
    <3>1. x = p /\ state'[i] # "none"
      BY <1>6, <1>7, <1>10, <2>1, Zenon
    <3>2. ASSUME ttl > 0
          PROVE  window'[j] = [key |-> key, from |-> now, until |-> now + ttl]
      <4>1. window' = [window EXCEPT ![j] = [key |-> key, from |-> now, until |-> now + ttl]]
        BY <1>3, <3>2 DEF Enqueue
      <4> QED BY <1>9, <4>1, Zenon
    <3>3. ttl > 0 => UniqueKey[p] = key
      BY <1>1, <1>2, TTLFacts, RedisAssumption, Zenon
    <3>4. ttl > 0 => window'[j].key = key /\ window'[j].until = window'[j].from + ttl
      BY <3>2, SMT
    <3> QED BY <1>2, <2>1, <3>1, <3>3, <3>4, Zenon
  <2>2. CASE i # j
    <3>1. i \in made[x] /\ state'[i] = state[i]
      BY <1>6, <1>7, <2>2, Zenon
    <3>2. window'[i] = window[i]
      BY <1>3, <1>9, <2>2, Zenon DEF Enqueue
    <3> QED BY <1>3, <3>1, <3>2, ZenonT(30) DEF OwnWindow
  <2> QED BY <2>1, <2>2, Zenon
<1> QED BY <1>4, <1>8, <1>11, <1>12, Zenon DEF PInv

\* The initial states of producers and broker satisfy it.
LEMMA ProducerStart ==
  ASSUME JobsCount, ProducerInit
  PROVE  PInv
<1>1. IInv
  BY InitInv, Zenon DEF ProducerInit
<1>2. KeyTaken
  BY DEF ProducerInit, Init, KeyTaken
<1>3. /\ answer \in [Producer -> {"error", "ok", "duplicate"}]
      /\ made \in [Producer -> SUBSET Job] /\ OwnWindow
  BY Zenon DEF ProducerInit, OwnWindow
<1> QED BY <1>1, <1>2, <1>3, Zenon DEF PInv

\* Every step of a producer or of the broker preserves the invariant.
LEMMA ProducerStep ==
  ASSUME JobsCount, PInv, [ProducerNext]_<<vars, prodVars>>
  PROVE  PInv'
<1>1. ASSUME NEW p \in Producer, NEW j \in Job, NEW q \in Queue, NEW max \in Budgets,
             NEW runAt \in 0..MaxTime, Accepted(p, j, q, max, runAt)
      PROVE  PInv'
  BY <1>1, AcceptedInv, Zenon
<1>2. ASSUME UNCHANGED vars, UNCHANGED made PROVE IInv' /\ KeyTaken' /\ OwnWindow'
  <2>1. IInv'
    BY <1>2, NextInv, Zenon DEF PInv
  <2>2. UNCHANGED <<state, unique, window, now>>
    BY <1>2, Zenon DEF vars, hash
  <2> QED BY <1>2, <2>1, <2>2, OthersKeep, Zenon
<1>3. ASSUME NEW p \in Producer, Refused(p) PROVE PInv'
  <2>1. /\ UNCHANGED vars /\ UNCHANGED made
        /\ answer' \in {[answer EXCEPT ![p] = "duplicate"], answer}
    BY <1>3, Zenon DEF Refused, Call
  <2>2. answer' \in [Producer -> {"error", "ok", "duplicate"}]
    BY <2>1, Zenon DEF PInv
  <2> QED BY <1>2, <2>1, <2>2, Zenon DEF PInv
<1>4. ASSUME Serve, UNCHANGED prodVars PROVE PInv'
  <2>1. IInv /\ [Next]_vars /\ UNCHANGED <<answer, made>>
    BY <1>4, Zenon DEF PInv, Next, prodVars
  <2>2. IInv' /\ UNCHANGED <<unique, window>> /\ now' \in {now, now + 1}
    BY <1>4, <2>1, NextInv, ServeKeeps, Zenon
  <2>3. Contract!BrokerNext \/ UNCHANGED state
    BY <2>1, NextSim, Zenon DEF Contract!brokerVars
  <2>4. KeyTaken' /\ OwnWindow'
    BY <2>1, <2>2, <2>3, OthersKeep, Zenon
  <2> QED BY <2>1, <2>2, <2>4, Zenon DEF PInv
<1>5. ASSUME UNCHANGED <<vars, prodVars>> PROVE PInv'
  BY <1>2, <1>5, Zenon DEF PInv, prodVars
<1> QED BY <1>1, <1>3, <1>4, <1>5, Zenon DEF ProducerNext

\* The jobs of one producer are stored a whole ttl apart.
LEMMA WindowsApart == PInv => OncePerWindow
<1> SUFFICES ASSUME PInv, NEW p \in Producer, UniqueKey[p] # NoKey,
                    NEW j \in made[p], NEW k \in made[p], j # k
             PROVE  \/ window[j].from + AskedTTL(p) <= window[k].from
                    \/ window[k].from + AskedTTL(p) <= window[j].from
  BY Zenon DEF OncePerWindow
<1>1. j \in Job /\ k \in Job /\ OwnWindow /\ IInv /\ UniqueWindow
  BY Zenon DEF PInv, IInv
<1>2. /\ window[j].from \in Nat /\ window[k].from \in Nat
  BY <1>1, Zenon DEF IInv, TypeOK
<1>3. AskedTTL(p) = ttlOf(p) /\ ttlOf(p) \in Nat
  BY TTLFacts, Zenon
<1>4. CASE ttlOf(p) = 0
  BY <1>2, <1>3, <1>4
<1>5. CASE ttlOf(p) > 0
  <2>1. /\ window[j].key = UniqueKey[p] /\ window[j].until = window[j].from + ttlOf(p)
        /\ window[k].key = UniqueKey[p] /\ window[k].until = window[k].from + ttlOf(p)
    BY <1>1, <1>5, Zenon DEF OwnWindow
  <2>2. window[j].until <= window[k].from \/ window[k].until <= window[j].from
    BY <1>1, <2>1, Zenon DEF UniqueWindow
  <2> QED BY <1>3, <2>1, <2>2, Zenon
<1> QED BY <1>3, <1>4, <1>5

\* What AnswerHolds asks of one step.
AnswerStep ==
  \A p \in Producer :
    /\ answer[p] # "ok" /\ answer'[p] = "ok" => made'[p] # made[p]
    /\ answer[p] # "duplicate" /\ answer'[p] = "duplicate" =>
         \E j \in Job : /\ state[j] # "none" /\ window[j].key = UniqueKey[p]
                        /\ window[j].from <= now /\ now < window[j].until

\* A step that gives an answer gives a true one.
LEMMA AnswerGiven == PInv /\ [ProducerNext]_<<vars, prodVars>> => [AnswerStep]_<<vars, prodVars>>
<1> SUFFICES ASSUME PInv, ProducerNext, NEW p \in Producer
             PROVE  /\ answer[p] # "ok" /\ answer'[p] = "ok" => made'[p] # made[p]
                    /\ answer[p] # "duplicate" /\ answer'[p] = "duplicate" =>
                         \E j \in Job : /\ state[j] # "none" /\ window[j].key = UniqueKey[p]
                                        /\ window[j].from <= now /\ now < window[j].until
  BY Zenon DEF AnswerStep
<1>0. /\ answer \in [Producer -> {"error", "ok", "duplicate"}]
      /\ made \in [Producer -> SUBSET Job] /\ OwnWindow /\ KeyTaken
  BY Zenon DEF PInv
<1>1. ASSUME NEW x \in Producer, NEW j \in Job, NEW q \in Queue, NEW max \in Budgets,
             NEW runAt \in 0..MaxTime, Accepted(x, j, q, max, runAt)
      PROVE  /\ answer[p] # "ok" /\ answer'[p] = "ok" => made'[p] # made[p]
             /\ ~ (answer[p] # "duplicate" /\ answer'[p] = "duplicate")
  <2>1. /\ answer' \in {[answer EXCEPT ![x] = "ok"], answer}
        /\ made' = [made EXCEPT ![x] = @ \cup {j}]
        /\ state[j] = "none"
    BY <1>1, Zenon DEF Accepted, Call, Enqueue
  <2>2. j \notin made[x]
    BY <1>0, <2>1, Zenon DEF OwnWindow
  <2>3. made'[x] # made[x]
    BY <1>0, <2>1, <2>2, Zenon
  <2>4. answer'[p] # answer[p] => p = x /\ answer'[p] = "ok"
    BY <1>0, <2>1, Zenon
  <2> QED BY <2>3, <2>4, Zenon
<1>2. ASSUME NEW x \in Producer, Refused(x)
      PROVE  /\ ~ (answer[p] # "ok" /\ answer'[p] = "ok")
             /\ answer[p] # "duplicate" /\ answer'[p] = "duplicate" =>
                  \E j \in Job : /\ state[j] # "none" /\ window[j].key = UniqueKey[p]
                                 /\ window[j].from <= now /\ now < window[j].until
  <2>1. /\ answer' \in {[answer EXCEPT ![x] = "duplicate"], answer}
        /\ ttlOf(x) > 0 /\ unique[UniqueKey[x]] > now
    BY <1>2, Zenon DEF Refused, Call
  <2>2. answer'[p] # answer[p] => p = x /\ answer'[p] = "duplicate"
    BY <1>0, <2>1, Zenon
  <2>3. UniqueKey[x] \in Key
    BY <2>1, TTLFacts, Zenon
  <2>4. PICK j \in Job : /\ state[j] # "none" /\ window[j].key = UniqueKey[x]
                         /\ window[j].from <= now /\ window[j].until = unique[UniqueKey[x]]
    BY <1>0, <2>1, <2>3, Zenon DEF KeyTaken
  <2>5. now \in Nat /\ unique[UniqueKey[x]] \in Nat
    BY <2>3, Zenon DEF PInv, IInv, TypeOK
  <2>6. now < window[j].until
    BY <2>1, <2>4, <2>5, Zenon
  <2> QED BY <2>2, <2>4, <2>6, Zenon
<1>3. ASSUME UNCHANGED prodVars
      PROVE  answer' = answer
  BY <1>3, Zenon DEF prodVars
<1> QED BY <1>1, <1>2, <1>3, Zenon DEF ProducerNext

-----------------------------------------------------------------------------
(* The theorems.                                                           *)

INSTANCE FiniteSetTheorems

\* There are finitely many jobs.
LEMMA JobsCounted == JobsCount
<1>1. ASSUME NEW S \in SUBSET Job
      PROVE  IsFiniteSet(S) /\ Cardinality(S) \in Nat
  <2>1. IsFiniteSet(S)
    BY FS_Subset, RedisAssumption, Zenon
  <2> QED BY <2>1, FS_CardinalityType, Zenon
<1>2. ASSUME NEW S \in SUBSET Job, NEW j \in Job \ S
      PROVE  Cardinality(S \cup {j}) = Cardinality(S) + 1
  BY <1>1, FS_AddElement, Zenon
<1>3. ASSUME NEW S \in SUBSET Job, NEW T \in SUBSET Job, S \cap T = {}
      PROVE  Cardinality(S \cup T) = Cardinality(S) + Cardinality(T)
  <2>1. /\ Cardinality(S \cup T) = Cardinality(S) + Cardinality(T) - Cardinality(S \cap T)
        /\ Cardinality(S \cap T) = 0
    BY <1>1, <1>3, FS_Union, FS_EmptySet, Zenon
  <2>2. Cardinality(S) \in Nat /\ Cardinality(T) \in Nat
    BY <1>1, Zenon
  <2> QED BY <2>1, <2>2
<1>4. Cardinality({}) = 0
  BY FS_EmptySet, Zenon
<1> QED BY <1>1, <1>2, <1>3, <1>4, Zenon DEF JobsCount

\* The invariant holds in every reachable state.
THEOREM Invariance == Spec => []IInv
<1>1. Init => IInv
  BY InitInv, JobsCounted, Zenon
<1>2. IInv /\ [Next]_vars => IInv'
  BY NextInv, JobsCounted, Zenon
<1> QED BY <1>1, <1>2, PTL DEF Spec

\* Every variable of the Redis broker keeps its type.
THEOREM TypeCorrect == Spec => []TypeOK
<1>1. IInv => TypeOK
  BY Zenon DEF IInv
<1> QED BY <1>1, Invariance, PTL

\* No interleaving of the scripts loses a job or puts it in two places.
THEOREM PlacementSafe == Spec => []Placement
<1>1. IInv => Placement
  BY Zenon DEF IInv
<1> QED BY <1>1, Invariance, PTL

\* No path through claims, retries and recoveries exceeds MaxAttempts.
THEOREM BudgetSafe == Spec => []AttemptBudget
<1>1. IInv => AttemptBudget
  BY Zenon DEF IInv
<1> QED BY <1>1, Invariance, PTL

\* The failed counter is the number of dead-lettered jobs.
THEOREM FailuresCounted == Spec => []FailedCountsDead
<1>1. IInv => FailedCountsDead
  BY Zenon DEF IInv
<1> QED BY <1>1, Invariance, PTL

\* The windows of two jobs accepted under one unique key do not overlap.
THEOREM Deduplication == Spec => []UniqueWindow
<1>1. IInv => UniqueWindow
  BY Zenon DEF IInv
<1> QED BY <1>1, Invariance, PTL

\* No lease is recovered before the deadline its holder was told.
THEOREM RecoveryTimely == Spec => NoEarlyRecovery
<1>1. IInv /\ [Next]_vars =>
        [\A j \in Job : recoveries'[j] # recoveries[j] =>
           state[j] = "active" /\ deadline[j] <= now]_vars
  BY RecoveryStep, Zenon
<1> QED BY <1>1, Invariance, PTL DEF Spec, NoEarlyRecovery

\* The Redis broker implements the broker contract of broker.go.
THEOREM RedisImplements == Spec => ImplementsContract
  BY InitSim, NextSim, Invariance, PTL DEF Spec, ImplementsContract, Contract!BrokerSpec

\* The scripts of the Redis broker follow the lifecycle graph of job.go.
THEOREM RedisTransitions == Spec => LegalTransitions
<1>1. IInv /\ [Contract!BrokerNext]_(Contract!brokerVars) => [LegalStep]_(Contract!brokerVars)
  BY OperationsLegal, Zenon DEF IInv
<1>2. IInv /\ [Next]_vars => [LegalStep]_(Contract!brokerVars)
  BY <1>1, NextSim, Zenon
<1> QED BY <1>2, Invariance, PTL DEF Spec, LegalTransitions, Contract!LegalTransitions, LegalStep

\* The invariant holds in every state of producers in front of the broker.
THEOREM ProducerInvariance == ProducerSpec => []PInv
<1>1. ProducerInit => PInv
  BY ProducerStart, JobsCounted, Zenon
<1>2. PInv /\ [ProducerNext]_<<vars, prodVars>> => PInv'
  BY ProducerStep, JobsCounted, Zenon
<1> QED BY <1>1, <1>2, PTL DEF ProducerSpec

\* However often a producer repeats a call whose answer was lost, the jobs it
\* stores under its unique key are a whole ttl apart, for any number of
\* producers, keys and ttls (client.go, Enqueue and Unique; enqueue.lua).
THEOREM CollapsedDuplicates == ProducerSpec => []OncePerWindow
  BY WindowsApart, ProducerInvariance, PTL

\* An answer can be relied on: "ok" is given only by the call that stored the
\* job, ErrDuplicate only while a stored job keeps the key's window open
\* (client.go, Enqueue; broker.go, ErrDuplicate).
THEOREM AnswersReliable == ProducerSpec => AnswerHolds
  BY AnswerGiven, ProducerInvariance, PTL DEF ProducerSpec, AnswerHolds, AnswerStep
=============================================================================
