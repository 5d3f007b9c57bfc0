---------------------------- MODULE MemoryBroker ----------------------------
(***************************************************************************)
(* The in-process broker of internal/memory.  One mutex guards every       *)
(* operation, so every operation is one action.  A map from IDs to times   *)
(* is a set of TimedSets; the dead-letter list is a list of IDs, oldest    *)
(* first.  Unlike the Redis broker it implements the operator's side, the  *)
(* Inspector, and it can be closed.                                        *)
(***************************************************************************)
EXTENDS Sequences, TimedSets

CONSTANTS
  Queue, Worker, Key,
  NoOwner, NoQueue, NoKey, \* the empty string in the fields of these types
  Budgets,             \* values of MaxAttempts in use
  VisibilityTimeouts,  \* lease lengths in use, in ticks
  UniqueTTLs,          \* unique TTLs in use, in ticks; 0: no unique key
  ReapLimit, PromoteLimit,
  MaxIDs,              \* bound on the IDs an operator names in one call
  MaxReplayed,         \* bound on the failures after which operators still replay
  MaxTime              \* bound on the clock

ASSUME MemoryAssumption ==
  /\ Job \subseteq Nat /\ IsFiniteSet(Job) /\ IsFiniteSet(Queue)
  /\ NoOwner \notin Worker /\ NoQueue \notin Queue /\ NoKey \notin Key
  /\ Budgets \cup VisibilityTimeouts \cup {ReapLimit, PromoteLimit} \subseteq Nat \ {0}
  /\ UniqueTTLs \cup {MaxIDs, MaxReplayed, MaxTime} \subseteq Nat

VARIABLES
  state, owner, attempt, maxAttempts, queue, recoveries, deadline, \* jobs
  pending,     \* IDs waiting in each queue, head is next to claim
  active,      \* deadlines of the leased jobs
  scheduled, retry,
  dead,        \* dead-letter list
  unique,      \* when each unique key expires
  window,      \* history: for which key, from when and until when a job was unique
  processed, failed, closed,
  repeated     \* history: an operator's call has replayed a job twice

jobs == <<state, owner, attempt, maxAttempts, queue, recoveries, deadline>>
counters == <<processed, failed>>
mode == <<closed, repeated>>
vars == <<jobs, pending, active, scheduled, retry, dead, unique, window, counters,
          mode, now>>

Exists(j) == state[j] \notin {"none", "gone"}
Exhausted(j) == attempt[j] >= maxAttempts[j]

\* Mutant: any worker may report for an active job.
ownedActive_Unfenced(w, j) == state[j] = "active"

ownedActive(w, j) == state[j] = "active" /\ owner[j] = w

Init ==
  /\ state = [j \in Job |-> "none"]
  /\ owner = [j \in Job |-> NoOwner]
  /\ attempt = [j \in Job |-> 0]
  /\ maxAttempts = [j \in Job |-> 0]
  /\ queue = [j \in Job |-> NoQueue]
  /\ recoveries = [j \in Job |-> 0]
  /\ deadline = [j \in Job |-> 0]
  /\ pending = [q \in Queue |-> <<>>]
  /\ active = EmptyZSet /\ scheduled = EmptyZSet /\ retry = EmptyZSet
  /\ dead = <<>>
  /\ unique = [k \in Key |-> 0]
  /\ window = [j \in Job |-> [key |-> NoKey, from |-> 0, until |-> 0]]
  /\ processed = 0 /\ failed = 0 /\ now = 0
  /\ closed = FALSE /\ repeated = FALSE

\* The elements of s at the positions in P, and those that belong to S, in the
\* order of s.
Rank(P, i) == Cardinality({k \in P : k <= i})
Sublist(s, P) == [n \in 1..Cardinality(P) |-> s[CHOOSE i \in P : Rank(P, i) = n]]
Only(s, S) == Sublist(s, {i \in DOMAIN s : s[i] \in S})

ofQueue(q) == {j \in Job : queue[j] = q}

\* The due members of z a scan with limit n processes: it stops once it has
\* handled n stored jobs.
Batch(z, n) ==
  {j \in Due(z) : Cardinality({k \in Due(z) : Exists(k) /\ Before(z, k, j)}) < n}

-----------------------------------------------------------------------------
(* Broker.                                                                 *)

\* Mutant: the key is taken to be free one tick before it expires.
TakeUnique_Early(j, key, ttl) ==
  \/ ttl = 0 /\ UNCHANGED <<unique, window>>
  \/ /\ ttl > 0 /\ unique[key] <= now + 1
     /\ unique' = [unique EXCEPT ![key] = now + ttl]
     /\ window' = [window EXCEPT ![j] = [key |-> key, from |-> now, until |-> now + ttl]]

TakeUnique(j, key, ttl) ==
  \/ ttl = 0 /\ UNCHANGED <<unique, window>>
  \/ /\ ttl > 0 /\ unique[key] <= now
     /\ unique' = [unique EXCEPT ![key] = now + ttl]
     /\ window' = [window EXCEPT ![j] = [key |-> key, from |-> now, until |-> now + ttl]]

Enqueue(j, q, max, runAt, key, ttl) ==
  /\ ~ closed
  /\ state[j] = "none"
  /\ TakeUnique(j, key, ttl)
  /\ queue' = [queue EXCEPT ![j] = q]
  /\ maxAttempts' = [maxAttempts EXCEPT ![j] = max]
  /\ \/ /\ runAt > now
        /\ state' = [state EXCEPT ![j] = "scheduled"]
        /\ scheduled' = [scheduled EXCEPT ![j] = runAt]
        /\ UNCHANGED pending
     \/ /\ runAt <= now
        /\ state' = [state EXCEPT ![j] = "pending"]
        /\ pending' = [pending EXCEPT ![q] = Append(@, j)]
        /\ UNCHANGED scheduled
  /\ UNCHANGED <<owner, attempt, recoveries, deadline, active, retry, dead, counters,
                 mode, now>>

\* Nothing to claim at the head of the queue: it is empty or a dangling ID.
Barren(q) == pending[q] # <<>> => ~ Exists(Head(pending[q]))
\* Mutant: two IDs are popped.
Popped_Two(q) == SubSeq(pending[q], 3, Len(pending[q]))
Popped(q) == IF pending[q] = <<>> THEN <<>> ELSE Tail(pending[q])

\* Claim the head of the first queue that has one, dropping one dangling ID
\* from each queue before it.
Dequeue(w, order, vt) ==
  \E p \in DOMAIN order :
    LET passed == {order[i] : i \in 1..(p - 1)}
        j == Head(pending[order[p]])
    IN  /\ ~ closed
        /\ \A q \in passed : Barren(q)
        /\ ~ Barren(order[p]) /\ pending[order[p]] # <<>>
        /\ pending' = [q \in Queue |-> IF q \in passed \cup {order[p]} THEN Popped(q)
                                       ELSE pending[q]]
        /\ state' = [state EXCEPT ![j] = "active"]
        /\ owner' = [owner EXCEPT ![j] = w]
        /\ attempt' = [attempt EXCEPT ![j] = @ + 1]
        /\ deadline' = [deadline EXCEPT ![j] = now + vt]
        /\ active' = [active EXCEPT ![j] = now + vt]
        /\ UNCHANGED <<maxAttempts, queue, recoveries, scheduled, retry, dead, unique,
                       window, counters, mode, now>>

\* The claim that finds no job may still have dropped dangling IDs.
DequeueNone(order) ==
  /\ ~ closed
  /\ \A q \in Range(order) : Barren(q)
  /\ \E q \in Range(order) : pending[q] # <<>>
  /\ pending' = [q \in Queue |-> IF q \in Range(order) THEN Popped(q) ELSE pending[q]]
  /\ UNCHANGED <<jobs, active, scheduled, retry, dead, unique, window, counters, mode, now>>

\* What the fenced operations share: the lease is dropped, the job becomes "to".
EndLease(w, j, to) ==
  /\ ~ closed
  /\ ownedActive(w, j)
  /\ active' = ZRem(active, {j})
  /\ state' = [state EXCEPT ![j] = to]
  /\ owner' = [owner EXCEPT ![j] = NoOwner]
  /\ UNCHANGED <<attempt, maxAttempts, queue, recoveries, deadline, pending, scheduled,
                 unique, window, mode, now>>

Ack(w, j) ==
  /\ EndLease(w, j, "gone")
  /\ processed' = processed + 1
  /\ UNCHANGED <<retry, dead, failed>>

moveToDead(s) ==
  /\ dead' = dead \o s
  /\ failed' = failed + Len(s)
  /\ UNCHANGED processed

Nack(w, j, retryAt) ==
  \/ /\ Exhausted(j)
     /\ EndLease(w, j, "dead") /\ moveToDead(<<j>>)
     /\ UNCHANGED retry
  \/ /\ ~ Exhausted(j)
     /\ EndLease(w, j, "retry")
     /\ retry' = [retry EXCEPT ![j] = retryAt]
     /\ UNCHANGED <<dead, counters>>

Kill(w, j) == EndLease(w, j, "dead") /\ moveToDead(<<j>>) /\ UNCHANGED retry

\* Mutant: the envelope is renewed, the map the reaper reads is not.
Extend_JobOnly(w, ids, vt) ==
  LET held == {j \in ids : ownedActive(w, j)}
  IN  /\ ~ closed
      /\ held # {}
      /\ deadline' = [j \in Job |-> IF j \in held THEN now + vt ELSE deadline[j]]
      /\ UNCHANGED <<state, owner, attempt, maxAttempts, queue, recoveries, pending, active,
                     scheduled, retry, dead, unique, window, counters, mode, now>>

\* The jobs of the batch that are not renewed are returned as lost.
Extend(w, ids, vt) ==
  LET held == {j \in ids : ownedActive(w, j)}
  IN  /\ ~ closed
      /\ held # {}
      /\ deadline' = [j \in Job |-> IF j \in held THEN now + vt ELSE deadline[j]]
      /\ active' = [j \in Job |-> IF j \in held THEN now + vt ELSE active[j]]
      /\ UNCHANGED <<state, owner, attempt, maxAttempts, queue, recoveries, pending,
                     scheduled, retry, dead, unique, window, counters, mode, now>>

Close ==
  /\ closed' = TRUE
  /\ UNCHANGED <<repeated, jobs, pending, active, scheduled, retry, dead, unique, window, counters, now>>

-----------------------------------------------------------------------------
(* Maintenance.                                                            *)

\* Recover up to ReapLimit expired leases of the queues in want, of all
\* queues if want is empty.  Each recovered job is put at the head of its
\* queue in turn, so the one that expired first ends up last.
Reap(want) ==
  LET z == [j \in Job |-> IF Exists(j) /\ (want = {} \/ queue[j] \in want)
                          THEN active[j] ELSE NoScore]
      batch == Batch(z, ReapLimit)
      spent == {j \in batch : Exhausted(j)}
      back == batch \ spent
  IN  /\ ~ closed
      /\ batch # {}
      /\ active' = ZRem(active, batch)
      /\ recoveries' = [j \in Job |-> IF j \in batch THEN recoveries[j] + 1
                                      ELSE recoveries[j]]
      /\ owner' = [j \in Job |-> IF j \in batch THEN NoOwner ELSE owner[j]]
      /\ state' = [j \in Job |-> IF j \in spent THEN "dead"
                                 ELSE IF j \in back THEN "pending" ELSE state[j]]
      /\ \E s \in Ascending(z, spent) : moveToDead(s)
      /\ \E s \in Descending(z, back) :
           pending' = [q \in Queue |-> Only(s, ofQueue(q)) \o pending[q]]
      /\ UNCHANGED <<attempt, maxAttempts, queue, deadline, scheduled, retry, unique,
                     window, mode, now>>

\* Release the scheduled jobs and the retries that are due, whichever first.
Promote ==
  LET at == [j \in Job |-> IF scheduled[j] # NoScore THEN scheduled[j] ELSE retry[j]]
      batch == Batch(at, PromoteLimit)
      ripe == {j \in batch : Exists(j)}
  IN  /\ ~ closed
      /\ batch # {}
      /\ scheduled' = ZRem(scheduled, batch)
      /\ retry' = ZRem(retry, batch)
      /\ state' = [j \in Job |-> IF j \in ripe THEN "pending" ELSE state[j]]
      /\ \E s \in Ascending(at, ripe) :
           pending' = [q \in Queue |-> pending[q] \o Only(s, ofQueue(q))]
      /\ UNCHANGED <<owner, attempt, maxAttempts, queue, recoveries, deadline, active,
                     dead, unique, window, counters, mode, now>>

-----------------------------------------------------------------------------
(* Inspector.                                                              *)

\* The dead jobs an operator's list of IDs selects; no IDs means all.  An ID
\* named twice is selected twice.
selectDead(ids) ==
  Only(IF ids = <<>> THEN dead ELSE ids, {j \in Range(dead) : Exists(j)})

\* Mutant: the IDs stay in the list.
removeDead_Keeps(times) == dead

\* The dead-letter list once the first occurrence of each job j has been removed
\* times[j] times.
removeDead(times) ==
  Sublist(dead, {i \in DOMAIN dead :
                   Cardinality({k \in 1..i : dead[k] = dead[i]}) > times[dead[i]]})

RetryDead(ids) ==
  LET selected == selectDead(ids)
      replayed == Range(selected)
  IN  /\ ~ closed
      /\ selected # <<>> /\ failed <= MaxReplayed
      /\ state' = [j \in Job |-> IF j \in replayed THEN "pending" ELSE state[j]]
      /\ attempt' = [j \in Job |-> IF j \in replayed THEN 0 ELSE attempt[j]]
      /\ recoveries' = [j \in Job |-> IF j \in replayed THEN 0 ELSE recoveries[j]]
      /\ owner' = [j \in Job |-> IF j \in replayed THEN NoOwner ELSE owner[j]]
      /\ pending' = [q \in Queue |-> pending[q] \o Only(selected, ofQueue(q))]
      /\ repeated' = (repeated \/ ~ IsInjective(selected))
      /\ dead' = removeDead([j \in Job |-> Cardinality({i \in DOMAIN selected : selected[i] = j})])
      /\ UNCHANGED <<maxAttempts, queue, deadline, active, scheduled, retry, unique,
                     window, counters, closed, now>>

\* The envelope of an ID named twice is gone the second time.
PurgeDead(ids) ==
  LET purged == Range(selectDead(ids))
  IN  /\ ~ closed
      /\ purged # {}
      /\ state' = [j \in Job |-> IF j \in purged THEN "gone" ELSE state[j]]
      /\ owner' = [j \in Job |-> IF j \in purged THEN NoOwner ELSE owner[j]]
      /\ dead' = removeDead([j \in Job |-> IF j \in purged THEN 1 ELSE 0])
      /\ UNCHANGED <<attempt, maxAttempts, queue, recoveries, deadline, pending, active,
                     scheduled, retry, unique, window, counters, mode, now>>

\* The figures Stats reports: members of a map are counted if their job is
\* stored, the lists by their length.
Stats ==
  LET members(z, q) == {j \in Job : z[j] # NoScore /\ Exists(j) /\ queue[j] = q}
  IN  [queues |-> [q \in Queue |->
                    [pending |-> Len(pending[q]),
                     active |-> Cardinality(members(active, q)),
                     scheduled |-> Cardinality(members(scheduled, q)),
                     retry |-> Cardinality(members(retry, q))]],
       dead |-> Len(dead), processed |-> processed, failed |-> failed]

-----------------------------------------------------------------------------

Tick ==
  /\ now < MaxTime
  /\ now' = now + 1
  /\ UNCHANGED <<jobs, pending, active, scheduled, retry, dead, unique, window, counters,
                 mode>>

Orders == UNION {Bijection(1..Cardinality(Q), Q) : Q \in SUBSET Queue}
OperatorIDs == UNION {[1..n -> Job] : n \in 0..MaxIDs}

Next ==
  \/ \E j \in Job, q \in Queue, max \in Budgets, runAt \in 0..MaxTime,
        key \in Key, ttl \in UniqueTTLs : Enqueue(j, q, max, runAt, key, ttl)
  \/ \E w \in Worker, order \in Orders, vt \in VisibilityTimeouts : Dequeue(w, order, vt)
  \/ \E order \in Orders : DequeueNone(order)
  \/ \E w \in Worker, j \in Job : Ack(w, j)
  \/ \E w \in Worker, j \in Job, retryAt \in 0..MaxTime : Nack(w, j, retryAt)
  \/ \E w \in Worker, j \in Job : Kill(w, j)
  \/ \E w \in Worker, ids \in SUBSET Job, vt \in VisibilityTimeouts : Extend(w, ids, vt)
  \/ Close
  \/ \E want \in SUBSET Queue : Reap(want)
  \/ Promote
  \/ \E ids \in OperatorIDs : RetryDead(ids)
  \/ \E ids \in OperatorIDs : PurgeDead(ids)
  \/ Tick

Spec == Init /\ [][Next]_vars

-----------------------------------------------------------------------------
(* Properties.                                                             *)

\* A stored job can be reached: it is in the structure its state names, so a
\* later claim, recovery, promotion or replay will find it, even after an
\* operator has named a dead job twice in one RetryDead.
Found(j) ==
  /\ state[j] = "pending" => j \in Range(pending[queue[j]])
  /\ state[j] = "active" => active[j] # NoScore
  /\ state[j] = "scheduled" => scheduled[j] # NoScore
  /\ state[j] = "retry" => retry[j] # NoScore
  /\ state[j] = "dead" => j \in Range(dead)
NothingLost == \A j \in Job : Found(j)

\* The figures of Stats add up to the number of stored jobs until an operator
\* replays a job twice in one call: with NothingLost, no job is in two
\* structures, twice in one, or left there after its envelope is gone, so
\* Dequeue's "should not happen" branch for dangling IDs is dead code.
StatsAddUp ==
  LET perQueue == [q \in Queue |-> LET s == Stats.queues[q]
                                   IN  s.pending + s.active + s.scheduled + s.retry]
  IN  ~ repeated =>
        SumFunction(perQueue) + Stats.dead = Cardinality({j \in Job : Exists(j)})

\* Two jobs are never accepted under one unique key while the window of the
\* first is open, even if the first is finished or purged (Enqueue).
UniqueWindow ==
  \A j, k \in Job : j # k /\ window[j].key = window[k].key /\ window[j].key # NoKey =>
    window[j].until <= window[k].from \/ window[k].until <= window[j].from

\* A lease is recovered only once the deadline its holder was last told has
\* passed (Dequeue, Extend and Reap agree on the deadline), until an operator
\* replays a job twice in one call.
NoEarlyRecovery ==
  [][\A j \in Job : ~ repeated /\ recoveries'[j] > recoveries[j] =>
       state[j] = "active" /\ deadline[j] <= now]_vars

Contract == INSTANCE Broker WITH
  expired <- {j \in Job : state[j] = "active" /\ deadline[j] <= now}

\* State changes follow the lifecycle graph of job.go, which "every broker
\* implementation must enforce identically".
LegalTransitions == Contract!LegalTransitions

\* Every operation is one operation of the contract, or changes nothing the
\* contract speaks of, replays and purges of dead jobs included, until an
\* operator replays a job twice in one call.
ImplementsContract ==
  Contract!BrokerInit /\ [][Contract!BrokerNext \/ repeated']_(Contract!brokerVars)
=============================================================================
