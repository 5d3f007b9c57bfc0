----------------------------- MODULE RedisBroker -----------------------------
(***************************************************************************)
(* The Redis broker: every operation of internal/rdb is one Lua script,    *)
(* which Redis runs atomically, so every operation is one action.  Sorted  *)
(* sets are those of TimedSets; the fields of the job hash are one         *)
(* variable each.  Time is the Redis clock in ticks; only retry and run-at *)
(* times are computed elsewhere, on clocks that need not agree with it.    *)
(***************************************************************************)
EXTENDS Sequences, TimedSets

CONSTANTS
  Queue, Worker, Key,
  NoOwner, NoQueue, NoKey, \* the empty string in the fields of these types
  Budgets,             \* values of max_attempts in use
  VisibilityTimeouts,  \* lease lengths in use, in ticks
  UniqueTTLs,          \* unique TTLs in use, in ticks; 0: no unique check
  CompletedTTL,        \* retention of completed envelopes; 0: none
  ReapLimit, PromoteLimit,
  SkipLimit,           \* purged IDs one claim skips per queue (20)
  Evictable,           \* jobs whose envelope may be deleted under the broker
  MaxTime              \* bound on the clock

ASSUME RedisAssumption ==
  /\ Job \subseteq Nat /\ IsFiniteSet(Job)
  /\ NoOwner \notin Worker /\ NoQueue \notin Queue /\ NoKey \notin Key
  /\ Budgets \subseteq Nat \ {0}
  /\ VisibilityTimeouts \subseteq Nat \ {0}
  /\ UniqueTTLs \subseteq Nat
  /\ {CompletedTTL, MaxTime} \subseteq Nat
  /\ {ReapLimit, PromoteLimit, SkipLimit} \subseteq Nat \ {0}

VARIABLES
  state, owner, attempt, maxAttempts, queue, recoveries, deadline, \* job hash
  ready,       \* ready list of each queue, head first
  active,      \* active sorted set of each queue, scored by deadline
  delayed,     \* delayed sorted set, scored by run-at
  retry,       \* retry sorted set, scored by retry-at
  dead,        \* members of the dead-letter set
  queues,      \* set of known queue names
  unique,      \* when each unique key expires
  window,      \* history: for which key, from when and until when a job was unique
  processed, failed  \* counters

hash == <<state, owner, attempt, maxAttempts, queue, recoveries, deadline>>
vars == <<hash, ready, active, delayed, retry, dead, queues, unique, window,
          processed, failed, now>>

Exists(j) == state[j] \notin {"none", "gone"}
\* Mutant: the budget comparison is off by one.
Exhausted_OffByOne(j) == attempt[j] > maxAttempts[j]
Exhausted(j) == attempt[j] >= maxAttempts[j]
Holds(w, j) == state[j] = "active" /\ owner[j] = w

Init ==
  /\ state = [j \in Job |-> "none"]
  /\ owner = [j \in Job |-> NoOwner]
  /\ attempt = [j \in Job |-> 0]
  /\ maxAttempts = [j \in Job |-> 0]
  /\ queue = [j \in Job |-> NoQueue]
  /\ recoveries = [j \in Job |-> 0]
  /\ deadline = [j \in Job |-> 0]
  /\ ready = [q \in Queue |-> <<>>]
  /\ active = [q \in Queue |-> EmptyZSet]
  /\ delayed = EmptyZSet /\ retry = EmptyZSet
  /\ dead = {} /\ queues = {}
  /\ unique = [k \in Key |-> 0]
  /\ window = [j \in Job |-> [key |-> NoKey, from |-> 0, until |-> 0]]
  /\ processed = 0 /\ failed = 0 /\ now = 0

-----------------------------------------------------------------------------
(* Producers.                                                              *)

\* Enqueue.  While the unique key is held the script stores nothing.
Enqueue(j, q, max, runAt, key, ttl) ==
  /\ state[j] = "none"
  /\ \/ ttl = 0 /\ UNCHANGED <<unique, window>>
     \/ /\ ttl > 0 /\ unique[key] <= now
        /\ unique' = [unique EXCEPT ![key] = now + ttl]
        /\ window' = [window EXCEPT ![j] = [key |-> key, from |-> now, until |-> now + ttl]]
  /\ queue' = [queue EXCEPT ![j] = q]
  /\ maxAttempts' = [maxAttempts EXCEPT ![j] = max]
  /\ queues' = queues \cup {q}
  /\ \/ /\ runAt > now
        /\ state' = [state EXCEPT ![j] = "scheduled"]
        /\ delayed' = [delayed EXCEPT ![j] = runAt]
        /\ UNCHANGED ready
     \/ /\ runAt <= now
        /\ state' = [state EXCEPT ![j] = "pending"]
        /\ ready' = [ready EXCEPT ![q] = Append(@, j)]
        /\ UNCHANGED delayed
  /\ UNCHANGED <<owner, attempt, recoveries, deadline, active, retry, dead,
                 processed, failed, now>>

-----------------------------------------------------------------------------
(* Workers.                                                                *)

\* The queue yields nothing: all the IDs the claim may pop from it are purged.
Barren(q) ==
  \A i \in 1..Len(ready[q]) : i <= SkipLimit => ~ Exists(ready[q][i])

DropFirst(q, n) == SubSeq(ready[q], n + 1, Len(ready[q]))

\* Claim the first stored job of queue q, after skip purged IDs there and
\* after the queues in passed turned out barren.
Claim(w, q, passed, skip, vt) ==
  LET j == ready[q][skip + 1]
  IN  /\ \A x \in passed : Barren(x)
      /\ skip < Len(ready[q])
      /\ \A i \in 1..skip : ~ Exists(ready[q][i])
      /\ Exists(j)
      /\ ready' = [x \in Queue |-> IF x = q THEN DropFirst(x, skip + 1)
                                   ELSE IF x \in passed THEN DropFirst(x, SkipLimit)
                                   ELSE ready[x]]
      /\ state' = [state EXCEPT ![j] = "active"]
      /\ owner' = [owner EXCEPT ![j] = w]
      /\ attempt' = [attempt EXCEPT ![j] = @ + 1]
      /\ deadline' = [deadline EXCEPT ![j] = now + vt]
      /\ active' = [active EXCEPT ![q][j] = now + vt]
      /\ UNCHANGED <<maxAttempts, queue, recoveries, delayed, retry, dead,
                     queues, unique, window, processed, failed, now>>

\* Dequeue tries the queues in the order given, throwing away the purged IDs
\* it meets on the way.
Dequeue(w, order, vt) ==
  \E p \in DOMAIN order, skip \in 0..(SkipLimit - 1) :
    Claim(w, order[p], {order[i] : i \in 1..(p - 1)}, skip, vt)

\* The claim that returns no job may still have popped purged IDs.
DequeueNone(order) ==
  /\ \A q \in Range(order) : Barren(q)
  /\ \E q \in Range(order) : ready[q] # <<>>
  /\ ready' = [x \in Queue |-> IF x \in Range(order) THEN DropFirst(x, SkipLimit)
                               ELSE ready[x]]
  /\ UNCHANGED <<hash, active, delayed, retry, dead, queues, unique, window,
                 processed, failed, now>>

\* Mutant: the entry in the active set is left behind.
EndLease_KeepsScore(w, j, to) ==
  /\ Holds(w, j)
  /\ state' = [state EXCEPT ![j] = to]
  /\ owner' = [owner EXCEPT ![j] = NoOwner]
  /\ UNCHANGED <<attempt, maxAttempts, queue, recoveries, deadline, ready, active,
                 delayed, queues, unique, window, now>>

\* Mutant: finishing a job frees its unique key before the window closes.
EndLease_FreesKey(w, j, to) ==
  /\ Holds(w, j)
  /\ active' = [active EXCEPT ![queue[j]][j] = NoScore]
  /\ state' = [state EXCEPT ![j] = to]
  /\ owner' = [owner EXCEPT ![j] = NoOwner]
  /\ unique' = [k \in Key |-> IF k = window[j].key THEN 0 ELSE unique[k]]
  /\ UNCHANGED <<attempt, maxAttempts, queue, recoveries, deadline, ready,
                 delayed, queues, window, now>>

\* What the fenced scripts share: the lease is dropped, the job becomes "to".
EndLease(w, j, to) ==
  /\ Holds(w, j)
  /\ active' = [active EXCEPT ![queue[j]][j] = NoScore]
  /\ state' = [state EXCEPT ![j] = to]
  /\ owner' = [owner EXCEPT ![j] = NoOwner]
  /\ UNCHANGED <<attempt, maxAttempts, queue, recoveries, deadline, ready,
                 delayed, queues, unique, window, now>>

Ack(w, j) ==
  /\ EndLease(w, j, IF CompletedTTL > 0 THEN "completed" ELSE "gone")
  /\ processed' = processed + 1
  /\ UNCHANGED <<retry, dead, failed>>

\* Mutant: the failure is not counted.
DeadLetter_Uncounted(w, j) ==
  /\ EndLease(w, j, "dead")
  /\ dead' = dead \cup {j}
  /\ UNCHANGED <<retry, processed, failed>>

DeadLetter(w, j) ==
  /\ EndLease(w, j, "dead")
  /\ dead' = dead \cup {j}
  /\ failed' = failed + 1
  /\ UNCHANGED <<retry, processed>>

Nack(w, j, retryAt) ==
  \/ Exhausted(j) /\ DeadLetter(w, j)
  \/ /\ ~ Exhausted(j)
     /\ EndLease(w, j, "retry")
     /\ retry' = [retry EXCEPT ![j] = retryAt]
     /\ UNCHANGED <<dead, failed, processed>>

\* Mutant: instead of a leased job, one waiting for its retry is killed.
Kill_Waiting(w, j) ==
  /\ state[j] = "retry"
  /\ state' = [state EXCEPT ![j] = "dead"]
  /\ retry' = ZRem(retry, {j})
  /\ dead' = dead \cup {j}
  /\ failed' = failed + 1
  /\ UNCHANGED <<owner, attempt, maxAttempts, queue, recoveries, deadline, ready, active,
                 delayed, queues, unique, window, processed, now>>

Kill(w, j) == DeadLetter(w, j)

\* Mutant: the envelope is renewed, the active set is not.
Extend_HashOnly(w, ids, vt) ==
  LET held == {j \in ids : Holds(w, j)}
  IN  /\ held # {}
      /\ deadline' = [j \in Job |-> IF j \in held THEN now + vt ELSE deadline[j]]
      /\ UNCHANGED <<state, owner, attempt, maxAttempts, queue, recoveries, ready, active,
                     delayed, retry, dead, queues, unique, window, processed, failed, now>>

\* Mutant: the new deadline lies in the past.
Extend_Backwards(w, ids, vt) ==
  LET held == {j \in ids : Holds(w, j)}
  IN  /\ held # {}
      /\ deadline' = [j \in Job |-> IF j \in held THEN now - vt ELSE deadline[j]]
      /\ UNCHANGED <<state, owner, attempt, maxAttempts, queue, recoveries, ready, active,
                     delayed, retry, dead, queues, unique, window, processed, failed, now>>

\* The jobs of the batch that are not renewed are returned as lost.
Extend(w, ids, vt) ==
  LET held == {j \in ids : Holds(w, j)}
  IN  /\ held # {}
      /\ deadline' = [j \in Job |-> IF j \in held THEN now + vt ELSE deadline[j]]
      /\ active' = [q \in Queue |-> [j \in Job |->
                      IF j \in held /\ queue[j] = q THEN now + vt ELSE active[q][j]]]
      /\ UNCHANGED <<state, owner, attempt, maxAttempts, queue, recoveries, ready,
                     delayed, retry, dead, queues, unique, window, processed, failed, now>>

-----------------------------------------------------------------------------
(* Maintenance.                                                            *)

\* End the expired leases in batch.  The recovered jobs are pushed onto the
\* head of the list one by one, so the one that expired first ends up last.
Recover(q, batch) ==
  LET orphans == {j \in batch : Exists(j)}
      spent == {j \in orphans : Exhausted(j)}
      back == orphans \ spent
  IN  /\ batch # {}
      /\ active' = [active EXCEPT ![q] = ZRem(@, batch)]
      /\ recoveries' = [j \in Job |-> IF j \in orphans THEN recoveries[j] + 1
                                      ELSE recoveries[j]]
      /\ owner' = [j \in Job |-> IF j \in orphans THEN NoOwner ELSE owner[j]]
      /\ state' = [j \in Job |-> IF j \in spent THEN "dead"
                                 ELSE IF j \in back THEN "pending" ELSE state[j]]
      /\ dead' = dead \cup spent
      /\ failed' = failed + Cardinality(spent)
      /\ \E s \in Descending(active[q], back) : ready' = [ready EXCEPT ![q] = s \o @]
      /\ UNCHANGED <<attempt, maxAttempts, queue, deadline, delayed, retry,
                     queues, unique, window, processed, now>>

Reap(q) == \E batch \in DueBatches(active[q], ReapLimit) : Recover(q, batch)

\* What each ready list receives when the jobs of S are released from z.
Arrivals(z, S) ==
  {f \in [Queue -> UNION {Ascending(z, T) : T \in SUBSET S}] :
     \A q \in Queue : f[q] \in Ascending(z, {j \in S : queue[j] = q})}

\* Release first from the delayed set, then second from the retry set.
Release(first, second) ==
  LET woken == {j \in first : Exists(j)}
      again == {j \in second : Exists(j)}
  IN  /\ first \cup second # {}
      /\ delayed' = ZRem(delayed, first)
      /\ retry' = ZRem(retry, second)
      /\ state' = [j \in Job |-> IF j \in woken \cup again THEN "pending" ELSE state[j]]
      /\ owner' = [j \in Job |-> IF j \in woken \cup again THEN NoOwner ELSE owner[j]]
      /\ \E f \in Arrivals(delayed, woken), g \in Arrivals(retry, again) :
           ready' = [q \in Queue |-> (ready[q] \o f[q]) \o g[q]]
      /\ UNCHANGED <<attempt, maxAttempts, queue, recoveries, deadline,
                     active, dead, queues, unique, window, processed, failed, now>>

\* The retry set gets what the delayed set leaves of the limit; purged members
\* do not count towards it.
Promote ==
  \E first \in DueBatches(delayed, PromoteLimit) :
    \E second \in DueBatches(retry, PromoteLimit - Cardinality({j \in first : Exists(j)})) :
      Release(first, second)

-----------------------------------------------------------------------------
(* Environment.                                                            *)

\* The envelope disappears: a completed one when its retention ends, any
\* other one when somebody deletes it; IDs of it in lists and sets stay.
Purge(j) ==
  /\ Exists(j)
  /\ state[j] = "completed" \/ j \in Evictable
  /\ state' = [state EXCEPT ![j] = "gone"]
  /\ owner' = [owner EXCEPT ![j] = NoOwner]
  /\ UNCHANGED <<attempt, maxAttempts, queue, recoveries, deadline, ready, active,
                 delayed, retry, dead, queues, unique, window, processed, failed, now>>

Tick ==
  /\ now < MaxTime
  /\ now' = now + 1
  /\ UNCHANGED <<hash, ready, active, delayed, retry, dead, queues, unique, window,
                 processed, failed>>

\* Orders in which a worker may ask for the queues it serves.
Orders == UNION {Bijection(1..Cardinality(Q), Q) : Q \in SUBSET Queue}

\* Everything but the calls of producers.
Serve ==
  \/ \E w \in Worker, order \in Orders, vt \in VisibilityTimeouts : Dequeue(w, order, vt)
  \/ \E order \in Orders : DequeueNone(order)
  \/ \E w \in Worker, j \in Job : Ack(w, j)
  \/ \E w \in Worker, j \in Job, retryAt \in 0..MaxTime : Nack(w, j, retryAt)
  \/ \E w \in Worker, j \in Job : Kill(w, j)
  \/ \E w \in Worker, ids \in SUBSET Job, vt \in VisibilityTimeouts : Extend(w, ids, vt)
  \/ \E q \in Queue : Reap(q)
  \/ Promote
  \/ \E j \in Job : Purge(j)
  \/ Tick

Next ==
  \/ \E j \in Job, q \in Queue, max \in Budgets, runAt \in 0..MaxTime,
        key \in Key, ttl \in UniqueTTLs : Enqueue(j, q, max, runAt, key, ttl)
  \/ Serve

Spec == Init /\ [][Next]_vars

-----------------------------------------------------------------------------
(* Properties.                                                             *)

ZSet == [Job -> Nat \cup {NoScore}]

\* Every field, list, sorted set and counter keeps its type.
TypeOK ==
  /\ state \in [Job -> {"none", "scheduled", "retry", "pending", "active",
                        "completed", "dead", "gone"}]
  /\ owner \in [Job -> Worker \cup {NoOwner}]
  /\ attempt \in [Job -> Nat] /\ maxAttempts \in [Job -> Nat]
  /\ queue \in [Job -> Queue \cup {NoQueue}]
  /\ recoveries \in [Job -> Nat] /\ deadline \in [Job -> Nat]
  /\ ready \in [Queue -> Seq(Job)]
  /\ active \in [Queue -> ZSet] /\ delayed \in ZSet /\ retry \in ZSet
  /\ dead \subseteq Job /\ queues \subseteq Queue
  /\ unique \in [Key -> Nat]
  /\ window \in [Job -> [key : Key \cup {NoKey}, from : Nat, until : Nat]]
  /\ processed \in Nat /\ failed \in Nat /\ now \in Nat

\* A stored job is in exactly the structure its state names: pending jobs in
\* the ready list of their queue and once only, active ones in the active set
\* of their queue, and so on.  Between two scripts no job is in two places or
\* in none, whatever was claimed, recovered, promoted or purged before
\* (dequeue.lua: "no instant at which a job exists in neither place").
InPlace(j) ==
  /\ queue[j] \in Queue
  /\ state[j] = "pending" <=> j \in Range(ready[queue[j]])
  /\ state[j] = "active" <=> active[queue[j]][j] # NoScore
  /\ state[j] = "scheduled" <=> delayed[j] # NoScore
  /\ state[j] = "retry" <=> retry[j] # NoScore
  /\ state[j] = "dead" <=> j \in dead
NoStrays ==
  \A j \in Job : \A q \in Queue \ {queue[j]} :
    j \notin Range(ready[q]) /\ active[q][j] = NoScore
NoRepeats == \A q \in Queue : IsInjective(ready[q])
Placement ==
  /\ \A j \in Job : Exists(j) => InPlace(j)
  /\ NoStrays
  /\ NoRepeats

\* A lease is recovered only once the deadline its holder was last told has
\* passed: the score the reaper reads and the deadline on the envelope, which
\* claim and renewal write separately, never disagree (dequeue.lua, extend.lua,
\* reap.lua).
NoEarlyRecovery ==
  [][\A j \in Job : recoveries'[j] # recoveries[j] =>
       state[j] = "active" /\ deadline[j] <= now]_vars

\* The failed counter counts the jobs in the dead-letter set: Nack, Kill and
\* the reaper never dead-letter a job twice or without counting it.
FailedCountsDead == failed = Cardinality(dead)

\* Two jobs are never accepted under one unique key while the window of the
\* first is open, even if the first has been completed, deleted or purged in
\* the meantime (enqueue.lua SET NX PX; ack.lua leaves the key alone).
UniqueWindow ==
  \A j, k \in Job : j # k /\ window[j].key = window[k].key /\ window[j].key # NoKey =>
    window[j].until <= window[k].from \/ window[k].until <= window[j].from

\* The Redis broker implements the broker contract; a lease is expired when
\* the clock has reached its deadline.
Contract == INSTANCE Broker WITH
  expired <- {j \in Job : state[j] = "active" /\ deadline[j] <= now}

\* A job waiting to run has an attempt left, a claimed one is within budget
\* and only a claimed one has an owner (dequeue.lua consumes the attempt at
\* claim time, nack.lua and reap.lua dead-letter exhausted jobs).
AttemptBudget == Contract!AttemptBudget

\* State changes follow the lifecycle graph of job.go, and no script hands an
\* active job to another worker before it has left the active state.
LegalTransitions == Contract!LegalTransitions

\* Every script is one operation of the contract, or none.
ImplementsContract == Contract!BrokerSpec

-----------------------------------------------------------------------------
(* The inductive invariant behind the theorems of RedisBrokerProofs.       *)

\* An ID not yet enqueued occurs nowhere.
Fresh ==
  \A j \in Job : state[j] = "none" =>
    /\ queue[j] = NoQueue /\ attempt[j] = 0 /\ owner[j] = NoOwner
    /\ delayed[j] = NoScore /\ retry[j] = NoScore /\ j \notin dead
    /\ window[j].key = NoKey

\* The active set and the envelope agree on the deadline of a lease.
LeaseClock ==
  \A j \in Job : state[j] = "active" => active[queue[j]][j] = deadline[j]

\* A unique key outlives the window of every job accepted under it.
KeyWindows ==
  \A j \in Job : window[j].key # NoKey =>
    window[j].from <= now /\ window[j].until <= unique[window[j].key]

IInv == /\ TypeOK /\ Fresh /\ Placement /\ LeaseClock /\ AttemptBudget
        /\ FailedCountsDead /\ KeyWindows /\ UniqueWindow
=============================================================================
