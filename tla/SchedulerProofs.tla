-------------------------- MODULE SchedulerProofs ---------------------------
(***************************************************************************)
(* The theorems about the cron scheduler, for any number of workers and    *)
(* entries, any clock skew and any number of faults.                       *)
(***************************************************************************)
EXTENDS Scheduler, TLAPS

\* A schedule's next tick is strictly later, and at most one period away.
LEMMA NextLater ==
  ASSUME NEW e \in Entry, NEW t \in Nat
  PROVE  Next(e, t) \in Nat /\ Next(e, t) > t /\ Next(e, t) <= t + Period
<1>1. Period \in Nat /\ Period > 0
  BY SchedulerAssumption
<1>2. CASE e \in Every
  BY <1>1, <1>2 DEF Next
<1>3. CASE e \notin Every
  <2>1. t \div Period \in Nat /\ (t \div Period) * Period <= t /\ t < (t \div Period) * Period + Period
    BY <1>1, SMTT(30)
  <2>2. (t \div Period + 1) * Period = (t \div Period) * Period + Period
    BY <1>1, <2>1, SMTT(30)
  <2> QED BY <1>1, <1>3, <2>1, <2>2 DEF Next
<1> QED BY <1>2, <1>3, Zenon

\* A later instant has no earlier next tick.
LEMMA NextMonotone ==
  ASSUME NEW e \in Entry, NEW t \in Nat, NEW u \in Nat, t <= u
  PROVE  Next(e, t) <= Next(e, u)
<1>1. Period \in Nat /\ Period > 0
  BY SchedulerAssumption
<1>2. CASE e \in Every
  BY <1>1, <1>2 DEF Next
<1>3. CASE e \notin Every
  <2> DEFINE a == t \div Period
             b == u \div Period
  <2>1. a \in Nat /\ b \in Nat /\ a * Period <= t /\ u < b * Period + Period
    BY <1>1, SMTT(30)
  <2>2. a <= b
    <3> SUFFICES ASSUME ~ a <= b PROVE FALSE
      BY Zenon
    <3> HIDE DEF a, b
    <3>1. a \in Nat /\ b \in Nat /\ b + 1 <= a
      BY <2>1
    <3>2. (b + 1) * Period <= a * Period
      BY <1>1, <3>1, SMTT(30)
    <3>3. (b + 1) * Period = b * Period + Period
      BY <1>1, <3>1, SMTT(30)
    <3> QED BY <1>1, <2>1, <3>2, <3>3, SMTT(30)
  <2>3. (a + 1) * Period <= (b + 1) * Period
    <3> HIDE DEF a, b
    <3> QED BY <1>1, <2>1, <2>2, SMTT(30)
  <2> QED BY <1>3, <2>3, Zenon DEF Next
<1> QED BY <1>2, <1>3, Zenon

-----------------------------------------------------------------------------
(* The inductive invariant.                                                *)

\* A pass works with instants the server's clock has reached; seeding may be
\* ahead by as much as the worker's clock.
Reached ==
  \A w \in Worker : /\ asOf[w] <= IF pc[w] = "seed" THEN now + Fast ELSE now
                    /\ \A d \in due[w] : d[2] <= now

\* A live key stands for an enqueued job; a tick that has its job has a live
\* key, or was exposed, or is open no more.
Settled == keys \subseteq fired /\ \A d \in fired : d \in keys \/ d \in exposed \/ ~ Open(d)

\* Between Enqueue and ClaimCron a job for the tick exists, and the fire time
\* the pass has computed lies ahead of it.
Ahead ==
  \A w \in Worker : pc[w] = "claim" =>
    \A d \in due[w] : Current(w, d) =>
      /\ d \in fired
      /\ next[w] > d[2]
      /\ Fast = 0 => next[w] <= Next(d[1], now)

SInv == SchedulerTypeOK /\ Reached /\ NeverEarly /\ Settled /\ OnceIfKeyOutlives /\ Ahead

\* The initial state satisfies the invariant.
LEMMA InitSInv == Init => SInv
<1> SUFFICES ASSUME Init PROVE SInv
  BY Zenon
<1>1. SchedulerTypeOK
  BY SchedulerAssumption DEF Init, SchedulerTypeOK, Time, NoTime
<1>2. Reached /\ NeverEarly /\ Settled /\ OnceIfKeyOutlives /\ Ahead
  BY SchedulerAssumption DEF Init, Reached, NeverEarly, Settled, OnceIfKeyOutlives, Ahead
<1> QED BY <1>1, <1>2, Zenon DEF SInv

\* An instant a worker's clock has reached has a next tick that is an instant.
LEMMA ReadingNext ==
  ASSUME SInv, NEW e \in Entry, NEW t \in Time, t <= now + Fast
  PROVE  t \in Nat /\ Next(e, t) \in Time
<1>1. t \in Nat /\ now \in Nat /\ now <= MaxTime
  BY SchedulerAssumption DEF SInv, SchedulerTypeOK, Time
<1>2. Next(e, t) \in Nat /\ Next(e, t) <= t + Period
  BY <1>1, NextLater, Zenon
<1> QED BY <1>1, <1>2, SchedulerAssumption DEF Time

\* A pass is at one entry at a time.
LEMMA OneCurrent ==
  ASSUME SInv, NEW w \in Worker, NEW d \in due[w], NEW x \in due[w], Current(w, d), Current(w, x)
  PROVE  x = d
<1>1. x[1] \in Nat /\ x[2] \in Nat /\ d[1] \in Nat /\ d[2] \in Nat
  <2>1. x \in Entry \X Time /\ d \in Entry \X Time
    BY Zenon DEF SInv, SchedulerTypeOK
  <2>2. x[1] \in Entry /\ x[2] \in Time /\ d[1] \in Entry /\ d[2] \in Time
    BY <2>1, Zenon
  <2> HIDE DEF Time
  <2>3. Entry \subseteq Nat /\ Time \subseteq Nat
    BY SchedulerAssumption DEF Time
  <2> QED BY <2>2, <2>3, Zenon
<1>2. x # d => Sooner(x, d) /\ Sooner(d, x)
  BY DEF Current
<1>3. ~ (Sooner(x, d) /\ Sooner(d, x))
  BY <1>1 DEF Sooner
<1> QED BY <1>2, <1>3, Zenon

\* A pass that lets go of entries, and a store that moves on, open no tick.
LEMMA NotReopened ==
  ASSUME SInv, \A w \in Worker : due'[w] \subseteq due[w],
         \A e \in Entry : cron'[e] = cron[e] \/ cron[e] = NoTime \/ cron'[e] > cron[e],
         cron' \in [Entry -> Time \cup {NoTime}], NEW d \in Entry \X Time, Open(d)'
  PROVE  Open(d)
<1>1. cron[d[1]] \in Int /\ cron'[d[1]] \in Int /\ d[1] \in Entry /\ d[2] \in Nat
  <2>1. d[1] \in Entry /\ d[2] \in Time /\ cron \in [Entry -> Time \cup {NoTime}]
    BY Zenon DEF SInv, SchedulerTypeOK
  <2>2. cron[d[1]] \in Time \cup {NoTime} /\ cron'[d[1]] \in Time \cup {NoTime}
    BY <2>1, Zenon
  <2>3. d[2] \in Nat
    BY <2>1 DEF Time
  <2>4. \A t \in Time \cup {NoTime} : t \in Int
    BY DEF Time, NoTime
  <2> QED BY <2>1, <2>2, <2>3, <2>4, Zenon
<1>2. CASE \E w \in Worker : d \in due'[w]
  BY <1>2, Zenon DEF Open
<1>3. CASE cron'[d[1]] <= d[2]
  <2>1. cron[d[1]] <= d[2]
    BY <1>1, <1>3 DEF NoTime
  <2> QED BY <2>1, Zenon DEF Open
<1> QED BY <1>2, <1>3, Zenon DEF Open

\* Seeding stores first fire times only.
LEMMA SeedInv ==
  ASSUME SInv, NEW w \in Worker, NEW e \in Entry, ScheduleCronIfAbsent(w, e)
  PROVE  SInv'
<1>0. cron' \in [Entry -> Time \cup {NoTime}]
  <2>1. CASE UNCHANGED cron
    BY <2>1, Zenon DEF SInv, SchedulerTypeOK
  <2>2. CASE cron' = [cron EXCEPT ![e] = Next(e, asOf[w])]
    <3>1. asOf[w] \in Time /\ asOf[w] <= now + Fast
      BY Zenon DEF ScheduleCronIfAbsent, SInv, SchedulerTypeOK, Reached
    <3>2. Next(e, asOf[w]) \in Time
      BY <3>1, ReadingNext, Zenon
    <3> QED BY <2>2, <3>2, Zenon DEF SInv, SchedulerTypeOK
  <2> QED BY <2>1, <2>2, Zenon DEF ScheduleCronIfAbsent
<1>1. SchedulerTypeOK'
  <2>2. seeded' \in [Worker -> SUBSET Entry]
    BY Zenon DEF ScheduleCronIfAbsent, SInv, SchedulerTypeOK
  <2> QED BY <1>0, <2>2, Zenon DEF ScheduleCronIfAbsent, SInv, SchedulerTypeOK, history
<1>2. Reached' /\ NeverEarly' /\ OnceIfKeyOutlives'
  BY Zenon DEF ScheduleCronIfAbsent, SInv, Reached, NeverEarly, OnceIfKeyOutlives, history
<1>3. Settled'
  <2>1. \A x \in Entry : cron'[x] = cron[x] \/ cron[x] = NoTime
    BY Zenon DEF ScheduleCronIfAbsent, SInv, SchedulerTypeOK
  <2>2. /\ fired' = fired /\ keys' = keys /\ exposed' = exposed /\ due' = due
        /\ fired \subseteq Entry \X Time
    BY Zenon DEF ScheduleCronIfAbsent, SInv, SchedulerTypeOK, history
  <2>3. \A d \in fired : Open(d)' => Open(d)
    BY <1>0, <2>1, <2>2, NotReopened, Zenon
  <2> QED BY <2>2, <2>3, Zenon DEF SInv, Settled
<1>4. Ahead'
  BY Zenon DEF ScheduleCronIfAbsent, SInv, Ahead, Current, history
<1> QED BY <1>1, <1>2, <1>3, <1>4, Zenon DEF SInv

\* A step that enqueues a job for a due tick, or finds its key live, keeps
\* the keys and the history in step.
LEMMA MaterialiseFacts ==
  ASSUME SInv, NEW w \in Worker, NEW d \in due[w], now' = now, cron' = cron,
         \A v \in Worker : due'[v] \subseteq due[v], Materialise(d)
  PROVE  /\ NeverEarly' /\ Settled' /\ OnceIfKeyOutlives'
         /\ d \in fired' /\ fired \subseteq fired'
         /\ (keys \cup fired \cup refired \cup exposed \subseteq Entry \X Time)'
<1>1. d \in Entry \X Time /\ d[2] <= now /\ Open(d) /\ fired \subseteq Entry \X Time
      /\ cron' \in [Entry -> Time \cup {NoTime}]
  BY Zenon DEF SInv, SchedulerTypeOK, Reached, Open
<1>2. \A x \in fired : Open(x)' => Open(x)
  BY <1>1, NotReopened, Zenon
<1>3. CASE d \in keys
  <2>1. keys' = keys /\ fired' = fired /\ refired' = refired /\ exposed' = exposed
    BY <1>3, Zenon DEF Materialise, history
  <2> QED BY <1>2, <1>3, <2>1, Zenon DEF SInv, SchedulerTypeOK, NeverEarly, Settled, OnceIfKeyOutlives
<1>4. CASE d \notin keys
  <2>1. /\ keys' = keys \cup {d} /\ fired' = fired \cup {d} /\ exposed' = exposed
        /\ refired' = IF d \in fired THEN refired \cup {d} ELSE refired
    BY <1>4, Zenon DEF Materialise
  <2>2. d \in fired => d \in exposed
    BY <1>1, <1>4, Zenon DEF SInv, Settled
  <2>3. OnceIfKeyOutlives'
    BY <2>1, <2>2, Zenon DEF SInv, OnceIfKeyOutlives
  <2>4. Settled'
    BY <1>2, <2>1, Zenon DEF SInv, Settled
  <2>5. NeverEarly' /\ (keys \cup fired \cup refired \cup exposed \subseteq Entry \X Time)'
    BY <1>1, <2>1, Zenon DEF SInv, SchedulerTypeOK, NeverEarly
  <2> QED BY <2>1, <2>3, <2>4, <2>5, Zenon
<1> QED BY <1>3, <1>4, Zenon

\* Enqueue computes a fire time ahead of the tick it enqueues for.
LEMMA EnqueueInv ==
  ASSUME SInv, NEW w \in Worker, NEW d \in due[w], Enqueue(w, d)
  PROVE  SInv'
<1>1. PICK t \in Readings :
        next' = [next EXCEPT ![w] = Next(d[1], IF t < d[2] THEN d[2] ELSE t)]
  BY Zenon DEF Enqueue
<1> DEFINE base == IF t < d[2] THEN d[2] ELSE t
<1>2. /\ d \in Entry \X Time /\ d[1] \in Entry /\ d[2] \in Nat /\ d[2] <= now
      /\ t \in Nat /\ t <= now + Fast /\ now \in Nat /\ now <= MaxTime /\ Fast \in Nat
      /\ Period \in Nat /\ MaxTime \in Nat
  <2>1. d \in Entry \X Time /\ d[2] <= now
    BY Zenon DEF SInv, SchedulerTypeOK, Reached
  <2>2. d[1] \in Entry /\ d[2] \in Nat
    BY <2>1 DEF Time
  <2>3. t \in Nat /\ t <= now + Fast
    BY DEF Readings, Time
  <2> QED BY <2>1, <2>2, <2>3, SchedulerAssumption DEF SInv, SchedulerTypeOK
<1>3. base \in Nat /\ base >= d[2] /\ base <= now + Fast
  BY <1>2
<1> HIDE DEF base
<1>4. Next(d[1], base) \in Nat /\ Next(d[1], base) > d[2] /\ Next(d[1], base) \in Time
  <2>1. Next(d[1], base) \in Nat /\ Next(d[1], base) > base /\ Next(d[1], base) <= base + Period
    BY <1>2, <1>3, NextLater, Zenon
  <2> QED BY <1>2, <1>3, <2>1 DEF Time
<1>5. Fast = 0 => Next(d[1], base) <= Next(d[1], now)
  BY <1>2, <1>3, NextMonotone
<1>6. next' = [next EXCEPT ![w] = Next(d[1], base)]
  BY <1>1, Zenon DEF base
<1>7. now' = now /\ Materialise(d) /\ cron' = cron /\ due' = due
  BY Zenon DEF Enqueue
<1>8. /\ NeverEarly' /\ Settled' /\ OnceIfKeyOutlives'
      /\ d \in fired' /\ fired \subseteq fired'
      /\ (keys \cup fired \cup refired \cup exposed \subseteq Entry \X Time)'
  BY <1>7, MaterialiseFacts, Zenon
<1>9. SchedulerTypeOK'
  BY <1>4, <1>6, <1>8, Zenon DEF Enqueue, Goto, SInv, SchedulerTypeOK
<1>10. Reached'
  <2>1. \A v \in Worker : pc'[v] = "seed" <=> pc[v] = "seed"
    BY DEF Enqueue, Goto, SInv, SchedulerTypeOK
  <2> QED BY <2>1, Zenon DEF Enqueue, SInv, Reached
<1>11. Ahead'
  <2> SUFFICES ASSUME NEW v \in Worker, pc'[v] = "claim", NEW x \in due'[v], Current(v, x)'
               PROVE  x \in fired' /\ next'[v] > x[2] /\ (Fast = 0 => next'[v] <= Next(x[1], now))
    BY <1>7, Zenon DEF Ahead
  <2>1. CASE v = w
    <3>1. x = d
      <4>1. x \in due[w] /\ Current(w, x) /\ Current(w, d)
        BY <2>1, Zenon DEF Enqueue, Current
      <4> QED BY <4>1, OneCurrent, Zenon
    <3>2. next'[v] = Next(d[1], base)
      BY <1>6, <2>1, Zenon DEF SInv, SchedulerTypeOK
    <3> QED BY <1>4, <1>5, <1>8, <3>1, <3>2, Zenon
  <2>2. CASE v # w
    <3>1. pc[v] = "claim" /\ x \in due[v] /\ Current(v, x) /\ next'[v] = next[v]
      BY <1>6, <2>2, Zenon DEF Enqueue, Goto, Current, SInv, SchedulerTypeOK
    <3> QED BY <1>8, <3>1, Zenon DEF SInv, Ahead
  <2> QED BY <2>1, <2>2, Zenon
<1> QED BY <1>8, <1>9, <1>10, <1>11, Zenon DEF SInv

\* Steps that touch neither the clock, the keys nor the history, and after
\* which a pass that is about to claim is where it was before.
LEMMA PassInv ==
  ASSUME SInv, SchedulerTypeOK', Reached', UNCHANGED <<now, keys, fired, refired, exposed>>,
         \A d \in fired : Open(d)' => Open(d),
         \A w \in Worker : pc'[w] = "claim" =>
           pc[w] = "claim" /\ due'[w] = due[w] /\ next'[w] = next[w]
  PROVE  SInv'
<1>1. NeverEarly' /\ Settled' /\ OnceIfKeyOutlives'
  BY Zenon DEF SInv, NeverEarly, Settled, OnceIfKeyOutlives
<1>2. Ahead'
  BY Zenon DEF SInv, Ahead, Current
<1> QED BY <1>1, <1>2, Zenon DEF SInv

\* Steps that also leave the store alone.
LEMMA LocalInv ==
  ASSUME SInv, SchedulerTypeOK', Reached', UNCHANGED <<now, cron, keys, fired, refired, exposed>>,
         \A w \in Worker : due'[w] \subseteq due[w],
         \A w \in Worker : pc'[w] = "claim" =>
           pc[w] = "claim" /\ due'[w] = due[w] /\ next'[w] = next[w]
  PROVE  SInv'
<1>1. fired \subseteq Entry \X Time /\ cron' \in [Entry -> Time \cup {NoTime}]
  BY Zenon DEF SInv, SchedulerTypeOK
<1>2. \A d \in fired : Open(d)' => Open(d)
  BY <1>1, NotReopened, Zenon
<1> QED BY <1>2, PassInv, Zenon

\* DueCron reads entries the server's clock has reached.
LEMMA DueCronInv ==
  ASSUME SInv, NEW w \in Worker, DueCron(w)
  PROVE  SInv'
<1> DEFINE ripe == {<<e, cron[e]>> : e \in {e \in Entry : cron[e] # NoTime /\ cron[e] <= asOf[w]}}
<1>1. PICK batch \in SUBSET ripe : due' = [due EXCEPT ![w] = batch]
  BY Zenon DEF DueCron
<1>2. \A d \in ripe : d \in Entry \X Time /\ d[2] <= now
  <2> SUFFICES ASSUME NEW e \in Entry, cron[e] # NoTime, cron[e] <= asOf[w]
               PROVE  <<e, cron[e]>> \in Entry \X Time /\ <<e, cron[e]>>[2] <= now
    BY Zenon
  <2>1. cron[e] \in Time /\ asOf[w] \in Time /\ now \in 0..MaxTime /\ asOf[w] <= now
    <3>1. pc[w] # "seed"
      BY DEF DueCron, Goto
    <3> QED BY <3>1, Zenon DEF SInv, SchedulerTypeOK, Reached
  <2>2. cron[e] \in Int /\ asOf[w] \in Int /\ now \in Int
    BY <2>1 DEF Time
  <2> QED BY <2>1, <2>2
<1> HIDE DEF ripe
<1>3. due' \in [Worker -> SUBSET (Entry \X Time)] /\ \A v \in Worker : \A d \in due'[v] : d[2] <= now
  BY <1>1, <1>2, Zenon DEF SInv, SchedulerTypeOK, Reached
<1>4. asOf' \in [Worker -> Time]
  BY SchedulerAssumption DEF DueCron, SInv, SchedulerTypeOK, Time
<1>5. pc' \in [Worker -> {"down", "seed", "sleep", "time", "range", "fire", "claim"}]
  BY Zenon DEF DueCron, Goto, SInv, SchedulerTypeOK
<1>6. \A v \in Worker : pc'[v] = "claim" => pc[v] = "claim" /\ due'[v] = due[v] /\ next'[v] = next[v]
  BY <1>1, Zenon DEF DueCron, Goto, SInv, SchedulerTypeOK
<1>7. UNCHANGED <<now, cron, keys, fired, refired, exposed>>
  BY Zenon DEF DueCron, store, history
<1>8. SchedulerTypeOK'
  BY <1>3, <1>4, <1>5, <1>6, Zenon DEF DueCron, SInv, SchedulerTypeOK, store, history
<1>9. Reached'
  <2>1. now \in Nat
    BY DEF SInv, SchedulerTypeOK
  <2>2. \A v \in Worker : asOf'[v] <= IF pc'[v] = "seed" THEN now + Fast ELSE now
    BY <2>1 DEF DueCron, Goto, SInv, SchedulerTypeOK, Reached
  <2> QED BY <1>3, <1>7, <2>2, Zenon DEF Reached
<1>10. \A d \in fired : Open(d)' => Open(d)
  <2> SUFFICES ASSUME NEW d \in fired, NEW v \in Worker, d \in due'[v] PROVE Open(d)
    BY <1>7, Zenon DEF Open
  <2>1. CASE d \in due[v]
    BY <2>1, Zenon DEF Open
  <2>2. CASE d \in ripe
    <3>1. PICK e \in Entry : d = <<e, cron[e]>> /\ cron[e] # NoTime
      BY <2>2, Zenon DEF ripe
    <3>2. cron[e] \in Int
      BY <3>1 DEF SInv, SchedulerTypeOK, Time
    <3>3. cron[d[1]] <= d[2]
      BY <3>1, <3>2
    <3> QED BY <3>3, Zenon DEF Open
  <2> QED BY <1>1, <2>1, <2>2, Zenon DEF SInv, SchedulerTypeOK
<1> QED BY <1>6, <1>7, <1>8, <1>9, <1>10, PassInv, Zenon

\* A claim stores the fire time the pass has computed.
LEMMA ClaimInv ==
  ASSUME SInv, NEW w \in Worker, NEW d \in due[w], ClaimCron(w, d) \/ ClaimFailed(w, d)
  PROVE  SInv'
<1>1. cron' \in [Entry -> Time \cup {NoTime}]
  BY DEF ClaimCron, ClaimFailed, SInv, SchedulerTypeOK, store
<1>2. faults' \in 0..MaxFaults
  BY SchedulerAssumption DEF ClaimCron, ClaimFailed, Fault, SInv, SchedulerTypeOK
<1>3. due' = [due EXCEPT ![w] = @ \ {d}] /\ next' = [next EXCEPT ![w] = 0] /\ pc' = [pc EXCEPT ![w] = "fire"]
  BY Zenon DEF ClaimCron, ClaimFailed, Rest, Goto
<1>4. UNCHANGED <<now, lease, keys, leader, seeded, asOf, fired, refired, exposed>>
  BY Zenon DEF ClaimCron, ClaimFailed, store, history
<1>5. SchedulerTypeOK'
  BY <1>1, <1>2, <1>3, <1>4, SchedulerAssumption DEF SInv, SchedulerTypeOK, Time
<1>6. \A v \in Worker : pc'[v] = "claim" => pc[v] = "claim" /\ due'[v] = due[v] /\ next'[v] = next[v]
  BY <1>3, Zenon DEF SInv, SchedulerTypeOK
<1>7. Reached'
  <2>1. pc[w] = "claim" /\ \A v \in Worker : pc'[v] = "seed" <=> pc[v] = "seed"
    BY <1>3 DEF ClaimCron, ClaimFailed, Goto, SInv, SchedulerTypeOK
  <2> QED BY <1>3, <1>4, <2>1, Zenon DEF SInv, SchedulerTypeOK, Reached
<1>8. \A x \in fired : Open(x)' => Open(x)
  <2>1. next[w] > d[2] /\ d[1] \in Entry
    <3>1. pc[w] = "claim" /\ Current(w, d)
      BY Zenon DEF ClaimCron, ClaimFailed, Goto
    <3>2. d \in Entry \X Time
      BY Zenon DEF SInv, SchedulerTypeOK
    <3> QED BY <3>1, <3>2, Zenon DEF SInv, Ahead
  <2>2. \A e \in Entry : cron'[e] = cron[e] \/ cron'[e] > cron[e]
    BY <2>1 DEF ClaimCron, ClaimFailed, SInv, SchedulerTypeOK, store
  <2>3. (\A v \in Worker : due'[v] \subseteq due[v]) /\ fired \subseteq Entry \X Time
    BY <1>3, Zenon DEF SInv, SchedulerTypeOK
  <2> QED BY <1>1, <2>2, <2>3, NotReopened, Zenon
<1> QED BY <1>4, <1>5, <1>6, <1>7, <1>8, PassInv, Zenon

\* An Enqueue that fails may or may not have stored its job.
LEMMA EnqueueFailedInv ==
  ASSUME SInv, NEW w \in Worker, NEW d \in due[w], EnqueueFailed(w, d)
  PROVE  SInv'
<1>1. /\ due' = [due EXCEPT ![w] = @ \ {d}] /\ pc[w] = "fire" /\ faults' \in 0..MaxFaults
      /\ UNCHANGED <<now, lease, cron, pc, leader, seeded, asOf, next>>
  BY SchedulerAssumption DEF EnqueueFailed, Rest, Fault, SInv, SchedulerTypeOK
<1>2. /\ NeverEarly' /\ Settled' /\ OnceIfKeyOutlives' /\ fired \subseteq fired'
      /\ (keys \cup fired \cup refired \cup exposed \subseteq Entry \X Time)'
  <2>0. \A v \in Worker : due'[v] \subseteq due[v]
    BY <1>1, Zenon DEF SInv, SchedulerTypeOK
  <2>1. CASE Materialise(d)
    BY <1>1, <2>0, <2>1, MaterialiseFacts, Zenon
  <2>2. CASE UNCHANGED <<keys, history>>
    <3>1. UNCHANGED <<keys, fired, refired, exposed>> /\ fired \subseteq Entry \X Time
          /\ cron' \in [Entry -> Time \cup {NoTime}]
      BY <1>1, <2>2, Zenon DEF SInv, SchedulerTypeOK, history
    <3>2. \A x \in fired : Open(x)' => Open(x)
      BY <1>1, <2>0, <3>1, NotReopened, Zenon
    <3> QED BY <1>1, <3>1, <3>2, Zenon DEF SInv, NeverEarly, Settled, OnceIfKeyOutlives, SchedulerTypeOK
  <2> QED BY <2>1, <2>2, Zenon DEF EnqueueFailed
<1>3. SchedulerTypeOK'
  BY <1>1, <1>2, Zenon DEF SInv, SchedulerTypeOK
<1>4. Reached'
  BY <1>1, Zenon DEF SInv, SchedulerTypeOK, Reached
<1>5. Ahead'
  <2> SUFFICES ASSUME NEW v \in Worker, pc'[v] = "claim", NEW x \in due'[v], Current(v, x)'
               PROVE  x \in fired' /\ next'[v] > x[2] /\ (Fast = 0 => next'[v] <= Next(x[1], now'))
    BY Zenon DEF Ahead
  <2>1. v # w /\ pc[v] = "claim" /\ due'[v] = due[v] /\ next'[v] = next[v] /\ now' = now
    BY <1>1, Zenon DEF SInv, SchedulerTypeOK
  <2>2. x \in due[v] /\ Current(v, x)
    BY <2>1, Zenon DEF Current
  <2> QED BY <1>2, <2>1, <2>2, Zenon DEF SInv, Ahead
<1> QED BY <1>2, <1>3, <1>4, <1>5, Zenon DEF SInv

\* Starting and the end of seeding.
LEMMA StartInv ==
  ASSUME SInv, NEW w \in Worker, Start(w) \/ seedSchedules(w)
  PROVE  SInv'
<1>1. faults' \in 0..MaxFaults /\ seeded' \in [Worker -> SUBSET Entry]
  BY SchedulerAssumption DEF SInv, SchedulerTypeOK, Start, seedSchedules, Fault
<1>2. /\ pc' \in [Worker -> {"down", "seed", "sleep", "time", "range", "fire", "claim"}]
      /\ \A v \in Worker : pc'[v] = "claim" => pc[v] = "claim"
  BY Zenon DEF SInv, SchedulerTypeOK, Start, seedSchedules, Goto
<1>3. UNCHANGED <<now, lease, cron, keys, leader, due, next, fired, refired, exposed>>
  BY Zenon DEF Start, seedSchedules, store, history
<1>4. /\ asOf' \in [Worker -> Time]
      /\ \A v \in Worker : asOf'[v] <= IF pc'[v] = "seed" THEN now + Fast ELSE now
  <2>0. /\ now \in Nat /\ 0 \in Time /\ asOf \in [Worker -> Time] /\ Fast \in Nat
        /\ pc \in [Worker -> {"down", "seed", "sleep", "time", "range", "fire", "claim"}]
        /\ \A v \in Worker : asOf[v] <= IF pc[v] = "seed" THEN now + Fast ELSE now
    BY SchedulerAssumption DEF SInv, SchedulerTypeOK, Reached, Time
  <2>1. CASE Start(w)
    <3>1. PICK t \in Time : t <= now + Fast /\ asOf' = [asOf EXCEPT ![w] = t]
      BY <2>1, Zenon DEF Start, Readings
    <3>2. pc' = [pc EXCEPT ![w] = "seed"]
      BY <2>1, Zenon DEF Start, Goto
    <3> QED BY <2>0, <3>1, <3>2, Zenon
  <2>2. CASE seedSchedules(w)
    <3>1. asOf' = [asOf EXCEPT ![w] = 0] /\ pc' = [pc EXCEPT ![w] = "sleep"]
      BY <2>2, Zenon DEF seedSchedules, Goto
    <3>2. 0 <= now
      BY <2>0
    <3> QED BY <2>0, <3>1, <3>2
  <2> QED BY <2>1, <2>2
<1>5. SchedulerTypeOK'
  BY <1>1, <1>2, <1>3, <1>4, Zenon DEF SInv, SchedulerTypeOK
<1>6. Reached'
  BY <1>3, <1>4, Zenon DEF SInv, Reached
<1> QED BY <1>2, <1>3, <1>5, <1>6, LocalInv, Zenon

\* Election.
LEMMA ElectionInv ==
  ASSUME SInv, NEW w \in Worker, AcquireLease(w) \/ AcquireFailed(w)
  PROVE  SInv'
<1>1. lease' \in Worker \cup {NoOwner} /\ faults' \in 0..MaxFaults
  BY SchedulerAssumption DEF SInv, SchedulerTypeOK, AcquireLease, AcquireFailed, Fault
<1>2. leader' \in [Worker -> BOOLEAN]
  <2>1. leader \in [Worker -> BOOLEAN]
    BY Zenon DEF SInv, SchedulerTypeOK
  <2>2. CASE AcquireFailed(w)
    BY <2>1, <2>2, Zenon DEF AcquireFailed, local
  <2>3. CASE AcquireLease(w)
    <3>1. leader' = [leader EXCEPT ![w] = lease \in {w, NoOwner}]
      BY <2>3, Zenon DEF AcquireLease
    <3>2. (lease \in {w, NoOwner}) \in BOOLEAN
      BY SMT
    <3> QED BY <2>1, <3>1, <3>2, Zenon
  <2> QED BY <2>2, <2>3, Zenon
<1>3. /\ pc' \in [Worker -> {"down", "seed", "sleep", "time", "range", "fire", "claim"}]
      /\ \A v \in Worker : pc'[v] = "claim" => pc[v] = "claim"
  BY Zenon DEF SInv, SchedulerTypeOK, AcquireLease, AcquireFailed, Goto, local
<1>4. UNCHANGED <<now, cron, keys, seeded, asOf, due, next, fired, refired, exposed>>
  BY Zenon DEF AcquireLease, AcquireFailed, local, history
<1>5. SchedulerTypeOK'
  BY <1>1, <1>2, <1>3, <1>4, Zenon DEF SInv, SchedulerTypeOK
<1>6. Reached'
  <2>1. \A v \in Worker : pc'[v] = "seed" <=> pc[v] = "seed"
    BY DEF SInv, SchedulerTypeOK, AcquireLease, AcquireFailed, Goto, local
  <2> QED BY <1>4, <2>1, Zenon DEF SInv, Reached
<1> QED BY <1>3, <1>4, <1>5, <1>6, LocalInv, Zenon

\* Reading the server's time.
LEMMA TimeInv ==
  ASSUME SInv, NEW w \in Worker, serverTime(w) \/ DueCronFailed(w)
  PROVE  SInv'
<1>1. now \in Time /\ 0 \in Time /\ now \in Nat
  BY SchedulerAssumption DEF SInv, SchedulerTypeOK, Time
<1>2. /\ asOf' \in [Worker -> Time]
      /\ \A v \in Worker : asOf'[v] <= IF pc'[v] = "seed" THEN now + Fast ELSE now
  BY <1>1 DEF SInv, SchedulerTypeOK, Reached, serverTime, DueCronFailed, Goto
<1>3. /\ pc' \in [Worker -> {"down", "seed", "sleep", "time", "range", "fire", "claim"}]
      /\ \A v \in Worker : pc'[v] = "claim" => pc[v] = "claim"
  BY Zenon DEF SInv, SchedulerTypeOK, serverTime, DueCronFailed, Goto
<1>4. UNCHANGED <<now, lease, cron, keys, leader, seeded, due, next, fired, refired, exposed>>
  BY Zenon DEF serverTime, DueCronFailed, store, history
<1>5. faults' \in 0..MaxFaults
  BY SchedulerAssumption DEF SInv, SchedulerTypeOK, serverTime, DueCronFailed, Fault
<1>6. SchedulerTypeOK'
  BY <1>2, <1>3, <1>4, <1>5, Zenon DEF SInv, SchedulerTypeOK
<1>7. Reached'
  BY <1>2, <1>4, Zenon DEF SInv, Reached
<1> QED BY <1>3, <1>4, <1>6, <1>7, LocalInv, Zenon

\* The end of a pass, and entries it cannot advance.
LEMMA SkipInv ==
  ASSUME SInv, NEW w \in Worker, passDone(w) \/ \E d \in due[w] : skipEntry(w, d)
  PROVE  SInv'
<1>1. /\ due' \in [Worker -> SUBSET (Entry \X Time)]
      /\ \A v \in Worker : due'[v] \subseteq due[v]
  BY DEF SInv, SchedulerTypeOK, passDone, skipEntry, Rest
<1>2. /\ pc' \in [Worker -> {"down", "seed", "sleep", "time", "range", "fire", "claim"}]
      /\ \A v \in Worker : pc'[v] = "claim" => pc[v] = "claim" /\ due'[v] = due[v]
  BY Zenon DEF SInv, SchedulerTypeOK, passDone, skipEntry, Rest, Goto
<1>3. UNCHANGED <<now, lease, cron, keys, leader, seeded, asOf, next, faults, fired, refired, exposed>>
  BY Zenon DEF passDone, skipEntry, store, history
<1>4. SchedulerTypeOK'
  BY <1>1, <1>2, <1>3, Zenon DEF SInv, SchedulerTypeOK
<1>5. Reached'
  <2>1. \A v \in Worker : pc'[v] = "seed" <=> pc[v] = "seed"
    BY DEF SInv, SchedulerTypeOK, passDone, skipEntry, Goto
  <2> QED BY <1>1, <1>3, <2>1, Zenon DEF SInv, Reached
<1> QED BY <1>1, <1>2, <1>3, <1>4, <1>5, LocalInv, Zenon

\* A worker stops or crashes.
LEMMA DownInv ==
  ASSUME SInv, NEW w \in Worker, ReleaseLease(w) \/ Crash(w)
  PROVE  SInv'
<1>1. 0 \in Time /\ now \in Nat
  BY SchedulerAssumption DEF SInv, SchedulerTypeOK, Time
<1>2. Down(w) /\ lease' \in Worker \cup {NoOwner}
  BY Zenon DEF SInv, SchedulerTypeOK, ReleaseLease, Crash
<1>3. leader' \in [Worker -> BOOLEAN] /\ faults' \in 0..MaxFaults
  BY <1>2, SchedulerAssumption DEF SInv, SchedulerTypeOK, Down, Fault
<1>4. /\ seeded' \in [Worker -> SUBSET Entry] /\ asOf' \in [Worker -> Time] /\ next' \in [Worker -> Time]
      /\ due' \in [Worker -> SUBSET (Entry \X Time)]
  BY <1>1, <1>2, Zenon DEF SInv, SchedulerTypeOK, Down
<1>5. /\ pc' \in [Worker -> {"down", "seed", "sleep", "time", "range", "fire", "claim"}]
      /\ \A v \in Worker : pc'[v] = "claim" => pc[v] = "claim" /\ due'[v] = due[v] /\ next'[v] = next[v]
  BY <1>2, Zenon DEF SInv, SchedulerTypeOK, Down
<1>6. UNCHANGED <<now, cron, keys, fired, refired, exposed>>
  BY <1>2, Zenon DEF Down, history
<1>7. SchedulerTypeOK'
  BY <1>2, <1>3, <1>4, <1>5, <1>6, Zenon DEF SInv, SchedulerTypeOK
<1>8. /\ \A v \in Worker : asOf'[v] <= IF pc'[v] = "seed" THEN now + Fast ELSE now
      /\ \A v \in Worker : due'[v] \subseteq due[v]
  BY <1>1, <1>2 DEF SInv, SchedulerTypeOK, Reached, Down
<1>9. Reached'
  BY <1>6, <1>8, Zenon DEF SInv, Reached
<1> QED BY <1>5, <1>6, <1>7, <1>8, <1>9, LocalInv, Zenon

\* Steps of operators, of the TTLs and of the clock.
LEMMA StoreInv ==
  ASSUME SInv,
         (\E e \in Entry : RemoveCron(e)) \/ LeaseExpires \/ (\E d \in keys : KeyExpires(d)) \/ Tick
  PROVE  SInv'
<1>0. fired \subseteq Entry \X Time /\ cron \in [Entry -> Time \cup {NoTime}]
  BY Zenon DEF SInv, SchedulerTypeOK
<1>1. CASE LeaseExpires
  <2>1. SchedulerTypeOK' /\ Reached'
    BY <1>1, Zenon DEF SInv, SchedulerTypeOK, Reached, LeaseExpires, local, history
  <2> QED BY <1>1, <2>1, LocalInv, Zenon DEF LeaseExpires, local, history
<1>2. CASE \E e \in Entry : RemoveCron(e)
  <2>1. PICK e \in Entry : RemoveCron(e)
    BY <1>2, Zenon
  <2>2. /\ UNCHANGED <<now, keys, lease, local, fired, refired>>
        /\ cron' = [cron EXCEPT ![e] = NoTime] /\ exposed' = exposed \cup {d \in fired : d[1] = e}
    BY <2>1, Zenon DEF RemoveCron
  <2>3. faults' \in 0..MaxFaults
    BY <2>1, SchedulerAssumption DEF RemoveCron, Fault, SInv, SchedulerTypeOK
  <2>4. SchedulerTypeOK'
    BY <2>2, <2>3, Zenon DEF SInv, SchedulerTypeOK, local
  <2>5. Reached' /\ NeverEarly' /\ OnceIfKeyOutlives' /\ Ahead'
    BY <2>2, Zenon DEF SInv, Reached, NeverEarly, OnceIfKeyOutlives, Ahead, Current, local
  <2>6. ASSUME NEW d \in fired, d[1] # e, Open(d)' PROVE Open(d)
    <3>1. cron'[d[1]] = cron[d[1]] /\ due' = due
      BY <1>0, <2>2, <2>6, Zenon DEF local
    <3> QED BY <2>6, <3>1, Zenon DEF Open
  <2>7. Settled'
    BY <2>2, <2>6, Zenon DEF SInv, Settled
  <2> QED BY <2>4, <2>5, <2>7, Zenon DEF SInv
<1>4. CASE \E d \in keys : KeyExpires(d)
  <2>1. PICK d \in keys : KeyExpires(d)
    BY <1>4, Zenon
  <2>2. /\ keys' = keys \ {d} /\ UNCHANGED <<now, lease, cron, local, faults, fired, refired>>
        /\ exposed' = IF Open(d) THEN exposed \cup {d} ELSE exposed
    BY <2>1, Zenon DEF KeyExpires
  <2>3. SchedulerTypeOK' /\ Reached' /\ NeverEarly' /\ OnceIfKeyOutlives'
    <3>1. keys' \subseteq keys /\ exposed \subseteq exposed' /\ exposed' \subseteq exposed \cup keys
      BY <2>2, Zenon
    <3>2. SchedulerTypeOK'
      BY <2>2, <3>1, Zenon DEF SInv, SchedulerTypeOK, local
    <3>3. Reached' /\ NeverEarly'
      BY <2>2, Zenon DEF SInv, Reached, NeverEarly, local
    <3>4. OnceIfKeyOutlives'
      BY <2>2, <3>1, Zenon DEF SInv, OnceIfKeyOutlives
    <3> QED BY <3>2, <3>3, <3>4
  <2>4. Settled'
    <3>1. \A x : Open(x)' <=> Open(x)
      BY <2>2, Zenon DEF Open, local
    <3> QED BY <2>2, <3>1, Zenon DEF SInv, Settled
  <2>5. Ahead'
    BY <2>2, Zenon DEF SInv, Ahead, Current, local
  <2> QED BY <2>3, <2>4, <2>5, Zenon DEF SInv
<1>3. CASE Tick
  <2>1. now' = now + 1 /\ now \in Nat /\ now < MaxTime /\ UNCHANGED <<store, local, faults, history>>
    BY <1>3, SMTT(30) DEF Tick, SInv, SchedulerTypeOK
  <2>2. SchedulerTypeOK' /\ Settled' /\ OnceIfKeyOutlives'
    <3>1. now' \in 0..MaxTime
      BY <2>1, SchedulerAssumption
    <3> QED BY <2>1, <3>1, Zenon
        DEF SInv, SchedulerTypeOK, Settled, Open, OnceIfKeyOutlives, store, local, history
  <2>3. Reached' /\ NeverEarly'
    <3>1. \A x \in Entry \X Time : x[2] \in Int
      BY DEF Time
    <3>2. \A v \in Worker : asOf[v] \in Int
      BY SMTT(30) DEF SInv, SchedulerTypeOK, Time
    <3>3. NeverEarly' /\ \A v \in Worker : \A d \in due'[v] : d[2] <= now'
      BY <2>1, <3>1 DEF SInv, SchedulerTypeOK, Reached, NeverEarly, local, history
    <3>4. ASSUME NEW v \in Worker PROVE asOf[v] <= IF pc[v] = "seed" THEN now' + Fast ELSE now'
      <4>1. asOf[v] <= IF pc[v] = "seed" THEN now + Fast ELSE now
        BY Zenon DEF SInv, Reached
      <4> QED BY <2>1, <3>2, <4>1, SchedulerAssumption
    <3> QED BY <2>1, <3>3, <3>4, Zenon DEF Reached, local
  <2>4. Ahead'
    <3> SUFFICES ASSUME NEW v \in Worker, pc'[v] = "claim", NEW x \in due'[v], Current(v, x)'
                 PROVE  x \in fired' /\ next'[v] > x[2] /\ (Fast = 0 => next'[v] <= Next(x[1], now'))
      BY Zenon DEF Ahead
    <3>1. pc[v] = "claim" /\ x \in due[v] /\ Current(v, x) /\ next' = next /\ fired' = fired
      BY <2>1, Zenon DEF Current, local, history
    <3>2. x[1] \in Entry /\ next[v] \in Int
      BY <3>1, SMTT(30) DEF SInv, SchedulerTypeOK, Time
    <3>3. Next(x[1], now) <= Next(x[1], now') /\ Next(x[1], now) \in Int /\ Next(x[1], now') \in Int
      BY <2>1, <3>2, NextMonotone, NextLater, SMTT(30)
    <3>4. x \in fired /\ next[v] > x[2] /\ (Fast = 0 => next[v] <= Next(x[1], now))
      BY <3>1, Zenon DEF SInv, Ahead
    <3> QED BY <3>1, <3>2, <3>3, <3>4, SMTT(30)
  <2> QED BY <2>2, <2>3, <2>4, Zenon DEF SInv
<1> QED BY <1>1, <1>2, <1>3, <1>4, Zenon

\* Every step preserves the invariant.
LEMMA StepSInv == SInv /\ [Step]_vars => SInv'
<1> SUFFICES ASSUME SInv, [Step]_vars PROVE SInv'
  BY Zenon
<1>1. ASSUME NEW w \in Worker, Pass(w) PROVE SInv'
  BY <1>1, StartInv, SeedInv, ElectionInv, TimeInv, DueCronInv, SkipInv, EnqueueInv, ClaimInv, Zenon
  DEF Pass
<1>2. ASSUME NEW w \in Worker,
             \/ AcquireFailed(w) \/ DueCronFailed(w) \/ ReleaseLease(w) \/ Crash(w)
             \/ \E d \in due[w] : EnqueueFailed(w, d) \/ ClaimFailed(w, d)
      PROVE  SInv'
  BY <1>2, ElectionInv, TimeInv, EnqueueFailedInv, ClaimInv, DownInv, Zenon
<1>3. CASE UNCHANGED vars
  BY <1>3, Zenon DEF vars, store, local, history, SInv, SchedulerTypeOK, Reached, NeverEarly, Settled,
              Open, OnceIfKeyOutlives, Ahead, Current
<1> QED BY <1>1, <1>2, <1>3, StoreInv, Zenon DEF Step
-----------------------------------------------------------------------------
(* The theorems.                                                           *)

\* The invariant holds throughout.
THEOREM SchedulerInvariance == Spec => []SInv
<1> QED BY InitSInv, StepSInv, PTL DEF Spec

\* The state of the schedulers and of the cron store keeps its type.
THEOREM SchedulerTypeCorrect == Spec => []SchedulerTypeOK
<1>1. SInv => SchedulerTypeOK
  BY Zenon DEF SInv
<1> QED BY <1>1, SchedulerInvariance, PTL

\* However many schedulers overlap, fail and restart, a tick whose unique key
\* outlives its claim and the passes that hold it gets one job, whenever the
\* key lapses after that (server.go cronUniqueTTL: "It only has to outlive a
\* retry of the same tick").
THEOREM TickFiresOnce == Spec => []OnceIfKeyOutlives
<1>1. SInv => OnceIfKeyOutlives
  BY Zenon DEF SInv
<1> QED BY <1>1, SchedulerInvariance, PTL

\* However far the workers' clocks are off, no job is enqueued before its
\* tick is due on the server's clock (rdb/cron.go).
THEOREM FiringNeverEarly == Spec => []NeverEarly
<1>1. SInv => NeverEarly
  BY Zenon DEF SInv
<1> QED BY <1>1, SchedulerInvariance, PTL

\* Only a claim moves a stored schedule to another fire time.
LEMMA OnlyClaimsMove ==
  ASSUME SInv, [Step]_vars, NEW e \in Entry,
         NoTime \notin {cron[e], cron'[e]}, cron'[e] # cron[e]
  PROVE  \E w \in Worker : \E d \in due[w] : ClaimCron(w, d)
<1>1. ASSUME NEW w \in Worker, NEW x \in Entry, ScheduleCronIfAbsent(w, x) PROVE FALSE
  BY <1>1, Zenon DEF ScheduleCronIfAbsent, SInv, SchedulerTypeOK
<1>2. ASSUME NEW x \in Entry, RemoveCron(x) PROVE FALSE
  BY <1>2, Zenon DEF RemoveCron, SInv, SchedulerTypeOK
<1>3. ASSUME NEW w \in Worker, Pass(w) PROVE \E d \in due[w] : ClaimCron(w, d)
  BY <1>1, <1>3, Zenon DEF Pass, Start, seedSchedules, AcquireLease, serverTime, DueCron, passDone,
                    skipEntry, Enqueue, store
<1>4. ASSUME NEW w \in Worker,
             \/ AcquireFailed(w) \/ DueCronFailed(w) \/ ReleaseLease(w) \/ Crash(w)
             \/ \E d \in due[w] : EnqueueFailed(w, d) \/ ClaimFailed(w, d)
      PROVE  FALSE
  BY <1>4, Zenon DEF AcquireFailed, DueCronFailed, EnqueueFailed, ClaimFailed, ReleaseLease, Crash,
              Down, store
<1>5. ~ (LeaseExpires \/ (\E d \in keys : KeyExpires(d)) \/ Tick \/ UNCHANGED vars)
  BY Zenon DEF LeaseExpires, KeyExpires, Tick, vars, store
<1> QED BY <1>2, <1>3, <1>4, <1>5, Zenon DEF Step

\* The pass that claims is at the tick, has enqueued for it and has computed
\* a fire time ahead of it.
LEMMA MoveFacts ==
  ASSUME SInv, [Step]_vars, NEW e \in Entry,
         NoTime \notin {cron[e], cron'[e]}, cron'[e] # cron[e]
  PROVE  /\ <<e, cron[e]>> \in fired /\ cron'[e] > cron[e]
         /\ cron[e] <= now
         /\ Fast = 0 => cron'[e] <= Next(e, now)
<1>1. PICK w \in Worker : \E d \in due[w] : ClaimCron(w, d)
  BY OnlyClaimsMove, Zenon
<1>2. PICK d \in due[w] : ClaimCron(w, d)
  BY <1>1, Zenon
<1>3. d \in Entry \X Time /\ d[1] = e /\ d[2] = cron[e] /\ cron'[e] = next[w]
  <2>1. d \in Entry \X Time /\ cron \in [Entry -> Time \cup {NoTime}]
    BY Zenon DEF SInv, SchedulerTypeOK
  <2>2. cron' = IF cron[d[1]] = d[2] THEN [cron EXCEPT ![d[1]] = next[w]] ELSE cron
    BY <1>2, Zenon DEF ClaimCron
  <2>3. d[1] \in Entry
    BY <2>1, Zenon
  <2>4. cron[d[1]] = d[2] /\ d[1] = e
    BY <2>1, <2>2, <2>3, Zenon
  <2> QED BY <2>1, <2>2, <2>4, Zenon
<1>4. d = <<e, cron[e]>>
  BY <1>3, SMTT(30)
<1>5. pc[w] = "claim" /\ Current(w, d)
  BY <1>2, Zenon DEF ClaimCron, Goto
<1>6. d \in fired /\ next[w] > d[2] /\ (Fast = 0 => next[w] <= Next(d[1], now))
  BY <1>5, Zenon DEF SInv, Ahead
<1>7. d[2] <= now
  BY Zenon DEF SInv, Reached
<1> QED BY <1>3, <1>4, <1>6, <1>7, Zenon

\* A schedule moves past a tick only after a job was enqueued for it, and
\* only forwards (scheduler.go: enqueue first, then claim).
THEOREM TicksNotSkipped == Spec => NoSkippedTick
<1>1. SInv /\ [Step]_vars =>
        [\A e \in Entry : NoTime \notin {cron[e], cron'[e]} /\ cron'[e] # cron[e] =>
           <<e, cron[e]>> \in fired /\ cron'[e] > cron[e]]_vars
  BY MoveFacts, Zenon
<1> QED BY <1>1, SchedulerInvariance, PTL DEF Spec, NoSkippedTick

\* Where no worker's clock is ahead of the server's, a claim passes over no
\* tick that is still to come.
THEOREM ClaimsOnServerClock ==
  ASSUME Fast = 0
  PROVE  Spec => NextOnServerClock
<1>1. SInv /\ [Step]_vars =>
        [\A e \in Entry : NoTime \notin {cron[e], cron'[e]} /\ cron'[e] # cron[e] =>
           cron'[e] <= Next(e, IF now < cron[e] THEN cron[e] ELSE now)]_vars
  <2> SUFFICES ASSUME SInv, [Step]_vars, NEW e \in Entry,
                      NoTime \notin {cron[e], cron'[e]}, cron'[e] # cron[e]
               PROVE  cron'[e] <= Next(e, IF now < cron[e] THEN cron[e] ELSE now)
    BY Zenon
  <2>1. cron[e] <= now /\ cron'[e] <= Next(e, now)
    BY MoveFacts, Zenon
  <2>2. cron[e] \in Int /\ now \in Int
    BY DEF SInv, SchedulerTypeOK, Time, NoTime
  <2>3. (IF now < cron[e] THEN cron[e] ELSE now) = now
    BY <2>1, <2>2
  <2> QED BY <2>1, <2>3, Zenon
<1> QED BY <1>1, SchedulerInvariance, PTL DEF Spec, NextOnServerClock
=============================================================================
