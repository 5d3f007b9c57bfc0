---------------------------- MODULE LeasesProofs ----------------------------
(***************************************************************************)
(* Theorems about leases and their renewal, for any number of workers and  *)
(* jobs, any timeouts and any number of failed calls: a handler that lost  *)
(* its lease ends in time, a healthy worker keeps its leases, and the job  *)
(* of a worker that is gone is recovered in time.                          *)
(***************************************************************************)
EXTENDS Leases, TLAPS

LeasesSpec == LeasesInit /\ [][LeasesNext]_leaseVars

\* The intervals of the loops are positive, and jitter only shortens them.
LEMMA Intervals ==
  ASSUME NEW w \in Worker
  PROVE  /\ VisibilityTimeout[w] \in Nat \ {0} /\ Latency \in Nat
         /\ RenewInterval(w) \in Nat \ {0} /\ ReapInterval(w) \in Nat \ {0}
         /\ \A d \in jitter(ReapInterval(w)) : d \in Nat /\ d <= ReapInterval(w)
<1>1. VisibilityTimeout[w] \in Nat \ {0} /\ Second \in Nat \ {0} /\ Latency \in Nat
  BY TimingAssumption, Zenon
<1>2. VisibilityTimeout[w] \div 2 \in Nat /\ VisibilityTimeout[w] \div 3 \in Nat
  BY <1>1, SMTT(30)
<1>3. RenewInterval(w) \in Nat \ {0} /\ ReapInterval(w) \in Nat \ {0}
  BY <1>1, <1>2 DEF RenewInterval, ReapInterval, Interval
<1>4. \A d \in jitter(ReapInterval(w)) : d \in Nat /\ d <= ReapInterval(w)
  <2> DEFINE n == ReapInterval(w)
  <2>1. n \div 2 \in Nat /\ 2 * (n \div 2) <= n
    BY <1>3, SMTT(30)
  <2> QED BY <1>3, <2>1 DEF jitter
<1> QED BY <1>1, <1>3, <1>4, Zenon

\* One more interval.
LEMMA OneMore ==
  ASSUME NEW n \in Nat, NEW c \in Nat
  PROVE  /\ n * c \in Nat /\ (n + 1) * c \in Nat
         /\ (n + 1) * c = n * c + c /\ 0 * c = 0 /\ 1 * c = c
  BY SMTT(30)

\* Fewer intervals take no longer.
LEMMA Fewer ==
  ASSUME NEW m \in Nat, NEW n \in Nat, NEW c \in Nat, m <= n
  PROVE  m * c \in Nat /\ n * c \in Nat /\ m * c <= n * c
  BY SMTT(30)

-----------------------------------------------------------------------------
(* Types.                                                                  *)

\* The state of the fleet and of the broker.
LTypes ==
  /\ phase \in [Worker -> {"off", "serving", "draining", "cancelling", "gone"}]
  /\ patience \in [Worker -> Nat] /\ claimIn \in [Worker -> Nat] /\ renewIn \in [Worker -> Nat]
  /\ swept \in [Worker -> Nat] /\ reapIn \in [Worker -> Nat]
  /\ claiming \in [Worker -> Job \cup {NoJob}]
  /\ renewal \in [Worker -> [pc : {"asleep", "asked", "extended"},
                             ids : SUBSET Job, lost : SUBSET Job]]
  /\ failures \in [Worker -> 0..(maxRenewFailures - 1)]
  /\ sweeping \in [Worker -> BOOLEAN]
  /\ handlers \in [Worker -> SUBSET Job] /\ cancelled \in [Worker -> SUBSET Job]
  /\ owner \in [Job -> Worker \cup {NoOwner}]
  /\ left \in [Job -> Int]
  /\ orphanFor \in [Job -> Nat] /\ passedOver \in [Job -> Nat]
  /\ faults \in Nat
  /\ staleFor \in [Worker -> [Job -> Nat]]

\* The timers of a worker stay within the sleeps and the calls they measure; a
\* worker that is not up runs no handler, and one that stays does not shut
\* down.
Timers(w) ==
  /\ claimIn[w] <= Latency
  /\ renewIn[w] <= IF renewal[w].pc = "asleep" THEN RenewInterval(w) ELSE Latency
  /\ reapIn[w] <= IF sweeping[w] THEN Latency ELSE ReapInterval(w)
  /\ ~ sweeping[w] => swept[w] = 0
  /\ phase[w] # "serving" => ~ sweeping[w]
  /\ ~ Up(w) => handlers[w] = {} /\ claiming[w] = NoJob
  /\ w \notin Mortal => phase[w] \in {"off", "serving"}

LInv == LTypes /\ \A w \in Worker : Timers(w)

\* The renewal loop is asleep or in a call.
LEMMA AsleepType ==
  Asleep \in [pc : {"asleep", "asked", "extended"}, ids : SUBSET Job, lost : SUBSET Job]
  /\ Asleep.pc = "asleep"
  BY DEF Asleep

\* The invariant holds initially.
LEMMA LInvInit == LeasesInit => LInv
<1> SUFFICES ASSUME LeasesInit PROVE LInv
  BY Zenon
<1>1. LTypes
  <2>1. renewal \in [Worker -> [pc : {"asleep", "asked", "extended"}, ids : SUBSET Job, lost : SUBSET Job]]
    BY AsleepType, Zenon DEF LeasesInit
  <2>2. failures \in [Worker -> 0..(maxRenewFailures - 1)]
    BY LeasesAssumption DEF LeasesInit
  <2> QED BY <2>1, <2>2 DEF LeasesInit, LTypes
<1>2. ASSUME NEW w \in Worker PROVE Timers(w)
  BY AsleepType, Intervals DEF LeasesInit, Timers, Up
<1> QED BY <1>1, <1>2, Zenon DEF LInv

\* What changes the timers of no worker and moves no phase.
LEMMA TimersSame ==
  ASSUME NEW w \in Worker, Timers(w),
         phase'[w] = phase[w], claimIn'[w] = claimIn[w], renewIn'[w] = renewIn[w],
         renewal'[w].pc = "asleep" <=> renewal[w].pc = "asleep",
         reapIn'[w] = reapIn[w], sweeping'[w] = sweeping[w], swept'[w] = swept[w],
         handlers'[w] \subseteq handlers[w], claiming'[w] \in {claiming[w], NoJob}
  PROVE  Timers(w)'
<1>1. handlers[w] = {} => handlers'[w] = {}
  BY Zenon
<1> QED BY <1>1, ZenonT(30) DEF Timers, Up

\* The broker's side of a step that frees jobs.
LEMMA DropTypes ==
  ASSUME LTypes, NEW S \in SUBSET Job, Drop(S)
  PROVE  /\ owner' \in [Job -> Worker \cup {NoOwner}]
         /\ left' \in [Job -> Int] /\ orphanFor' \in [Job -> Nat]
<1>1. owner \in [Job -> Worker \cup {NoOwner}] /\ left \in [Job -> Int] /\ orphanFor \in [Job -> Nat]
  BY Zenon DEF LTypes
<1> QED BY <1>1 DEF Drop

\* The worker's side of a step that ends runs.
LEMMA ForgetTypes ==
  ASSUME LTypes, NEW w \in Worker, NEW S \in SUBSET Job, Forget(w, S)
  PROVE  /\ handlers' \in [Worker -> SUBSET Job] /\ cancelled' \in [Worker -> SUBSET Job]
         /\ staleFor' \in [Worker -> [Job -> Nat]]
         /\ \A x \in Worker : handlers'[x] \subseteq handlers[x]
         /\ handlers'[w] = handlers[w] \ S
<1>0. /\ handlers \in [Worker -> SUBSET Job] /\ cancelled \in [Worker -> SUBSET Job]
      /\ staleFor \in [Worker -> [Job -> Nat]]
  BY Zenon DEF LTypes
<1>1. handlers' \in [Worker -> SUBSET Job] /\ cancelled' \in [Worker -> SUBSET Job]
  BY <1>0 DEF Forget
<1>2. staleFor' \in [Worker -> [Job -> Nat]]
  BY <1>0, Zenon DEF Forget
<1>3. /\ \A x \in Worker : handlers'[x] \subseteq handlers[x]
      /\ handlers'[w] = handlers[w] \ S
  BY <1>0, Zenon DEF Forget
<1> QED BY <1>1, <1>2, <1>3, Zenon

\* The end of a claim.
LEMMA EndClaimTypes ==
  ASSUME LTypes, NEW w \in Worker, EndClaim(w)
  PROVE  /\ claiming' \in [Worker -> Job \cup {NoJob}] /\ claimIn' \in [Worker -> Nat]
         /\ claiming'[w] = NoJob /\ claimIn'[w] = 0
         /\ \A x \in Worker \ {w} : claiming'[x] = claiming[x] /\ claimIn'[x] = claimIn[x]
<1>1. claiming \in [Worker -> Job \cup {NoJob}] /\ claimIn \in [Worker -> Nat]
  BY Zenon DEF LTypes
<1> QED BY <1>1 DEF EndClaim

\* Claims keep the invariant.
LEMMA LInvClaims ==
  ASSUME LInv, NEW w \in Worker,
         (\E j \in Job : Dequeue(w, j)) \/ trackJob(w) \/ DequeueFailed(w)
  PROVE  LInv'
<1>0. LTypes /\ \A x \in Worker : Timers(x)
  BY Zenon DEF LInv
<1>1. ASSUME NEW j \in Job, Dequeue(w, j) PROVE LInv'
  <2>1. owner' \in [Job -> Worker \cup {NoOwner}] /\ left' \in [Job -> Int]
    BY <1>0, <1>1, Intervals DEF Dequeue, LTypes
  <2>2. claiming' \in [Worker -> Job \cup {NoJob}] /\ claimIn' \in [Worker -> Nat]
    BY <1>0, <1>1, Intervals DEF Dequeue, LTypes
  <2>3. LTypes'
    BY <1>0, <1>1, <2>1, <2>2, Zenon DEF Dequeue, LTypes, process, renew, reap, runs
  <2>4. ASSUME NEW x \in Worker PROVE Timers(x)'
    <3>1. CASE x # w
      BY <1>0, <1>1, <3>1, TimersSame, Zenon DEF Dequeue, LTypes, process, renew, reap, runs
    <3>2. CASE x = w
      <4>1. Up(x)' /\ claimIn'[x] = Latency /\ Latency <= Latency
        BY <1>0, <1>1, <3>2, Intervals DEF Dequeue, LTypes, process, Up
      <4> QED BY <1>0, <1>1, <4>1, Zenon DEF Timers, Dequeue, process, renew, reap, runs
    <3> QED BY <3>1, <3>2, Zenon
  <2> QED BY <2>3, <2>4, Zenon DEF LInv
<1>2. CASE trackJob(w)
  <2>1. handlers' \in [Worker -> SUBSET Job]
    <3>1. claiming[w] \in Job /\ handlers \in [Worker -> SUBSET Job]
      BY <1>0, <1>2, Zenon DEF trackJob, LTypes
    <3> QED BY <1>2, <3>1 DEF trackJob
  <2>2. EndClaim(w) /\ UNCHANGED <<process, renew, reap, cancelled, lease, faults, staleFor>>
    BY <1>2, Zenon DEF trackJob
  <2>3. LTypes'
    BY <1>0, <2>1, <2>2, EndClaimTypes, Zenon DEF LTypes, process, renew, reap, lease
  <2>4. ASSUME NEW x \in Worker PROVE Timers(x)'
    <3>1. CASE x # w
      <4>1. handlers'[x] = handlers[x]
        BY <1>0, <1>2, <3>1, Zenon DEF trackJob, LTypes
      <4> QED BY <1>0, <2>2, <3>1, <4>1, EndClaimTypes, TimersSame, Zenon DEF process, renew, reap
    <3>2. CASE x = w
      <4>1. Up(x)' /\ claimIn'[x] = 0 /\ 0 <= Latency
        BY <1>0, <1>2, <2>2, <3>2, EndClaimTypes, Intervals DEF trackJob, process, Up
      <4> QED BY <1>0, <2>2, <4>1, Zenon DEF Timers, process, renew, reap
    <3> QED BY <3>1, <3>2, Zenon
  <2> QED BY <2>3, <2>4, Zenon DEF LInv
<1>3. CASE DequeueFailed(w)
  <2>1. EndClaim(w) /\ UNCHANGED <<process, renew, reap, runs, lease, staleFor>>
    BY <1>3, Zenon DEF DequeueFailed
  <2>2. faults' \in Nat
    BY <1>0, <1>3 DEF DequeueFailed, Fault, LTypes
  <2>3. LTypes'
    BY <1>0, <2>1, <2>2, EndClaimTypes, Zenon DEF LTypes, process, renew, reap, runs, lease
  <2>4. ASSUME NEW x \in Worker PROVE Timers(x)'
    <3>1. claimIn'[x] <= Latency /\ claiming'[x] \in {claiming[x], NoJob}
      BY <1>0, <2>1, EndClaimTypes, Intervals DEF Timers
    <3> QED BY <1>0, <2>1, <3>1, Zenon DEF Timers, Up, process, renew, reap, runs
  <2> QED BY <2>3, <2>4, Zenon DEF LInv
<1> QED BY <1>1, <1>2, <1>3, Zenon

\* Reports keep the invariant.
LEMMA LInvReports ==
  ASSUME LInv, NEW w \in Worker, NEW j \in Job, Finish(w, j) \/ FinishUnreported(w, j)
  PROVE  LInv'
<1>0. LTypes /\ \A x \in Worker : Timers(x)
  BY Zenon DEF LInv
<1>1. Forget(w, {j}) /\ UNCHANGED <<process, claim, renew, reap>> /\ {j} \in SUBSET Job
  BY Zenon DEF Finish, FinishUnreported
<1>2. /\ owner' \in [Job -> Worker \cup {NoOwner}] /\ left' \in [Job -> Int]
      /\ orphanFor' \in [Job -> Nat] /\ passedOver' \in [Job -> Nat]
  <2>1. CASE UNCHANGED lease
    BY <1>0, <2>1, Zenon DEF LTypes, lease
  <2>2. CASE Drop({j}) /\ passedOver' = [passedOver EXCEPT ![j] = 0]
    <3>1. passedOver' \in [Job -> Nat]
      BY <1>0, <2>2 DEF LTypes
    <3> QED BY <1>0, <2>2, <3>1, DropTypes, Zenon
  <2> QED BY <2>1, <2>2, Zenon DEF Finish, FinishUnreported
<1>3. faults' \in Nat
  BY <1>0 DEF Finish, FinishUnreported, Fault, LTypes
<1>4. LTypes'
  BY <1>0, <1>1, <1>2, <1>3, ForgetTypes, Zenon DEF LTypes, process, claim, renew, reap
<1>5. ASSUME NEW x \in Worker PROVE Timers(x)'
  BY <1>0, <1>1, ForgetTypes, TimersSame, Zenon DEF process, claim, renew, reap
<1> QED BY <1>4, <1>5, Zenon DEF LInv

\* The renewal loop goes to sleep.
LEMMA SleepTypes ==
  ASSUME LTypes, NEW w \in Worker, Sleep(w)
  PROVE  /\ renewal' \in [Worker -> [pc : {"asleep", "asked", "extended"},
                                     ids : SUBSET Job, lost : SUBSET Job]]
         /\ renewIn' \in [Worker -> Nat]
         /\ renewal'[w].pc = "asleep" /\ renewIn'[w] = RenewInterval(w)
         /\ \A x \in Worker \ {w} : renewal'[x] = renewal[x] /\ renewIn'[x] = renewIn[x]
<1>1. /\ renewal \in [Worker -> [pc : {"asleep", "asked", "extended"},
                                 ids : SUBSET Job, lost : SUBSET Job]]
      /\ renewIn \in [Worker -> Nat] /\ RenewInterval(w) \in Nat
  BY Intervals, Zenon DEF LTypes
<1>2. renewal' = [renewal EXCEPT ![w] = Asleep] /\ renewIn' = [renewIn EXCEPT ![w] = RenewInterval(w)]
  BY Zenon DEF Sleep
<1> QED BY <1>1, <1>2, AsleepType, Zenon

\* The renewal loop keeps the invariant.
LEMMA LInvRenewals ==
  ASSUME LInv, NEW w \in Worker,
         RenewIdle(w) \/ RenewAsk(w) \/ Extend(w) \/ RenewOK(w) \/ RenewFailed(w)
  PROVE  LInv'
<1>0. LTypes /\ \A x \in Worker : Timers(x)
  BY Zenon DEF LInv
<1>1. CASE RenewIdle(w) \/ RenewOK(w) \/ RenewFailed(w)
  <2>1. Sleep(w) /\ UNCHANGED <<process, claim, reap, handlers, lease, staleFor>>
    BY <1>1, Zenon DEF RenewIdle, RenewOK, RenewFailed, runs
  <2>2. failures' \in [Worker -> 0..(maxRenewFailures - 1)]
    <3>1. failures \in [Worker -> 0..(maxRenewFailures - 1)]
      BY <1>0, Zenon DEF LTypes
    <3> QED BY <1>1, <3>1, LeasesAssumption DEF RenewIdle, RenewOK, RenewFailed, GivesUp
  <2>3. cancelled' \in [Worker -> SUBSET Job] /\ faults' \in Nat
    <3>1. /\ handlers \in [Worker -> SUBSET Job] /\ cancelled \in [Worker -> SUBSET Job]
          /\ faults \in Nat
      BY <1>0, Zenon DEF LTypes
    <3>2. faults' \in Nat
      BY <1>1, <3>1 DEF RenewIdle, RenewOK, RenewFailed, Fault
    <3> QED BY <1>1, <3>1, <3>2, Zenon DEF RenewIdle, RenewOK, RenewFailed, runs
  <2>4. LTypes'
    BY <1>0, <2>1, <2>2, <2>3, SleepTypes, Zenon DEF LTypes, process, claim, reap, lease
  <2>5. ASSUME NEW x \in Worker PROVE Timers(x)'
    <3>1. CASE x # w
      BY <1>0, <2>1, <3>1, SleepTypes, TimersSame, Zenon DEF process, claim, reap
    <3>2. CASE x = w
      <4>1. renewal'[x].pc = "asleep" /\ renewIn'[x] <= RenewInterval(x)
        BY <1>0, <2>1, <3>2, SleepTypes, Intervals
      <4> QED BY <1>0, <2>1, <4>1, Zenon DEF Timers, Up, process, claim, reap
    <3> QED BY <3>1, <3>2, Zenon
  <2> QED BY <2>4, <2>5, Zenon DEF LInv
<1>2. CASE RenewAsk(w)
  <2> DEFINE call == [pc |-> "asked", ids |-> handlers[w], lost |-> {}]
  <2>1. /\ renewal' = [renewal EXCEPT ![w] = call] /\ renewIn' = [renewIn EXCEPT ![w] = Latency]
        /\ UNCHANGED <<process, claim, failures, reap, runs, lease, faults, staleFor>>
    BY <1>2, Zenon DEF RenewAsk
  <2>2. call \in [pc : {"asleep", "asked", "extended"}, ids : SUBSET Job, lost : SUBSET Job]
    <3>1. handlers[w] \in SUBSET Job
      BY <1>0, Zenon DEF LTypes
    <3> QED BY <3>1
  <2>3. call.pc = "asked" /\ Latency \in Nat /\ Latency <= Latency
    BY Intervals
  <2> HIDE DEF call
  <2>4. LTypes'
    BY <1>0, <2>1, <2>2, <2>3, Zenon DEF LTypes, process, claim, reap, runs, lease
  <2>5. ASSUME NEW x \in Worker PROVE Timers(x)'
    <3>1. CASE x # w
      BY <1>0, <2>1, <3>1, TimersSame, Zenon DEF LTypes, process, claim, reap, runs
    <3>2. CASE x = w
      <4>1. renewal'[x].pc # "asleep" /\ renewIn'[x] <= Latency
        BY <1>0, <2>1, <2>3, <3>2, Zenon DEF LTypes
      <4> QED BY <1>0, <2>1, <4>1, Zenon DEF Timers, Up, process, claim, reap, runs
    <3> QED BY <3>1, <3>2, Zenon
  <2> QED BY <2>4, <2>5, Zenon DEF LInv
<1>3. CASE Extend(w)
  <2>1. /\ renewal' \in [Worker -> [pc : {"asleep", "asked", "extended"},
                                    ids : SUBSET Job, lost : SUBSET Job]]
        /\ \A x \in Worker : renewal'[x].pc = "asleep" <=> renewal[x].pc = "asleep"
    <3>1. renewal \in [Worker -> [pc : {"asleep", "asked", "extended"},
                                  ids : SUBSET Job, lost : SUBSET Job]]
      BY <1>0, Zenon DEF LTypes
    <3> QED BY <1>3, <3>1 DEF Extend
  <2>2. left' \in [Job -> Int] /\ passedOver' \in [Job -> Nat]
    <3>1. left \in [Job -> Int] /\ passedOver \in [Job -> Nat] /\ VisibilityTimeout[w] \in Int
      BY <1>0, Intervals DEF LTypes
    <3> QED BY <1>3, <3>1 DEF Extend
  <2>3. UNCHANGED <<process, claim, renewIn, failures, reap, runs, owner, orphanFor, faults, staleFor>>
    BY <1>3, Zenon DEF Extend
  <2>4. LTypes'
    BY <1>0, <2>1, <2>2, <2>3, Zenon DEF LTypes, process, claim, reap, runs
  <2>5. ASSUME NEW x \in Worker PROVE Timers(x)'
    BY <1>0, <2>1, <2>3, TimersSame, Zenon DEF process, claim, reap, runs
  <2> QED BY <2>4, <2>5, Zenon DEF LInv
<1> QED BY <1>1, <1>2, <1>3, Zenon

\* The reap loop keeps the invariant.
LEMMA LInvSweeps ==
  ASSUME LInv, NEW w \in Worker, ReapAsk(w) \/ Reap(w) \/ ReapDone(w)
  PROVE  LInv'
<1>0. LTypes /\ \A x \in Worker : Timers(x)
  BY Zenon DEF LInv
<1>1. CASE ReapAsk(w)
  <2>1. /\ sweeping' \in [Worker -> BOOLEAN] /\ reapIn' \in [Worker -> Nat]
        /\ sweeping'[w] /\ reapIn'[w] <= Latency
        /\ \A x \in Worker \ {w} : sweeping'[x] = sweeping[x] /\ reapIn'[x] = reapIn[x]
    <3>1. sweeping \in [Worker -> BOOLEAN] /\ reapIn \in [Worker -> Nat] /\ Latency \in Nat
      BY <1>0, Intervals, Zenon DEF LTypes
    <3> QED BY <1>1, <3>1 DEF ReapAsk
  <2>2. /\ phase[w] = "serving"
        /\ UNCHANGED <<process, claim, renew, swept, runs, lease, faults, staleFor>>
    BY <1>1, Zenon DEF ReapAsk
  <2>3. LTypes'
    BY <1>0, <2>1, <2>2, Zenon DEF LTypes, process, claim, renew, runs, lease
  <2>4. ASSUME NEW x \in Worker PROVE Timers(x)'
    <3>1. CASE x # w
      BY <1>0, <2>1, <2>2, <3>1, TimersSame, Zenon DEF process, claim, renew, runs
    <3>2. CASE x = w
      BY <1>0, <2>1, <2>2, <3>2, Zenon DEF Timers, Up, process, claim, renew, runs
    <3> QED BY <3>1, <3>2, Zenon
  <2> QED BY <2>3, <2>4, Zenon DEF LInv
<1>2. CASE Reap(w)
  <2>1. swept' \in [Worker -> Nat] /\ \A x \in Worker \ {w} : swept'[x] = swept[x]
    <3>1. swept \in [Worker -> Nat]
      BY <1>0, Zenon DEF LTypes
    <3> QED BY <1>2, <3>1 DEF Reap
  <2>2. PICK S \in SUBSET Job :
          /\ Drop(S)
          /\ \A j \in Job : passedOver'[j] \in {0, passedOver[j], passedOver[j] + 1}
          /\ passedOver' \in [Job -> Nat]
    <3>1. PICK S \in Batches(Queues[w][swept[w] + 1]) :
            /\ Drop(S)
            /\ passedOver' = [j \in Job |-> IF j \in S THEN 0
                                ELSE IF j \in Expired(Queues[w][swept[w] + 1]) THEN passedOver[j] + 1
                                ELSE passedOver[j]]
      BY <1>2, Zenon DEF Reap
    <3>2. S \in SUBSET Job
      BY Zenon DEF Batches, Expired
    <3>3. passedOver \in [Job -> Nat]
      BY <1>0, Zenon DEF LTypes
    <3>4. /\ \A j \in Job : passedOver'[j] \in {0, passedOver[j], passedOver[j] + 1}
          /\ passedOver' \in [Job -> Nat]
      BY <3>1, <3>3
    <3> QED BY <3>1, <3>2, <3>4, Zenon
  <2>3. sweeping[w] /\ UNCHANGED <<process, claim, renew, sweeping, reapIn, runs, faults, staleFor>>
    BY <1>2, Zenon DEF Reap
  <2>4. LTypes'
    BY <1>0, <2>1, <2>2, <2>3, DropTypes, Zenon DEF LTypes, process, claim, renew, runs
  <2>5. ASSUME NEW x \in Worker PROVE Timers(x)'
    BY <1>0, <2>1, <2>3, Zenon DEF Timers, Up, process, claim, renew, runs
  <2> QED BY <2>4, <2>5, Zenon DEF LInv
<1>3. CASE ReapDone(w)
  <2>1. /\ sweeping' \in [Worker -> BOOLEAN] /\ swept' \in [Worker -> Nat]
        /\ ~ sweeping'[w] /\ swept'[w] = 0
        /\ \A x \in Worker \ {w} : sweeping'[x] = sweeping[x] /\ swept'[x] = swept[x]
    <3>1. sweeping \in [Worker -> BOOLEAN] /\ swept \in [Worker -> Nat]
      BY <1>0, Zenon DEF LTypes
    <3> QED BY <1>3, <3>1 DEF ReapDone
  <2>2. /\ reapIn' \in [Worker -> Nat] /\ reapIn'[w] <= ReapInterval(w)
        /\ \A x \in Worker \ {w} : reapIn'[x] = reapIn[x]
    <3>1. PICK d \in jitter(ReapInterval(w)) : reapIn' = [reapIn EXCEPT ![w] = d]
      BY <1>3, Zenon DEF ReapDone
    <3>2. d \in Nat /\ d <= ReapInterval(w) /\ reapIn \in [Worker -> Nat]
      BY <1>0, Intervals, Zenon DEF LTypes
    <3> QED BY <3>1, <3>2, Zenon
  <2>3. faults' \in Nat
    BY <1>0, <1>3 DEF ReapDone, Fault, LTypes
  <2>4. UNCHANGED <<process, claim, renew, runs, lease, staleFor>>
    BY <1>3, Zenon DEF ReapDone
  <2>5. LTypes'
    BY <1>0, <2>1, <2>2, <2>3, <2>4, Zenon DEF LTypes, process, claim, renew, runs, lease
  <2>6. ASSUME NEW x \in Worker PROVE Timers(x)'
    <3>1. CASE x # w
      BY <1>0, <2>1, <2>2, <2>4, <3>1, TimersSame, Zenon DEF process, claim, renew, runs
    <3>2. CASE x = w
      BY <1>0, <2>1, <2>2, <2>4, <3>2, Zenon DEF Timers, Up, process, claim, renew, runs
    <3> QED BY <3>1, <3>2, Zenon
  <2> QED BY <2>5, <2>6, Zenon DEF LInv
<1> QED BY <1>1, <1>2, <1>3, Zenon

\* What a worker does to its claim and its sweep when it stops serving.
LEMMA AbandonTypes ==
  ASSUME LTypes, NEW w \in Worker, Abandon(w)
  PROVE  /\ claiming' \in [Worker -> Job \cup {NoJob}] /\ claimIn' \in [Worker -> Nat]
         /\ sweeping' \in [Worker -> BOOLEAN] /\ swept' \in [Worker -> Nat]
         /\ reapIn' \in [Worker -> Nat]
         /\ claiming'[w] = NoJob /\ claimIn'[w] = 0
         /\ ~ sweeping'[w] /\ swept'[w] = 0 /\ reapIn'[w] = 0
         /\ \A x \in Worker \ {w} :
              /\ claiming'[x] = claiming[x] /\ claimIn'[x] = claimIn[x]
              /\ sweeping'[x] = sweeping[x] /\ swept'[x] = swept[x] /\ reapIn'[x] = reapIn[x]
<1>1. EndClaim(w)
  BY Zenon DEF Abandon
<1>2. /\ sweeping \in [Worker -> BOOLEAN] /\ swept \in [Worker -> Nat] /\ reapIn \in [Worker -> Nat]
  BY Zenon DEF LTypes
<1>3. 0 \in Nat
  OBVIOUS
<1>4. /\ sweeping' \in [Worker -> BOOLEAN] /\ swept' \in [Worker -> Nat]
      /\ reapIn' \in [Worker -> Nat]
      /\ ~ sweeping'[w] /\ swept'[w] = 0 /\ reapIn'[w] = 0
      /\ \A x \in Worker \ {w} :
           /\ sweeping'[x] = sweeping[x] /\ swept'[x] = swept[x] /\ reapIn'[x] = reapIn[x]
  BY <1>2, <1>3 DEF Abandon
<1> QED BY <1>1, <1>4, EndClaimTypes, Zenon

\* Workers that come and go keep the invariant.
LEMMA LInvFleet ==
  ASSUME LInv, NEW w \in Worker,
         Start(w) \/ Shutdown(w) \/ DrainCancel(w) \/ DrainDone(w) \/ Crash(w)
  PROVE  LInv'
<1>0. LTypes /\ \A x \in Worker : Timers(x)
  BY Zenon DEF LInv
<1>1. CASE Start(w)
  <2>1. phase' \in [Worker -> {"off", "serving", "draining", "cancelling", "gone"}]
    BY <1>0, <1>1 DEF Start, LTypes
  <2>2. /\ reapIn' \in [Worker -> Nat] /\ reapIn'[w] <= ReapInterval(w)
        /\ \A x \in Worker \ {w} : reapIn'[x] = reapIn[x]
    <3>1. PICK d \in jitter(ReapInterval(w)) : reapIn' = [reapIn EXCEPT ![w] = d]
      BY <1>1, Zenon DEF Start
    <3>2. d \in Nat /\ d <= ReapInterval(w) /\ reapIn \in [Worker -> Nat]
      BY <1>0, Intervals, Zenon DEF LTypes
    <3> QED BY <3>1, <3>2, Zenon
  <2>3. /\ phase[w] = "off" /\ phase' = [phase EXCEPT ![w] = "serving"] /\ Sleep(w)
        /\ UNCHANGED <<patience, claim, failures, sweeping, swept, runs, lease, faults, staleFor>>
    BY <1>1, Zenon DEF Start
  <2>4. LTypes'
    BY <1>0, <2>1, <2>2, <2>3, SleepTypes, Zenon DEF LTypes, claim, runs, lease
  <2>5. ASSUME NEW x \in Worker PROVE Timers(x)'
    <3>1. CASE x # w
      BY <1>0, <2>2, <2>3, <3>1, SleepTypes, TimersSame, Zenon DEF LTypes, claim, runs
    <3>2. CASE x = w
      <4>1. renewal'[w].pc = "asleep" /\ renewIn'[w] <= RenewInterval(w) /\ phase'[w] = "serving"
        BY <1>0, <2>3, SleepTypes, Intervals DEF LTypes
      <4>2. ~ sweeping[w]
        BY <1>0, <2>3, Zenon DEF Timers
      <4> QED BY <1>0, <2>2, <2>3, <3>2, <4>1, <4>2, Zenon DEF Timers, Up, claim, runs
    <3> QED BY <3>1, <3>2, Zenon
  <2> QED BY <2>4, <2>5, Zenon DEF LInv
<1>2. CASE Shutdown(w)
  <2>1. /\ phase' \in [Worker -> {"off", "serving", "draining", "cancelling", "gone"}]
        /\ patience' \in [Worker -> Nat]
    BY <1>0, <1>2, LeasesAssumption DEF Shutdown, LTypes
  <2>2. /\ Abandon(w) /\ UNCHANGED <<renew, runs, lease, faults, staleFor>>
        /\ w \in Mortal /\ phase' = [phase EXCEPT ![w] = "draining"]
    BY <1>2, Zenon DEF Shutdown
  <2>3. LTypes'
    BY <1>0, <2>1, <2>2, AbandonTypes, Zenon DEF LTypes, renew, runs, lease
  <2>4. ASSUME NEW x \in Worker PROVE Timers(x)'
    <3>1. CASE x # w
      BY <1>0, <2>2, <3>1, AbandonTypes, TimersSame, Zenon DEF LTypes, renew, runs
    <3>2. CASE x = w
      <4>1. phase'[w] = "draining" /\ 0 <= Latency /\ 0 <= ReapInterval(w)
        BY <1>0, <2>2, Intervals DEF LTypes
      <4> QED BY <1>0, <2>2, <3>2, <4>1, AbandonTypes, Zenon DEF Timers, Up, renew, runs
    <3> QED BY <3>1, <3>2, Zenon
  <2> QED BY <2>3, <2>4, Zenon DEF LInv
<1>3. CASE DrainCancel(w)
  <2>1. /\ phase' \in [Worker -> {"off", "serving", "draining", "cancelling", "gone"}]
        /\ patience' \in [Worker -> Nat] /\ cancelled' \in [Worker -> SUBSET Job]
    BY <1>0, <1>3, LeasesAssumption DEF DrainCancel, LTypes
  <2>2. /\ phase[w] = "draining" /\ phase' = [phase EXCEPT ![w] = "cancelling"]
        /\ UNCHANGED <<claim, renew, reap, handlers, lease, faults, staleFor>>
    BY <1>3, Zenon DEF DrainCancel
  <2>3. LTypes'
    BY <1>0, <2>1, <2>2, Zenon DEF LTypes, claim, renew, reap, lease
  <2>4. ASSUME NEW x \in Worker PROVE Timers(x)'
    <3>1. CASE x # w
      BY <1>0, <2>2, <3>1, TimersSame, Zenon DEF LTypes, claim, renew, reap
    <3>2. CASE x = w
      <4>1. phase'[w] = "cancelling"
        BY <1>0, <2>2, Zenon DEF LTypes
      <4>2. "draining" # "off" /\ "draining" # "serving"
        OBVIOUS
      <4> QED BY <1>0, <2>2, <3>2, <4>1, <4>2, Zenon DEF Timers, Up, claim, renew, reap
    <3> QED BY <3>1, <3>2, Zenon
  <2> QED BY <2>3, <2>4, Zenon DEF LInv
<1>4. CASE DrainDone(w) \/ Crash(w)
  <2>0. Leave(w) /\ w \in Mortal
    <3>1. "draining" # "off" /\ "draining" # "serving" /\ "cancelling" # "off" /\ "cancelling" # "serving"
      OBVIOUS
    <3> QED BY <1>0, <1>4, <3>1, Zenon DEF DrainDone, Crash, Timers
  <2>1. /\ phase' \in [Worker -> {"off", "serving", "draining", "cancelling", "gone"}]
        /\ patience' \in [Worker -> Nat] /\ failures' \in [Worker -> 0..(maxRenewFailures - 1)]
    BY <1>0, <2>0, LeasesAssumption DEF Leave, LTypes
  <2>2. /\ phase' = [phase EXCEPT ![w] = "gone"]
        /\ Forget(w, handlers[w]) /\ Abandon(w) /\ UNCHANGED <<lease, faults>>
        /\ handlers[w] \in SUBSET Job
    BY <1>0, <2>0, Zenon DEF Leave, LTypes
  <2>3. /\ renewal' \in [Worker -> [pc : {"asleep", "asked", "extended"},
                                    ids : SUBSET Job, lost : SUBSET Job]]
        /\ renewIn' \in [Worker -> Nat]
        /\ \A x \in Worker : \/ renewal'[x] = renewal[x] /\ renewIn'[x] = renewIn[x]
                             \/ renewal'[x].pc = "asleep" /\ renewIn'[x] = 0
    <3>1. /\ renewal \in [Worker -> [pc : {"asleep", "asked", "extended"},
                                     ids : SUBSET Job, lost : SUBSET Job]]
          /\ renewIn \in [Worker -> Nat] /\ 0 \in Nat
      BY <1>0, Zenon DEF LTypes
    <3>2. \/ UNCHANGED <<renewal, renewIn>>
          \/ renewal' = [renewal EXCEPT ![w] = Asleep] /\ renewIn' = [renewIn EXCEPT ![w] = 0]
      BY <2>0, Zenon DEF Leave
    <3> QED BY <3>1, <3>2, AsleepType, Zenon
  <2>4. LTypes'
    BY <1>0, <2>1, <2>2, <2>3, AbandonTypes, ForgetTypes, Zenon DEF LTypes, lease
  <2>5. ASSUME NEW x \in Worker PROVE Timers(x)'
    <3>0. 0 <= Latency /\ 0 <= ReapInterval(x) /\ 0 <= RenewInterval(x)
      BY Intervals
    <3>1. renewIn'[x] <= IF renewal'[x].pc = "asleep" THEN RenewInterval(x) ELSE Latency
      BY <1>0, <2>3, <3>0, Zenon DEF Timers
    <3>2. CASE x # w
      <4>1. phase'[x] = phase[x] /\ handlers'[x] \subseteq handlers[x]
        BY <1>0, <2>2, <3>2, ForgetTypes, Zenon DEF LTypes
      <4>2. handlers[x] = {} => handlers'[x] = {}
        BY <4>1, Zenon
      <4> QED BY <1>0, <2>2, <3>1, <3>2, <4>1, <4>2, AbandonTypes, Zenon DEF Timers, Up
    <3>3. CASE x = w
      <4>1. phase'[w] = "gone" /\ handlers'[w] = {}
        <5>1. phase'[w] = "gone" /\ handlers'[w] = handlers[w] \ handlers[w]
          BY <1>0, <2>2, ForgetTypes, Zenon DEF LTypes
        <5> QED BY <5>1
      <4> QED BY <2>0, <2>2, <1>0, <3>0, <3>1, <3>3, <4>1, AbandonTypes, Zenon DEF Timers
    <3> QED BY <3>2, <3>3, Zenon
  <2> QED BY <2>4, <2>5, Zenon DEF LInv
<1> QED BY <1>1, <1>2, <1>3, <1>4, Zenon

\* The passing of time keeps the invariant.
LEMMA LInvTick ==
  ASSUME LInv, Tick
  PROVE  LInv'
<1>0. LTypes /\ \A x \in Worker : Timers(x)
  BY Zenon DEF LInv
<1>1. \A n \in Nat : Down(n) \in Nat /\ Down(n) <= n
  BY DEF Down
<1>2. /\ patience' \in [Worker -> Nat] /\ claimIn' \in [Worker -> Nat]
      /\ renewIn' \in [Worker -> Nat] /\ reapIn' \in [Worker -> Nat]
      /\ \A x \in Worker : /\ claimIn'[x] <= claimIn[x] /\ renewIn'[x] <= renewIn[x]
                          /\ reapIn'[x] <= reapIn[x]
  BY <1>0, <1>1, Zenon DEF Tick, LTypes
<1>3. renewal' \in [Worker -> [pc : {"asleep", "asked", "extended"},
                              ids : SUBSET Job, lost : SUBSET Job]]
  BY <1>0, AsleepType, Zenon DEF Tick, LTypes
<1>4. left' \in [Job -> Int]
  <2>1. left \in [Job -> Int]
    BY <1>0, Zenon DEF LTypes
  <2> QED BY <2>1 DEF Tick
<1>5. orphanFor' \in [Job -> Nat] /\ staleFor' \in [Worker -> [Job -> Nat]]
  <2>1. \A n \in Nat : n + 1 \in Nat
    OBVIOUS
  <2>2. orphanFor \in [Job -> Nat] /\ staleFor \in [Worker -> [Job -> Nat]] /\ 0 \in Nat
    BY <1>0, Zenon DEF LTypes
  <2> QED BY <2>1, <2>2, Zenon DEF Tick
<1>6. UNCHANGED <<phase, claiming, failures, sweeping, swept, runs, owner, passedOver, faults>>
  BY Zenon DEF Tick
<1>7. LTypes'
  BY <1>0, <1>2, <1>3, <1>4, <1>5, <1>6, Zenon DEF LTypes, runs
<1>8. ASSUME NEW x \in Worker PROVE Timers(x)'
  <2>1. renewIn'[x] <= IF renewal'[x].pc = "asleep" THEN RenewInterval(x) ELSE Latency
    <3>1. \/ renewal'[x].pc = renewal[x].pc
          \/ renewal'[x].pc = "asleep" /\ ~ (renewIn[x] > 0)
      BY AsleepType, Zenon DEF Tick
    <3>2. renewIn[x] <= IF renewal[x].pc = "asleep" THEN RenewInterval(x) ELSE Latency
      BY <1>0, Zenon DEF Timers
    <3>3. /\ renewIn[x] \in Nat /\ renewIn'[x] \in Nat /\ renewIn'[x] <= renewIn[x]
          /\ RenewInterval(x) \in Nat /\ Latency \in Nat
      BY <1>0, <1>2, Intervals, Zenon DEF LTypes
    <3> HIDE DEF RenewInterval
    <3> QED BY <3>1, <3>2, <3>3
  <2>2. claimIn'[x] <= Latency
    BY <1>0, <1>2, Intervals DEF Timers, LTypes
  <2>3. reapIn'[x] <= IF sweeping[x] THEN Latency ELSE ReapInterval(x)
    <3>1. reapIn[x] <= IF sweeping[x] THEN Latency ELSE ReapInterval(x)
      BY <1>0, Zenon DEF Timers
    <3>2. /\ reapIn[x] \in Nat /\ reapIn'[x] \in Nat /\ reapIn'[x] <= reapIn[x]
          /\ ReapInterval(x) \in Nat /\ Latency \in Nat
      BY <1>0, <1>2, Intervals, Zenon DEF LTypes
    <3> HIDE DEF ReapInterval
    <3> QED BY <3>1, <3>2
  <2> QED BY <1>0, <1>6, <2>1, <2>2, <2>3, Zenon DEF Timers, Up, runs
<1> QED BY <1>7, <1>8, Zenon DEF LInv

\* Every step keeps the invariant.
LEMMA LInvStep == LInv /\ [LeasesNext]_leaseVars => LInv'
<1> SUFFICES ASSUME LInv, [LeasesNext]_leaseVars PROVE LInv'
  BY Zenon
<1>1. CASE UNCHANGED leaseVars
  BY <1>1, Zenon DEF LInv, LTypes, Timers, Up, leaseVars, process, claim, renew, reap, runs, lease
<1>2. CASE LeasesNext
  BY <1>2, LInvClaims, LInvReports, LInvRenewals, LInvSweeps, LInvFleet, LInvTick, ZenonT(30)
     DEF LeasesNext
<1> QED BY <1>1, <1>2, Zenon

\* The state of the fleet is always well typed, and its timers within bounds.
THEOREM LeasesTyped == LeasesSpec => []LInv
  BY LInvInit, LInvStep, PTL DEF LeasesSpec

-----------------------------------------------------------------------------
(* How old a lease can be while its handler runs.                          *)

\* The longest time since a lease of a running handler was last extended, or
\* claimed: the claim's reply took a call, the renewals that failed an interval
\* and a call each, and the next one is on its way.
Since(w) ==
  2 * Latency + failures[w] * (RenewInterval(w) + Latency)
    + (IF renewal[w].pc = "asleep" THEN RenewInterval(w) ELSE RenewInterval(w) + Latency)
    - renewIn[w]

\* The lease was extended by the call under way, or the handler started after
\* that call was made.
Fresh(w, j) ==
  /\ renewal[w].pc # "asleep"
  /\ j \notin renewal[w].ids \/ (renewal[w].pc = "extended" /\ j \notin renewal[w].lost)
SinceLease(w, j) == IF Fresh(w, j) THEN 2 * Latency - renewIn[w] ELSE Since(w)

\* A lease is at most that old; without it the handler has run on no longer
\* than the rest of that time.
Kept(w, j) ==
  /\ j \notin handlers[w] => staleFor[w][j] = 0
  /\ claiming[w] = j =>
       /\ j \notin handlers[w]
       /\ IF owner[j] = w THEN VisibilityTimeout[w] <= left[j] + (Latency - claimIn[w])
                          ELSE VisibilityTimeout[w] <= Latency - claimIn[w]
  /\ j \in handlers[w] \ cancelled[w] =>
       IF owner[j] = w THEN staleFor[w][j] = 0 /\ VisibilityTimeout[w] <= left[j] + SinceLease(w, j)
                       ELSE staleFor[w][j] + VisibilityTimeout[w] <= SinceLease(w, j)

AllKept == \A w \in Worker, j \in Job : Kept(w, j)

\* The types a step of arithmetic on the lease of a job needs.
LEMMA LeaseTypes ==
  ASSUME LInv, NEW w \in Worker, NEW j \in Job
  PROVE  /\ VisibilityTimeout[w] \in Nat \ {0} /\ Latency \in Nat
         /\ left[j] \in Int /\ staleFor[w][j] \in Nat
         /\ claimIn[w] \in Nat /\ claimIn[w] <= Latency
         /\ renewIn[w] \in Nat /\ failures[w] \in Nat /\ failures[w] + 1 <= maxRenewFailures
<1>1. /\ left[j] \in Int /\ staleFor[w][j] \in Nat
      /\ claimIn[w] \in Nat /\ claimIn[w] <= Latency /\ renewIn[w] \in Nat
      /\ failures[w] \in 0..(maxRenewFailures - 1)
  BY Zenon DEF LInv, LTypes, Timers
<1>2. failures[w] \in Nat /\ failures[w] + 1 <= maxRenewFailures
  BY <1>1, LeasesAssumption
<1> QED BY <1>1, <1>2, Intervals, Zenon

\* That time in each state of the renewal loop, and its bounds.
LEMMA SinceFacts ==
  ASSUME LInv, NEW w \in Worker
  PROVE  LET c == RenewInterval(w) + Latency
         IN  /\ c \in Nat /\ failures[w] * c \in Nat
             /\ Since(w) \in Nat /\ Since(w) >= 2 * Latency
             /\ Since(w) <= 2 * Latency + (failures[w] + 1) * c
             /\ renewal[w].pc # "asleep" => renewIn[w] <= Latency
             /\ renewal[w].pc = "asleep" =>
                  Since(w) = 2 * Latency + failures[w] * c + RenewInterval(w) - renewIn[w]
             /\ renewal[w].pc # "asleep" =>
                  Since(w) = 2 * Latency + failures[w] * c + c - renewIn[w]
<1> DEFINE i == RenewInterval(w)
           c == i + Latency
           p == failures[w] * c
<1>1. i \in Nat /\ Latency \in Nat /\ renewIn[w] \in Nat /\ failures[w] \in Nat
  <2>1. renewIn[w] \in Nat /\ failures[w] \in 0..(maxRenewFailures - 1)
    BY Zenon DEF LInv, LTypes
  <2> QED BY <2>1, Intervals
<1>2. c \in Nat
  BY <1>1
<1>3. p \in Nat /\ (failures[w] + 1) * c = p + c
  BY <1>1, <1>2, OneMore, Zenon
<1>4. renewIn[w] <= IF renewal[w].pc = "asleep" THEN i ELSE Latency
  BY Zenon DEF LInv, Timers
<1>5. Since(w) = 2 * Latency + p + (IF renewal[w].pc = "asleep" THEN i ELSE c) - renewIn[w]
  BY Zenon DEF Since
<1>6. c = i + Latency
  OBVIOUS
<1> HIDE DEF i, c, p
<1>7. /\ Since(w) \in Nat /\ Since(w) >= 2 * Latency
      /\ Since(w) <= 2 * Latency + (p + c)
      /\ renewal[w].pc # "asleep" => renewIn[w] <= Latency
      /\ renewal[w].pc = "asleep" => Since(w) = 2 * Latency + p + i - renewIn[w]
      /\ renewal[w].pc # "asleep" => Since(w) = 2 * Latency + p + c - renewIn[w]
  BY <1>1, <1>2, <1>3, <1>4, <1>5, <1>6
<1> QED BY <1>2, <1>3, <1>7, Zenon DEF i, c, p

\* A lease in a call is fresher than that, and always as old as its reply.
LEMMA SinceLeaseFacts ==
  ASSUME LInv, NEW w \in Worker, NEW j \in Job
  PROVE  /\ SinceLease(w, j) \in Nat /\ Latency <= SinceLease(w, j)
         /\ SinceLease(w, j) <= Since(w)
<1>1. /\ Since(w) \in Nat /\ Since(w) >= 2 * Latency
      /\ renewal[w].pc # "asleep" => renewIn[w] <= Latency
  BY SinceFacts, Zenon
<1>2. renewIn[w] \in Nat /\ Latency \in Nat
  BY LeaseTypes, Zenon
<1>3. CASE Fresh(w, j)
  <2>1. SinceLease(w, j) = 2 * Latency - renewIn[w] /\ renewIn[w] <= Latency
    BY <1>1, <1>3, Zenon DEF Fresh, SinceLease
  <2> QED BY <1>1, <1>2, <2>1
<1>4. CASE ~ Fresh(w, j)
  <2>1. SinceLease(w, j) = Since(w)
    BY <1>4, Zenon DEF SinceLease
  <2> QED BY <1>1, <1>2, <2>1
<1> QED BY <1>3, <1>4, Zenon

\* The same facts after a step.
LeaseFacts(w, j) ==
  /\ left[j] \in Int /\ staleFor[w][j] \in Nat
  /\ renewIn[w] \in Nat /\ (renewal[w].pc # "asleep" => renewIn[w] <= Latency)
  /\ SinceLease(w, j) \in Nat /\ Latency <= SinceLease(w, j)
LEMMA LeaseFactsNext ==
  ASSUME NEW w \in Worker, NEW j \in Job
  PROVE  LInv' => LeaseFacts(w, j)'
<1>1. LInv => LeaseFacts(w, j)
  BY LeaseTypes, SinceFacts, SinceLeaseFacts, Zenon DEF LeaseFacts
<1> QED BY <1>1, PTL

\* What disturbs neither the lease nor its handler; a lease that is dropped
\* has expired.
LEMMA KeptSame ==
  ASSUME LInv, LInv', NEW w \in Worker, NEW j \in Job, Kept(w, j),
         j \in handlers'[w] <=> j \in handlers[w], staleFor'[w][j] = staleFor[w][j],
         claiming'[w] = j => claiming[w] = j /\ claimIn'[w] = claimIn[w],
         j \in cancelled[w] => j \in cancelled'[w],
         owner'[j] = w => owner[j] = w /\ left'[j] >= left[j],
         owner[j] = w /\ owner'[j] # w => left[j] <= 0,
         j \in handlers'[w] \ cancelled'[w] => SinceLease(w, j) <= SinceLease(w, j)'
  PROVE  Kept(w, j)'
<1>0. /\ VisibilityTimeout[w] \in Nat /\ Latency \in Nat /\ left[j] \in Int /\ left'[j] \in Int
      /\ staleFor[w][j] \in Nat /\ claimIn[w] \in Nat
      /\ SinceLease(w, j) \in Nat /\ SinceLease(w, j)' \in Nat
  BY LeaseTypes, SinceLeaseFacts, LeaseFactsNext, Zenon DEF LeaseFacts
<1>1. j \notin handlers'[w] => staleFor'[w][j] = 0
  BY Zenon DEF Kept
<1>2. ASSUME claiming'[w] = j
      PROVE  /\ j \notin handlers'[w]
             /\ IF owner'[j] = w THEN VisibilityTimeout[w] <= left'[j] + (Latency - claimIn'[w])
                                 ELSE VisibilityTimeout[w] <= Latency - claimIn'[w]
  <2>1. /\ j \notin handlers'[w] /\ claimIn'[w] = claimIn[w]
        /\ IF owner[j] = w THEN VisibilityTimeout[w] <= left[j] + (Latency - claimIn[w])
                           ELSE VisibilityTimeout[w] <= Latency - claimIn[w]
    BY <1>2, Zenon DEF Kept
  <2> QED BY <1>0, <2>1
<1>3. ASSUME j \in handlers'[w] \ cancelled'[w]
      PROVE  IF owner'[j] = w
             THEN staleFor'[w][j] = 0 /\ VisibilityTimeout[w] <= left'[j] + SinceLease(w, j)'
             ELSE staleFor'[w][j] + VisibilityTimeout[w] <= SinceLease(w, j)'
  <2>1. IF owner[j] = w THEN staleFor[w][j] = 0 /\ VisibilityTimeout[w] <= left[j] + SinceLease(w, j)
                        ELSE staleFor[w][j] + VisibilityTimeout[w] <= SinceLease(w, j)
    BY <1>3, Zenon DEF Kept
  <2>2. SinceLease(w, j) <= SinceLease(w, j)'
    BY <1>3, Zenon
  <2> HIDE DEF SinceLease
  <2> QED BY <1>0, <2>1, <2>2
<1> QED BY <1>1, <1>2, <1>3, Zenon DEF Kept

\* A worker whose renewal loop stands still.
LEMMA SinceSame ==
  ASSUME LInv, NEW w \in Worker, NEW j \in Job,
         renewal'[w] = renewal[w], renewIn'[w] = renewIn[w], failures'[w] = failures[w]
  PROVE  SinceLease(w, j) <= SinceLease(w, j)'
<1>1. SinceLease(w, j)' = SinceLease(w, j)
  BY Zenon DEF SinceLease, Since, Fresh
<1> QED BY <1>1, SinceLeaseFacts

\* A step that leaves the renewal loops, and everything else about a handler
\* and its lease, alone.
LEMMA KeptFrame ==
  ASSUME LInv, LInv', NEW w \in Worker, NEW j \in Job, Kept(w, j),
         renewal'[w] = renewal[w], renewIn'[w] = renewIn[w], failures'[w] = failures[w],
         j \in handlers'[w] <=> j \in handlers[w], staleFor'[w][j] = staleFor[w][j],
         claiming'[w] = j => claiming[w] = j /\ claimIn'[w] = claimIn[w],
         j \in cancelled[w] => j \in cancelled'[w],
         owner'[j] = w => owner[j] = w /\ left'[j] = left[j],
         owner[j] = w /\ owner'[j] # w => left[j] <= 0
  PROVE  Kept(w, j)'
<1>1. left[j] \in Int
  BY LeaseTypes, Zenon
<1>2. left'[j] = left[j] => left'[j] >= left[j]
  BY <1>1
<1> QED BY <1>2, SinceSame, KeptSame, Zenon

\* A job a worker neither claims nor runs.
LEMMA KeptIdle ==
  ASSUME NEW w \in Worker, NEW j \in Job,
         j \notin handlers'[w], claiming'[w] # j, staleFor'[w][j] = 0
  PROVE  Kept(w, j)'
  BY Zenon DEF Kept

\* Initially nothing runs.
LEMMA KeptInit == LeasesInit => AllKept
<1> SUFFICES ASSUME LeasesInit, NEW w \in Worker, NEW j \in Job PROVE Kept(w, j)
  BY Zenon DEF AllKept
<1>1. handlers[w] = {} /\ claiming[w] = NoJob /\ staleFor[w][j] = 0 /\ NoJob # j
  BY LeasesAssumption, Zenon DEF LeasesInit
<1> QED BY <1>1, Zenon DEF Kept

\* Claims.
LEMMA KeptClaims ==
  ASSUME LInv, LInv', AllKept, NEW v \in Worker,
         (\E j \in Job : Dequeue(v, j)) \/ trackJob(v) \/ DequeueFailed(v)
  PROVE  AllKept'
<1> SUFFICES ASSUME NEW w \in Worker, NEW j \in Job PROVE Kept(w, j)'
  BY Zenon DEF AllKept
<1>0. LTypes /\ Kept(w, j) /\ NoOwner # w
  BY LeasesAssumption, Zenon DEF LInv, AllKept
<1>1. ASSUME NEW i \in Job, Dequeue(v, i) PROVE Kept(w, j)'
  <2>1. /\ UNCHANGED <<process, renew, reap, runs, staleFor>>
        /\ owner' = [owner EXCEPT ![i] = v] /\ owner[i] = NoOwner /\ i \notin handlers[v]
        /\ left' = [left EXCEPT ![i] = VisibilityTimeout[v]]
        /\ claiming' = [claiming EXCEPT ![v] = i] /\ claimIn' = [claimIn EXCEPT ![v] = Latency]
    BY <1>1, Zenon DEF Dequeue
  <2>2. CASE w = v /\ j = i
    <3>1. /\ claiming'[w] = j /\ claimIn'[w] = Latency /\ owner'[j] = w
          /\ left'[j] = VisibilityTimeout[w] /\ j \notin handlers'[w] /\ staleFor'[w][j] = 0
      BY <1>0, <2>1, <2>2, Zenon DEF LTypes, runs, Kept
    <3>2. VisibilityTimeout[w] <= left'[j] + (Latency - claimIn'[w])
      BY <3>1, Intervals
    <3> QED BY <3>1, <3>2, Zenon DEF Kept
  <2>3. CASE ~ (w = v /\ j = i)
    <3>1. /\ claiming'[w] = j => claiming[w] = j /\ claimIn'[w] = claimIn[w]
          /\ owner'[j] = w => owner[j] = w /\ left'[j] = left[j]
          /\ owner[j] = w => owner'[j] = w
      BY <1>0, <2>1, <2>3, Zenon DEF LTypes
    <3> QED BY <1>0, <2>1, <3>1, KeptFrame, Zenon DEF renew, runs
  <2> QED BY <2>2, <2>3, Zenon
<1>2. CASE trackJob(v)
  <2>1. /\ UNCHANGED <<process, renew, reap, cancelled, lease, faults, staleFor>>
        /\ EndClaim(v) /\ handlers' = [handlers EXCEPT ![v] = @ \cup {claiming[v]}]
    BY <1>2, Zenon DEF trackJob
  <2>2. CASE w = v /\ j = claiming[v]
    <3>1. claiming'[w] # j /\ j \in handlers'[w] /\ UNCHANGED <<owner, left, staleFor>>
      <4>1. j \in handlers'[w]
        BY <1>0, <2>1, <2>2, Zenon DEF LTypes
      <4> QED BY <1>0, <2>1, <4>1, <2>2, EndClaimTypes, LeasesAssumption, Zenon DEF lease
    <3>2. /\ staleFor[w][j] = 0
          /\ IF owner[j] = w THEN VisibilityTimeout[w] <= left[j] + (Latency - claimIn[w])
                             ELSE VisibilityTimeout[w] <= Latency - claimIn[w]
      BY <1>0, <2>2, Zenon DEF Kept
    <3>3. IF owner[j] = w
          THEN VisibilityTimeout[w] <= left[j] + SinceLease(w, j)'
          ELSE 0 + VisibilityTimeout[w] <= SinceLease(w, j)'
      <4>1. /\ VisibilityTimeout[w] \in Nat /\ Latency \in Nat /\ left[j] \in Int /\ claimIn[w] \in Nat
            /\ SinceLease(w, j)' \in Nat /\ Latency <= SinceLease(w, j)'
        BY LeaseTypes, LeaseFactsNext, Zenon DEF LeaseFacts
      <4> HIDE DEF SinceLease
      <4> QED BY <3>2, <4>1
    <3> QED BY <3>1, <3>2, <3>3, Zenon DEF Kept
  <2>3. CASE ~ (w = v /\ j = claiming[v])
    <3>1. /\ claiming'[w] = j => claiming[w] = j /\ claimIn'[w] = claimIn[w]
          /\ j \in handlers'[w] <=> j \in handlers[w]
      <4>1. claiming'[w] = j => claiming[w] = j /\ claimIn'[w] = claimIn[w]
        BY <1>0, <2>1, EndClaimTypes, LeasesAssumption, Zenon
      <4>2. j \in handlers'[w] <=> j \in handlers[w]
        BY <1>0, <2>1, <2>3, Zenon DEF LTypes
      <4> QED BY <4>1, <4>2, Zenon
    <3> QED BY <1>0, <2>1, <3>1, KeptFrame, Zenon DEF renew, lease
  <2> QED BY <2>2, <2>3, Zenon
<1>3. CASE DequeueFailed(v)
  <2>1. EndClaim(v) /\ UNCHANGED <<process, renew, reap, runs, lease, staleFor>>
    BY <1>3, Zenon DEF DequeueFailed
  <2>2. claiming'[w] = j => claiming[w] = j /\ claimIn'[w] = claimIn[w]
    BY <1>0, <2>1, EndClaimTypes, LeasesAssumption, Zenon
  <2> QED BY <1>0, <2>1, <2>2, KeptFrame, Zenon DEF renew, runs, lease
<1> QED BY <1>1, <1>2, <1>3, Zenon

\* What a worker forgets, and what it goes on with.
LEMMA ForgetFacts ==
  ASSUME LTypes, NEW v \in Worker, NEW S \in SUBSET Job, Forget(v, S),
         NEW w \in Worker, NEW j \in Job
  PROVE  /\ w = v /\ j \in S => j \notin handlers'[w] /\ staleFor'[w][j] = 0
         /\ ~ (w = v /\ j \in S) => /\ j \in handlers'[w] <=> j \in handlers[w]
                                    /\ j \in cancelled'[w] <=> j \in cancelled[w]
                                    /\ staleFor'[w][j] = staleFor[w][j]
<1>1. handlers' = [handlers EXCEPT ![v] = handlers[v] \ S]
      /\ cancelled' = [cancelled EXCEPT ![v] = cancelled[v] \ S]
      /\ staleFor' = [staleFor EXCEPT ![v] = [i \in Job |-> IF i \in S THEN 0 ELSE staleFor[v][i]]]
  BY Zenon DEF Forget
<1>2. /\ handlers \in [Worker -> SUBSET Job] /\ cancelled \in [Worker -> SUBSET Job]
      /\ staleFor \in [Worker -> [Job -> Nat]]
  BY Zenon DEF LTypes
<1>3. CASE w = v
  <2>1. /\ handlers'[w] = handlers[w] \ S /\ cancelled'[w] = cancelled[w] \ S
        /\ staleFor'[w] = [i \in Job |-> IF i \in S THEN 0 ELSE staleFor[w][i]]
    BY <1>1, <1>2, <1>3, Zenon
  <2> QED BY <1>3, <2>1, Zenon
<1>4. CASE w # v
  BY <1>1, <1>2, <1>4, Zenon
<1> QED BY <1>3, <1>4, Zenon

\* Reports.
LEMMA KeptReports ==
  ASSUME LInv, LInv', AllKept, NEW v \in Worker, NEW i \in Job,
         Finish(v, i) \/ FinishUnreported(v, i)
  PROVE  AllKept'
<1> SUFFICES ASSUME NEW w \in Worker, NEW j \in Job PROVE Kept(w, j)'
  BY Zenon DEF AllKept
<1>0. LTypes /\ Kept(w, j) /\ NoOwner # w
  BY LeasesAssumption, Zenon DEF LInv, AllKept
<1>1. /\ Forget(v, {i}) /\ UNCHANGED <<claim, renew>> /\ i \in handlers[v] /\ {i} \in SUBSET Job
      /\ UNCHANGED lease \/ (owner[i] = v /\ Drop({i}))
  BY Zenon DEF Finish, FinishUnreported
<1>2. CASE w = v /\ j = i
  <2>1. j \notin handlers'[w] /\ staleFor'[w][j] = 0
    BY <1>0, <1>1, <1>2, ForgetFacts, Zenon
  <2>2. claiming'[w] # j
    BY <1>0, <1>1, <1>2, Zenon DEF Kept, claim
  <2> QED BY <2>1, <2>2, KeptIdle, Zenon
<1>3. CASE ~ (w = v /\ j = i)
  <2>1. /\ j \in handlers'[w] <=> j \in handlers[w]
        /\ j \in cancelled'[w] <=> j \in cancelled[w]
        /\ staleFor'[w][j] = staleFor[w][j]
    <3>1. ~ (w = v /\ j \in {i})
      BY <1>3, Zenon
    <3>2. LTypes /\ Forget(v, {i}) /\ {i} \in SUBSET Job
      BY <1>0, <1>1, Zenon
    <3> QED BY <3>1, <3>2, ForgetFacts
  <2>2. /\ owner'[j] = w => owner[j] = w /\ left'[j] = left[j]
        /\ owner[j] = w => owner'[j] = w
    BY <1>0, <1>1, <1>3, Zenon DEF lease, Drop
  <2> QED BY <1>0, <1>1, <2>1, <2>2, KeptFrame, Zenon DEF claim, renew
<1> QED BY <1>2, <1>3, Zenon

\* The renewal loop: what is left uncancelled was extended by the call that
\* ends, or may fail once more.
LEMMA KeptRenewals ==
  ASSUME LInv, LInv', AllKept, NEW v \in Worker,
         RenewIdle(v) \/ RenewAsk(v) \/ RenewOK(v) \/ RenewFailed(v)
  PROVE  AllKept'
<1> SUFFICES ASSUME NEW w \in Worker, NEW j \in Job PROVE Kept(w, j)'
  BY Zenon DEF AllKept
<1>0. LTypes /\ Kept(w, j) /\ NoOwner # w /\ left[j] \in Int /\ left[j] >= left[j]
  BY LeasesAssumption, LeaseTypes DEF LInv, AllKept
<1>1. UNCHANGED <<claim, handlers, lease, staleFor>>
  BY Zenon DEF RenewIdle, RenewAsk, RenewOK, RenewFailed, runs
<1>2. CASE w # v
  <2>1. /\ renewal'[w] = renewal[w] /\ renewIn'[w] = renewIn[w] /\ failures'[w] = failures[w]
        /\ cancelled'[w] = cancelled[w]
    <3>1. CASE RenewAsk(v)
      BY <1>0, <1>2, <3>1, Zenon DEF RenewAsk, runs, LTypes
    <3>2. CASE RenewIdle(v) \/ RenewOK(v) \/ RenewFailed(v)
      <4>1. /\ Sleep(v) /\ failures'[w] = failures[w] /\ cancelled'[w] = cancelled[w]
        BY <1>0, <1>2, <3>2, Zenon DEF RenewIdle, RenewOK, RenewFailed, runs, LTypes
      <4> QED BY <1>0, <1>2, <4>1, SleepTypes, Zenon
    <3> QED BY <3>1, <3>2, Zenon
  <2> QED BY <1>0, <1>1, <2>1, KeptFrame, Zenon DEF claim, lease
<1>3. CASE w = v
  <2>1. ASSUME j \in handlers'[w] \ cancelled'[w]
        PROVE  SinceLease(w, j) <= SinceLease(w, j)'
    <3> DEFINE c == RenewInterval(w) + Latency
    <3>0. /\ SinceLease(w, j) \in Nat /\ SinceLease(w, j) <= Since(w) /\ Since(w) \in Nat
          /\ Since(w) <= 2 * Latency + (failures[w] + 1) * c
          /\ c \in Nat /\ failures[w] \in Nat /\ Latency \in Nat /\ renewIn[w] \in Nat
          /\ RenewInterval(w) \in Nat
      BY SinceFacts, SinceLeaseFacts, LeaseTypes, Intervals, Zenon
    <3>00. failures[w] * c \in Nat /\ (failures[w] + 1) * c \in Nat /\ 0 * c = 0
      BY <3>0, OneMore, Zenon
    <3>1. CASE RenewIdle(v)
      BY <1>1, <1>3, <2>1, <3>1, Zenon DEF RenewIdle
    <3>2. CASE RenewAsk(v)
      <4>1. /\ renewal[w].pc = "asleep" /\ renewIn[w] = 0 /\ failures'[w] = failures[w]
            /\ renewal'[w] = [pc |-> "asked", ids |-> handlers[w], lost |-> {}]
            /\ renewIn'[w] = Latency
        BY <1>0, <1>3, <3>2, Zenon DEF RenewAsk, LTypes
      <4>2. renewal'[w].pc = "asked" /\ renewal'[w].ids = handlers[w]
        BY <4>1
      <4>3. ~ Fresh(w, j)'
        BY <1>1, <2>1, <4>2 DEF Fresh
      <4>4. SinceLease(w, j)' = 2 * Latency + failures[w] * c + c - Latency
        BY <4>1, <4>2, <4>3 DEF SinceLease, Since
      <4>5. Since(w) = 2 * Latency + failures[w] * c + RenewInterval(w) - 0
        BY <4>1, SinceFacts, Zenon
      <4>6. c = RenewInterval(w) + Latency
        OBVIOUS
      <4> HIDE DEF c, SinceLease, Since
      <4> QED BY <3>0, <3>00, <4>4, <4>5, <4>6
    <3>3. CASE RenewOK(v) \/ RenewFailed(v)
      <4>1. Sleep(w)
        BY <1>3, <3>3, Zenon DEF RenewOK, RenewFailed
      <4>2. renewal'[w].pc = "asleep" /\ renewIn'[w] = RenewInterval(w)
        BY <1>0, <4>1, SleepTypes, Zenon
      <4>3. SinceLease(w, j)' = 2 * Latency + failures'[w] * c + RenewInterval(w) - RenewInterval(w)
        BY <4>2, Zenon DEF SinceLease, Since, Fresh
      <4>4. CASE Fresh(w, j)
        <5>1. SinceLease(w, j) = 2 * Latency - renewIn[w]
          BY <4>4, Zenon DEF SinceLease
        <5>2. failures'[w] \in Nat
          <6>1. failures'[w] \in 0..(maxRenewFailures - 1)
            BY Zenon DEF LInv, LTypes
          <6> QED BY <6>1, LeasesAssumption
        <5>3. failures'[w] * c \in Nat
          BY <3>0, <5>2, OneMore, Zenon
        <5> HIDE DEF c, SinceLease
        <5> QED BY <3>0, <4>3, <5>1, <5>3
      <4>5. CASE ~ Fresh(w, j)
        <5>1. failures'[w] = failures[w] + 1
          <6>1. CASE RenewOK(v)
            <7>1. renewal[w].pc = "extended" /\ j \notin renewal[w].lost
              <8>1. renewal[w].pc = "extended"
                    /\ cancelled'[w] = cancelled[w] \cup (handlers[w] \cap renewal[w].lost)
                BY <1>0, <1>3, <6>1, Zenon DEF RenewOK, LTypes
              <8> QED BY <1>1, <2>1, <8>1, Zenon
            <7> QED BY <4>5, <7>1 DEF Fresh
          <6>2. CASE RenewFailed(v)
            <7>1. renewal[w].pc # "asleep"
                  /\ failures'[w] = (IF GivesUp(w) THEN 0 ELSE failures[w] + 1)
                  /\ cancelled'[w] = cancelled[w] \cup
                                       (IF GivesUp(w) THEN handlers[w] \cap renewal[w].ids ELSE {})
              BY <1>0, <1>3, <6>2, Zenon DEF RenewFailed, LTypes
            <7>2. ~ GivesUp(w)
              BY <1>1, <2>1, <4>5, <7>1, Zenon DEF Fresh
            <7> QED BY <7>1, <7>2, Zenon
          <6> QED BY <3>3, <6>1, <6>2, Zenon
        <5>2. SinceLease(w, j)' = 2 * Latency + (failures[w] + 1) * c + RenewInterval(w) - RenewInterval(w)
          BY <4>3, <5>1, Zenon
        <5> HIDE DEF c, SinceLease
        <5> QED BY <3>0, <3>00, <5>2
      <4> QED BY <4>4, <4>5, Zenon
    <3> QED BY <3>1, <3>2, <3>3, Zenon
  <2>2. j \in cancelled[w] => j \in cancelled'[w]
    <3>1. \/ cancelled' = cancelled
          \/ \E S : cancelled' = [cancelled EXCEPT ![v] = cancelled[v] \cup S]
      BY Zenon DEF RenewIdle, RenewAsk, RenewOK, RenewFailed, runs
    <3>2. cancelled \in [Worker -> SUBSET Job]
      BY <1>0, Zenon DEF LTypes
    <3>3. cancelled'[w] = cancelled[w] \/ \E S : cancelled'[w] = cancelled[w] \cup S
      BY <1>3, <3>1, <3>2
    <3> QED BY <3>3
  <2> QED BY <1>0, <1>1, <2>1, <2>2, KeptSame, Zenon DEF claim, lease
<1> QED BY <1>2, <1>3, Zenon

\* The renewal script: a lease it extends starts anew.
LEMMA KeptExtend ==
  ASSUME LInv, LInv', AllKept, NEW v \in Worker, Extend(v)
  PROVE  AllKept'
<1> SUFFICES ASSUME NEW w \in Worker, NEW j \in Job PROVE Kept(w, j)'
  BY Zenon DEF AllKept
<1>0. LTypes /\ Kept(w, j) /\ NoOwner # w /\ left[j] \in Int /\ left[j] >= left[j]
  BY LeasesAssumption, LeaseTypes DEF LInv, AllKept
<1> DEFINE held == {i \in renewal[v].ids : owner[i] = v}
<1>1. /\ renewal[v].pc = "asked"
      /\ renewal' = [renewal EXCEPT ![v].pc = "extended", ![v].lost = renewal[v].ids \ held]
      /\ left' = [i \in Job |-> IF i \in held THEN VisibilityTimeout[v] ELSE left[i]]
      /\ UNCHANGED <<claim, renewIn, failures, runs, owner, staleFor>>
  BY Zenon DEF Extend
<1>2. CASE ~ (w = v /\ j \in held)
  <2>1. owner'[j] = w => owner[j] = w /\ left'[j] = left[j]
    BY <1>1, <1>2, Zenon
  <2>2. SinceLease(w, j)' = SinceLease(w, j)
    <3>1. CASE w # v
      <4>1. renewal'[w] = renewal[w]
        BY <1>0, <1>1, <3>1 DEF LTypes
      <4> QED BY <1>1, <4>1, Zenon DEF SinceLease, Since, Fresh
    <3>2. CASE w = v
      <4>1. /\ renewal'[w].pc = "extended" /\ renewal'[w].ids = renewal[w].ids
            /\ renewal'[w].lost = renewal[w].ids \ held
        <5>1. renewal[w] \in [pc : {"asleep", "asked", "extended"}, ids : SUBSET Job, lost : SUBSET Job]
          BY <1>0, Zenon DEF LTypes
        <5>2. renewal'[w] = [renewal[w] EXCEPT !.pc = "extended", !.lost = renewal[w].ids \ held]
          BY <1>0, <1>1, <3>2 DEF LTypes
        <5> HIDE DEF held
        <5> QED BY <5>1, <5>2
      <4>2. Fresh(w, j)' <=> Fresh(w, j)
        BY <1>1, <1>2, <3>2, <4>1 DEF Fresh
      <4>3. Since(w)' = Since(w)
        BY <1>1, <3>2, <4>1 DEF Since
      <4> QED BY <1>1, <4>2, <4>3, Zenon DEF SinceLease
    <3> QED BY <3>1, <3>2, Zenon
  <2>3. SinceLease(w, j) <= SinceLease(w, j)'
    BY <2>2, SinceLeaseFacts
  <2> QED BY <1>0, <1>1, <2>1, <2>3, KeptSame, Zenon DEF claim, runs
<1>3. CASE w = v /\ j \in held
  <2>1. /\ VisibilityTimeout[w] \in Nat /\ Latency \in Nat /\ claimIn[w] \in Nat /\ claimIn[w] <= Latency
        /\ SinceLease(w, j)' \in Nat
    BY LeaseTypes, LeaseFactsNext, Zenon DEF LeaseFacts
  <2>2. left'[j] = VisibilityTimeout[w] /\ owner[j] = w
    BY <1>1, <1>3, Zenon
  <2>3. /\ VisibilityTimeout[w] <= left'[j] + (Latency - claimIn[w])
        /\ VisibilityTimeout[w] <= left'[j] + SinceLease(w, j)'
    <3> HIDE DEF SinceLease
    <3> QED BY <2>1, <2>2
  <2> HIDE DEF held
  <2> QED BY <1>0, <1>1, <2>2, <2>3, Zenon DEF Kept, claim, runs
<1> QED BY <1>2, <1>3, Zenon

\* Sweeps drop expired leases only.
LEMMA KeptSweeps ==
  ASSUME LInv, LInv', AllKept, NEW v \in Worker, ReapAsk(v) \/ Reap(v) \/ ReapDone(v)
  PROVE  AllKept'
<1> SUFFICES ASSUME NEW w \in Worker, NEW j \in Job PROVE Kept(w, j)'
  BY Zenon DEF AllKept
<1>0. LTypes /\ Kept(w, j) /\ NoOwner # w
  BY LeasesAssumption, Zenon DEF LInv, AllKept
<1>1. UNCHANGED <<claim, renew, runs, staleFor>>
  BY Zenon DEF ReapAsk, Reap, ReapDone
<1>2. /\ owner'[j] = w => owner[j] = w /\ left'[j] = left[j]
      /\ owner[j] = w /\ owner'[j] # w => left[j] <= 0
  <2>1. CASE ReapAsk(v) \/ ReapDone(v)
    BY <2>1, Zenon DEF ReapAsk, ReapDone, lease
  <2>2. CASE Reap(v)
    <3>1. PICK S \in Batches(Queues[v][swept[v] + 1]) : Drop(S)
      BY <2>2, Zenon DEF Reap
    <3>2. \A i \in S : left[i] <= 0
      BY Zenon DEF Batches, Expired
    <3> QED BY <1>0, <3>1, <3>2, Zenon DEF Drop
  <2> QED BY <2>1, <2>2, Zenon
<1> QED BY <1>0, <1>1, <1>2, KeptFrame, Zenon DEF claim, renew, runs

\* Workers that come and go.
LEMMA KeptFleet ==
  ASSUME LInv, LInv', AllKept, NEW v \in Worker,
         Start(v) \/ Shutdown(v) \/ DrainCancel(v) \/ DrainDone(v) \/ Crash(v)
  PROVE  AllKept'
<1> SUFFICES ASSUME NEW w \in Worker, NEW j \in Job PROVE Kept(w, j)'
  BY Zenon DEF AllKept
<1>0. /\ LTypes /\ Kept(w, j) /\ NoOwner # w /\ NoJob # j
      /\ \A x \in Worker : Timers(x)
  BY LeasesAssumption, Zenon DEF LInv, AllKept
<1>1. CASE Start(v)
  <2>1. /\ phase[v] = "off" /\ Sleep(v)
        /\ UNCHANGED <<claim, failures, runs, lease, staleFor>>
    BY <1>1, Zenon DEF Start
  <2>2. CASE w = v
    <3>1. ~ Up(w)
      BY <2>1, <2>2 DEF Up
    <3>2. j \notin handlers[w] /\ claiming[w] # j
      BY <1>0, <3>1, Zenon DEF Timers
    <3>3. staleFor[w][j] = 0
      BY <1>0, <3>2, Zenon DEF Kept
    <3> QED BY <2>1, <3>2, <3>3, KeptIdle, Zenon DEF claim, runs
  <2>3. CASE w # v
    <3>1. renewal'[w] = renewal[w] /\ renewIn'[w] = renewIn[w]
      BY <1>0, <2>1, <2>3, SleepTypes, Zenon
    <3> QED BY <1>0, <2>1, <3>1, KeptFrame, Zenon DEF claim, runs, lease
  <2> QED BY <2>2, <2>3, Zenon
<1>2. CASE Shutdown(v)
  <2>1. Abandon(v) /\ UNCHANGED <<renew, runs, lease, staleFor>>
    BY <1>2, Zenon DEF Shutdown
  <2>2. claiming'[w] = j => claiming[w] = j /\ claimIn'[w] = claimIn[w]
    BY <1>0, <2>1, AbandonTypes, Zenon
  <2> QED BY <1>0, <2>1, <2>2, KeptFrame, Zenon DEF renew, runs, lease
<1>3. CASE DrainCancel(v)
  <2>1. /\ cancelled' = [cancelled EXCEPT ![v] = handlers[v]]
        /\ UNCHANGED <<claim, renew, handlers, lease, staleFor>>
    BY <1>3, Zenon DEF DrainCancel
  <2>2. CASE w # v
    <3>1. cancelled'[w] = cancelled[w]
      BY <1>0, <2>1, <2>2, Zenon DEF LTypes
    <3> QED BY <1>0, <2>1, <3>1, KeptFrame, Zenon DEF claim, renew, lease
  <2>3. CASE w = v
    <3>1. cancelled'[w] = handlers'[w]
      BY <1>0, <2>1, <2>3, Zenon DEF LTypes
    <3> QED BY <1>0, <2>1, <3>1, Zenon DEF Kept, claim, lease
  <2> QED BY <2>2, <2>3, Zenon
<1>4. CASE DrainDone(v) \/ Crash(v)
  <2>1. /\ Forget(v, handlers[v]) /\ Abandon(v) /\ UNCHANGED <<lease, faults>>
        /\ failures' = [failures EXCEPT ![v] = 0]
        /\ \/ UNCHANGED <<renewal, renewIn>>
           \/ renewal' = [renewal EXCEPT ![v] = Asleep] /\ renewIn' = [renewIn EXCEPT ![v] = 0]
        /\ handlers[v] \in SUBSET Job
    BY <1>0, <1>4, Zenon DEF DrainDone, Crash, Leave, LTypes
  <2>2. CASE w = v
    <3>1. j \notin handlers'[w] /\ staleFor'[w][j] = 0
      <4>1. CASE j \in handlers[v]
        BY <1>0, <2>1, <2>2, <4>1, ForgetFacts
      <4>2. CASE j \notin handlers[v]
        <5>1. /\ j \in handlers'[w] <=> j \in handlers[w]
              /\ staleFor'[w][j] = staleFor[w][j]
          BY <1>0, <2>1, <2>2, <4>2, ForgetFacts
        <5> QED BY <1>0, <2>2, <4>2, <5>1, Zenon DEF Kept
      <4> QED BY <4>1, <4>2, Zenon
    <3>2. claiming'[w] # j
      BY <1>0, <2>1, <2>2, AbandonTypes, Zenon
    <3> QED BY <3>1, <3>2, KeptIdle, Zenon
  <2>3. CASE w # v
    <3>1. /\ j \in handlers'[w] <=> j \in handlers[w]
          /\ j \in cancelled'[w] <=> j \in cancelled[w]
          /\ staleFor'[w][j] = staleFor[w][j]
      BY <1>0, <2>1, <2>3, ForgetFacts
    <3>2. claiming'[w] = claiming[w] /\ claimIn'[w] = claimIn[w]
      BY <1>0, <2>1, <2>3, AbandonTypes, Zenon
    <3>3. renewal'[w] = renewal[w] /\ renewIn'[w] = renewIn[w] /\ failures'[w] = failures[w]
      BY <1>0, <2>1, <2>3, Zenon DEF LTypes
    <3> QED BY <1>0, <2>1, <3>1, <3>2, <3>3, KeptFrame, Zenon DEF lease
  <2> QED BY <2>2, <2>3, Zenon
<1> QED BY <1>1, <1>2, <1>3, <1>4, Zenon

\* A tick of time ages a lease, or a handler without one, by one.
LEMMA KeptTick ==
  ASSUME LInv, LInv', AllKept, Tick
  PROVE  AllKept'
<1> SUFFICES ASSUME NEW w \in Worker, NEW j \in Job PROVE Kept(w, j)'
  BY Zenon DEF AllKept
<1>0. LTypes /\ Kept(w, j) /\ NoOwner # w /\ NoJob # j /\ Timers(w)
  BY LeasesAssumption, Zenon DEF LInv, AllKept
<1>1. /\ VisibilityTimeout[w] \in Nat /\ Latency \in Nat /\ left[j] \in Int /\ claimIn[w] \in Nat
      /\ renewIn[w] \in Nat /\ staleFor[w][j] \in Nat
      /\ SinceLease(w, j) \in Nat /\ SinceLease(w, j)' \in Nat
  BY LeaseTypes, SinceLeaseFacts, LeaseFactsNext, Zenon DEF LeaseFacts
<1>2. /\ UNCHANGED <<claiming, failures, runs, owner>> /\ ~ Due(w)
      /\ claimIn'[w] = Down(claimIn[w]) /\ renewIn'[w] = Down(renewIn[w])
      /\ renewal'[w] = (IF Up(w) \/ renewIn[w] > 0 THEN renewal[w] ELSE Asleep)
      /\ left'[j] = (IF owner[j] = NoOwner THEN 0 ELSE left[j] - 1)
      /\ staleFor'[w][j] = (IF Stale(w, j) THEN staleFor[w][j] + 1 ELSE 0)
  BY Zenon DEF Tick
<1>3. j \notin handlers'[w] => staleFor'[w][j] = 0
  BY <1>2, Zenon DEF Stale, runs
<1>4. ASSUME claiming'[w] = j
      PROVE  /\ j \notin handlers'[w]
             /\ IF owner'[j] = w THEN VisibilityTimeout[w] <= left'[j] + (Latency - claimIn'[w])
                                 ELSE VisibilityTimeout[w] <= Latency - claimIn'[w]
  <2>1. claiming[w] = j /\ Up(w)
    BY <1>0, <1>2, <1>4, Zenon DEF Timers
  <2>2. claimIn[w] # 0
    BY <1>0, <1>2, <2>1, Zenon DEF Due
  <2>3. claimIn'[w] = claimIn[w] - 1
    BY <1>1, <1>2, <2>2 DEF Down
  <2>4. /\ j \notin handlers'[w]
        /\ IF owner[j] = w THEN VisibilityTimeout[w] <= left[j] + (Latency - claimIn[w])
                           ELSE VisibilityTimeout[w] <= Latency - claimIn[w]
    BY <1>0, <1>2, <2>1, Zenon DEF Kept, runs
  <2>5. owner' = owner /\ (owner[j] = w => left'[j] = left[j] - 1)
    BY <1>0, <1>2, Zenon
  <2> QED BY <1>1, <2>3, <2>4, <2>5
<1>5. ASSUME j \in handlers'[w] \ cancelled'[w]
      PROVE  IF owner'[j] = w
             THEN staleFor'[w][j] = 0 /\ VisibilityTimeout[w] <= left'[j] + SinceLease(w, j)'
             ELSE staleFor'[w][j] + VisibilityTimeout[w] <= SinceLease(w, j)'
  <2>1. j \in handlers[w] \ cancelled[w] /\ Up(w)
    BY <1>0, <1>2, <1>5, Zenon DEF Timers, runs
  <2>2. renewIn[w] # 0 /\ renewal'[w] = renewal[w]
    BY <1>2, <2>1, Zenon DEF Due
  <2>3. renewIn'[w] = renewIn[w] - 1
    BY <1>1, <1>2, <2>2 DEF Down
  <2>4. SinceLease(w, j)' = SinceLease(w, j) + 1
    <3>1. Since(w)' = Since(w) + 1 /\ (2 * Latency - renewIn[w])' = 2 * Latency - renewIn[w] + 1
      <4> DEFINE p == failures[w] * (RenewInterval(w) + Latency)
                 e == IF renewal[w].pc = "asleep" THEN RenewInterval(w) ELSE RenewInterval(w) + Latency
      <4>0. failures'[w] = failures[w] /\ renewal'[w].pc = renewal[w].pc
        BY <1>2, <2>2, Zenon
      <4>1. Since(w) = 2 * Latency + p + e - renewIn[w]
        BY Zenon DEF Since
      <4>2. Since(w)' = 2 * Latency + p + e - renewIn'[w]
        BY <4>0, Zenon DEF Since
      <4>3. p \in Nat /\ RenewInterval(w) \in Nat /\ Latency \in Nat
        BY SinceFacts, Intervals, Zenon
      <4>4. e \in Nat
        <5> HIDE DEF RenewInterval
        <5> QED BY <4>3
      <4> HIDE DEF p, e, Since
      <4> QED BY <1>1, <2>3, <4>1, <4>2, <4>3, <4>4
    <3>2. Fresh(w, j)' <=> Fresh(w, j)
      BY <2>2, Zenon DEF Fresh
    <3> QED BY <3>1, <3>2, Zenon DEF SinceLease
  <2>5. IF owner[j] = w THEN staleFor[w][j] = 0 /\ VisibilityTimeout[w] <= left[j] + SinceLease(w, j)
                        ELSE staleFor[w][j] + VisibilityTimeout[w] <= SinceLease(w, j)
    BY <1>0, <2>1, Zenon DEF Kept
  <2>6. /\ owner' = owner /\ (owner[j] = w => left'[j] = left[j] - 1 /\ staleFor'[w][j] = 0)
        /\ owner[j] # w => staleFor'[w][j] = staleFor[w][j] + 1
    BY <1>0, <1>2, <2>1, Zenon DEF Stale
  <2> HIDE DEF SinceLease
  <2> QED BY <1>1, <2>4, <2>5, <2>6
<1> QED BY <1>3, <1>4, <1>5, Zenon DEF Kept

\* Every step keeps the leases young.
LEMMA KeptStep == LInv /\ LInv' /\ AllKept /\ [LeasesNext]_leaseVars => AllKept'
<1> SUFFICES ASSUME LInv, LInv', AllKept, [LeasesNext]_leaseVars PROVE AllKept'
  BY Zenon
<1>1. CASE UNCHANGED leaseVars
  <2> SUFFICES ASSUME NEW w \in Worker, NEW j \in Job PROVE Kept(w, j)'
    BY Zenon DEF AllKept
  <2> QED BY <1>1, KeptFrame, Zenon DEF AllKept, leaseVars, claim, renew, runs, lease
<1>2. CASE LeasesNext
  BY <1>2, KeptClaims, KeptReports, KeptRenewals, KeptExtend, KeptSweeps, KeptFleet, KeptTick, ZenonT(30)
     DEF LeasesNext
<1> QED BY <1>1, <1>2, Zenon

\* A handler that has lost its lease is cancelled within the bound, whatever
\* fails and whoever leaves (renewLoop in maintenance.go).
THEOREM StaleHandlersEnd == LeasesSpec => []OverlapBound
<1>1. LInv /\ AllKept => OverlapBound
  <2> SUFFICES ASSUME LInv, AllKept, NEW w \in Worker, NEW j \in Job, Stale(w, j)
               PROVE  staleFor[w][j] <= OverlapMax(w)
    BY Zenon DEF OverlapBound
  <2> DEFINE c == RenewInterval(w) + Latency
  <2>1. staleFor[w][j] + VisibilityTimeout[w] <= SinceLease(w, j)
    BY Zenon DEF AllKept, Kept, Stale
  <2>2. /\ SinceLease(w, j) \in Nat /\ SinceLease(w, j) <= Since(w) /\ Since(w) \in Nat
        /\ Since(w) <= 2 * Latency + (failures[w] + 1) * c /\ c \in Nat
    BY SinceFacts, SinceLeaseFacts, Zenon
  <2>3. /\ VisibilityTimeout[w] \in Nat /\ Latency \in Nat /\ staleFor[w][j] \in Nat
        /\ failures[w] \in Nat /\ failures[w] + 1 <= maxRenewFailures
        /\ maxRenewFailures \in Nat /\ failures[w] + 1 \in Nat
    BY LeaseTypes, LeasesAssumption
  <2>4. /\ (failures[w] + 1) * c <= maxRenewFailures * c
        /\ (failures[w] + 1) * c \in Nat /\ maxRenewFailures * c \in Nat
    BY <2>2, <2>3, Fewer, Zenon
  <2>5. OverlapMax(w) = maxRenewFailures * c + 2 * Latency - VisibilityTimeout[w]
    BY Zenon DEF OverlapMax
  <2> HIDE DEF c, SinceLease, Since, OverlapMax
  <2> QED BY <2>1, <2>2, <2>3, <2>4, <2>5
<1> QED BY <1>1, LInvInit, LInvStep, KeptInit, KeptStep, PTL DEF LeasesSpec

\* A lease changes hands under a running handler only when a sweep finds it
\* expired.
LEMMA LostByExpiry ==
  ASSUME LInv, LeasesNext, NEW w \in Worker, NEW j \in Job,
         owner[j] = w, j \in handlers'[w], owner'[j] # w
  PROVE  left[j] <= 0
<1>0. LTypes /\ NoOwner # w
  BY LeasesAssumption, Zenon DEF LInv
<1>1. ASSUME NEW v \in Worker, NEW i \in Job, Dequeue(v, i) PROVE FALSE
  BY <1>0, <1>1, Zenon DEF Dequeue, LTypes
<1>2. ASSUME NEW v \in Worker, NEW i \in Job, Finish(v, i) PROVE FALSE
  <2>1. /\ Forget(v, {i}) /\ {i} \in SUBSET Job
        /\ UNCHANGED lease \/ (owner[i] = v /\ Drop({i}))
    BY <1>2, Zenon DEF Finish
  <2>2. j = i /\ v = w
    BY <1>0, <2>1, Zenon DEF Drop, lease
  <2>3. j \notin handlers'[w]
    <3>1. handlers'[v] = handlers[v] \ {i}
      BY <1>0, <2>1, ForgetTypes, Zenon
    <3> QED BY <2>2, <3>1, Zenon
  <2> QED BY <2>3, Zenon
<1>3. ASSUME NEW v \in Worker, Reap(v) PROVE left[j] <= 0
  <2>1. PICK S \in Batches(Queues[v][swept[v] + 1]) : Drop(S)
    BY <1>3, Zenon DEF Reap
  <2>2. \A i \in S : left[i] <= 0
    BY Zenon DEF Batches, Expired
  <2> QED BY <1>0, <2>1, <2>2, Zenon DEF Drop
<1>4. CASE UNCHANGED owner
  BY <1>4, Zenon
<1>5. \/ UNCHANGED owner
      \/ \E v \in Worker, i \in Job : Dequeue(v, i) \/ Finish(v, i)
      \/ \E v \in Worker : Reap(v)
  BY ZenonT(60) DEF LeasesNext, FinishUnreported, trackJob, DequeueFailed, RenewIdle, RenewAsk, Extend,
     RenewOK, RenewFailed, ReapAsk, ReapDone, Start, Shutdown, DrainCancel, DrainDone, Crash, Leave,
     Tick, lease
<1> QED BY <1>1, <1>2, <1>3, <1>4, <1>5, Zenon

\* A worker whose calls take less than about a twelfth of its visibility
\* timeout loses the lease of a running handler only after two failed renewals
\* in a row (renewLoop, and VisibilityTimeout in server.go).
THEOREM HealthyKeepLease ==
  ASSUME \A w \in Worker : 2 * RenewInterval(w) + 4 * Latency < VisibilityTimeout[w]
  PROVE  LeasesSpec => LeaseKept
<1> DEFINE Lost == \A w \in Worker, j \in Job :
             owner[j] = w /\ j \in handlers[w] \ cancelled[w] /\ j \in handlers'[w] /\ owner'[j] # w =>
               failures[w] >= 2
<1>1. LInv /\ AllKept /\ [LeasesNext]_leaseVars => [Lost]_leaseVars
  <2> SUFFICES ASSUME LInv, AllKept, LeasesNext, NEW w \in Worker, NEW j \in Job,
                      owner[j] = w, j \in handlers[w] \ cancelled[w],
                      j \in handlers'[w], owner'[j] # w
               PROVE  failures[w] >= 2
    BY Zenon
  <2> DEFINE c == RenewInterval(w) + Latency
  <2>1. left[j] <= 0
    BY LostByExpiry, Zenon
  <2>2. VisibilityTimeout[w] <= left[j] + SinceLease(w, j)
    BY Zenon DEF AllKept, Kept
  <2>3. /\ SinceLease(w, j) \in Nat /\ SinceLease(w, j) <= Since(w) /\ Since(w) \in Nat
        /\ Since(w) <= 2 * Latency + (failures[w] + 1) * c /\ c \in Nat
    BY SinceFacts, SinceLeaseFacts, Zenon
  <2>4. /\ VisibilityTimeout[w] \in Nat /\ Latency \in Nat /\ left[j] \in Int
        /\ failures[w] \in Nat /\ RenewInterval(w) \in Nat
    BY LeaseTypes, Intervals, Zenon
  <2>5. ASSUME ~ (failures[w] >= 2) PROVE FALSE
    <3>1. failures[w] + 1 \in Nat /\ failures[w] + 1 <= 2
      BY <2>4, <2>5
    <3>2. (failures[w] + 1) * c <= 2 * c /\ (failures[w] + 1) * c \in Nat /\ 2 * c \in Nat
      BY <2>3, <3>1, Fewer
    <3>3. 2 * c = 2 * RenewInterval(w) + 2 * Latency
      <4> HIDE DEF RenewInterval
      <4> QED BY <2>4
    <3>4. 2 * RenewInterval(w) + 4 * Latency < VisibilityTimeout[w]
      BY Zenon
    <3> HIDE DEF c, SinceLease, Since, RenewInterval
    <3> QED BY <2>1, <2>2, <2>3, <2>4, <3>2, <3>3, <3>4
  <2> QED BY <2>5, Zenon
<1> QED BY <1>1, LInvInit, LInvStep, KeptInit, KeptStep, PTL DEF LeasesSpec, LeaseKept

-----------------------------------------------------------------------------
(* How long a job without a handler waits.                                 *)

\* The call under way still has to sweep the queue.
ToSweep(w, q) == \E i \in DOMAIN Queues[w] : i > swept[w] /\ Queues[w][i] = q

\* Longest time until a sweep reaches the queue.
NextSweep(w, q) ==
  IF ~ sweeping[w] THEN reapIn[w] + Latency
  ELSE IF ToSweep(w, q) THEN reapIn[w]
  ELSE reapIn[w] + ReapInterval(w) + Latency

\* The time for one sweep, one for every failed call, and one for every full
\* batch that left the job behind.
Sweeps(w, j) == (1 + (faults + passedOver[j])) * (ReapInterval(w) + Latency)

\* The rest of the lease, then of the wait for the next sweep, stays in bounds.
Waits(j, w) ==
  owner[j] # NoOwner =>
    IF left[j] > 0 THEN orphanFor[j] + left[j] <= VisibilityTimeout[owner[j]] + Latency
    ELSE orphanFor[j] + NextSweep(w, queueOf[j])
           <= VisibilityTimeout[owner[j]] + 2 * Latency + Sweeps(w, j)

\* Only a leased job without a handler counts, and only once the workers that
\* stay are up; the last renewal of a worker that is gone comes soon.
Orphan(j) ==
  /\ orphanFor[j] # 0 => /\ owner[j] # NoOwner /\ ~ Attended(j)
                         /\ \A w \in Worker \ Mortal : phase[w] # "off"
  /\ \A x \in Worker : owner[j] = x /\ renewal[x].pc = "asked" /\ j \in renewal[x].ids =>
       orphanFor[j] <= Latency - renewIn[x]

AllWait ==
  \A j \in Job : /\ Orphan(j)
                 /\ \A w \in Worker \ Mortal : Covers(w, queueOf[j]) => Waits(j, w)

\* The types of what the bound is made of; a sweep comes within two calls and
\* an interval.
WaitFacts(w, j) ==
  /\ NextSweep(w, queueOf[j]) \in Nat
  /\ NextSweep(w, queueOf[j]) <= ReapInterval(w) + 2 * Latency
  /\ Sweeps(w, j) \in Nat /\ ReapInterval(w) + Latency <= Sweeps(w, j)
  /\ left[j] \in Int /\ orphanFor[j] \in Nat
  /\ reapIn[w] \in Nat /\ ReapInterval(w) \in Nat /\ Latency \in Nat
  /\ faults \in Nat /\ passedOver[j] \in Nat
  /\ \A x \in Worker : VisibilityTimeout[x] \in Nat
LEMMA WaitTypes ==
  ASSUME NEW w \in Worker, NEW j \in Job
  PROVE  (LInv => WaitFacts(w, j)) /\ (LInv' => WaitFacts(w, j)')
<1>1. ASSUME LInv PROVE WaitFacts(w, j)
  <2> DEFINE r == ReapInterval(w)
             c == r + Latency
             n == faults + passedOver[j]
  <2>1. /\ left[j] \in Int /\ orphanFor[j] \in Nat /\ reapIn[w] \in Nat
        /\ faults \in Nat /\ passedOver[j] \in Nat
        /\ reapIn[w] <= (IF sweeping[w] THEN Latency ELSE r)
    BY <1>1, Zenon DEF LInv, LTypes, Timers
  <2>2. r \in Nat /\ Latency \in Nat /\ \A x \in Worker : VisibilityTimeout[x] \in Nat
    BY Intervals
  <2>3. n \in Nat /\ c \in Nat
    <3> HIDE DEF r
    <3> QED BY <2>1, <2>2
  <2>4. n * c \in Nat /\ (n + 1) * c = n * c + c
    BY <2>3, OneMore, Zenon
  <2>5. Sweeps(w, j) = (1 + n) * c
    BY Zenon DEF Sweeps
  <2>6. 1 + n = n + 1
    <3> HIDE DEF n
    <3> QED BY <2>3
  <2>7. Sweeps(w, j) = n * c + c
    BY <2>4, <2>5, <2>6, Zenon
  <2>8. Sweeps(w, j) \in Nat /\ c <= Sweeps(w, j)
    <3> HIDE DEF n, c, Sweeps
    <3> QED BY <2>3, <2>4, <2>7
  <2>9. \/ ~ sweeping[w] /\ NextSweep(w, queueOf[j]) = reapIn[w] + Latency
        \/ sweeping[w] /\ NextSweep(w, queueOf[j]) = reapIn[w]
        \/ sweeping[w] /\ NextSweep(w, queueOf[j]) = reapIn[w] + r + Latency
    BY Zenon DEF NextSweep
  <2>10. NextSweep(w, queueOf[j]) \in Nat /\ NextSweep(w, queueOf[j]) <= r + 2 * Latency
    <3> HIDE DEF r, NextSweep
    <3> QED BY <2>1, <2>2, <2>9
  <2> QED BY <2>1, <2>2, <2>8, <2>10, Zenon DEF WaitFacts
<1> QED BY <1>1, PTL

\* The broker's state of a job stays and no sweep is put off.
LEMMA WaitsSame ==
  ASSUME LInv, LInv', NEW w \in Worker, NEW j \in Job, Waits(j, w),
         owner'[j] = owner[j], left'[j] = left[j], orphanFor'[j] = orphanFor[j],
         NextSweep(w, queueOf[j])' <= NextSweep(w, queueOf[j]), faults' >= faults,
         passedOver'[j] = passedOver[j]
  PROVE  Waits(j, w)'
<1> SUFFICES ASSUME owner[j] # NoOwner
             PROVE  IF left[j] > 0 THEN orphanFor[j] + left[j] <= VisibilityTimeout[owner[j]] + Latency
                    ELSE orphanFor[j] + NextSweep(w, queueOf[j])'
                           <= VisibilityTimeout[owner[j]] + 2 * Latency + Sweeps(w, j)'
  BY Zenon DEF Waits
<1>1. WaitFacts(w, j) /\ WaitFacts(w, j)' /\ owner[j] \in Worker
  BY WaitTypes, Zenon DEF LInv, LTypes
<1>2. Sweeps(w, j) <= Sweeps(w, j)'
  <2> DEFINE c == ReapInterval(w) + Latency
             m == 1 + (faults + passedOver[j])
             n == 1 + (faults' + passedOver'[j])
  <2>0. /\ faults \in Nat /\ faults' \in Nat /\ passedOver[j] \in Nat
        /\ ReapInterval(w) \in Nat /\ Latency \in Nat
    BY <1>1, Zenon DEF WaitFacts
  <2>1. m \in Nat /\ n \in Nat /\ m <= n
    BY <2>0
  <2>2. c \in Nat
    <3> HIDE DEF ReapInterval
    <3> QED BY <2>0
  <2>3. m * c <= n * c
    <3> HIDE DEF m, n, c
    <3> QED BY <2>1, <2>2, Fewer
  <2> QED BY <2>3, Zenon DEF Sweeps
<1>3. /\ NextSweep(w, queueOf[j]) \in Nat /\ NextSweep(w, queueOf[j])' \in Nat
      /\ Sweeps(w, j) \in Nat /\ Sweeps(w, j)' \in Nat
      /\ left[j] \in Int /\ orphanFor[j] \in Nat /\ Latency \in Nat
      /\ VisibilityTimeout[owner[j]] \in Nat
  BY <1>1, Zenon DEF WaitFacts
<1>4. IF left[j] > 0 THEN orphanFor[j] + left[j] <= VisibilityTimeout[owner[j]] + Latency
      ELSE orphanFor[j] + NextSweep(w, queueOf[j])
             <= VisibilityTimeout[owner[j]] + 2 * Latency + Sweeps(w, j)
  BY Zenon DEF Waits
<1> HIDE DEF NextSweep, Sweeps
<1> QED BY <1>2, <1>3, <1>4

\* A sweep loop that stands still.
LEMMA NextSame ==
  ASSUME LInv, NEW w \in Worker, NEW j \in Job,
         sweeping'[w] = sweeping[w], swept'[w] = swept[w], reapIn'[w] = reapIn[w]
  PROVE  NextSweep(w, queueOf[j])' <= NextSweep(w, queueOf[j])
<1>1. NextSweep(w, queueOf[j])' = NextSweep(w, queueOf[j])
  BY Zenon DEF NextSweep, ToSweep
<1>2. NextSweep(w, queueOf[j]) \in Nat
  BY WaitTypes, Zenon DEF WaitFacts
<1> HIDE DEF NextSweep
<1> QED BY <1>1, <1>2

\* A job nobody handles stays so, and no new renewal is sent for it.
LEMMA OrphanSame ==
  ASSUME LInv', NEW j \in Job, Orphan(j),
         orphanFor'[j] = 0 \/ (orphanFor'[j] = orphanFor[j] /\ owner'[j] = owner[j]),
         \A x \in Worker : j \in handlers'[x] => j \in handlers[x] \/ claiming[x] = j,
         \A x \in Worker : claiming'[x] = j => claiming[x] = j \/ orphanFor'[j] = 0,
         \A x \in Worker : phase'[x] = "off" => phase[x] = "off",
         \A x \in Worker : owner'[j] = x /\ renewal'[x].pc = "asked" /\ j \in renewal'[x].ids =>
           orphanFor'[j] = 0 \/ (renewal'[x] = renewal[x] /\ renewIn'[x] = renewIn[x])
  PROVE  Orphan(j)'
<1>1. ASSUME orphanFor'[j] # 0
      PROVE  /\ owner'[j] # NoOwner /\ ~ Attended(j)'
             /\ \A w \in Worker \ Mortal : phase'[w] # "off"
  <2>1. /\ orphanFor'[j] = orphanFor[j] /\ owner'[j] = owner[j] /\ owner[j] # NoOwner
        /\ ~ Attended(j) /\ \A w \in Worker \ Mortal : phase[w] # "off"
    BY <1>1, Zenon DEF Orphan
  <2>2. owner'[j] \in Worker
    BY <2>1, Zenon DEF LInv, LTypes
  <2>3. ~ Attended(j)'
    BY <1>1, <2>1, <2>2, Zenon DEF Attended
  <2> QED BY <2>1, <2>3, Zenon
<1>2. ASSUME NEW x \in Worker, owner'[j] = x, renewal'[x].pc = "asked", j \in renewal'[x].ids
      PROVE  orphanFor'[j] <= Latency - renewIn'[x]
  <2>1. CASE orphanFor'[j] = 0
    <3>1. renewIn'[x] \in Nat /\ renewIn'[x] <= Latency
      <4>1. "asked" # "asleep"
        OBVIOUS
      <4> QED BY <1>2, <4>1, LeaseFactsNext, Zenon DEF LeaseFacts
    <3> QED BY <2>1, <3>1, Intervals
  <2>2. CASE orphanFor'[j] # 0
    BY <1>2, <2>2, Zenon DEF Orphan
  <2> QED BY <2>1, <2>2, Zenon
<1> QED BY <1>1, <1>2, Zenon DEF Orphan

\* A failed call is counted.
LEMMA FaultsGrow ==
  ASSUME LInv, Fault \/ UNCHANGED faults
  PROVE  faults' >= faults
<1>1. faults \in Nat
  BY Zenon DEF LInv, LTypes
<1> QED BY <1>1 DEF Fault

\* Initially no job is leased.
LEMMA WaitInit == LeasesInit => AllWait
<1> SUFFICES ASSUME LeasesInit, NEW j \in Job
             PROVE  Orphan(j) /\ \A w \in Worker \ Mortal : Waits(j, w)
  BY Zenon DEF AllWait
<1>1. owner[j] = NoOwner /\ orphanFor[j] = 0 /\ \A x \in Worker : owner[j] # x
  BY LeasesAssumption, Zenon DEF LeasesInit
<1> QED BY <1>1, Zenon DEF Orphan, Waits

\* Claims.
LEMMA WaitClaims ==
  ASSUME LInv, LInv', AllWait, NEW v \in Worker,
         (\E j \in Job : Dequeue(v, j)) \/ trackJob(v) \/ DequeueFailed(v)
  PROVE  AllWait'
<1> SUFFICES ASSUME NEW j \in Job
             PROVE  Orphan(j)' /\ \A w \in Worker \ Mortal : Covers(w, queueOf[j]) => Waits(j, w)'
  BY Zenon DEF AllWait, Covers
<1>0. /\ LTypes /\ NoOwner \notin Worker /\ NoJob # j /\ Orphan(j)
      /\ \A w \in Worker \ Mortal : Covers(w, queueOf[j]) => Waits(j, w)
  BY LeasesAssumption, Zenon DEF LInv, AllWait
<1>1. ASSUME NEW i \in Job, Dequeue(v, i)
      PROVE  Orphan(j)' /\ \A w \in Worker \ Mortal : Covers(w, queueOf[j]) => Waits(j, w)'
  <2>1. /\ UNCHANGED <<process, renew, reap, runs, orphanFor, passedOver, faults>>
        /\ owner[i] = NoOwner /\ owner' = [owner EXCEPT ![i] = v]
        /\ left' = [left EXCEPT ![i] = VisibilityTimeout[v]]
        /\ claiming' = [claiming EXCEPT ![v] = i]
    BY <1>1, Zenon DEF Dequeue
  <2>2. CASE j = i
    <3>1. orphanFor'[j] = 0 /\ owner'[j] = v /\ left'[j] = VisibilityTimeout[v]
      BY <1>0, <2>1, <2>2, Zenon DEF Orphan, LTypes
    <3>2. Orphan(j)'
      BY <1>0, <2>1, <3>1, OrphanSame, Zenon DEF process, renew, runs
    <3>3. left'[j] > 0 /\ orphanFor'[j] + left'[j] <= VisibilityTimeout[owner'[j]] + Latency
      BY <3>1, Intervals
    <3> QED BY <3>2, <3>3, Zenon DEF Waits
  <2>3. CASE j # i
    <3>1. owner'[j] = owner[j] /\ left'[j] = left[j] /\ \A x \in Worker : claiming'[x] = j => claiming[x] = j
      BY <1>0, <2>1, <2>3, Zenon DEF LTypes
    <3>2. Orphan(j)'
      BY <1>0, <2>1, <3>1, OrphanSame, Zenon DEF process, renew, runs
    <3>3. faults' >= faults
      BY <2>1, FaultsGrow, Zenon
    <3>4. ASSUME NEW w \in Worker \ Mortal, Covers(w, queueOf[j]) PROVE Waits(j, w)'
      BY <1>0, <2>1, <3>1, <3>3, <3>4, NextSame, WaitsSame, Zenon DEF reap
    <3> QED BY <3>2, <3>4, Zenon
  <2> QED BY <2>2, <2>3, Zenon
<1>2. CASE trackJob(v) \/ DequeueFailed(v)
  <2>1. /\ UNCHANGED <<process, renew, reap, lease>> /\ EndClaim(v)
        /\ faults' >= faults
        /\ \A x \in Worker : j \in handlers'[x] => j \in handlers[x] \/ claiming[x] = j
    <3>1. /\ UNCHANGED <<process, renew, reap, lease>> /\ EndClaim(v)
          /\ Fault \/ UNCHANGED faults
      BY <1>2, Zenon DEF trackJob, DequeueFailed
    <3>2. handlers' = [handlers EXCEPT ![v] = handlers[v] \cup {claiming[v]}] \/ handlers' = handlers
      BY <1>2, Zenon DEF trackJob, DequeueFailed, runs
    <3>3. \A x \in Worker : j \in handlers'[x] => j \in handlers[x] \/ claiming[x] = j
      <4>1. handlers \in [Worker -> SUBSET Job]
        BY <1>0, Zenon DEF LTypes
      <4> QED BY <3>2, <4>1
    <3> QED BY <3>1, <3>3, FaultsGrow, Zenon
  <2>2. \A x \in Worker : claiming'[x] = j => claiming[x] = j
    BY <1>0, <2>1, EndClaimTypes, Zenon
  <2>3. Orphan(j)'
    BY <1>0, <2>1, <2>2, OrphanSame, Zenon DEF process, renew, lease
  <2>4. ASSUME NEW w \in Worker \ Mortal, Covers(w, queueOf[j]) PROVE Waits(j, w)'
    BY <1>0, <2>1, <2>4, NextSame, WaitsSame, Zenon DEF reap, lease
  <2> QED BY <2>3, <2>4, Zenon
<1> QED BY <1>1, <1>2, Zenon

\* Reports.
LEMMA WaitReports ==
  ASSUME LInv, LInv', AllWait, NEW v \in Worker, NEW i \in Job,
         Finish(v, i) \/ FinishUnreported(v, i)
  PROVE  AllWait'
<1> SUFFICES ASSUME NEW j \in Job
             PROVE  Orphan(j)' /\ \A w \in Worker \ Mortal : Covers(w, queueOf[j]) => Waits(j, w)'
  BY Zenon DEF AllWait, Covers
<1>0. /\ LTypes /\ NoOwner \notin Worker /\ Orphan(j)
      /\ \A w \in Worker \ Mortal : Covers(w, queueOf[j]) => Waits(j, w)
  BY LeasesAssumption, Zenon DEF LInv, AllWait
<1>1. /\ Forget(v, {i}) /\ {i} \in SUBSET Job
      /\ UNCHANGED <<process, claim, renew, reap>> /\ faults' >= faults
  BY FaultsGrow, Zenon DEF Finish, FinishUnreported
<1>2. \A x \in Worker : j \in handlers'[x] => j \in handlers[x]
  BY <1>0, <1>1, ForgetTypes, Zenon
<1>3. \/ UNCHANGED lease
      \/ Drop({i}) /\ passedOver' = [passedOver EXCEPT ![i] = 0]
  BY Zenon DEF Finish, FinishUnreported
<1>4. \/ /\ owner'[j] = owner[j] /\ left'[j] = left[j] /\ orphanFor'[j] = orphanFor[j]
         /\ passedOver'[j] = passedOver[j]
      \/ owner'[j] = NoOwner /\ orphanFor'[j] = 0
  <2>0. /\ owner \in [Job -> Worker \cup {NoOwner}] /\ left \in [Job -> Int]
        /\ orphanFor \in [Job -> Nat] /\ passedOver \in [Job -> Nat]
    BY <1>0, Zenon DEF LTypes
  <2>1. CASE UNCHANGED lease
    BY <2>1, Zenon DEF lease
  <2>2. CASE Drop({i}) /\ passedOver' = [passedOver EXCEPT ![i] = 0]
    <3>1. CASE j = i
      BY <2>0, <2>2, <3>1 DEF Drop
    <3>2. CASE j # i
      BY <2>0, <2>2, <3>2 DEF Drop
    <3> QED BY <3>1, <3>2, Zenon
  <2> QED BY <1>3, <2>1, <2>2, Zenon
<1>5. Orphan(j)'
  BY <1>0, <1>1, <1>2, <1>4, OrphanSame, Zenon DEF process, claim, renew
<1>6. ASSUME NEW w \in Worker \ Mortal, Covers(w, queueOf[j]) PROVE Waits(j, w)'
  <2>1. CASE owner'[j] = NoOwner
    BY <2>1, Zenon DEF Waits
  <2>2. CASE owner'[j] # NoOwner
    BY <1>0, <1>1, <1>4, <1>6, <2>2, NextSame, WaitsSame, Zenon DEF reap
  <2> QED BY <2>1, <2>2, Zenon
<1> QED BY <1>5, <1>6, Zenon

\* The renewal loop; the last renewal of a worker that is gone starts a lease
\* anew soon after it has gone.
LEMMA WaitRenewals ==
  ASSUME LInv, LInv', AllWait, NEW v \in Worker,
         RenewIdle(v) \/ RenewAsk(v) \/ Extend(v) \/ RenewOK(v) \/ RenewFailed(v)
  PROVE  AllWait'
<1> SUFFICES ASSUME NEW j \in Job
             PROVE  Orphan(j)' /\ \A w \in Worker \ Mortal : Covers(w, queueOf[j]) => Waits(j, w)'
  BY Zenon DEF AllWait, Covers
<1>0. /\ LTypes /\ NoOwner \notin Worker /\ Orphan(j)
      /\ \A w \in Worker \ Mortal : Covers(w, queueOf[j]) => Waits(j, w)
  BY LeasesAssumption, Zenon DEF LInv, AllWait
<1>1. /\ UNCHANGED <<process, claim, reap, handlers, owner, orphanFor>>
      /\ faults' >= faults
  BY FaultsGrow, Zenon DEF RenewIdle, RenewAsk, Extend, RenewOK, RenewFailed, runs, lease
<1>2. ASSUME NEW x \in Worker, owner'[j] = x, renewal'[x].pc = "asked", j \in renewal'[x].ids
      PROVE  orphanFor'[j] = 0 \/ (renewal'[x] = renewal[x] /\ renewIn'[x] = renewIn[x])
  <2>0. renewal \in [Worker -> [pc : {"asleep", "asked", "extended"}, ids : SUBSET Job, lost : SUBSET Job]]
        /\ renewIn \in [Worker -> Nat]
    BY <1>0, Zenon DEF LTypes
  <2>1. CASE RenewIdle(v) \/ RenewOK(v) \/ RenewFailed(v)
    <3>1. Sleep(v)
      BY <2>1, Zenon DEF RenewIdle, RenewOK, RenewFailed
    <3>2. "asked" # "asleep"
      OBVIOUS
    <3> QED BY <1>0, <1>2, <3>1, <3>2, SleepTypes, Zenon
  <2>2. CASE RenewAsk(v)
    <3>1. CASE x = v
      <4>1. renewal'[x].ids = handlers[x]
        BY <2>0, <2>2, <3>1 DEF RenewAsk
      <4>2. Attended(j)
        BY <1>0, <1>1, <1>2, <4>1, Zenon DEF Attended
      <4> QED BY <1>0, <1>1, <4>2, Zenon DEF Orphan
    <3>2. CASE x # v
      BY <2>0, <2>2, <3>2, Zenon DEF RenewAsk
    <3> QED BY <3>1, <3>2, Zenon
  <2>3. CASE Extend(v)
    <3>1. x # v
      BY <1>2, <2>0, <2>3 DEF Extend
    <3> QED BY <2>0, <2>3, <3>1 DEF Extend
  <2> QED BY <2>1, <2>2, <2>3, Zenon
<1>3. Orphan(j)'
  BY <1>0, <1>1, <1>2, OrphanSame, Zenon DEF process, claim
<1>4. ASSUME NEW w \in Worker \ Mortal, Covers(w, queueOf[j]) PROVE Waits(j, w)'
  <2>1. CASE left'[j] = left[j] /\ passedOver'[j] = passedOver[j]
    BY <1>0, <1>1, <1>4, <2>1, NextSame, WaitsSame, Zenon DEF reap
  <2>2. CASE Extend(v) /\ owner[j] = v /\ j \in renewal[v].ids
    <3>1. left'[j] = VisibilityTimeout[v] /\ renewal[v].pc = "asked"
      BY <2>2, Zenon DEF Extend
    <3>2. orphanFor[j] <= Latency - renewIn[v]
      BY <1>0, <2>2, <3>1, Zenon DEF Orphan
    <3>3. renewIn[v] \in Nat /\ orphanFor[j] \in Nat /\ Latency \in Nat /\ VisibilityTimeout[v] \in Nat \ {0}
      BY <1>0, Intervals, Zenon DEF LTypes
    <3>4. left'[j] > 0 /\ orphanFor[j] + left'[j] <= VisibilityTimeout[v] + Latency
      BY <3>1, <3>2, <3>3
    <3> QED BY <1>1, <2>2, <3>4, Zenon DEF Waits
  <2>3. \/ left'[j] = left[j] /\ passedOver'[j] = passedOver[j]
        \/ Extend(v) /\ owner[j] = v /\ j \in renewal[v].ids
    BY Zenon DEF RenewIdle, RenewAsk, Extend, RenewOK, RenewFailed, lease
  <2> QED BY <2>1, <2>2, <2>3, Zenon
<1> QED BY <1>3, <1>4, Zenon

\* The sum of a wait and of one interval more.
LEMMA OneSweepMore ==
  ASSUME NEW o \in Nat, NEW v \in Nat, NEW x \in Nat, NEW y \in Nat, NEW s \in Nat, NEW c \in Nat,
         y <= x + c, o + x <= v + s
  PROVE  o + y <= v + (s + c)
  OBVIOUS

\* Sums of naturals.
LEMMA Sums ==
  ASSUME NEW a \in Nat, NEW b \in Nat
  PROVE  a + b \in Nat /\ 1 + a \in Nat /\ 1 + (a + 1) = (1 + a) + 1 /\ a + 2 * b \in Nat
  OBVIOUS

\* A sweep that leaves the job behind pays with a full batch, one that fails
\* with a failed call.
LEMMA SweepOnce ==
  ASSUME LInv, LInv', NEW w \in Worker, NEW j \in Job, Waits(j, w),
         owner'[j] = owner[j], left'[j] = left[j], orphanFor'[j] = orphanFor[j],
         NextSweep(w, queueOf[j])' <= NextSweep(w, queueOf[j]) + (ReapInterval(w) + Latency),
         faults' + passedOver'[j] = (faults + passedOver[j]) + 1
  PROVE  Waits(j, w)'
<1> SUFFICES ASSUME owner[j] # NoOwner
             PROVE  IF left[j] > 0 THEN orphanFor[j] + left[j] <= VisibilityTimeout[owner[j]] + Latency
                    ELSE orphanFor[j] + NextSweep(w, queueOf[j])'
                           <= VisibilityTimeout[owner[j]] + 2 * Latency + Sweeps(w, j)'
  BY Zenon DEF Waits
<1> DEFINE c == ReapInterval(w) + Latency
           n == faults + passedOver[j]
<1>1. WaitFacts(w, j) /\ WaitFacts(w, j)' /\ owner[j] \in Worker
  BY WaitTypes, Zenon DEF LInv, LTypes
<1>2. c \in Nat /\ n \in Nat
  <2>1. ReapInterval(w) \in Nat /\ Latency \in Nat /\ faults \in Nat /\ passedOver[j] \in Nat
    BY <1>1, Zenon DEF WaitFacts
  <2> QED BY <2>1, Sums, Zenon
<1>3. Sweeps(w, j)' = Sweeps(w, j) + c
  <2>1. Sweeps(w, j) = (1 + n) * c /\ Sweeps(w, j)' = (1 + (n + 1)) * c
    BY Zenon DEF Sweeps
  <2> HIDE DEF c, n
  <2>2. 1 + (n + 1) = (1 + n) + 1 /\ 1 + n \in Nat
    BY <1>2, Sums, Zenon
  <2>3. ((1 + n) + 1) * c = (1 + n) * c + c
    BY <1>2, <2>2, OneMore, Zenon
  <2> QED BY <2>1, <2>2, <2>3, Zenon
<1>4. /\ NextSweep(w, queueOf[j]) \in Nat /\ NextSweep(w, queueOf[j])' \in Nat
      /\ Sweeps(w, j) \in Nat /\ left[j] \in Int /\ orphanFor[j] \in Nat /\ Latency \in Nat
      /\ VisibilityTimeout[owner[j]] \in Nat
  BY <1>1, Zenon DEF WaitFacts
<1>5. IF left[j] > 0 THEN orphanFor[j] + left[j] <= VisibilityTimeout[owner[j]] + Latency
      ELSE orphanFor[j] + NextSweep(w, queueOf[j])
             <= VisibilityTimeout[owner[j]] + 2 * Latency + Sweeps(w, j)
  BY Zenon DEF Waits
<1>6. NextSweep(w, queueOf[j])' <= NextSweep(w, queueOf[j]) + c
  BY Zenon
<1>7. VisibilityTimeout[owner[j]] + 2 * Latency \in Nat
  BY <1>4, Sums, Zenon
<1>8. orphanFor[j] + NextSweep(w, queueOf[j]) <= VisibilityTimeout[owner[j]] + 2 * Latency + Sweeps(w, j) =>
        orphanFor[j] + NextSweep(w, queueOf[j])'
          <= VisibilityTimeout[owner[j]] + 2 * Latency + (Sweeps(w, j) + c)
  BY <1>2, <1>4, <1>6, <1>7, OneSweepMore, Zenon
<1> QED BY <1>3, <1>5, <1>8, Zenon

\* The reap loop.
LEMMA WaitSweeps ==
  ASSUME LInv, LInv', AllWait, NEW v \in Worker, ReapAsk(v) \/ Reap(v) \/ ReapDone(v)
  PROVE  AllWait'
<1> SUFFICES ASSUME NEW j \in Job
             PROVE  Orphan(j)' /\ \A w \in Worker \ Mortal : Covers(w, queueOf[j]) => Waits(j, w)'
  BY Zenon DEF AllWait, Covers
<1>0. /\ LTypes /\ NoOwner \notin Worker /\ Orphan(j) /\ \A x \in Worker : Timers(x)
      /\ \A w \in Worker \ Mortal : Covers(w, queueOf[j]) => Waits(j, w)
  BY LeasesAssumption, Zenon DEF LInv, AllWait
<1>1. UNCHANGED <<process, claim, renew, runs>>
  BY Zenon DEF ReapAsk, Reap, ReapDone
<1>2. \/ owner'[j] = owner[j] /\ left'[j] = left[j] /\ orphanFor'[j] = orphanFor[j]
      \/ owner'[j] = NoOwner /\ orphanFor'[j] = 0
  <2>1. CASE Reap(v)
    <3>1. PICK S \in Batches(Queues[v][swept[v] + 1]) : Drop(S)
      BY <2>1, Zenon DEF Reap
    <3> QED BY <3>1, Zenon DEF Drop
  <2>2. CASE ReapAsk(v) \/ ReapDone(v)
    BY <2>2, Zenon DEF ReapAsk, ReapDone, lease
  <2> QED BY <2>1, <2>2, Zenon
<1>3. Orphan(j)'
  BY <1>0, <1>1, <1>2, OrphanSame, Zenon DEF process, claim, renew, runs
<1>4. ASSUME NEW w \in Worker \ Mortal, Covers(w, queueOf[j]), owner'[j] # NoOwner
      PROVE  Waits(j, w)'
  <2>0. /\ Waits(j, w) /\ owner'[j] = owner[j] /\ left'[j] = left[j] /\ orphanFor'[j] = orphanFor[j]
        /\ WaitFacts(w, j) /\ WaitFacts(w, j)'
    BY <1>0, <1>2, <1>4, WaitTypes, Zenon
  <2>1. /\ ReapInterval(w) \in Nat /\ Latency \in Nat /\ reapIn[w] \in Nat /\ reapIn'[w] \in Nat
        /\ NextSweep(w, queueOf[j]) \in Nat /\ faults \in Nat /\ passedOver[j] \in Nat
    BY <2>0, Zenon DEF WaitFacts
  <2>2. CASE ReapAsk(v)
    <3>1. UNCHANGED <<lease, faults, swept>> /\ faults' >= faults
      BY <2>2, FaultsGrow, Zenon DEF ReapAsk
    <3>2. CASE v # w
      <4>1. sweeping'[w] = sweeping[w] /\ reapIn'[w] = reapIn[w]
        BY <1>0, <2>2, <3>2, Zenon DEF ReapAsk, LTypes
      <4> QED BY <2>0, <3>1, <4>1, NextSame, WaitsSame, Zenon DEF lease
    <3>3. CASE v = w
      <4>1. /\ ~ sweeping[w] /\ reapIn[w] = 0 /\ sweeping'[w] /\ reapIn'[w] = Latency
            /\ swept'[w] = 0
        BY <1>0, <2>2, <3>1, <3>3, Zenon DEF ReapAsk, LTypes, Timers
      <4>2. ToSweep(w, queueOf[j])'
        <5>1. PICK i \in DOMAIN Queues[w] : Queues[w][i] = queueOf[j]
          BY <1>4, Zenon DEF Covers
        <5>2. i > 0
          <6>1. Queues[w] \in Seq(Queue)
            BY LeasesAssumption, Zenon
          <6>2. Len(Queues[w]) \in Nat /\ i \in 1..Len(Queues[w])
            BY <6>1
          <6> QED BY <6>2
        <5> QED BY <4>1, <5>1, <5>2, Zenon DEF ToSweep
      <4>3. /\ NextSweep(w, queueOf[j]) = 0 + Latency
            /\ NextSweep(w, queueOf[j])' = Latency
        BY <4>1, <4>2, Zenon DEF NextSweep
      <4>4. NextSweep(w, queueOf[j])' <= NextSweep(w, queueOf[j])
        <5> HIDE DEF NextSweep
        <5> QED BY <2>1, <4>3
      <4> QED BY <2>0, <3>1, <4>4, WaitsSame, Zenon DEF lease
    <3> QED BY <3>2, <3>3, Zenon
  <2>3. CASE ReapDone(v)
    <3>1. UNCHANGED lease /\ faults' >= faults
      BY <2>3, FaultsGrow, Zenon DEF ReapDone
    <3>2. CASE v # w
      <4>1. sweeping'[w] = sweeping[w] /\ reapIn'[w] = reapIn[w] /\ swept'[w] = swept[w]
        BY <1>0, <2>3, <3>2, Zenon DEF ReapDone, LTypes
      <4> QED BY <2>0, <3>1, <4>1, NextSame, WaitsSame, Zenon DEF lease
    <3>3. CASE v = w
      <4>1. /\ sweeping[w] /\ ~ sweeping'[w]
            /\ swept[w] = Len(Queues[w]) \/ faults' = faults + 1
        BY <1>0, <2>3, <3>3, Zenon DEF ReapDone, LTypes, Fault
      <4>2. reapIn'[w] <= ReapInterval(w)
        BY <4>1, Zenon DEF LInv, Timers
      <4>3. NextSweep(w, queueOf[j])' = reapIn'[w] + Latency
        BY <4>1, Zenon DEF NextSweep
      <4>4. CASE faults' = faults + 1
        <5>1. faults' + passedOver'[j] = (faults + passedOver[j]) + 1
          BY <2>1, <3>1, <4>4 DEF lease
        <5>2. NextSweep(w, queueOf[j])' <= NextSweep(w, queueOf[j]) + (ReapInterval(w) + Latency)
          <6> HIDE DEF NextSweep, ReapInterval
          <6> QED BY <2>1, <4>2, <4>3
        <5> QED BY <2>0, <5>1, <5>2, SweepOnce, Zenon
      <4>5. CASE swept[w] = Len(Queues[w])
        <5>1. ~ ToSweep(w, queueOf[j])
          <6>1. Queues[w] \in Seq(Queue)
            BY LeasesAssumption, Zenon
          <6>2. Len(Queues[w]) \in Nat /\ DOMAIN Queues[w] = 1..Len(Queues[w])
            BY <6>1
          <6> QED BY <4>5, <6>2 DEF ToSweep
        <5>2. NextSweep(w, queueOf[j]) = reapIn[w] + ReapInterval(w) + Latency
          BY <4>1, <5>1, Zenon DEF NextSweep
        <5>3. NextSweep(w, queueOf[j])' <= NextSweep(w, queueOf[j])
          <6> HIDE DEF NextSweep, ReapInterval
          <6> QED BY <2>1, <4>2, <4>3, <5>2
        <5> QED BY <2>0, <3>1, <5>3, WaitsSame, Zenon DEF lease
      <4> QED BY <4>1, <4>4, <4>5, Zenon
    <3> QED BY <3>2, <3>3, Zenon
  <2>4. CASE Reap(v)
    <3> DEFINE q == Queues[v][swept[v] + 1]
    <3>1. PICK S \in Batches(q) :
            /\ Drop(S)
            /\ passedOver' = [k \in Job |-> IF k \in S THEN 0
                                ELSE IF k \in Expired(q) THEN passedOver[k] + 1
                                ELSE passedOver[k]]
      BY <2>4, Zenon DEF Reap
    <3>2. /\ UNCHANGED <<sweeping, reapIn, faults>> /\ sweeping[v]
          /\ swept' = [swept EXCEPT ![v] = swept[v] + 1] /\ swept[v] < Len(Queues[v])
      BY <2>4, Zenon DEF Reap
    <3>3. j \notin S
      BY <1>4, <3>1, Zenon DEF Drop
    <3>4. faults' >= faults
      BY <3>2, FaultsGrow, Zenon
    <3>5. CASE j \in Expired(q)
      <4>1. faults' + passedOver'[j] = (faults + passedOver[j]) + 1
        <5>1. passedOver'[j] = passedOver[j] + 1 /\ faults' = faults
          BY <3>1, <3>2, <3>3, <3>5, Zenon
        <5> QED BY <2>1, <5>1
      <4>2. NextSweep(w, queueOf[j])' <= NextSweep(w, queueOf[j]) + (ReapInterval(w) + Latency)
        <5>1. \/ NextSweep(w, queueOf[j])' = reapIn[w] + Latency /\ ~ sweeping[w]
              \/ NextSweep(w, queueOf[j])' = reapIn[w]
              \/ NextSweep(w, queueOf[j])' = reapIn[w] + ReapInterval(w) + Latency /\ sweeping[w]
          BY <3>2, Zenon DEF NextSweep
        <5>2. \/ NextSweep(w, queueOf[j]) = reapIn[w] + Latency
              \/ NextSweep(w, queueOf[j]) = reapIn[w]
              \/ NextSweep(w, queueOf[j]) = reapIn[w] + ReapInterval(w) + Latency
          BY Zenon DEF NextSweep
        <5> HIDE DEF NextSweep, ReapInterval
        <5> QED BY <2>1, <5>1, <5>2
      <4> QED BY <2>0, <4>1, <4>2, SweepOnce, Zenon
    <3>6. CASE j \notin Expired(q)
      <4>1. passedOver'[j] = passedOver[j]
        BY <3>1, <3>3, <3>6, Zenon
      <4>2. CASE left[j] > 0
        <5>1. left'[j] > 0 /\ orphanFor'[j] + left'[j] <= VisibilityTimeout[owner'[j]] + Latency
          BY <1>4, <2>0, <4>2, Zenon DEF Waits
        <5> QED BY <5>1, Zenon DEF Waits
      <4>3. CASE ~ (left[j] > 0)
        <5>1. queueOf[j] # q
          <6>1. left[j] <= 0
            BY <2>0, <4>3 DEF WaitFacts
          <6> QED BY <1>4, <2>0, <3>6, <6>1, Zenon DEF Expired
        <5>2. CASE v = w
          <6>1. swept'[w] = swept[w] + 1 /\ swept[w] \in Nat
            BY <1>0, <3>2, <5>2, Zenon DEF LTypes
          <6>2. ASSUME NEW i \in DOMAIN Queues[w], Queues[w][i] = queueOf[j]
                PROVE  i > swept'[w] <=> i > swept[w]
            <7>1. Queues[w] \in Seq(Queue)
              BY LeasesAssumption, Zenon
            <7>2. i \in Nat
              BY <7>1, <6>2
            <7>3. i # swept[w] + 1
              BY <5>1, <5>2, <6>2, Zenon
            <7> QED BY <6>1, <7>2, <7>3
          <6>3. ToSweep(w, queueOf[j])' <=> ToSweep(w, queueOf[j])
            BY <6>2, Zenon DEF ToSweep
          <6>4. NextSweep(w, queueOf[j])' = NextSweep(w, queueOf[j])
            BY <3>2, <6>3, Zenon DEF NextSweep
          <6>5. NextSweep(w, queueOf[j])' <= NextSweep(w, queueOf[j])
            <7> HIDE DEF NextSweep
            <7> QED BY <2>1, <6>4
          <6> QED BY <2>0, <3>4, <4>1, <6>5, WaitsSame, Zenon
        <5>3. CASE v # w
          <6>1. swept'[w] = swept[w]
            BY <1>0, <3>2, <5>3, Zenon DEF LTypes
          <6> QED BY <2>0, <3>2, <3>4, <4>1, <6>1, NextSame, WaitsSame, Zenon
        <5> QED BY <5>2, <5>3, Zenon
      <4> QED BY <4>2, <4>3, Zenon
    <3> QED BY <3>5, <3>6, Zenon
  <2> QED BY <2>2, <2>3, <2>4, Zenon
<1>5. ASSUME NEW w \in Worker \ Mortal, owner'[j] = NoOwner PROVE Waits(j, w)'
  BY <1>5, Zenon DEF Waits
<1> QED BY <1>3, <1>4, <1>5, Zenon

\* Workers that come and go; those that stay start to sweep before time
\* passes.
LEMMA WaitFleet ==
  ASSUME LInv, LInv', AllWait, NEW v \in Worker,
         Start(v) \/ Shutdown(v) \/ DrainCancel(v) \/ DrainDone(v) \/ Crash(v)
  PROVE  AllWait'
<1> SUFFICES ASSUME NEW j \in Job
             PROVE  Orphan(j)' /\ \A w \in Worker \ Mortal : Covers(w, queueOf[j]) => Waits(j, w)'
  BY Zenon DEF AllWait, Covers
<1>0. /\ LTypes /\ NoOwner \notin Worker /\ NoJob # j /\ Orphan(j) /\ \A x \in Worker : Timers(x)
      /\ \A w \in Worker \ Mortal : Covers(w, queueOf[j]) => Waits(j, w)
  BY LeasesAssumption, Zenon DEF LInv, AllWait
<1>1. UNCHANGED lease /\ faults' >= faults
  BY FaultsGrow, Zenon DEF Start, Shutdown, DrainCancel, DrainDone, Crash, Leave
<1>2. /\ \A x \in Worker : j \in handlers'[x] => j \in handlers[x]
      /\ \A x \in Worker : claiming'[x] = j => claiming[x] = j
  <2>1. CASE Start(v) \/ DrainCancel(v)
    BY <2>1, Zenon DEF Start, DrainCancel, claim, runs
  <2>2. CASE Shutdown(v)
    BY <1>0, <2>2, AbandonTypes, Zenon DEF Shutdown, runs
  <2>3. CASE DrainDone(v) \/ Crash(v)
    <3>1. Forget(v, handlers[v]) /\ handlers[v] \in SUBSET Job /\ Abandon(v)
      BY <1>0, <2>3, Zenon DEF DrainDone, Crash, Leave, LTypes
    <3> QED BY <1>0, <3>1, AbandonTypes, ForgetTypes, Zenon
  <2> QED BY <2>1, <2>2, <2>3, Zenon
<1>3. \A x \in Worker : phase'[x] = "off" => phase[x] = "off"
  <2>1. \E p \in {"serving", "draining", "cancelling", "gone"} : phase' = [phase EXCEPT ![v] = p]
    BY Zenon DEF Start, Shutdown, DrainCancel, DrainDone, Crash, Leave
  <2>2. phase \in [Worker -> {"off", "serving", "draining", "cancelling", "gone"}]
    BY <1>0, Zenon DEF LTypes
  <2> QED BY <2>1, <2>2
<1>4. \A x \in Worker : renewal'[x].pc = "asked" => renewal'[x] = renewal[x] /\ renewIn'[x] = renewIn[x]
  <2>1. CASE Start(v)
    <3>1. Sleep(v) /\ "asleep" # "asked"
      BY <2>1, Zenon DEF Start
    <3> QED BY <1>0, <3>1, SleepTypes, Zenon
  <2>2. CASE Shutdown(v) \/ DrainCancel(v)
    BY <2>2, Zenon DEF Shutdown, DrainCancel, renew
  <2>3. CASE DrainDone(v) \/ Crash(v)
    <3>1. \/ UNCHANGED <<renewal, renewIn>>
          \/ renewal' = [renewal EXCEPT ![v] = Asleep] /\ renewIn' = [renewIn EXCEPT ![v] = 0]
      BY <2>3, Zenon DEF DrainDone, Crash, Leave
    <3>2. "asleep" # "asked"
      OBVIOUS
    <3> QED BY <1>0, <3>1, <3>2, AsleepType, Zenon DEF LTypes
  <2> QED BY <2>1, <2>2, <2>3, Zenon
<1>5. Orphan(j)'
  BY <1>0, <1>1, <1>2, <1>3, <1>4, OrphanSame, Zenon DEF lease
<1>6. ASSUME NEW w \in Worker \ Mortal, Covers(w, queueOf[j]) PROVE Waits(j, w)'
  <2>1. CASE Start(v) /\ v = w
    <3> SUFFICES ASSUME owner'[j] # NoOwner
                 PROVE  IF left'[j] > 0
                        THEN orphanFor'[j] + left'[j] <= VisibilityTimeout[owner'[j]] + Latency
                        ELSE orphanFor'[j] + NextSweep(w, queueOf[j])'
                               <= VisibilityTimeout[owner'[j]] + 2 * Latency + Sweeps(w, j)'
      BY Zenon DEF Waits
    <3>1. phase[w] = "off"
      BY <2>1, Zenon DEF Start
    <3>2. orphanFor'[j] = 0 /\ owner' = owner /\ left' = left
      BY <1>0, <1>1, <3>1, Zenon DEF Orphan, lease
    <3>3. WaitFacts(w, j)' /\ owner'[j] \in Worker
      BY WaitTypes, Zenon DEF LInv, LTypes
    <3>4. /\ NextSweep(w, queueOf[j])' \in Nat /\ Sweeps(w, j)' \in Nat
          /\ NextSweep(w, queueOf[j])' <= ReapInterval(w) + 2 * Latency
          /\ ReapInterval(w) + Latency <= Sweeps(w, j)'
          /\ ReapInterval(w) \in Nat /\ Latency \in Nat /\ VisibilityTimeout[owner'[j]] \in Nat
      BY <3>3, Zenon DEF WaitFacts
    <3>5. left'[j] > 0 => orphanFor'[j] + left'[j] <= VisibilityTimeout[owner'[j]] + Latency
      BY <1>0, <1>1, <1>6, <3>2, Zenon DEF Waits, lease
    <3> HIDE DEF NextSweep, Sweeps, ReapInterval
    <3> QED BY <3>2, <3>4, <3>5
  <2>2. CASE ~ (Start(v) /\ v = w)
    <3>1. sweeping'[w] = sweeping[w] /\ swept'[w] = swept[w] /\ reapIn'[w] = reapIn[w]
      <4>1. CASE Start(v)
        BY <1>0, <2>2, <4>1, Zenon DEF Start, LTypes
      <4>2. CASE DrainCancel(v)
        BY <4>2, Zenon DEF DrainCancel, reap
      <4>3. CASE Shutdown(v) \/ DrainDone(v) \/ Crash(v)
        <5>1. Abandon(v) /\ v # w
          <6>1. "draining" # "off" /\ "draining" # "serving" /\ "cancelling" # "off" /\ "cancelling" # "serving"
            OBVIOUS
          <6>2. v \in Mortal
            BY <1>0, <4>3, <6>1, Zenon DEF Shutdown, DrainDone, Crash, Timers
          <6> QED BY <4>3, <6>2, Zenon DEF Shutdown, DrainDone, Crash, Leave
        <5> QED BY <1>0, <5>1, AbandonTypes, Zenon
      <4> QED BY <4>1, <4>2, <4>3, Zenon
    <3> QED BY <1>0, <1>1, <1>6, <3>1, NextSame, WaitsSame, Zenon DEF lease
  <2> QED BY <2>1, <2>2, Zenon
<1> QED BY <1>5, <1>6, Zenon

\* A tick of time brings the end of the lease, and then the next sweep, closer.
LEMMA WaitTick ==
  ASSUME LInv, LInv', AllWait, Tick
  PROVE  AllWait'
<1> SUFFICES ASSUME NEW j \in Job
             PROVE  Orphan(j)' /\ \A w \in Worker \ Mortal : Covers(w, queueOf[j]) => Waits(j, w)'
  BY Zenon DEF AllWait, Covers
<1>0. /\ LTypes /\ NoOwner \notin Worker /\ Orphan(j) /\ \A x \in Worker : Timers(x)
      /\ \A w \in Worker \ Mortal : Covers(w, queueOf[j]) => Waits(j, w)
  BY LeasesAssumption, Zenon DEF LInv, AllWait
<1>1. /\ \A x \in Worker : ~ Due(x)
      /\ \A w \in Worker \ Mortal : phase[w] = "serving"
      /\ UNCHANGED <<phase, claiming, sweeping, swept, runs, owner, passedOver, faults>>
      /\ left'[j] = (IF owner[j] = NoOwner THEN 0 ELSE left[j] - 1)
      /\ orphanFor'[j] = (IF owner[j] # NoOwner /\ ~ Attended(j) THEN orphanFor[j] + 1 ELSE 0)
  BY Zenon DEF Tick
<1>2. left[j] \in Int /\ orphanFor[j] \in Nat /\ orphanFor'[j] \in Nat
  BY Zenon DEF LInv, LTypes
<1>3. Orphan(j)'
  <2>1. ASSUME orphanFor'[j] # 0
        PROVE  /\ owner'[j] # NoOwner /\ ~ Attended(j)'
               /\ \A w \in Worker \ Mortal : phase'[w] # "off"
    <3>1. owner[j] # NoOwner /\ ~ Attended(j)
      BY <1>1, <2>1, Zenon
    <3>2. ~ Attended(j)'
      BY <1>1, <3>1, Zenon DEF Attended, runs
    <3>3. "serving" # "off"
      OBVIOUS
    <3> QED BY <1>1, <3>1, <3>2, <3>3, Zenon
  <2>2. ASSUME NEW x \in Worker, owner'[j] = x, renewal'[x].pc = "asked", j \in renewal'[x].ids
        PROVE  orphanFor'[j] <= Latency - renewIn'[x]
    <3>0. renewal'[x] = (IF Up(x) \/ renewIn[x] > 0 THEN renewal[x] ELSE Asleep)
          /\ renewIn'[x] = Down(renewIn[x]) /\ "asked" # "asleep"
      BY Zenon DEF Tick
    <3>1. Up(x) \/ renewIn[x] > 0
      BY <2>2, <3>0, AsleepType, Zenon
    <3>2. renewal'[x] = renewal[x]
      BY <3>0, <3>1, Zenon
    <3>3. orphanFor[j] <= Latency - renewIn[x] /\ renewIn[x] <= Latency
      <4>1. orphanFor[j] <= Latency - renewIn[x]
        BY <1>0, <1>1, <2>2, <3>2, Zenon DEF Orphan
      <4>2. renewIn[x] <= Latency
        BY <1>0, <2>2, <3>0, <3>2, Zenon DEF Timers
      <4> QED BY <4>1, <4>2, Zenon
    <3>4. renewIn[x] \in Nat /\ Latency \in Nat
      BY <1>0, Intervals, Zenon DEF LTypes
    <3>5. renewIn[x] # 0
      <4>1. CASE Up(x)
        BY <1>1, <4>1, Zenon DEF Due
      <4>2. CASE renewIn[x] > 0
        BY <3>4, <4>2
      <4> QED BY <3>1, <4>1, <4>2, Zenon
    <3>6. renewIn'[x] = renewIn[x] - 1
      BY <3>0, <3>4, <3>5 DEF Down
    <3>7. orphanFor'[j] <= orphanFor[j] + 1
      BY <1>1, <1>2
    <3> QED BY <1>2, <3>3, <3>4, <3>5, <3>6, <3>7
  <2> QED BY <2>1, <2>2, Zenon DEF Orphan
<1>4. ASSUME NEW w \in Worker \ Mortal, Covers(w, queueOf[j]), owner'[j] # NoOwner
      PROVE  Waits(j, w)'
  <2> DEFINE n == NextSweep(w, queueOf[j])
             m == NextSweep(w, queueOf[j])'
  <2>0. WaitFacts(w, j) /\ WaitFacts(w, j)' /\ owner[j] \in Worker /\ owner' = owner /\ Waits(j, w)
    BY <1>0, <1>1, <1>4, WaitTypes, Zenon DEF LTypes
  <2>1. /\ n \in Nat /\ m \in Nat /\ Sweeps(w, j) \in Nat
        /\ n <= ReapInterval(w) + 2 * Latency /\ ReapInterval(w) + Latency <= Sweeps(w, j)
        /\ ReapInterval(w) \in Nat /\ Latency \in Nat /\ VisibilityTimeout[owner[j]] \in Nat
        /\ reapIn[w] \in Nat
    BY <2>0, Zenon DEF WaitFacts
  <2>2. reapIn'[w] = reapIn[w] - 1
    <3>1. reapIn[w] # 0
      BY <1>1, Zenon DEF Due
    <3>2. reapIn'[w] = Down(reapIn[w])
      BY Zenon DEF Tick
    <3> QED BY <2>1, <3>1, <3>2 DEF Down
  <2>3. m = n - 1
    <3>1. \/ n = reapIn[w] + Latency /\ m = reapIn'[w] + Latency
          \/ n = reapIn[w] /\ m = reapIn'[w]
          \/ n = reapIn[w] + ReapInterval(w) + Latency /\ m = reapIn'[w] + ReapInterval(w) + Latency
      BY <1>1, Zenon DEF NextSweep, ToSweep
    <3> HIDE DEF n, m, ReapInterval
    <3> QED BY <2>1, <2>2, <3>1
  <2>4. Sweeps(w, j)' = Sweeps(w, j)
    BY <1>1, Zenon DEF Sweeps
  <2>5. left'[j] = left[j] - 1 /\ (orphanFor'[j] = orphanFor[j] + 1 \/ orphanFor'[j] = 0)
    BY <1>1, <2>0, <1>4, Zenon
  <2>6. IF left[j] > 0 THEN orphanFor[j] + left[j] <= VisibilityTimeout[owner[j]] + Latency
        ELSE orphanFor[j] + n <= VisibilityTimeout[owner[j]] + 2 * Latency + Sweeps(w, j)
    BY <1>1, <1>4, <2>0, Zenon DEF Waits
  <2>7. IF left'[j] > 0 THEN orphanFor'[j] + left'[j] <= VisibilityTimeout[owner[j]] + Latency
        ELSE orphanFor'[j] + m <= VisibilityTimeout[owner[j]] + 2 * Latency + Sweeps(w, j)
    <3> HIDE DEF n, m, ReapInterval, Sweeps
    <3> QED BY <1>2, <2>1, <2>3, <2>5, <2>6
  <2> QED BY <2>0, <2>4, <2>7, Zenon DEF Waits
<1>5. ASSUME NEW w \in Worker \ Mortal, owner'[j] = NoOwner PROVE Waits(j, w)'
  BY <1>5, Zenon DEF Waits
<1> QED BY <1>3, <1>4, <1>5, Zenon

\* Every step keeps the waiting times in bounds.
LEMMA WaitStep == LInv /\ LInv' /\ AllWait /\ [LeasesNext]_leaseVars => AllWait'
<1> SUFFICES ASSUME LInv, LInv', AllWait, [LeasesNext]_leaseVars PROVE AllWait'
  BY Zenon
<1>1. CASE UNCHANGED leaseVars
  <2> SUFFICES ASSUME NEW j \in Job
               PROVE  Orphan(j)' /\ \A w \in Worker \ Mortal : Covers(w, queueOf[j]) => Waits(j, w)'
    BY Zenon DEF AllWait, Covers
  <2>1. /\ Orphan(j) /\ \A w \in Worker \ Mortal : Covers(w, queueOf[j]) => Waits(j, w)
        /\ faults' >= faults
        /\ UNCHANGED <<process, claim, renew, reap, runs, lease>>
    BY <1>1, FaultsGrow, Zenon DEF AllWait, leaseVars
  <2>2. Orphan(j)'
    BY <2>1, OrphanSame, Zenon DEF process, claim, renew, runs, lease
  <2> QED BY <2>1, <2>2, NextSame, WaitsSame, Zenon DEF reap, lease
<1>2. CASE LeasesNext
  BY <1>2, WaitClaims, WaitReports, WaitRenewals, WaitSweeps, WaitFleet, WaitTick, ZenonT(30)
     DEF LeasesNext
<1> QED BY <1>1, <1>2, Zenon

-----------------------------------------------------------------------------
(* How often a full batch can leave an expired lease behind.               *)
INSTANCE FiniteSetTheorems

\* The expired leases of its queue that a sweep may take first.
Ahead(j) == {k \in Expired(queueOf[j]) : k # j /\ left[k] <= left[j]}

\* Every batch that passed an expired lease over took reapBatch of those.
Passed(j) ==
  IF owner[j] # NoOwner /\ left[j] <= 0
  THEN passedOver[j] * reapBatch + Cardinality(Ahead(j)) < Cardinality(Job)
  ELSE passedOver[j] = 0

AllPassed == \A j \in Job : Passed(j)

\* Sets of jobs are finite.
LEMMA JobSets ==
  /\ Cardinality(Job) \in Nat /\ reapBatch \in Nat \ {0}
  /\ \A S \in SUBSET Job : /\ IsFiniteSet(S) /\ Cardinality(S) \in Nat
                           /\ Cardinality(S) <= Cardinality(Job)
                           /\ Cardinality(S) = Cardinality(Job) => S = Job
  /\ \A S \in SUBSET Job : \A T \in SUBSET S :
       /\ Cardinality(T) <= Cardinality(S)
       /\ Cardinality(S \ T) = Cardinality(S) - Cardinality(T)
<1>1. IsFiniteSet(Job) /\ reapBatch \in Nat \ {0}
  BY LeasesAssumption, Zenon
<1>2. Cardinality(Job) \in Nat
  BY <1>1, FS_CardinalityType, Zenon
<1>3. ASSUME NEW S \in SUBSET Job
      PROVE  /\ IsFiniteSet(S) /\ Cardinality(S) \in Nat
             /\ Cardinality(S) <= Cardinality(Job)
             /\ Cardinality(S) = Cardinality(Job) => S = Job
  <2>1. /\ IsFiniteSet(S) /\ Cardinality(S) <= Cardinality(Job)
        /\ Cardinality(Job) = Cardinality(S) => Job = S
    BY <1>1, FS_Subset, Zenon
  <2>2. Cardinality(S) \in Nat
    BY <2>1, FS_CardinalityType, Zenon
  <2> QED BY <2>1, <2>2, Zenon
<1>4. ASSUME NEW S \in SUBSET Job, NEW T \in SUBSET S
      PROVE  /\ Cardinality(T) <= Cardinality(S)
             /\ Cardinality(S \ T) = Cardinality(S) - Cardinality(T)
  <2>1. IsFiniteSet(S) /\ S \cap T = T
    BY <1>3
  <2>2. Cardinality(T) <= Cardinality(S)
    BY <2>1, FS_Subset, Zenon
  <2>3. Cardinality(S \ T) = Cardinality(S) - Cardinality(S \cap T)
    BY <2>1, FS_Difference, Zenon
  <2> QED BY <2>1, <2>2, <2>3, Zenon
<1> QED BY <1>1, <1>2, <1>3, <1>4, Zenon

\* Leases end, or go on as before: the queue ahead only gets shorter.
LEMMA PassedSame ==
  ASSUME LInv, NEW j \in Job, Passed(j),
         \A k \in Job : owner'[k] # NoOwner /\ left'[k] <= 0 =>
           owner[k] # NoOwner /\ left'[k] = left[k],
         IF owner'[j] # NoOwner /\ left'[j] <= 0 THEN passedOver'[j] = passedOver[j]
                                                 ELSE passedOver'[j] = 0
  PROVE  Passed(j)'
<1>1. CASE owner'[j] # NoOwner /\ left'[j] <= 0
  <2>1. /\ left'[j] = left[j] /\ passedOver'[j] = passedOver[j]
        /\ passedOver[j] * reapBatch + Cardinality(Ahead(j)) < Cardinality(Job)
    BY <1>1, Zenon DEF Passed
  <2>2. Ahead(j)' \subseteq Ahead(j) /\ Ahead(j) \subseteq Job
    BY <2>1, Zenon DEF Ahead, Expired
  <2>3. /\ Cardinality(Ahead(j)') \in Nat /\ Cardinality(Ahead(j)) \in Nat
        /\ Cardinality(Ahead(j)') <= Cardinality(Ahead(j)) /\ Cardinality(Job) \in Nat
    BY <2>2, JobSets, Zenon
  <2>4. passedOver[j] * reapBatch \in Nat
    <3>1. reapBatch \in Nat /\ passedOver[j] \in Nat
      BY JobSets, Zenon DEF LInv, LTypes
    <3> QED BY <3>1, OneMore, Zenon
  <2>5. passedOver'[j] * reapBatch + Cardinality(Ahead(j)') < Cardinality(Job)
    <3> HIDE DEF Ahead
    <3> QED BY <2>1, <2>3, <2>4
  <2> QED BY <1>1, <2>5, Zenon DEF Passed
<1>2. CASE ~ (owner'[j] # NoOwner /\ left'[j] <= 0)
  BY <1>2, Zenon DEF Passed
<1> QED BY <1>1, <1>2, Zenon

\* Initially no job is leased.
LEMMA PassedInit == LeasesInit => AllPassed
  BY Zenon DEF LeasesInit, AllPassed, Passed

\* Steps that leave the leases alone.
LEMMA PassedOthers ==
  ASSUME LInv, AllPassed, UNCHANGED <<owner, left, passedOver>>
  PROVE  AllPassed'
<1> SUFFICES ASSUME NEW j \in Job PROVE Passed(j)'
  BY Zenon DEF AllPassed
<1> QED BY Zenon DEF AllPassed, Passed, Ahead, Expired

\* Leases that start and leases that end with a report.
LEMMA PassedClaims ==
  ASSUME LInv, AllPassed, NEW v \in Worker, NEW i \in Job, Dequeue(v, i) \/ Finish(v, i)
  PROVE  AllPassed'
<1> SUFFICES ASSUME NEW j \in Job PROVE Passed(j)'
  BY Zenon DEF AllPassed
<1>0. LTypes /\ Passed(j) /\ NoOwner \notin Worker /\ ~ (VisibilityTimeout[v] <= 0)
  BY LeasesAssumption, Intervals DEF LInv, AllPassed
<1>1. CASE Dequeue(v, i)
  <2>1. /\ owner[i] = NoOwner /\ owner' = [owner EXCEPT ![i] = v]
        /\ left' = [left EXCEPT ![i] = VisibilityTimeout[v]] /\ passedOver' = passedOver
    BY <1>1, Zenon DEF Dequeue
  <2>2. \A k \in Job : owner'[k] # NoOwner /\ left'[k] <= 0 => owner[k] # NoOwner /\ left'[k] = left[k]
    BY <1>0, <2>1, Zenon DEF LTypes
  <2>3. IF owner'[j] # NoOwner /\ left'[j] <= 0 THEN passedOver'[j] = passedOver[j]
                                                ELSE passedOver'[j] = 0
    <3>1. CASE j = i
      BY <1>0, <2>1, <3>1, Zenon DEF LTypes, Passed
    <3>2. CASE j # i
      <4>1. owner'[j] = owner[j] /\ left'[j] = left[j] /\ passedOver'[j] = passedOver[j]
        BY <1>0, <2>1, <3>2, Zenon DEF LTypes
      <4> QED BY <1>0, <4>1, Zenon DEF Passed
    <3> QED BY <3>1, <3>2, Zenon
  <2> QED BY <1>0, <2>2, <2>3, PassedSame, Zenon
<1>2. CASE Finish(v, i)
  <2>1. CASE UNCHANGED lease
    BY <2>1, PassedOthers, Zenon DEF lease, AllPassed
  <2>2. CASE Drop({i}) /\ passedOver' = [passedOver EXCEPT ![i] = 0]
    <3>1. \A k \in Job : owner'[k] # NoOwner /\ left'[k] <= 0 => owner[k] # NoOwner /\ left'[k] = left[k]
      BY <2>2, Zenon DEF Drop
    <3>2. IF owner'[j] # NoOwner /\ left'[j] <= 0 THEN passedOver'[j] = passedOver[j]
                                                  ELSE passedOver'[j] = 0
      <4>1. CASE j = i
        BY <1>0, <2>2, <4>1, Zenon DEF Drop, LTypes
      <4>2. CASE j # i
        <5>1. owner'[j] = owner[j] /\ left'[j] = left[j] /\ passedOver'[j] = passedOver[j]
          BY <1>0, <2>2, <4>2, Zenon DEF Drop, LTypes
        <5> QED BY <1>0, <5>1, Zenon DEF Passed
      <4> QED BY <4>1, <4>2, Zenon
    <3> QED BY <1>0, <3>1, <3>2, PassedSame, Zenon
  <2> QED BY <1>2, <2>1, <2>2, Zenon DEF Finish
<1> QED BY <1>1, <1>2, Zenon

\* Leases that start anew.
LEMMA PassedExtend ==
  ASSUME LInv, AllPassed, NEW v \in Worker, Extend(v)
  PROVE  AllPassed'
<1> SUFFICES ASSUME NEW j \in Job PROVE Passed(j)'
  BY Zenon DEF AllPassed
<1>0. LTypes /\ Passed(j) /\ ~ (VisibilityTimeout[v] <= 0)
  BY Intervals DEF LInv, AllPassed
<1> DEFINE held == {i \in renewal[v].ids : owner[i] = v}
<1>1. /\ owner' = owner
      /\ left' = [k \in Job |-> IF k \in held THEN VisibilityTimeout[v] ELSE left[k]]
      /\ passedOver' = [k \in Job |-> IF k \in held THEN 0 ELSE passedOver[k]]
  BY Zenon DEF Extend
<1> HIDE DEF held
<1>2. \A k \in Job : owner'[k] # NoOwner /\ left'[k] <= 0 => owner[k] # NoOwner /\ left'[k] = left[k]
  BY <1>0, <1>1, Zenon
<1>3. IF owner'[j] # NoOwner /\ left'[j] <= 0 THEN passedOver'[j] = passedOver[j]
                                              ELSE passedOver'[j] = 0
  BY <1>0, <1>1, Zenon DEF Passed
<1> QED BY <1>0, <1>2, <1>3, PassedSame, Zenon

\* A sweep leaves an expired lease behind only with a full batch of those
\* ahead of it.
LEMMA PassedReap ==
  ASSUME LInv, AllPassed, NEW v \in Worker, Reap(v)
  PROVE  AllPassed'
<1> SUFFICES ASSUME NEW j \in Job PROVE Passed(j)'
  BY Zenon DEF AllPassed
<1>0. LTypes /\ Passed(j)
  BY Zenon DEF LInv, AllPassed
<1> DEFINE q == Queues[v][swept[v] + 1]
<1>1. PICK S \in Batches(q) :
        /\ Drop(S)
        /\ passedOver' = [k \in Job |-> IF k \in S THEN 0
                            ELSE IF k \in Expired(q) THEN passedOver[k] + 1
                            ELSE passedOver[k]]
  BY Zenon DEF Reap
<1> HIDE DEF q
<1>2. \A k \in Job : owner'[k] # NoOwner /\ left'[k] <= 0 =>
        k \notin S /\ owner[k] # NoOwner /\ left'[k] = left[k]
  BY <1>1, Zenon DEF Drop
<1>3. CASE j \in S \/ j \notin Expired(q)
  <2>1. IF owner'[j] # NoOwner /\ left'[j] <= 0 THEN passedOver'[j] = passedOver[j]
                                                ELSE passedOver'[j] = 0
    <3>1. CASE j \in S
      BY <1>1, <1>2, <3>1, Zenon
    <3>2. CASE j \notin S /\ j \notin Expired(q)
      <4>1. owner'[j] = owner[j] /\ left'[j] = left[j] /\ passedOver'[j] = passedOver[j]
        BY <1>1, <3>2, Zenon DEF Drop
      <4> QED BY <1>0, <4>1, Zenon DEF Passed
    <3> QED BY <1>3, <3>1, <3>2, Zenon
  <2> QED BY <1>0, <1>2, <2>1, PassedSame, Zenon
<1>4. CASE j \notin S /\ j \in Expired(q)
  <2>1. /\ queueOf[j] = q /\ owner[j] # NoOwner /\ left[j] <= 0
        /\ owner'[j] = owner[j] /\ left'[j] = left[j] /\ passedOver'[j] = passedOver[j] + 1
    BY <1>1, <1>4, Zenon DEF Drop, Expired
  <2>2. S \subseteq Ahead(j) /\ Cardinality(S) = reapBatch
    <3>1. S \subseteq Expired(q) /\ Cardinality(S) = reapBatch /\ \A k \in S : left[k] <= left[j]
      BY <1>1, <1>4, Zenon DEF Batches
    <3> QED BY <1>4, <2>1, <3>1, Zenon DEF Ahead
  <2>3. Ahead(j)' \subseteq Ahead(j) \ S /\ Ahead(j) \subseteq Job
    BY <1>2, <2>1, Zenon DEF Ahead, Expired
  <2>4. passedOver[j] * reapBatch + Cardinality(Ahead(j)) < Cardinality(Job)
    BY <1>0, <2>1, Zenon DEF Passed
  <2>5. /\ Cardinality(Ahead(j) \ S) = Cardinality(Ahead(j)) - reapBatch
        /\ Cardinality(Ahead(j)') <= Cardinality(Ahead(j) \ S)
        /\ Cardinality(Ahead(j)') \in Nat /\ Cardinality(Ahead(j)) \in Nat
        /\ Cardinality(Job) \in Nat /\ reapBatch \in Nat
    <3>1. Ahead(j) \ S \in SUBSET Job /\ Ahead(j)' \in SUBSET Job
      BY <2>3, Zenon
    <3> HIDE DEF Ahead
    <3> QED BY <2>2, <2>3, <3>1, JobSets, Zenon
  <2>6. /\ passedOver[j] * reapBatch \in Nat
        /\ (passedOver[j] + 1) * reapBatch = passedOver[j] * reapBatch + reapBatch
    <3>1. passedOver[j] \in Nat
      BY <1>0, Zenon DEF LTypes
    <3> QED BY <2>5, <3>1, OneMore, Zenon
  <2>7. (passedOver[j] + 1) * reapBatch + Cardinality(Ahead(j)') < Cardinality(Job)
    <3> HIDE DEF Ahead
    <3> QED BY <2>4, <2>5, <2>6
  <2> QED BY <2>1, <2>7, Zenon DEF Passed
<1> QED BY <1>3, <1>4, Zenon

\* A lease that expires now has been passed over by none, and every other job
\* may be ahead of it; leases that expire later do not overtake it.
LEMMA PassedTick ==
  ASSUME LInv, AllPassed, Tick
  PROVE  AllPassed'
<1> SUFFICES ASSUME NEW j \in Job PROVE Passed(j)'
  BY Zenon DEF AllPassed
<1>0. LTypes /\ Passed(j) /\ passedOver' = passedOver /\ owner' = owner
      /\ \A k \in Job : left'[k] = (IF owner[k] = NoOwner THEN 0 ELSE left[k] - 1)
  BY Zenon DEF LInv, AllPassed, Tick
<1>1. \A k \in Job : left[k] \in Int /\ (left[k] <= 0 => left[k] - 1 <= 0)
  BY <1>0 DEF LTypes
<1>2. CASE owner[j] # NoOwner /\ left[j] <= 0
  <2>1. Ahead(j)' \subseteq Ahead(j) /\ Ahead(j) \subseteq Job
    <3>1. ASSUME NEW k \in Job, owner[k] # NoOwner, left'[k] <= left'[j]
          PROVE  left[k] <= left[j] /\ left[k] <= 0
      <4>1. left'[k] = left[k] - 1 /\ left'[j] = left[j] - 1
        BY <1>0, <1>2, <3>1, Zenon
      <4> QED BY <1>1, <1>2, <3>1, <4>1
    <3> QED BY <1>0, <3>1, Zenon DEF Ahead, Expired
  <2>2. /\ Cardinality(Ahead(j)') \in Nat /\ Cardinality(Ahead(j)) \in Nat
        /\ Cardinality(Ahead(j)') <= Cardinality(Ahead(j)) /\ Cardinality(Job) \in Nat
    BY <2>1, JobSets, Zenon
  <2>3. passedOver[j] * reapBatch \in Nat
    BY JobSets, OneMore DEF LInv, LTypes
  <2>4. passedOver[j] * reapBatch + Cardinality(Ahead(j)) < Cardinality(Job)
    BY <1>0, <1>2, Zenon DEF Passed
  <2>5. passedOver[j] * reapBatch + Cardinality(Ahead(j)') < Cardinality(Job)
    <3> HIDE DEF Ahead
    <3> QED BY <2>2, <2>3, <2>4
  <2>6. owner'[j] # NoOwner /\ left'[j] <= 0
    BY <1>0, <1>1, <1>2, Zenon
  <2> QED BY <1>0, <2>5, <2>6, Zenon DEF Passed
<1>3. CASE ~ (owner[j] # NoOwner /\ left[j] <= 0)
  <2>1. passedOver'[j] = 0
    BY <1>0, <1>3, Zenon DEF Passed
  <2>2. Cardinality(Ahead(j)') < Cardinality(Job) /\ Cardinality(Ahead(j)') \in Nat
    <3>1. Ahead(j)' \in SUBSET Job /\ j \notin Ahead(j)'
      BY Zenon DEF Ahead, Expired
    <3>2. Ahead(j)' # Job
      BY <3>1, Zenon
    <3>3. /\ Cardinality(Ahead(j)') \in Nat /\ Cardinality(Job) \in Nat
          /\ Cardinality(Ahead(j)') <= Cardinality(Job)
          /\ Cardinality(Ahead(j)') # Cardinality(Job)
      BY <3>1, <3>2, JobSets, Zenon
    <3> HIDE DEF Ahead
    <3> QED BY <3>3
  <2>3. 0 * reapBatch + Cardinality(Ahead(j)') < Cardinality(Job)
    <3>1. 0 * reapBatch = 0 /\ Cardinality(Job) \in Nat
      BY JobSets, OneMore
    <3> HIDE DEF Ahead
    <3> QED BY <2>2, <3>1
  <2> QED BY <2>1, <2>3, Zenon DEF Passed
<1> QED BY <1>2, <1>3, Zenon

\* Every step.
LEMMA PassedStep == LInv /\ AllPassed /\ [LeasesNext]_leaseVars => AllPassed'
<1> SUFFICES ASSUME LInv, AllPassed, [LeasesNext]_leaseVars PROVE AllPassed'
  BY Zenon
<1>1. \/ UNCHANGED <<owner, left, passedOver>>
      \/ \E v \in Worker, i \in Job : Dequeue(v, i) \/ Finish(v, i)
      \/ \E v \in Worker : Extend(v) \/ Reap(v)
      \/ Tick
  BY ZenonT(60) DEF LeasesNext, FinishUnreported, trackJob, DequeueFailed, RenewIdle, RenewAsk,
     RenewOK, RenewFailed, ReapAsk, ReapDone, Start, Shutdown, DrainCancel, DrainDone, Crash, Leave,
     lease, leaseVars
<1> QED BY <1>1, PassedOthers, PassedClaims, PassedExtend, PassedReap, PassedTick, Zenon

\* Multiples of the batch that stay below the number of jobs.
LEMMA Quotient ==
  ASSUME NEW p \in Nat, NEW b \in Nat \ {0}, NEW n \in Nat, p * b < n
  PROVE  n \in Nat \ {0} /\ (n - 1) \div b \in Nat /\ p <= (n - 1) \div b
<1>1. p * b \in Nat
  BY SMTT(30)
<1>2. n - 1 \in Nat /\ n # 0
  BY <1>1
<1> DEFINE d == (n - 1) \div b
<1>3. d \in Nat /\ n - 1 < (d + 1) * b
  BY <1>2, SMTT(30)
<1>4. ASSUME ~ (p <= d) PROVE FALSE
  <2> HIDE DEF d
  <2>1. d + 1 \in Nat /\ d + 1 <= p
    BY <1>3, <1>4
  <2>2. (d + 1) * b <= p * b /\ (d + 1) * b \in Nat
    BY <2>1, Fewer
  <2> QED BY <1>1, <1>2, <1>3, <2>2
<1> QED BY <1>2, <1>3, <1>4

\* The job of a worker that is gone, or whose reply or report was lost, is
\* recovered within the bound by any worker that stays and consumes its queue,
\* whatever fails and however many jobs there are (reapLoop in maintenance.go,
\* Reap in rdb/maintenance.go, reap.lua).
THEOREM RecoveryInTime == LeasesSpec => []RecoveryBound
<1>1. LInv /\ AllWait /\ AllPassed => RecoveryBound
  <2> SUFFICES ASSUME LInv, AllWait, AllPassed, NEW j \in Job, NEW w \in Worker \ Mortal,
                      owner[j] # NoOwner, Covers(w, queueOf[j])
               PROVE  orphanFor[j] <=
                        VisibilityTimeout[owner[j]] + 2 * Latency
                          + (1 + faults + ((Cardinality(Job) - 1) \div reapBatch))
                              * (ReapInterval(w) + Latency)
    BY Zenon DEF RecoveryBound
  <2> DEFINE c == ReapInterval(w) + Latency
             d == (Cardinality(Job) - 1) \div reapBatch
  <2>1. WaitFacts(w, j) /\ owner[j] \in Worker /\ Waits(j, w) /\ Passed(j)
    BY WaitTypes, Zenon DEF LInv, LTypes, AllWait, AllPassed
  <2>2. /\ NextSweep(w, queueOf[j]) \in Nat /\ Sweeps(w, j) \in Nat
        /\ left[j] \in Int /\ orphanFor[j] \in Nat /\ Latency \in Nat /\ ReapInterval(w) \in Nat
        /\ VisibilityTimeout[owner[j]] \in Nat /\ faults \in Nat /\ passedOver[j] \in Nat
    BY <2>1, Zenon DEF WaitFacts
  <2>3. c \in Nat
    <3> HIDE DEF ReapInterval
    <3> QED BY <2>2
  <2>4. d \in Nat /\ passedOver[j] <= d
    <3>1. Cardinality(Job) \in Nat /\ reapBatch \in Nat \ {0}
      BY JobSets, Zenon
    <3>2. passedOver[j] * reapBatch < Cardinality(Job)
      <4>1. CASE owner[j] # NoOwner /\ left[j] <= 0
        <5>1. passedOver[j] * reapBatch + Cardinality(Ahead(j)) < Cardinality(Job)
          BY <2>1, <4>1, Zenon DEF Passed
        <5>2. Cardinality(Ahead(j)) \in Nat
          <6>1. Ahead(j) \in SUBSET Job
            BY Zenon DEF Ahead, Expired
          <6> QED BY <6>1, JobSets, Zenon
        <5>3. passedOver[j] * reapBatch \in Nat
          BY <2>2, <3>1, OneMore
        <5> HIDE DEF Ahead
        <5> QED BY <3>1, <5>1, <5>2, <5>3
      <4>2. CASE ~ (owner[j] # NoOwner /\ left[j] <= 0)
        <5>1. passedOver[j] = 0 /\ 0 * reapBatch = 0
          BY <2>1, <3>1, <4>2, OneMore DEF Passed
        <5>2. Cardinality(Job) # 0
          <6>1. {} \in SUBSET Job /\ {} # Job
            OBVIOUS
          <6>2. Cardinality({}) # Cardinality(Job)
            BY <6>1, JobSets, Zenon
          <6> QED BY <6>2, FS_EmptySet, Zenon
        <5> QED BY <3>1, <5>1, <5>2
      <4> QED BY <4>1, <4>2, Zenon
    <3> QED BY <2>2, <3>1, <3>2, Quotient
  <2> HIDE DEF d
  <2>5. Sweeps(w, j) <= (1 + faults + d) * c /\ (1 + faults + d) * c \in Nat
    <3> DEFINE m == 1 + (faults + passedOver[j])
               n == 1 + faults + d
    <3>1. m \in Nat /\ n \in Nat /\ m <= n
      BY <2>2, <2>4
    <3>2. m * c <= n * c /\ n * c \in Nat
      <4> HIDE DEF m, n, c
      <4> QED BY <2>3, <3>1, Fewer
    <3> QED BY <3>2, Zenon DEF Sweeps
  <2>6. IF left[j] > 0 THEN orphanFor[j] + left[j] <= VisibilityTimeout[owner[j]] + Latency
        ELSE orphanFor[j] + NextSweep(w, queueOf[j])
               <= VisibilityTimeout[owner[j]] + 2 * Latency + Sweeps(w, j)
    BY <2>1, Zenon DEF Waits
  <2>7. orphanFor[j] <= VisibilityTimeout[owner[j]] + 2 * Latency + (1 + faults + d) * c
    <3> DEFINE p == (1 + faults + d) * c
    <3>1. Sweeps(w, j) <= p /\ p \in Nat
      BY <2>5, Zenon
    <3> HIDE DEF p, c, Sweeps, NextSweep
    <3>2. orphanFor[j] <= VisibilityTimeout[owner[j]] + 2 * Latency + p
      BY <2>2, <2>6, <3>1
    <3> QED BY <3>2, Zenon DEF p
  <2> QED BY <2>7, Zenon DEF d
<1> QED BY <1>1, LInvInit, LInvStep, WaitInit, WaitStep, PassedInit, PassedStep, PTL DEF LeasesSpec
=============================================================================
