------------------------------ MODULE Registry ------------------------------
(***************************************************************************)
(* The worker registry: heartbeatLoop and the brokers' Heartbeat, in ticks *)
(* of real time, with timers that count down.  Redis keeps a sorted set of *)
(* workers scored by their last beat, from which every beat prunes, and a  *)
(* hash per worker that expires; the memory broker keeps only the expiry.  *)
(* A beat is sent, runs its script at any moment, and is answered, or has  *)
(* failed, within Latency; a beat that was sent may still run when its     *)
(* worker is gone.                                                         *)
(***************************************************************************)
EXTENDS Timing

CONSTANTS
  BeatCap,            \* the longest interval between beats (5s)
  NoEntry             \* not in the sorted set

ASSUME RegistryAssumption == BeatCap \in Nat \ {0} /\ NoEntry \notin Nat

VARIABLES
  alive,      \* "off", "up" or "gone"
  beat,       \* the loop: "asleep", "sent", or "scored" when the script has run
  beatIn,     \* what is left of its sleep, or longest time to the reply
  age,        \* time since the beat that scores the sorted set entry
  record,     \* what is left of the record's time to live
  missed,     \* history: failed beats since the last one that succeeded
  silentFor,  \* history: time since the worker died
  beatFaults  \* history: failed beats

registryVars == <<alive, beat, beatIn, age, record, missed, silentFor, beatFaults>>

BeatInterval(w) ==
  LET half == VisibilityTimeout[w] \div 2
  IN  Interval(IF half < BeatCap THEN half ELSE BeatCap)
\* Mutant: one missed beat is enough.
TTL_OneBeat(w) == BeatInterval(w)
TTL(w) == 3 * BeatInterval(w)
MaxAge == 3 * (BeatCap + Second)

RegistryInit ==
  /\ alive = [w \in Worker |-> "off"]
  /\ beat = [w \in Worker |-> "asleep"] /\ beatIn = [w \in Worker |-> 0]
  /\ age = [w \in Worker |-> NoEntry]
  /\ record = [w \in Worker |-> 0]
  /\ missed = [w \in Worker |-> 0] /\ silentFor = [w \in Worker |-> 0]
  /\ beatFaults = 0

Send(w) ==
  /\ beat' = [beat EXCEPT ![w] = "sent"]
  /\ beatIn' = [beatIn EXCEPT ![w] = Latency]

\* The first beat is sent at once.
Join(w) ==
  /\ alive[w] = "off"
  /\ alive' = [alive EXCEPT ![w] = "up"]
  /\ Send(w)
  /\ UNCHANGED <<age, record, missed, silentFor, beatFaults>>

\* The loop wakes up.
Beat(w) ==
  /\ alive[w] = "up" /\ beat[w] = "asleep" /\ beatIn[w] = 0
  /\ Send(w)
  /\ UNCHANGED <<alive, age, record, missed, silentFor, beatFaults>>

\* Mutant: nothing is pruned from the sorted set.
Heartbeat_NoPrune(w) ==
  /\ beat[w] = "sent"
  /\ beat' = [beat EXCEPT ![w] = "scored"]
  /\ age' = [age EXCEPT ![w] = 0]
  /\ record' = [record EXCEPT ![w] = TTL(w)]
  /\ UNCHANGED <<alive, beatIn, missed, silentFor, beatFaults>>

\* The script scores its worker with the present and prunes every worker whose
\* score is older than the time to live of the worker that beats.
Heartbeat(w) ==
  /\ beat[w] = "sent"
  /\ beat' = [beat EXCEPT ![w] = "scored"]
  /\ age' = [x \in Worker |-> IF x = w THEN 0
                              ELSE IF age[x] # NoEntry /\ age[x] >= TTL(w) THEN NoEntry
                              ELSE age[x]]
  /\ record' = [record EXCEPT ![w] = TTL(w)]
  /\ UNCHANGED <<alive, beatIn, missed, silentFor, beatFaults>>

Rest(w) ==
  /\ beat' = [beat EXCEPT ![w] = "asleep"]
  /\ beatIn' = [beatIn EXCEPT ![w] = BeatInterval(w)]

BeatOK(w) ==
  /\ alive[w] = "up" /\ beat[w] = "scored"
  /\ missed' = [missed EXCEPT ![w] = 0]
  /\ Rest(w)
  /\ UNCHANGED <<alive, age, record, silentFor, beatFaults>>

\* A beat that fails, whether or not its script has run, is logged; the next
\* one comes as usual.
BeatFailed(w) ==
  /\ alive[w] = "up" /\ beat[w] # "asleep"
  /\ beatFaults < MaxFaults /\ beatFaults' = beatFaults + 1
  /\ missed' = [missed EXCEPT ![w] = @ + 1]
  /\ Rest(w)
  /\ UNCHANGED <<alive, age, record, silentFor>>

Die(w) ==
  /\ w \in Mortal /\ alive[w] = "up"
  /\ alive' = [alive EXCEPT ![w] = "gone"]
  /\ UNCHANGED <<beat, beatIn, age, record, missed, silentFor, beatFaults>>

Listed(w) == age[w] # NoEntry \/ record[w] > 0

\* Time passes when nothing is overdue and the workers that stay are up; ages
\* are told apart up to MaxAge only.
Pass ==
  /\ \A w \in Worker : alive[w] = "up" => beatIn[w] > 0
  /\ \A w \in Worker \ Mortal : alive[w] = "up"
  /\ beat' = [w \in Worker |-> IF beatIn[w] > 0 THEN beat[w] ELSE "asleep"]
  /\ beatIn' = [w \in Worker |-> IF beatIn[w] > 0 THEN beatIn[w] - 1 ELSE 0]
  /\ age' = [w \in Worker |-> IF age[w] # NoEntry /\ age[w] < MaxAge THEN age[w] + 1
                              ELSE age[w]]
  /\ record' = [w \in Worker |-> IF record[w] > 0 THEN record[w] - 1 ELSE 0]
  /\ silentFor' = [w \in Worker |->
                     IF alive[w] = "gone" /\ (Listed(w) \/ beat[w] = "sent")
                     THEN silentFor[w] + 1 ELSE 0]
  /\ UNCHANGED <<alive, missed, beatFaults>>

RegistryNext ==
  \/ \E w \in Worker : Join(w) \/ Beat(w) \/ Heartbeat(w) \/ BeatOK(w) \/ BeatFailed(w) \/ Die(w)
  \/ Pass

-----------------------------------------------------------------------------
(* Properties.                                                             *)

\* A worker that reports, with at most one failed or slow beat since, is
\* listed by either broker, whatever the other workers do (maintenance.go:
\* "Three missed beats before a worker is presumed gone, so one slow round
\* trip does not make a healthy worker vanish from the operator's view").
Registered(w) == age[w] # NoEntry /\ record[w] > 0
HealthyListed ==
  [][\A w \in Worker : Registered(w) /\ alive'[w] = "up" /\ missed'[w] <= 1 =>
       Registered(w)']_registryVars

\* A dead worker does not linger as a phantom: its record is gone one time to
\* live after its last beat, and its entry in the sorted set after one time to
\* live and one beat of any worker that stays, later by a beat for every one
\* that fails and by the calls under way when it dies and when it is overdue
\* (heartbeat.lua prunes "anything that has stopped reporting").
PhantomBound ==
  \A w \in Worker : alive[w] = "gone" =>
    /\ record[w] > 0 => silentFor[w] < TTL(w) + Latency
    /\ age[w] # NoEntry => \A x \in Worker \ Mortal :
         silentFor[w] <= TTL(x) + 2 * Latency + (1 + beatFaults) * (BeatInterval(x) + Latency)
=============================================================================
