------------------------------- MODULE Timing -------------------------------
(***************************************************************************)
(* What the maintenance loops have in common: a loop sleeps an interval    *)
(* derived from the visibility timeout, then calls the broker, which takes *)
(* up to Latency.                                                          *)
(***************************************************************************)
EXTENDS Integers

CONSTANTS
  Worker,
  VisibilityTimeout,  \* Config.VisibilityTimeout of each worker
  Second,             \* the interval of a loop whose own would be zero
  Latency,            \* longest call to the broker
  Mortal,             \* workers that may crash or be shut down
  MaxFaults           \* bound on the number of failed calls

ASSUME TimingAssumption ==
  /\ Mortal \subseteq Worker /\ Mortal # Worker
  /\ VisibilityTimeout \in [Worker -> Nat \ {0}]
  /\ Second \in Nat \ {0} /\ {Latency, MaxFaults} \subseteq Nat

Interval(d) == IF d > 0 THEN d ELSE Second
jitter(d) == IF d <= 1 THEN {d} ELSE (d \div 2)..(2 * (d \div 2) - 1)
=============================================================================
