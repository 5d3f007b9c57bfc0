------------------------------- MODULE Backoff -------------------------------
(***************************************************************************)
(* The retry delay: Exponential.Next and its jitters, one action per pass  *)
(* of the doubling loop.  Durations are signed integers of Width bits.     *)
(***************************************************************************)
EXTENDS Integers

CONSTANTS
  Width,                                  \* of a duration (64)
  DefaultBackoffBase, DefaultBackoffCap,
  Attempts,                               \* attempt numbers asked for
  NoDelay                                 \* no result yet

TwoTo[n \in Nat] == IF n = 0 THEN 1 ELSE 2 * TwoTo[n - 1]

ASSUME BackoffAssumption ==
  /\ Width \in Nat \ {0} /\ Attempts \subseteq Int
  /\ DefaultBackoffBase \in 1..(TwoTo[Width - 1] - 1)
  /\ DefaultBackoffCap \in 1..(TwoTo[Width - 1] - 1)

Duration == (-(TwoTo[Width - 1]))..(TwoTo[Width - 1] - 1)
Wrap(n) == ((n + TwoTo[Width - 1]) % TwoTo[Width]) - TwoTo[Width - 1]
Jitters == {"JitterNone", "JitterFull", "JitterEqual"}

VARIABLES
  conf,    \* Exponential, and the attempt asked for
  d,       \* the delay so far
  passes,  \* passes of the loop left
  delay    \* the result, or NoDelay before
backoffVars == <<conf, d, passes, delay>>

Lesser(a, b) == IF a < b THEN a ELSE b
Ceiling == IF conf.cap <= 0 THEN DefaultBackoffCap ELSE conf.cap
Base == Lesser(IF conf.base <= 0 THEN DefaultBackoffBase ELSE conf.base, Ceiling)
Passes == IF conf.attempt < 1 THEN 0 ELSE conf.attempt - 1

BackoffInit ==
  /\ conf \in [base : Duration, cap : Duration, jitter : Jitters, attempt : Attempts]
  /\ d = Base /\ passes = Passes
  /\ delay = NoDelay

\* Mutant: the overflow is not noticed.
Double_Wraps ==
  /\ delay = NoDelay /\ passes > 0 /\ d < Ceiling
  /\ d' = Wrap(d * 2) /\ passes' = passes - 1
  /\ UNCHANGED <<conf, delay>>

\* One pass; when the doubling overflows the loop ends at the ceiling.
Double ==
  /\ delay = NoDelay /\ passes > 0 /\ d < Ceiling
  /\ IF Wrap(d * 2) < d
     THEN d' = Ceiling /\ passes' = 0
     ELSE d' = Wrap(d * 2) /\ passes' = passes - 1
  /\ UNCHANGED <<conf, delay>>

\* What a jitter may make of n; the random source has no number below zero.
jittered(n) ==
  CASE conf.jitter = "JitterNone" -> {n}
    [] conf.jitter = "JitterFull" -> IF n <= 0 THEN {0} ELSE 0..(n - 1)
    [] conf.jitter = "JitterEqual" -> IF n <= 0 THEN {0} ELSE (n \div 2)..(n - 1)

Return ==
  /\ delay = NoDelay /\ (passes = 0 \/ d >= Ceiling)
  /\ delay' \in jittered(Lesser(d, Ceiling))
  /\ UNCHANGED <<conf, d, passes>>

BackoffNext == Double \/ Return
BackoffSpec == BackoffInit /\ [][BackoffNext]_backoffVars

-----------------------------------------------------------------------------
(* Properties.                                                             *)

\* The delay is the jitter of min(Base * 2^(attempt-1), Cap) computed without
\* overflow, for every attempt and however close the cap is to the largest
\* duration: never negative, never above the cap, and at least half of it
\* with JitterEqual (backoff.go: "a large attempt count would overflow int64
\* and wrap to a negative duration, turning a backoff into an immediate retry
\* storm").
Exact == Lesser(Base * TwoTo[Passes], Ceiling)
DelayExact ==
  delay # NoDelay =>
    CASE conf.jitter = "JitterNone" -> delay = Exact
      [] conf.jitter = "JitterFull" -> 0 <= delay /\ delay < Exact
      [] conf.jitter = "JitterEqual" -> Exact <= 2 * delay + 1 /\ delay < Exact
=============================================================================
