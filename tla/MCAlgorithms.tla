---------------------------- MODULE MCAlgorithms ----------------------------
(***************************************************************************)
(* Model checking the retry delay, the queue selector and the cron         *)
(* schedule.  They share no state: every behaviour is one call of one of   *)
(* them (and repeated calls of the selector) with the other two idle.      *)
(***************************************************************************)
EXTENDS Backoff, QueueSelector, CronSchedule

CONSTANTS q1, q2, q3   \* queues
MCnames == <<q1, q2, q3>>

\* Months of four and of two days, the second one longer in leap years.
MCMonthDays == <<4, 2>>

MCStar == [kind |-> "star", low |-> 0, high |-> 0, step |-> 1, slash |-> FALSE]
MCEvery(n) == [MCStar EXCEPT !.step = n, !.slash = TRUE]
MCValue(v) == [kind |-> "value", low |-> v, high |-> v, step |-> 1, slash |-> FALSE]
MCRange(v, w) == [kind |-> "range", low |-> v, high |-> w, step |-> 1, slash |-> FALSE]

\* Every way to restrict the two day fields with one term or a list, with few
\* choices for the other fields; some of the terms are invalid.
MCSpecs ==
  [minute : {{MCStar}, {MCValue(1)}},
   hour : {{MCValue(0)}, {MCEvery(1)}, {MCValue(2)}},
   dom : {{MCStar}, {MCEvery(1)}, {MCEvery(2)}, {MCValue(1)}, {MCValue(3)}, {MCValue(4)},
          {MCRange(2, 3)}, {MCRange(3, 2)}, {[MCValue(2) EXCEPT !.step = 2, !.slash = TRUE]},
          {MCValue(1), MCValue(4)}, {MCEvery(0)}},
   month : {{MCStar}, {MCValue(2)}},
   dow : {{MCStar}, {MCEvery(2)}, {MCValue(1)}, {MCValue(3)}, {MCRange(1, 2)}, {MCRange(0, 3)},
          {MCValue(4)}}]
MCInstants == 0..40

VARIABLE subject

vars == <<subject, backoffVars, selectorVars, cronVars>>

BackoffIdle ==
  /\ conf = [base |-> 1, cap |-> 1, jitter |-> "JitterNone", attempt |-> 1]
  /\ d = 1 /\ passes = 0 /\ delay = NoDelay
SelectorIdle ==
  /\ configured = <<>> /\ strict = FALSE
  /\ pool = <<>> /\ order = <<>> /\ remaining = 0 /\ polling = FALSE
CronIdle == spec = Invalid /\ from = 0 /\ sched = Invalid /\ t = 0 /\ found = Invalid

Init ==
  \/ subject = "backoff" /\ BackoffInit /\ SelectorIdle /\ CronIdle
  \/ subject = "selector" /\ BackoffIdle /\ SelectorInit /\ CronIdle
  \/ subject = "cron" /\ BackoffIdle /\ SelectorIdle /\ CronInit

Next ==
  \/ subject = "backoff" /\ BackoffNext /\ UNCHANGED <<subject, selectorVars, cronVars>>
  \/ subject = "selector" /\ SelectorNext /\ UNCHANGED <<subject, backoffVars, cronVars>>
  \/ subject = "cron" /\ CronNext /\ UNCHANGED <<subject, backoffVars, selectorVars>>

\* A call runs until it returns.
FairSpec == Init /\ [][Next]_vars /\ WF_vars(Next)

\* Every call returns: the doubling ends, no draw asks the random source for
\* a number where there is none, and the search ends for specifications that
\* never fire, such as "30 February" (cron.go: "without a limit the scheduler
\* would spin forever on it").
Terminates ==
  /\ subject = "backoff" => <>(delay # NoDelay)
  /\ subject = "selector" => []<>(~ polling /\ Len(order) = Len(names))
  /\ subject = "cron" => <>(found # Searching)
=============================================================================
