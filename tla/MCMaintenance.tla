---------------------------- MODULE MCMaintenance ----------------------------
(***************************************************************************)
(* Model checking the timed loops.  Leases and the worker registry share   *)
(* no state, so one run explores them side by side, never their product.   *)
(* Leases are looked at twice: one job that a worker runs and renews while *)
(* another one sweeps, and several jobs of one queue that have lost their  *)
(* worker and wait for the sweeps.                                         *)
(***************************************************************************)
EXTENDS Leases, Registry

CONSTANTS
  Short, Long,   \* visibility timeouts, in ticks
  Patient,       \* the workers whose timeout is Long
  first          \* the job that is looked at alone

\* The visibility timeout of each worker.
MCTimeouts == [w \in Worker |-> IF w \in Patient THEN Long ELSE Short]
\* All jobs are in the last of the queues.
MCQueueOf == [j \in Job |-> "low"]
MCQueues == [w \in Worker |-> IF w \in Mortal THEN <<"low">> ELSE <<"high", "low">>]

VARIABLE subject

vars == <<subject, leaseVars, registryVars>>

Init == subject \in {"lease", "backlog", "registry"} /\ LeasesInit /\ RegistryInit

\* Those who stay only sweep, and the sweeps of the others are quick.
Sweepers ==
  /\ \A w \in Worker \ Mortal : claiming'[w] = NoJob
  /\ \A w \in Mortal : sweeping'[w] => reapIn'[w] # 0
\* Only one job is run.
Running == \A j \in Job \ {first} : owner'[j] = NoOwner
\* The others crash before their first renewal, unanswered.
Leaving ==
  \A w \in Mortal :
    /\ handlers'[w] = {} /\ phase'[w] # "draining"
    /\ phase'[w] = "serving" => renewIn'[w] > 0

Next ==
  \/ /\ subject = "lease"
     /\ LeasesNext /\ Sweepers /\ Running /\ UNCHANGED <<subject, registryVars>>
  \/ /\ subject = "backlog"
     /\ LeasesNext /\ Sweepers /\ Leaving /\ UNCHANGED <<subject, registryVars>>
  \/ subject = "registry" /\ RegistryNext /\ UNCHANGED <<subject, leaseVars>>

Spec == Init /\ [][Next]_vars
=============================================================================
