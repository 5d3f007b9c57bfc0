------------------------------ MODULE TimedSets ------------------------------
(***************************************************************************)
(* Sets of jobs scored by time, and the clock they are read against: the   *)
(* sorted sets of the Redis broker and the sorted scans over maps of the   *)
(* memory broker.  A set is a function from jobs to scores, NoScore for a  *)
(* job that is not a member.                                               *)
(***************************************************************************)
EXTENDS Integers, FiniteSets, Functions

CONSTANT Job    \* job IDs: naturals, ordered like the ID strings
VARIABLE now    \* the broker's clock, in ticks

NoScore == -1
EmptyZSet == [j \in Job |-> NoScore]

ZRem(z, S) == [j \in Job |-> IF j \in S THEN NoScore ELSE z[j]]

\* Redis orders members by score, then by name.
Before(z, j, k) == z[j] < z[k] \/ (z[j] = z[k] /\ j < k)

\* Mutant: the range is not bounded by the clock.
Due_Unbounded(z) == {j \in Job : z[j] # NoScore}

\* ZRANGEBYSCORE z -inf now LIMIT 0 n, as the set of its members; there is
\* exactly one such set.
Due(z) == {j \in Job : z[j] # NoScore /\ z[j] <= now}
DueBatches(z, n) ==
  {S \in SUBSET Due(z) :
     /\ Cardinality(S) <= n
     /\ S # Due(z) => Cardinality(S) = n
     /\ \A j \in S, k \in Due(z) \ S : Before(z, j, k)}

\* The members of S in the order Redis returns them, and in reverse.
Ascending(z, S) ==
  {s \in Bijection(1..Cardinality(S), S) :
     \A i, k \in 1..Cardinality(S) : i < k => Before(z, s[i], s[k])}
Descending(z, S) ==
  {s \in Bijection(1..Cardinality(S), S) :
     \A i, k \in 1..Cardinality(S) : i < k => Before(z, s[k], s[i])}
=============================================================================
