----------------------------- MODULE MCProducer -----------------------------
(* Producers, the Redis broker and workers for TLC.  Workers and queues    *)
(* are interchangeable; jobs are not, the order of their IDs breaks ties.  *)
EXTENDS Producer, TLC

CONSTANTS p1, p2, k1

\* One producer names a ttl, the other one leaves it to the default.
MCUniqueKey == [p \in Producer |-> k1]
MCUniqueTTL == [p \in Producer |-> IF p = p1 THEN 3 ELSE 0]

Symmetry == Permutations(Worker) \cup Permutations(Queue)
=============================================================================
