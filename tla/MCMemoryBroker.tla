---------------------------- MODULE MCMemoryBroker ----------------------------
(* Instances of MemoryBroker for TLC.  Workers and queues are              *)
(* interchangeable; jobs are not, the order of their IDs breaks ties.      *)
EXTENDS MemoryBroker, TLC

Symmetry == Permutations(Worker) \cup Permutations(Queue)
=============================================================================
