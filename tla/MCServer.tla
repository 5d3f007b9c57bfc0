------------------------------- MODULE MCServer -------------------------------
(***************************************************************************)
(* Small instances of Server.  Workers that may all stop are               *)
(* interchangeable, and so are jobs.                                       *)
(***************************************************************************)
EXTENDS Server, TLC

Symmetry == Permutations(Worker)
=============================================================================
