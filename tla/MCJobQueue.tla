----------------------------- MODULE MCJobQueue -----------------------------
(* Instances of JobQueue for TLC.                                           *)
EXTENDS JobQueue, TLC

Symmetry == Permutations(Workers) \cup Permutations(Clients)
=============================================================================
