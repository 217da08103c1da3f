---------------------------- MODULE MCKThreads ----------------------------
(* Instances of KThreads for TLC.                                          *)
EXTENDS KThreads, TLC

\* The threads spawned later are interchangeable.
Symmetry == Permutations(Threads \ Initial)
=============================================================================
