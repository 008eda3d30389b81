---------------------------- MODULE MCJobSummary ----------------------------
(***************************************************************************)
(* A small instance of JobSummary for TLC.                                 *)
(***************************************************************************)
EXTENDS JobSummary, TLC

Symmetry == Permutations(Loops) \cup Permutations(Names)
=============================================================================
