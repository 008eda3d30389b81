------------------------------ MODULE MCWakeup ------------------------------
(***************************************************************************)
(* Small instances of Wakeup for TLC.                                      *)
(***************************************************************************)
EXTENDS Wakeup, TLC

CONSTANTS l1, l2, j1, j2, j3, q1

\* Two jobs of one named queue and one outside.
MCQueueOf == [j \in Jobs |-> IF j = j3 THEN NULL ELSE q1]

MCTouches == [j \in Jobs |-> IF j = j1 THEN 1 ELSE 0]
=============================================================================
