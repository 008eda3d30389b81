--------------------------- MODULE MCWorkerLease ----------------------------
(***************************************************************************)
(* A small instance of WorkerLease for TLC.  The second process is up      *)
(* first and stays up; it has no claim loop and looks after the first,     *)
(* which may stop, crash and start again at any time.                      *)
(*                                                                         *)
(* In a behaviour the statements of one kind of loop only take time or     *)
(* fail: the heartbeats of the first process, the statements of its claim  *)
(* loop, or the recovery rounds of the second.  The others are answered at *)
(* once.                                                                   *)
(***************************************************************************)
EXTENDS WorkerLease, TLC

CONSTANTS p1, p2, l1, l2, j1

\* One claim loop per process.
MCHome == [l \in Loops |-> IF l = l1 THEN p1 ELSE p2]

VARIABLE troubled  \* the loops whose statements may take time or fail

\* A statement that is due is executed before time goes on, and does not fail.
PromptBeats(p) == beat[p].timer \in 0..HeartbeatInterval /\ beat[p].misses = 0

PromptClaims == \A l \in Loops : loop[l].timer \in 0..LockRenewInterval /\ loop[l].misses = 0

PromptRounds(p) == recovery[p].timer \in 0..RecoveryInterval /\ missed[p] = 0

Prompt ==
    /\ PromptBeats(p2) /\ PromptRounds(p1)
    /\ troubled = "beats" \/ PromptBeats(p1)
    /\ troubled = "claims" \/ PromptClaims
    /\ troubled = "rounds" \/ PromptRounds(p2)

MCInit == Init /\ troubled \in {"beats", "claims", "rounds"}

\* A heartbeat of the second process changes nothing that another one's step could see,
\* so it comes first in its tick.
MCNext ==
    /\ Next /\ UNCHANGED troubled /\ Prompt' /\ phase'[p2] = "up"
    /\ beat[p2].timer = 0 => Heartbeat(p2)

MCSpec == MCInit /\ [][MCNext]_<<vars, troubled>> /\ Fairness
=============================================================================
