---------------------------- MODULE MCWinThreads ----------------------------
(* Three runners: one broadcast can overtake another's waiters. *)
EXTENDS WinThreads, TLC

CONSTANTS r1, r2, r3

RunnerSet == {r1, r2, r3}
=============================================================================
