------------------------------- MODULE MCTob -------------------------------
(***************************************************************************)
(* Values of the constants of Tob for TLC.                                 *)
(***************************************************************************)
EXTENDS TobOrder, TLC

(***************************************************************************)
(* fork() hands out increasing pids, except when they wrap around.         *)
(***************************************************************************)
PidUp == [p \in Proc |-> p + 1]

PidWrapped == [p \in Proc |-> NumProc - p]

ClientSymmetry == Permutations(Client)
=============================================================================
