------------------------- MODULE MCGoalRuntimeLock -------------------------
(* Instances of GoalRuntimeLock for TLC.                                   *)
EXTENDS GoalRuntimeLock, TLC

(* Processes of one kind run the same program on the same file.            *)
Symmetry ==
    Permutations(Runners) \cup Permutations(Operators)
=============================================================================
