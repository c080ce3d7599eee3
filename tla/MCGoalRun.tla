------------------------------- MODULE MCGoalRun -------------------------------
(* Instances of GoalRun for TLC.                                           *)
EXTENDS GoalRun

\* Of two checkpoints, in heartbeats.
FirstThenSecond == [c \in 1 .. 2 |-> c]
=============================================================================
