-------------------------- MODULE TimedCommandProofs --------------------------
(* Proofs about TimedCommand, for any set of descendants and any number of *)
(* signals to the parent.                                                  *)
EXTENDS TimedCommand, TLAPS

GroupDead == group \cap alive = {}

(* What was seen stays true, because processes only end and outputs are    *)
(* only closed: the end of the output, the leader's exit, an outcome that  *)
(* rests on both or on the end of the output.                              *)
SeenInv ==
    /\ drained => EndOfOutput
    /\ reaped => Exited
    /\ outcome \in RecoveryStates \cup {"communicate"} => Genuine
    /\ outcome \in {"drain_after_signal", "poll_after_grace"} => EndOfOutput

(* After SIGKILL went to the group nobody of it is left, also where the    *)
(* parent returns to that point from an abort that a signal it ignores     *)
(* started.                                                                *)
KilledInv ==
    /\ pc = "drainKill" \/ handling = "drainKill" => GroupDead
    /\ outcome \in {"drain_after_kill", "output_drain_timeout"} => GroupDead
    /\ pc \in {"returning", "returned"} \/ handling = "returning" => outcome # "none"

AbortInv ==
    /\ pc = "abortDrain" /\ ~ failed => GroupDead
    /\ pc = "raised" => GroupDead

IInv == TypeOK /\ SeenInv /\ KilledInv /\ AbortInv

-----------------------------------------------------------------------------
LEMMA Initially == Init => IInv
<1> SUFFICES ASSUME Init PROVE IInv
  OBVIOUS
<1>1. alive \subseteq Processes /\ writers \subseteq Processes
      /\ group \subseteq Processes /\ Leader \in group
  BY DEF Init
<1>2. interrupts \in 0 .. MaxInterrupts
  BY CommandAssumption DEF Init
<1>3. TypeOK
  BY <1>1, <1>2 DEF Init, TypeOK, Waiting, Outcomes
<1>4. SeenInv /\ KilledInv /\ AbortInv
  BY DEF Init, SeenInv, KilledInv, AbortInv, RecoveryStates
<1>5. QED
  BY <1>3, <1>4 DEF IInv

\* The steps of the command itself, and of a parent that does not signal it.
LEMMA EnvironmentStep ==
    ASSUME IInv, Environment
    PROVE  IInv'
<1> USE DEF Environment, Exit, ClosesOutput, processes, result, IInv
<1>1. TypeOK'
  <2>1. UNCHANGED <<group, reaped, drained, pc, outcome, signalSent, completed, handling,
                    failed, interrupts>>
    OBVIOUS
  <2>2. alive' \subseteq alive /\ writers' \subseteq writers
    OBVIOUS
  <2>3. QED
    BY <2>1, <2>2 DEF TypeOK
<1>2. SeenInv'
  BY DEF SeenInv, EndOfOutput, Exited, Genuine
<1>3. KilledInv' /\ AbortInv'
  BY DEF KilledInv, AbortInv, GroupDead
<1>4. QED
  BY <1>1, <1>2, <1>3

LEMMA WaitStep ==
    ASSUME IInv, Communicate \/ Deadline \/ ReadEnd \/ HeartbeatFails \/ Return
    PROVE  IInv'
<1> USE DEF IInv, Communicate, Deadline, ReadEnd, HeartbeatFails, Return, Collect, Report,
            Goto, Quiet, processes, result
<1>1. TypeOK'
  <2>1. CASE Deadline
    <3>1. completed' \in BOOLEAN
      BY <2>1 DEF Genuine
    <3>2. QED
      BY <2>1, <3>1 DEF TypeOK, Waiting
  <2>2. CASE Communicate
    BY <2>2 DEF TypeOK, Waiting, Outcomes
  <2>3. CASE ReadEnd
    BY <2>3 DEF TypeOK
  <2>4. CASE HeartbeatFails
    BY <2>4 DEF TypeOK, Aborting
  <2>5. CASE Return
    BY <2>5 DEF TypeOK, Ended
  <2>6. QED
    BY <2>1, <2>2, <2>3, <2>4, <2>5
<1>2. SeenInv'
  BY DEF SeenInv, EndOfOutput, Exited, Genuine, RecoveryStates
<1>3. KilledInv' /\ AbortInv'
  BY DEF KilledInv, AbortInv, GroupDead
<1>4. QED
  BY <1>1, <1>2, <1>3

LEMMA PollStep ==
    ASSUME IInv, PollExpired \/ PollFirst \/ ReadyFirst \/ PollAgain \/ PollGrace
    PROVE  IInv'
<1> USE DEF IInv, PollExpired, PollFirst, ReadyFirst, PollAgain, PollGrace, Poll, ReadyOutput,
            Report, Goto, Quiet, processes, result
<1>1. TypeOK'
  <2>1. reaped' \in BOOLEAN
    BY DEF TypeOK
  <2>2. QED
    BY <2>1 DEF TypeOK, Waiting, Outcomes
<1>2. SeenInv'
  <2>1. reaped' => Exited
    BY DEF SeenInv
  <2>2. UNCHANGED <<alive, writers, drained>>
    OBVIOUS
  <2>3. outcome' = outcome \/ (outcome' \in RecoveryStates \cup {"poll_after_grace"} /\ drained /\ Exited)
    BY DEF RecoveryStates
  <2>4. QED
    BY <2>1, <2>2, <2>3 DEF SeenInv, EndOfOutput, Exited, Genuine, RecoveryStates
<1>3. KilledInv' /\ AbortInv'
  BY DEF KilledInv, AbortInv, GroupDead
<1>4. QED
  BY <1>1, <1>2, <1>3

LEMMA SignalStep ==
    ASSUME IInv, Terminate \/ DrainTerm \/ Kill \/ DrainKill
    PROVE  IInv'
<1> USE DEF IInv, Terminate, DrainTerm, Kill, DrainKill, Collect, Report, Goto, Quiet,
            processes, result
<1>1. TypeOK'
  BY DEF TypeOK, Waiting, Aborting, Ended, Outcomes, Genuine, Exited, EndOfOutput
<1>2. SeenInv'
  BY DEF SeenInv, EndOfOutput, Exited, Genuine, RecoveryStates
<1>3. KilledInv' /\ AbortInv'
  BY DEF KilledInv, AbortInv, GroupDead
<1>4. QED
  BY <1>1, <1>2, <1>3

LEMMA AbortStep ==
    ASSUME IInv, Interrupt \/ AbortKill \/ AbortDrain
    PROVE  IInv'
<1> USE CommandAssumption
    DEF IInv, Interrupt, AbortKill, AbortDrain, Collect, Goto, processes, result
<1>1. TypeOK'
  <2>1. CASE Interrupt
    <3>1. handling' \in {"none", "error"} \cup Waiting
      BY <2>1 DEF TypeOK
    <3>2. failed' \in BOOLEAN /\ interrupts' \in 0 .. MaxInterrupts
      BY <2>1 DEF TypeOK
    <3>3. QED
      BY <2>1, <3>1, <3>2 DEF TypeOK, Aborting
  <2>2. CASE AbortKill
    BY <2>2 DEF TypeOK, Aborting
  <2>3. CASE AbortDrain
    BY <2>3 DEF TypeOK, Ended
  <2>4. QED
    BY <2>1, <2>2, <2>3
<1>2. SeenInv'
  BY DEF SeenInv, EndOfOutput, Exited, Genuine
<1>3. KilledInv'
  BY DEF KilledInv, GroupDead, Waiting, Aborting
<1>4. AbortInv'
  BY DEF AbortInv, GroupDead, Waiting
<1>5. QED
  BY <1>1, <1>2, <1>3, <1>4

LEMMA Inductive == IInv /\ [Next]_vars => IInv'
<1> SUFFICES ASSUME IInv, [Next]_vars PROVE IInv'
  OBVIOUS
<1>1. CASE UNCHANGED vars
  BY <1>1 DEF vars, processes, result, IInv, TypeOK, SeenInv, KilledInv, AbortInv, GroupDead,
              EndOfOutput, Exited, Genuine
<1>2. CASE Over
  BY <1>1, <1>2 DEF Over, vars, processes, result, IInv, TypeOK, SeenInv, KilledInv, AbortInv,
                    GroupDead, EndOfOutput, Exited, Genuine
<1>3. CASE Environment \/ ParentStep \/ Interrupt
  BY <1>3, EnvironmentStep, WaitStep, PollStep, SignalStep, AbortStep DEF ParentStep, TimeoutStep
<1>4. QED
  BY <1>1, <1>2, <1>3 DEF Next

LEMMA Invariance == Spec => []IInv
BY Initially, Inductive, PTL DEF Spec

-----------------------------------------------------------------------------
(* Type correctness.                                                       *)
THEOREM TypeCorrect == Spec => []TypeOK
<1>1. IInv => TypeOK
  BY DEF IInv
<1>2. QED
  BY <1>1, Invariance, PTL

(* A command reported as completed has exited, with its output at its end. *)
THEOREM GenuineSuccess == Spec => []SuccessIsGenuine
<1>1. IInv => SuccessIsGenuine
  BY DEF IInv, SeenInv, SuccessIsGenuine, TimedOut
<1>2. QED
  BY <1>1, Invariance, PTL

(* A confirmed abort leaves nothing of the command's group.                *)
THEOREM AbortIsComplete == Spec => []AbortLeavesNothing
<1>1. IInv => AbortLeavesNothing
  BY DEF IInv, AbortInv, GroupDead, AbortLeavesNothing
<1>2. QED
  BY <1>1, Invariance, PTL

(* After a timeout only processes outside the group survive, or none that  *)
(* holds the output.                                                       *)
THEOREM SurvivorsOfTimeout == Spec => []TimeoutSurvivors
<1>1. IInv => TimeoutSurvivors
  BY DEF IInv, TypeOK, SeenInv, KilledInv, GroupDead, TimeoutSurvivors, TimedOut, Outcomes,
         RecoveryStates
<1>2. QED
  BY <1>1, Invariance, PTL

-----------------------------------------------------------------------------
(***************************************************************************)
(* What the parent has left to do: the waits up to the return, the end of  *)
(* the output that a drain may still have to read, and in an abort those   *)
(* of the place an ignored signal interrupted.                             *)
(***************************************************************************)
Position ==
    [communicate |-> 11, expired |-> 10, pollFirst |-> 9, readyFirst |-> 8, pollAgain |-> 7,
     term |-> 6, drainTerm |-> 5, pollGrace |-> 4, kill |-> 3, drainKill |-> 2,
     returning |-> 1]

WaitsAt(place) == IF place \in Waiting THEN Position[place] ELSE 0

Left ==
    (CASE pc = "abortKill" -> WaitsAt(handling) + 2
       [] pc = "abortDrain" -> WaitsAt(handling) + 1
       [] OTHER -> WaitsAt(pc))
    + (IF drained THEN 0 ELSE 1)

LEMMA WaitsBounded == \A place : WaitsAt(place) \in 0 .. 11
BY DEF WaitsAt, Position, Waiting

(* Whatever the command does, the parent gets no further from its return   *)
(* than a signal sends it, which is two steps: every step it takes of its  *)
(* own, also in an abort and after an ignored signal, brings it closer.    *)
(* The next step is for the fairness of CallEnds (run_with_timeout).       *)
THEOREM WaitsShorten ==
    Spec => /\ [](Left \in 0 .. 14)
            /\ [][/\ ParentStep => Left' < Left
                  /\ Interrupt => Left' <= Left + 2
                  /\ Environment => Left' = Left]_vars
<1> DEFINE Shorter == /\ ParentStep => Left' < Left
                      /\ Interrupt => Left' <= Left + 2
                      /\ Environment => Left' = Left
<1>1. Left \in 0 .. 14
  BY WaitsBounded DEF Left
<1>2. IInv /\ IInv' /\ [Next]_vars => [Shorter]_vars
  <2> SUFFICES ASSUME IInv, IInv' PROVE Shorter
    OBVIOUS
  <2> USE DEF IInv, TypeOK, Left, Goto, Collect, Report, Quiet, processes, result
  <2>1. ASSUME TimeoutStep PROVE Left' < Left
    <3> USE DEF WaitsAt, Position, Waiting
    <3>1. CASE PollExpired \/ PollFirst \/ ReadyFirst \/ PollAgain \/ PollGrace
      BY <3>1 DEF PollExpired, PollFirst, ReadyFirst, PollAgain, PollGrace
    <3>2. CASE Terminate \/ DrainTerm \/ Kill \/ DrainKill
      BY <3>2 DEF Terminate, DrainTerm, Kill, DrainKill
    <3>3. QED
      BY <2>1, <3>1, <3>2 DEF TimeoutStep
  <2>2. ASSUME Communicate \/ Deadline \/ HeartbeatFails \/ Return PROVE Left' < Left
    BY <2>2 DEF Communicate, Deadline, HeartbeatFails, Return, WaitsAt, Position, Waiting, Ended
  <2>3. ASSUME ReadEnd PROVE Left' < Left
    BY <2>3, WaitsBounded DEF ReadEnd
  <2>4. ASSUME AbortKill PROVE Left' < Left
    BY <2>4, WaitsBounded DEF AbortKill
  <2>5. ASSUME AbortDrain PROVE Left' < Left
    <3>1. drained => drained'
      BY <2>5 DEF AbortDrain
    <3>2. pc = "abortDrain" /\ pc' \in {"cleanupError", "raised"} \cup ({handling} \cap Waiting)
      BY <2>5 DEF AbortDrain
    <3>3. pc' \notin {"abortKill", "abortDrain"} /\ WaitsAt(pc') <= WaitsAt(handling)
      BY <3>2, WaitsBounded DEF Waiting, WaitsAt
    <3>4. /\ WaitsAt(pc') \in Nat /\ WaitsAt(handling) \in Nat
          /\ Left' = WaitsAt(pc') + (IF drained' THEN 0 ELSE 1)
          /\ Left = WaitsAt(handling) + 1 + (IF drained THEN 0 ELSE 1)
      BY <3>2, <3>3, WaitsBounded
    <3>5. (IF drained' THEN 0 ELSE 1) <= (IF drained THEN 0 ELSE 1)
      BY <3>1
    <3>6. QED
      BY <3>3, <3>4, <3>5
  <2>6. ASSUME Interrupt PROVE Left' <= Left + 2
    <3>1. pc' = "abortKill" /\ drained' = drained
      BY <2>6 DEF Interrupt
    <3>2. CASE pc \in Aborting
      BY <2>6, <3>1, <3>2, WaitsBounded DEF Interrupt, Aborting
    <3>3. CASE pc \in Waiting
      <4>1. WaitsAt(handling') <= WaitsAt(pc)
        BY <2>6, <3>3, WaitsBounded DEF Interrupt, Waiting, Aborting, WaitsAt
      <4>2. QED
        BY <3>1, <3>3, <4>1, WaitsBounded DEF Waiting
    <3>4. QED
      BY <2>6, <3>2, <3>3 DEF Interrupt
  <2>7. ASSUME Environment PROVE Left' = Left
    BY <2>7 DEF Environment, Exit, ClosesOutput
  <2>8. QED
    BY <2>1, <2>2, <2>3, <2>4, <2>5, <2>6, <2>7 DEF ParentStep
<1>3. QED
  BY <1>1, <1>2, Invariance, PTL DEF Spec
=============================================================================
