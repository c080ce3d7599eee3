---------------------------- MODULE TimedCommand ----------------------------
(***************************************************************************)
(* run_with_timeout: a command and its descendants, and the parent that    *)
(* waits for its output, times it out, escalates from SIGTERM to SIGKILL,  *)
(* and aborts its process group when a heartbeat fails or the parent is    *)
(* interrupted.  (command_runtime.py with the POSIX backend.)              *)
(*                                                                         *)
(* Time is a choice: any wait may expire at any moment.                    *)
(***************************************************************************)
EXTENDS Naturals, FiniteSets

CONSTANTS
    Leader,          \* the process the parent launched
    Descendants,     \* what it has forked
    MaxInterrupts    \* bound on the SIGINT and SIGTERM the parent receives

ASSUME CommandAssumption ==
    /\ Leader \notin Descendants
    /\ MaxInterrupts \in Nat

Processes == Descendants \cup {Leader}

VARIABLES
    alive,        \* the processes that run
    writers,      \* those that hold the output pipes open
    group,        \* those in the command's process group
    reaped,       \* the parent has collected the leader's exit status
    drained,      \* the parent has read the end of the output
    pc,           \* where the parent is
    outcome,      \* final_state_observed
    signalSent,
    completed,    \* history: what the command was like when its time was up
    handling,     \* where an ignored signal found the parent; or "error"
    failed,       \* the abort in progress has failed
    interrupts

processes == <<alive, writers, group>>
result == <<outcome, signalSent>>
vars == <<processes, reaped, drained, pc, result, completed, handling, failed,
          interrupts>>

Waiting == {"communicate", "expired", "pollFirst", "readyFirst", "pollAgain", "term",
            "drainTerm", "pollGrace", "kill", "drainKill", "returning"}
Aborting == {"abortKill", "abortDrain"}
Ended == {"returned", "raised", "cleanupError"}
Outcomes == {"none", "communicate", "poll_before_signal", "signal_race_recovered",
             "drain_after_signal", "poll_after_grace", "drain_after_kill",
             "output_drain_timeout"}
RecoveryStates == {"poll_before_signal", "signal_race_recovered"}

TypeOK ==
    /\ alive \subseteq Processes
    /\ writers \subseteq Processes
    /\ group \subseteq Processes /\ Leader \in group
    /\ reaped \in BOOLEAN /\ drained \in BOOLEAN
    /\ pc \in Waiting \cup Aborting \cup Ended
    /\ outcome \in Outcomes
    /\ signalSent \in {"none", "sigterm", "sigkill"}
    /\ completed \in BOOLEAN
    /\ handling \in {"none", "error"} \cup Waiting
    /\ failed \in BOOLEAN
    /\ interrupts \in 0 .. MaxInterrupts

Init ==
    /\ alive \in {S \in SUBSET Processes : Leader \in S}
    /\ writers \in {S \in SUBSET alive : Leader \in S}
    /\ group \in {S \in SUBSET Processes : Leader \in S}
    /\ reaped = FALSE /\ drained = FALSE
    /\ pc = "communicate"
    /\ outcome = "none" /\ signalSent = "none"
    /\ completed = FALSE
    /\ handling = "none" /\ failed = FALSE
    /\ interrupts = 0

-----------------------------------------------------------------------------
(* The command.                                                            *)

Exited == Leader \notin alive
EndOfOutput == writers \cap alive = {}
Genuine == Exited /\ EndOfOutput

Exit(p) ==
    /\ p \in alive
    /\ alive' = alive \ {p}
    /\ UNCHANGED <<writers, group, reaped, drained, pc, result, completed, handling,
                   failed, interrupts>>

ClosesOutput(p) ==
    /\ p \in alive \cap writers
    /\ writers' = writers \ {p}
    /\ UNCHANGED <<alive, group, reaped, drained, pc, result, completed, handling,
                   failed, interrupts>>

-----------------------------------------------------------------------------
(* The calls on the process.  communicate reads up to the end of the       *)
(* output and then waits for the leader.                                   *)

Goto(label) == pc' = label

\* A communicate that gets to its end.
Collect == Genuine /\ reaped' = TRUE /\ drained' = TRUE

\* The end of the output is read, but the leader is still there.
ReadEnd ==
    /\ pc \in {"communicate", "drainTerm", "drainKill", "abortDrain"}
    /\ EndOfOutput /\ ~ drained
    /\ drained' = TRUE
    /\ UNCHANGED <<processes, reaped, pc, result, completed, handling, failed,
                   interrupts>>

Poll == reaped' = (reaped \/ Exited)

\* Mutant of ReadyOutput: an exited leader is enough.
ReadyOnExit == Exited

\* communicate(timeout=0) raises TimeoutExpired before it reads anything: it
\* returns only when the end of the output was read by an earlier call.
ReadyOutput == drained /\ Exited

Report(state) == outcome' = state /\ Goto("returning")

Quiet == UNCHANGED <<processes, completed, handling, failed, interrupts>>

-----------------------------------------------------------------------------
(* _communicate_with_optional_heartbeats.                                  *)

Communicate ==
    /\ pc = "communicate"
    /\ Collect
    /\ Report("communicate")
    /\ UNCHANGED signalSent /\ Quiet

Deadline ==
    /\ pc = "communicate"
    /\ completed' = Genuine
    /\ Goto("expired")
    /\ UNCHANGED <<processes, reaped, drained, result, handling, failed, interrupts>>

\* The status write of the heartbeat callback raises.
HeartbeatFails ==
    /\ pc = "communicate"
    /\ handling' = "error"
    /\ Goto("abortKill")
    /\ UNCHANGED <<processes, reaped, drained, result, completed, failed, interrupts>>

-----------------------------------------------------------------------------
(* _timeout_expired_run_result and _finalize_timed_out_process.            *)

PollExpired ==
    /\ pc = "expired"
    /\ Poll
    /\ \/ ReadyOutput /\ Report("poll_before_signal")
       \/ ~ ReadyOutput /\ Goto("pollFirst") /\ UNCHANGED outcome
    /\ UNCHANGED <<drained, signalSent>> /\ Quiet

PollFirst ==
    /\ pc = "pollFirst"
    /\ Poll
    /\ Goto("readyFirst")
    /\ UNCHANGED <<drained, result>> /\ Quiet

\* The leader may have exited between the poll and this communicate.
ReadyFirst ==
    /\ pc = "readyFirst"
    /\ \/ /\ ReadyOutput
          /\ Report(IF reaped THEN "poll_before_signal" ELSE "signal_race_recovered")
          /\ reaped' = TRUE
       \/ /\ ~ ReadyOutput
          /\ Goto(IF reaped THEN "term" ELSE "pollAgain")
          /\ UNCHANGED <<reaped, outcome>>
    /\ UNCHANGED <<drained, signalSent>> /\ Quiet

PollAgain ==
    /\ pc = "pollAgain"
    /\ Poll
    /\ \/ ReadyOutput /\ Report("poll_before_signal")
       \/ ~ ReadyOutput /\ Goto("term") /\ UNCHANGED outcome
    /\ UNCHANGED <<drained, signalSent>> /\ Quiet

\* killpg finds no process when the group is empty and its leader was waited
\* for.
GroupGone == group \cap alive = {} /\ reaped

\* SIGTERM: whoever handles or ignores it may go on.
Terminate ==
    /\ pc = "term"
    /\ \E left \in SUBSET (group \cap alive) : alive' = (alive \ group) \cup left
    /\ signalSent' = IF GroupGone THEN "none" ELSE "sigterm"
    /\ Goto("drainTerm")
    /\ UNCHANGED <<writers, group, reaped, drained, outcome, completed, handling,
                   failed, interrupts>>

DrainTerm ==
    /\ pc = "drainTerm"
    /\ \/ Collect /\ Report("drain_after_signal")
       \/ Goto("pollGrace") /\ UNCHANGED <<reaped, drained, outcome>>
    /\ UNCHANGED signalSent /\ Quiet

PollGrace ==
    /\ pc = "pollGrace"
    /\ Poll
    /\ \/ ReadyOutput /\ Report("poll_after_grace")
       \/ ~ ReadyOutput /\ Goto("kill") /\ UNCHANGED outcome
    /\ UNCHANGED <<drained, signalSent>> /\ Quiet

\* Mutant of Kill: the signal goes to the leader alone.
KillLeader ==
    /\ pc = "kill"
    /\ alive' = alive \ {Leader}
    /\ signalSent' = IF GroupGone THEN signalSent ELSE "sigkill"
    /\ Goto("drainKill")
    /\ UNCHANGED <<writers, group, reaped, drained, outcome, completed, handling,
                   failed, interrupts>>

Kill ==
    /\ pc = "kill"
    /\ alive' = alive \ group
    /\ signalSent' = IF GroupGone THEN signalSent ELSE "sigkill"
    /\ Goto("drainKill")
    /\ UNCHANGED <<writers, group, reaped, drained, outcome, completed, handling,
                   failed, interrupts>>

\* Mutant of DrainKill: the last drain has no timeout.
DrainKillUnbounded ==
    /\ pc = "drainKill"
    /\ Collect /\ Report("drain_after_kill")
    /\ UNCHANGED signalSent /\ Quiet

DrainKill ==
    /\ pc = "drainKill"
    /\ \/ Collect /\ Report("drain_after_kill")
       \/ Report("output_drain_timeout") /\ UNCHANGED <<reaped, drained>>
    /\ UNCHANGED signalSent /\ Quiet

\* The finally clause restores the signal handlers.
Return ==
    /\ pc = "returning"
    /\ Goto("returned")
    /\ UNCHANGED <<processes, reaped, drained, result, completed, handling, failed,
                   interrupts>>

-----------------------------------------------------------------------------
(* cleanup_process_after_error, from the except clause or from             *)
(* cleanup_then_forward.                                                   *)

\* SIGINT or SIGTERM reaches the parent, whose previous handler of that
\* signal raises or, ignored, lets the parent go on.  One that comes during
\* an abort starts an abort of its own, and its exception makes the first
\* one incomplete.
Interrupt ==
    /\ interrupts < MaxInterrupts
    /\ pc \in Waiting \cup Aborting
    /\ interrupts' = interrupts + 1
    /\ \E raises \in BOOLEAN :
          /\ handling' = IF pc \in Aborting THEN handling
                         ELSE IF raises THEN "error" ELSE pc
          /\ failed' = (failed \/ (pc \in Aborting /\ raises))
    /\ Goto("abortKill")
    /\ UNCHANGED <<processes, reaped, drained, result, completed>>

\* Mutant of AbortKill: a leader that was waited for is not killed again.
AbortKillUnlessReaped ==
    /\ pc = "abortKill"
    /\ alive' = IF reaped THEN alive ELSE alive \ group
    /\ failed' = failed
    /\ Goto("abortDrain")
    /\ UNCHANGED <<writers, group, reaped, drained, result, completed, handling,
                   interrupts>>

AbortKill ==
    /\ pc = "abortKill"
    /\ \/ alive' = alive \ group /\ UNCHANGED failed
       \/ failed' = TRUE /\ UNCHANGED alive
    /\ Goto("abortDrain")
    /\ UNCHANGED <<writers, group, reaped, drained, result, completed, handling,
                   interrupts>>

\* The abort failed, or is over: the error is raised, or the parent goes on
\* where an ignored signal found it (or fails there on the closed pipes).
AbortDrain ==
    /\ pc = "abortDrain"
    /\ \/ Collect /\ UNCHANGED failed
       \/ failed' = TRUE /\ UNCHANGED <<reaped, drained>>
    /\ \/ failed' /\ Goto("cleanupError")
       \/ ~ failed' /\ Goto("raised")
       \/ ~ failed' /\ handling \in Waiting /\ Goto(handling)
    /\ handling' = "none"
    /\ UNCHANGED <<processes, result, completed, interrupts>>

-----------------------------------------------------------------------------
Environment == \E p \in Processes : Exit(p) \/ ClosesOutput(p)

TimeoutStep ==
    \/ PollExpired \/ PollFirst \/ ReadyFirst \/ PollAgain \/ Terminate \/ DrainTerm
    \/ PollGrace \/ Kill \/ DrainKill

ParentStep ==
    \/ Communicate \/ Deadline \/ ReadEnd \/ HeartbeatFails
    \/ TimeoutStep \/ Return
    \/ AbortKill \/ AbortDrain

Over == pc \in Ended /\ UNCHANGED vars

Next == Environment \/ ParentStep \/ Interrupt \/ Over

Spec == Init /\ [][Next]_vars /\ WF_vars(ParentStep)

-----------------------------------------------------------------------------
(* Properties                                                              *)

TimedOut == outcome \notin RecoveryStates \cup {"communicate"}

(* A command that is reported as completed has exited and left nobody who  *)
(* could still write: a descendant that holds the output does not turn a   *)
(* timeout into a success.                                                 *)
SuccessIsGenuine == pc = "returned" /\ ~ TimedOut => Genuine

(* When an error or a signal ends the call and the abort was confirmed,    *)
(* nothing of the command's group is left, even where its leader had       *)
(* exited or closed its output long before.                                *)
AbortLeavesNothing == pc = "raised" => group \cap alive = {}

(* After a timeout that had to escalate, only processes outside the        *)
(* group survive; one that was over within the grace period may leave      *)
(* group members, but none that holds the output.                          *)
TimeoutSurvivors ==
    pc = "returned" /\ TimedOut =>
        \/ group \cap alive = {}
        \/ outcome \in {"drain_after_signal", "poll_after_grace"} /\ EndOfOutput

(* The call ends, whatever the command and its descendants do.             *)
CallEnds == <>(pc \in Ended)

(* "Genuine completion races with output already at EOF remain             *)
(* successful."  It fails: with a timeout of zero communicate does not     *)
(* read the end of the output it has not read before.                      *)
CompletionRaceSucceeds ==
    pc = "returned" /\ completed => ~ TimedOut
=============================================================================
