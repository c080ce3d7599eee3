-------------------------------- MODULE GoalRun --------------------------------
(***************************************************************************)
(* The launches of one goal run, one after the other, with the status      *)
(* refreshes an operator makes beside them: the runner's second, per-run   *)
(* lock, its heartbeats, the checkpoint commands that fall due, the status *)
(* report both sides write, and what a death or a failure leaves behind.   *)
(* (goal_runtime_runner.py, goal_runtime_maintenance.py,                   *)
(* goal_run_status.py.)                                                    *)
(*                                                                         *)
(* The steps of the workspace lock are those of GoalRuntimeLock, those of  *)
(* a command with its deadline those of TimedCommand; here each has its    *)
(* outcomes only.  Time is counted in heartbeats.                          *)
(***************************************************************************)
EXTENDS Naturals

CONSTANTS
    NumCheckpoints,     \* PERIODIC_EVIDENCE_CHECKPOINTS has three
    DueAfter,           \* due_after_seconds of each, in heartbeats
    Retry,              \* checkpoint_interval_seconds, in heartbeats
    Timeout,            \* the command's, in heartbeats
    Finals,             \* the values of GOAL_FINAL_STATUS in use
    MaxClock,           \* bound on the time
    MaxLaunches,        \* bound on the launches
    MaxRefreshes        \* bound on the refreshes

Checkpoints == 1 .. NumCheckpoints
Launches == 1 .. MaxLaunches
Times == 0 .. MaxClock      \* 0 stands for a time that is not recorded

ASSUME RunAssumption ==
    /\ {NumCheckpoints, Retry, Timeout, MaxClock, MaxLaunches, MaxRefreshes} \subseteq Nat \ {0}
    /\ DueAfter \in [Checkpoints -> Nat \ {0}]
    /\ Finals \subseteq {"completed", "failed", "stopped"}

Terminal == {"completed", "failed", "stopped"}
Refreshing == {"running", "blocked"}        \* STATUS_REFRESH_RUN_STATUSES

\* The per-run lock names the launch that wrote it.
Free == 0
Emptied == MaxLaunches + 1

VARIABLES
    clock,
    pc,             \* of the runner of the last launch
    launch,         \* that launch
    started,        \* started_at of that launch
    observed,       \* generated_at of the heartbeat, or completed_at
    phase,          \* what the due checkpoints are run before
    todo,           \* the checkpoints to run
    rc,             \* of the command
    alive,          \* the commands that live, with the launch each belongs to
    workspace,      \* the launch whose workspace lock there is
    runlock,        \* the per-run lock file
    event,          \* the latest event of each checkpoint in the command log
    status,         \* the run-local status report
    rpc,            \* of a refresh
    candidate,      \* goal-run-status.candidate.json
    refreshes,
    broken,         \* history: launches that were killed or could not clean up
    succeeded,      \* history: launches whose command returned 0 in time
    passed          \* history: checkpoints passed in a launch, since they were due

runner == <<pc, launch, started, observed, phase, todo, rc>>
locks == <<workspace, runlock>>
checks == <<event, passed>>
refresh == <<rpc, candidate, refreshes>>
vars == <<clock, runner, alive, locks, checks, status, refresh, broken, succeeded>>

Missing == [run |-> "none", launch |-> 0, start |-> 0, done |-> 0, checkpoint |-> 0,
            periodic |-> "not_due", explicit |-> FALSE, behind |-> FALSE]

(* launch, explicit and behind are history: the launch whose started_at    *)
(* the report has, whether the operator gave its terminal status, and      *)
(* whether the runner wrote another report after this one was built.       *)
Report == [run : Terminal \cup Refreshing \cup {"none"}, launch : 0 .. MaxLaunches,
           start : Times, done : Times, checkpoint : Times,
           periodic : {"not_due", "current", "missing"}, explicit : BOOLEAN, behind : BOOLEAN]

TypeOK ==
    /\ clock \in Times \ {0}
    /\ pc \in {"idle", "runlock", "created", "initial", "launch", "wait", "check", "checking",
               "beat", "result", "final", "release", "unlock"}
    /\ launch \in 0 .. MaxLaunches
    /\ started \in Times /\ observed \in Times
    /\ phase \in {"beat", "final"} /\ todo \subseteq Checkpoints
    /\ rc \in {"none", "ok", "failed"}
    /\ alive \subseteq Launches \X {"command", "checkpoint"}
    /\ workspace \in 0 .. MaxLaunches /\ runlock \in 0 .. Emptied
    /\ event \in [Checkpoints -> [at : Times, pass : BOOLEAN]]
    /\ {status, candidate} \subseteq Report
    /\ rpc \in {"idle", "promote"}
    /\ refreshes \in 0 .. MaxRefreshes
    /\ broken \subseteq Launches /\ succeeded \subseteq Launches
    /\ passed \subseteq Launches \X Checkpoints

Init ==
    /\ clock = 1
    /\ pc = "idle" /\ launch = 0 /\ started = 0 /\ observed = 0
    /\ phase = "beat" /\ todo = {} /\ rc = "none"
    /\ alive = {} /\ workspace = Free /\ runlock = Free
    /\ event = [c \in Checkpoints |-> [at |-> 0, pass |-> FALSE]]
    /\ status = Missing /\ candidate = Missing
    /\ rpc = "idle" /\ refreshes = 0
    /\ broken = {} /\ succeeded = {} /\ passed = {}

-----------------------------------------------------------------------------
(* Periodic evidence: a checkpoint is due a time after the start.  Its     *)
(* evidence files are written by its commands, and by anyone else who runs *)
(* those Make targets: any of them may be young enough when it is read.    *)

Due(c, start, now) == start + DueAfter[c] <= now

\* Mutant of SinceDue: any event of the run counts, also one of an earlier launch.
EverRun(c, start) == event[c].at # 0

\* Only events since the checkpoint was due count, so the latest of all is enough.
SinceDue(c, start) == event[c].at # 0 /\ event[c].at >= start + DueAfter[c]

\* _checkpoint_command_run_summary
CommandRun(c, start, now) ==
    CASE ~ Due(c, start, now) -> "not_due"
      [] Due(c, start, now) /\ ~ SinceDue(c, start) -> "not_run"
      [] OTHER -> IF event[c].pass THEN "pass" ELSE "fail"

RetryDue(c, start, now) ==
    \/ CommandRun(c, start, now) = "not_run"
    \/ CommandRun(c, start, now) = "fail" /\ now >= event[c].at + Retry

Observed(c, start, now, checkpoint) ==
    /\ checkpoint >= start + DueAfter[c]
    /\ CommandRun(c, start, now) = "pass"

\* periodic_evidence_status; fresh are the checkpoints whose evidence files are younger
\* than their due time.
Periodic(start, now, checkpoint, fresh) ==
    LET due == {c \in Checkpoints : Due(c, start, now)} IN
    CASE due = {} -> "not_due"
      [] due # {} /\ \A c \in due : c \in fresh /\ Observed(c, start, now, checkpoint) -> "current"
      [] OTHER -> "missing"

-----------------------------------------------------------------------------
(* The status report: a request merged with the prior report of the run.   *)

\* Mutants of Preserved: the clock a request brings is ignored; nothing is preserved.
PreservedAlways(req, prior) ==
    prior.run \in Terminal /\ (req.run \in Refreshing \/ req.run = prior.run)
PreservedNever(req, prior) == FALSE

\* _should_preserve_terminal_run_status
Preserved(req, prior) ==
    /\ prior.run \in Terminal
    /\ req.run \in Refreshing \/ req.run = prior.run
    /\ req.start = 0 /\ req.done = 0

Or(time, other) == IF time # 0 THEN time ELSE other

\* build_report
Build(req, prior, now, fresh) ==
    LET kept == Preserved(req, prior)
        run == IF kept THEN prior.run ELSE req.run
        done == Or(req.done, IF kept THEN prior.done ELSE IF run \in Terminal THEN now ELSE 0)
        start == Or(req.start, Or(prior.start, now))
        checkpoint == Or(req.checkpoint, Or(prior.checkpoint, now))
    IN  [run |-> run, launch |-> IF req.start # 0 THEN launch ELSE prior.launch,
         start |-> start, done |-> done, checkpoint |-> checkpoint,
         periodic |-> Periodic(start, IF run \in Terminal THEN done ELSE now, checkpoint,
                              fresh),
         explicit |-> IF kept THEN prior.explicit ELSE req.start = 0 /\ run \in Terminal,
         behind |-> req.start = 0 /\ prior.behind]

Outdated(report) == IF report = Missing THEN Missing ELSE [report EXCEPT !.behind = TRUE]

\* A snapshot the runner writes: it always brings its clock.
Snapshot(run, done) ==
    /\ \E fresh \in SUBSET Checkpoints :
          status' = Build([run |-> run, start |-> started, done |-> done, checkpoint |-> observed],
                          status, observed, fresh)
    /\ candidate' = Outdated(candidate)
    /\ UNCHANGED <<rpc, refreshes>>

-----------------------------------------------------------------------------
(* A launch.  Whoever finds the workspace lock held is refused and changes *)
(* nothing.                                                                *)

Own == alive \cap ({launch} \X {"command", "checkpoint"})

\* Mutant of Stale: a dead runner is enough.
StaleRunner == workspace # Free
Stale == workspace # Free /\ <<workspace, "command">> \notin alive

Start ==
    /\ pc = "idle" /\ launch < MaxLaunches
    /\ workspace = Free \/ Stale
    /\ launch' = launch + 1 /\ workspace' = launch + 1
    /\ started' = clock /\ observed' = clock
    /\ pc' = "runlock"
    /\ UNCHANGED <<clock, phase, todo, rc, alive, runlock, checks, status, refresh, broken, succeeded>>

Moves(from, to) ==
    /\ pc = from /\ pc' = to
    /\ UNCHANGED <<clock, launch, started, observed, phase, todo, rc>>

\* The runner exits, however.
Exits(from) ==
    /\ pc = from /\ pc' = "idle"
    /\ started' = 0 /\ observed' = 0 /\ phase' = "beat" /\ todo' = {} /\ rc' = "none"
    /\ UNCHANGED <<clock, launch>>

CreateRunLock ==
    /\ Moves("runlock", "created")
    /\ runlock = Free /\ runlock' = Emptied
    /\ UNCHANGED <<alive, workspace, checks, status, refresh, broken, succeeded>>

\* The lock's runner is dead: this one holds the workspace.
ClearRunLock ==
    /\ Moves("runlock", "runlock")
    /\ runlock \in Launches /\ runlock' = Free
    /\ UNCHANGED <<alive, workspace, checks, status, refresh, broken, succeeded>>

\* Mutant of RefuseRunLock: the workspace lock is kept.
RefuseRunLockHeld ==
    /\ Exits("runlock")
    /\ runlock # Free
    /\ UNCHANGED <<alive, locks, checks, status, refresh, broken, succeeded>>

\* The lock has no payload, or it cannot be unlinked.
RefuseRunLock ==
    /\ Exits("runlock")
    /\ runlock # Free
    /\ workspace' = Free
    /\ UNCHANGED <<alive, runlock, checks, status, refresh, broken, succeeded>>

WriteRunLock ==
    /\ Moves("created", "initial")
    /\ runlock' = launch
    /\ UNCHANGED <<alive, workspace, checks, status, refresh, broken, succeeded>>

\* The exception leaves run_goal_runtime_command before its try statement.
WriteRunLockFails ==
    /\ Exits("created")
    /\ broken' = broken \cup {launch}
    /\ UNCHANGED <<alive, locks, checks, status, refresh, succeeded>>

WriteInitial ==
    /\ Moves("initial", "launch")
    /\ Snapshot("running", 0)
    /\ UNCHANGED <<alive, locks, checks, broken, succeeded>>

LaunchCommand ==
    /\ Moves("launch", "wait")
    /\ alive' = alive \cup {<<launch, "command">>}
    /\ UNCHANGED <<locks, checks, status, refresh, broken, succeeded>>

\* The deadline; the bound on the clock is one too.
Expired == clock >= started + Timeout \/ clock = MaxClock

ToRun(now) == {c \in Checkpoints : RetryDue(c, started, now)}

Heartbeat ==
    /\ pc = "wait" /\ ~ Expired
    /\ clock' = clock + 1 /\ observed' = clock + 1
    /\ phase' = "beat" /\ todo' = ToRun(clock + 1)
    /\ pc' = "check"
    /\ UNCHANGED <<launch, started, rc, alive, locks, checks, status, refresh, broken, succeeded>>

RunCheckpoint ==
    /\ todo # {}
    /\ Moves("check", "checking")
    /\ alive' = alive \cup {<<launch, "checkpoint">>}
    /\ UNCHANGED <<locks, checks, status, refresh, broken, succeeded>>

\* Mutant of CheckpointReturns: one that fails is run again at once.
CheckpointRetried ==
    /\ pc = "checking" /\ pc' = "check"
    /\ clock' \in {clock, IF clock < MaxClock THEN clock + 1 ELSE clock}
    /\ \E c \in todo, pass \in BOOLEAN :
          /\ \A d \in todo : c <= d
          /\ event' = [event EXCEPT ![c] = [at |-> observed, pass |-> pass]]
          /\ passed' = IF pass /\ Due(c, started, observed) THEN passed \cup {<<launch, c>>}
                       ELSE passed
          /\ todo' = IF pass THEN todo \ {c} ELSE todo
    /\ alive' = alive \ {<<launch, "checkpoint">>}
    /\ UNCHANGED <<launch, started, observed, phase, rc, locks, status, refresh, broken, succeeded>>

\* The commands of one checkpoint up to the first that fails.
CheckpointReturns ==
    /\ pc = "checking" /\ pc' = "check"
    /\ clock' \in {clock, IF clock < MaxClock THEN clock + 1 ELSE clock}
    /\ \E c \in todo, pass \in BOOLEAN :
          /\ \A d \in todo : c <= d
          /\ event' = [event EXCEPT ![c] = [at |-> observed, pass |-> pass]]
          /\ passed' = IF pass /\ Due(c, started, observed) THEN passed \cup {<<launch, c>>}
                       ELSE passed
          /\ todo' = todo \ {c}
    /\ alive' = alive \ {<<launch, "checkpoint">>}
    /\ UNCHANGED <<launch, started, observed, phase, rc, locks, status, refresh, broken, succeeded>>

CheckpointsDone ==
    /\ todo = {}
    /\ Moves("check", phase)
    /\ UNCHANGED <<alive, locks, checks, status, refresh, broken, succeeded>>

WriteHeartbeat ==
    /\ Moves("beat", "wait")
    /\ Snapshot("running", 0)
    /\ UNCHANGED <<alive, locks, checks, broken, succeeded>>

\* The command has ended, or its deadline has and it is killed.
CommandReturns ==
    /\ pc = "wait" /\ pc' = "result"
    /\ \/ rc # "none" /\ UNCHANGED <<rc, alive>>
       \/ /\ rc = "none" /\ Expired
          /\ rc' = "failed" /\ alive' = alive \ {<<launch, "command">>}
    /\ succeeded' = IF rc = "ok" THEN succeeded \cup {launch} ELSE succeeded
    /\ UNCHANGED <<clock, launch, started, observed, phase, todo, locks, checks, status, refresh, broken>>

\* The result file, the time of completion, and the checkpoints due by then.
WriteResult ==
    /\ pc = "result" /\ pc' = "check"
    /\ observed' = clock /\ todo' = ToRun(clock) /\ phase' = "final"
    /\ UNCHANGED <<clock, launch, started, rc, alive, locks, checks, status, refresh, broken, succeeded>>

WriteFinal ==
    /\ Moves("final", "release")
    /\ Snapshot(IF rc = "ok" THEN "completed" ELSE "failed", observed)
    /\ UNCHANGED <<alive, locks, checks, broken, succeeded>>

ReleaseRunLock ==
    /\ Moves("release", "unlock")
    /\ runlock' = IF runlock = launch THEN Free ELSE runlock
    /\ UNCHANGED <<alive, workspace, checks, status, refresh, broken, succeeded>>

ReleaseWorkspace ==
    /\ Exits("unlock")
    /\ workspace' = Free
    /\ UNCHANGED <<alive, runlock, checks, status, refresh, broken, succeeded>>

-----------------------------------------------------------------------------
(* What goes wrong in a launch.                                            *)

\* Any exception but a ProcessCleanupError: the command is cleaned up.
RunnerFails ==
    /\ pc \in {"initial", "launch", "wait", "check", "checking", "beat", "result", "final"}
    /\ Moves(pc, "release")
    /\ alive' = alive \ Own
    /\ UNCHANGED <<locks, checks, status, refresh, broken, succeeded>>

\* Mutant of CleanupFails: the finally clause releases the workspace lock all the same.
CleanupFailsReleased ==
    /\ pc # "idle"
    /\ \E left \in SUBSET Own : left # {} /\ alive' = (alive \ Own) \cup left
    /\ Exits(pc)
    /\ broken' = broken \cup {launch} /\ workspace' = Free
    /\ UNCHANGED <<runlock, checks, status, refresh, succeeded>>

\* A ProcessCleanupError, of the command or of a checkpoint command: the locks stay.
CleanupFails ==
    /\ pc # "idle"
    /\ \E left \in SUBSET Own : left # {} /\ alive' = (alive \ Own) \cup left
    /\ Exits(pc)
    /\ broken' = broken \cup {launch}
    /\ UNCHANGED <<locks, checks, status, refresh, succeeded>>

\* _release_runner_lock raises: the workspace lock is not released.
ReleaseFails ==
    /\ Exits("release")
    /\ broken' = broken \cup {launch}
    /\ UNCHANGED <<alive, locks, checks, status, refresh, succeeded>>

Killed ==
    /\ pc # "idle"
    /\ Exits(pc)
    /\ broken' = broken \cup {launch}
    /\ UNCHANGED <<alive, locks, checks, status, refresh, succeeded>>

CommandEnds ==
    /\ pc # "idle" /\ <<launch, "command">> \in alive
    /\ alive' = alive \ {<<launch, "command">>}
    /\ rc' \in {"ok", "failed"}
    /\ UNCHANGED <<clock, pc, launch, started, observed, phase, todo, locks, checks, status,
                   refresh, broken, succeeded>>

\* What a dead runner left ends.
LeftoverEnds(p) ==
    /\ p \in alive
    /\ p[1] # launch \/ pc = "idle"
    /\ alive' = alive \ {p}
    /\ UNCHANGED <<clock, runner, locks, checks, status, refresh, broken, succeeded>>

TimePasses ==
    /\ pc = "idle" /\ clock < MaxClock
    /\ clock' = clock + 1
    /\ UNCHANGED <<runner, alive, locks, checks, status, refresh, broken, succeeded>>

-----------------------------------------------------------------------------
(* auto-improve-goal-status and auto-improve-goal-finalize, which take no  *)
(* lock: goal_run_status builds a candidate from the report it reads, and  *)
(* canonical_artifact_promote puts it in the report's place.               *)

\* goal_run_status builds its candidate, which nobody else reads, or fails: the recipe
\* promotes all the same.
RefreshBuild(run, done) ==
    /\ rpc = "idle" /\ refreshes < MaxRefreshes
    /\ rpc' = "promote" /\ refreshes' = refreshes + 1
    /\ \/ UNCHANGED candidate
       \/ \E fresh \in SUBSET Checkpoints :
             candidate' = Build([run |-> run, start |-> 0, done |-> done, checkpoint |-> 0],
                                status, clock, fresh)
    /\ UNCHANGED <<clock, runner, alive, locks, checks, status, broken, succeeded>>

\* A candidate that says what the report says is removed, any other one stays.
RefreshPromote ==
    /\ rpc = "promote" /\ rpc' = "idle"
    /\ IF candidate = Missing THEN UNCHANGED <<status, candidate>>
       ELSE /\ status' = candidate
            /\ candidate' \in {candidate} \cup (IF candidate = status THEN {Missing} ELSE {})
    /\ UNCHANGED <<clock, runner, alive, locks, checks, refreshes, broken, succeeded>>

RefreshStops ==
    /\ rpc = "promote" /\ rpc' = "idle"
    /\ UNCHANGED <<clock, runner, alive, locks, checks, status, candidate, refreshes, broken, succeeded>>

-----------------------------------------------------------------------------
Step ==
    \/ CreateRunLock \/ ClearRunLock \/ RefuseRunLock \/ WriteRunLock
    \/ WriteInitial \/ LaunchCommand
    \/ Heartbeat \/ RunCheckpoint \/ CheckpointReturns \/ CheckpointsDone \/ WriteHeartbeat
    \/ CommandReturns \/ WriteResult \/ WriteFinal \/ ReleaseRunLock \/ ReleaseWorkspace

Faults == WriteRunLockFails \/ RunnerFails \/ CleanupFails \/ ReleaseFails \/ Killed

Operator ==
    \/ RefreshBuild("blocked", 0)
    \/ \E run \in Finals : RefreshBuild(run, 0) \/ RefreshBuild(run, clock)
    \/ RefreshPromote \/ RefreshStops

Next ==
    \/ Start \/ Step \/ Faults
    \/ CommandEnds \/ \E p \in alive : LeftoverEnds(p)
    \/ TimePasses
    \/ Operator

Spec == Init /\ [][Next]_vars
FairSpec == Spec /\ WF_vars(Step)

-----------------------------------------------------------------------------
(* Properties                                                              *)

(* A run that reads as completed, without an operator having said so, is   *)
(* one whose command returned 0 before its deadline in the very launch the *)
(* report names: merging a request with the prior report never carries a   *)
(* status over to another launch (_merged_run_state).                      *)
CompletedIsGenuine ==
    status.run = "completed" /\ ~ status.explicit => status.launch \in succeeded

(* Periodic evidence that reads as current is this launch's: the commands  *)
(* of each checkpoint that is due passed in it, since then.  The command   *)
(* log is shared by all launches of the run (build_periodic_evidence).     *)
PeriodicIsOfLaunch ==
    status.periodic = "current" /\ ~ status.behind =>
        LET now == IF status.run \in Terminal THEN status.done ELSE status.checkpoint IN
        \A c \in Checkpoints :
            Due(c, status.start, now) => <<status.launch, c>> \in passed

(* A terminal status gives way to a later launch, to the operator's        *)
(* finalization, to the runner where the operator finalized a launch that  *)
(* still ran, or to a candidate built before the runner's last report;     *)
(* every other refresh keeps it and its completion time                    *)
(* (_should_preserve_terminal_run_status).                                 *)
TerminalKept ==
    [][status.run \in Terminal /\ status' # status =>
          \/ status'.launch > status.launch
          \/ status'.explicit \/ status'.behind
          \/ status.explicit /\ pc' # pc
          \/ status'.run = status.run /\ status'.done = status.done]_vars

(* While a launch has the workspace, no command of an earlier launch is    *)
(* alive, except a checkpoint command whose runner was killed or could not *)
(* clean up: no lock names that one (_run_checkpoint_command's backend).   *)
NoForeignCommand ==
    pc # "idle" => \A p \in alive : p[1] # launch => p[2] = "checkpoint" /\ p[1] \in broken

(* The launches use the workspace lock as WorkspaceLock allows, as do the  *)
(* runners of GoalRuntimeLock: a launch gives the workspace back with its  *)
(* command over, and takes it from a dead one whose command has ended      *)
(* (run_goal_runtime_command).                                             *)
Kept == INSTANCE WorkspaceLock WITH
    Users <- Launches, NoOne <- Free,
    holder <- workspace,
    commands <- {l \in Launches : <<l, "command">> \in alive},
    dead <- {l \in Launches : l < launch \/ (l = launch /\ pc = "idle")},
    lost <- FALSE

KeepsLock == Kept!Spec

(* A launch that has ended left neither lock, unless it was killed or kept *)
(* them on purpose; one that is refused the second lock gives back the     *)
(* first (run_goal_runtime_command's finally).                             *)
LocksSettled ==
    pc = "idle" =>
        /\ workspace # Free => workspace \in broken
        /\ runlock \in Launches => runlock \in broken
        /\ runlock = Emptied => broken # {}

(* Every launch ends: the heartbeats by the deadline, the loop around the  *)
(* per-run lock by the unlink.                                             *)
LaunchEnds == pc # "idle" ~> pc = "idle"
=============================================================================
