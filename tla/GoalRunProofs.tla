----------------------------- MODULE GoalRunProofs -----------------------------
(* Proofs about GoalRun, for any number of launches, refreshes and         *)
(* checkpoints, and any times.                                             *)
EXTENDS GoalRun, FiniteSetTheorems, TLAPS

Runs == Terminal \cup Refreshing
Kinds == {"command", "checkpoint"}

\* Where the runner has written its status.
Writing == {"launch", "wait", "check", "checking", "beat", "result", "final"}
\* Where it has not launched its command.
Unlaunched == {"idle", "runlock", "created", "initial", "launch"}
\* Where its command is over.
Over == pc \in {"result", "final"} \/ (pc \in {"check", "checking"} /\ phase = "final")

ClockInv ==
    /\ started <= clock /\ observed <= clock
    /\ pc # "idle" => started # 0 /\ observed # 0
    /\ \A c \in Checkpoints : event[c].at <= clock

(* A launch holds both locks until it releases them; what an earlier one   *)
(* left of them is from a launch that was killed or could not clean up.    *)
LockInv ==
    /\ pc # "idle" => launch # 0 /\ workspace = launch
    /\ pc \in Writing \cup {"initial", "release"} => runlock = launch
    /\ pc = "created" => runlock = Emptied
    /\ pc = "unlock" => runlock = Free
    /\ pc = "idle" => (workspace # Free => workspace \in broken)
    /\ pc \in {"idle", "runlock"} =>
          /\ runlock \in Launches => runlock \in broken
          /\ runlock = Emptied => broken # {}

(* The commands that live: those of this launch, while it runs them, and   *)
(* what broken launches left, of which only a checkpoint command may go    *)
(* without a workspace lock.                                               *)
AliveInv ==
    /\ \A p \in alive : p[1] <= launch
    /\ pc = "idle" => \A p \in alive : p[1] \in broken /\ (p[2] = "command" => workspace = p[1])
    /\ NoForeignCommand

\* Those of this launch live where it waits for them.
OwnInv ==
    /\ pc # "idle" /\ <<launch, "command">> \in alive =>
          pc \in {"wait", "check", "checking", "beat"} /\ rc = "none" /\ ~ Over
    /\ pc # "idle" /\ <<launch, "checkpoint">> \in alive => pc = "checking"
    /\ pc \in Unlaunched => rc = "none"
    /\ Over /\ rc = "ok" => launch \in succeeded

\* The checkpoints that passed since they were due, of this launch.
PassedSince(l, start) ==
    \A c \in Checkpoints :
        event[c].pass /\ event[c].at >= start + DueAfter[c] => <<l, c>> \in passed

EventInv == pc # "idle" => PassedSince(launch, started)

Now(r) == IF r.run \in Terminal THEN r.done ELSE r.checkpoint

(* A report that the runner has not overtaken is about the last launch     *)
(* that wrote one, and what it says of it was so.                          *)
Sound(r) ==
    /\ r.start = 0 => r = Missing
    /\ r.start <= clock /\ r.checkpoint <= clock
    /\ r.run = "completed" /\ ~ r.explicit => r.launch \in succeeded
    /\ r # Missing /\ ~ r.behind =>
          /\ PassedSince(r.launch, r.start)
          /\ r.periodic = "current" =>
                \A c \in Checkpoints : Due(c, r.start, Now(r)) => <<r.launch, c>> \in passed
          /\ pc \in Writing => r.launch = launch /\ r.start = started

ReportInv ==
    /\ Sound(status) /\ Sound(candidate)
    /\ pc \in Writing => status # Missing

IInv == TypeOK /\ ClockInv /\ LockInv /\ AliveInv /\ OwnInv /\ EventInv /\ ReportInv

-----------------------------------------------------------------------------
LEMMA Numbers ==
    /\ MaxClock \in Nat \ {0} /\ MaxLaunches \in Nat \ {0}
    /\ \A c \in Checkpoints : DueAfter[c] \in Nat \ {0}
BY RunAssumption

LEMMA MissingReport == Missing \in Report
BY Numbers DEF Missing, Report, Times

LEMMA OutdatedReport == \A r \in Report : Outdated(r) \in Report
BY MissingReport DEF Outdated, Report

\* Periodic evidence that reads as current: every checkpoint that is due has passed.
LEMMA PeriodicFacts ==
    ASSUME NEW start, NEW now, NEW checkpoint, NEW fresh
    PROVE  /\ Periodic(start, now, checkpoint, fresh) \in {"not_due", "current", "missing"}
           /\ Periodic(start, now, checkpoint, fresh) = "current" =>
                 \A c \in Checkpoints : Due(c, start, now) => Observed(c, start, now, checkpoint)
BY DEF Periodic

LEMMA ObservedFacts ==
    ASSUME NEW c, NEW start, NEW now, NEW checkpoint, Due(c, start, now),
           Observed(c, start, now, checkpoint)
    PROVE  event[c].pass /\ event[c].at >= start + DueAfter[c]
<1>1. CommandRun(c, start, now) = "pass"
  BY DEF Observed
<1>2. SinceDue(c, start) /\ event[c].pass
  BY <1>1 DEF CommandRun
<1>3. QED
  BY <1>2 DEF SinceDue

\* A report built from a request and the prior report is a report.
LEMMA BuiltType ==
    ASSUME TypeOK, NEW run \in Runs, NEW start \in Times, NEW done \in Times,
           NEW checkpoint \in Times, NEW prior \in Report, NEW now \in Times, NEW fresh
    PROVE  Build([run |-> run, start |-> start, done |-> done, checkpoint |-> checkpoint],
                 prior, now, fresh) \in Report
<1> DEFINE req == [run |-> run, start |-> start, done |-> done, checkpoint |-> checkpoint]
           b == Build(req, prior, now, fresh)
           kept == Preserved(req, prior)
<1>1. prior.run \in Runs \cup {"none"} /\ prior.start \in Times /\ prior.done \in Times
      /\ prior.checkpoint \in Times /\ prior.launch \in 0 .. MaxLaunches
      /\ prior.explicit \in BOOLEAN /\ prior.behind \in BOOLEAN
  BY DEF Report, Runs
<1>2. kept => prior.run \in Terminal
  BY DEF Preserved
<1>3. b.run \in Runs
  BY <1>2 DEF Build, Runs
<1>4. b.start \in Times /\ b.done \in Times /\ b.checkpoint \in Times
  BY <1>1, Numbers DEF Build, Or, Times
<1>5. b.launch \in 0 .. MaxLaunches
  BY <1>1 DEF Build, TypeOK
<1>6. b.explicit \in BOOLEAN /\ b.behind \in BOOLEAN
  BY <1>1 DEF Build
<1>7. b.periodic \in {"not_due", "current", "missing"}
  BY PeriodicFacts DEF Build
<1>8. b = [run |-> b.run, launch |-> b.launch, start |-> b.start, done |-> b.done,
           checkpoint |-> b.checkpoint, periodic |-> b.periodic, explicit |-> b.explicit,
           behind |-> b.behind]
  BY DEF Build
<1>9. QED
  BY <1>3, <1>4, <1>5, <1>6, <1>7, <1>8 DEF Report, Runs

-----------------------------------------------------------------------------
\* A snapshot keeps the reports' types.
LEMMA SnapshotType ==
    ASSUME TypeOK, NEW run \in Runs, NEW done \in Times, Snapshot(run, done)
    PROVE  {status, candidate}' \subseteq Report /\ rpc' = rpc /\ refreshes' = refreshes
BY BuiltType, OutdatedReport DEF Snapshot, TypeOK

LEMMA Initially == Init => IInv
<1> SUFFICES ASSUME Init PROVE IInv
  OBVIOUS
<1>1. TypeOK
  <2>1. 0 \in Times /\ 1 \in Times /\ Emptied \in Nat
    BY Numbers DEF Times, Emptied
  <2>2. event \in [Checkpoints -> [at : Times, pass : BOOLEAN]]
    BY <2>1 DEF Init
  <2>3. {status, candidate} \subseteq Report
    BY MissingReport DEF Init
  <2>4. /\ launch \in 0 .. MaxLaunches /\ refreshes \in 0 .. MaxRefreshes
        /\ workspace \in 0 .. MaxLaunches /\ runlock \in 0 .. Emptied
    BY Numbers, RunAssumption DEF Init, Free, Emptied
  <2>5. QED
    BY <2>1, <2>2, <2>3, <2>4 DEF Init, TypeOK
<1>2. ClockInv /\ EventInv
  BY Numbers DEF Init, ClockInv, EventInv
<1>3. LockInv /\ AliveInv /\ OwnInv
  BY Numbers DEF Init, LockInv, AliveInv, OwnInv, NoForeignCommand, Free, Emptied, Launches, Writing, Over
<1>4. ReportInv
  BY DEF Init, ReportInv, Sound, Missing, Writing
<1>5. QED
  BY <1>1, <1>2, <1>3, <1>4 DEF IInv

-----------------------------------------------------------------------------
(* Types, action by action.                                                *)
LEMMA LockTypeStep ==
    ASSUME TypeOK, LockInv,
           Start \/ CreateRunLock \/ ClearRunLock \/ RefuseRunLock \/ WriteRunLock
           \/ ReleaseRunLock \/ ReleaseWorkspace
    PROVE  TypeOK'
<1> USE Numbers DEF TypeOK, locks, checks, refresh, Moves, Exits, Times, Free, Emptied, Launches
<1>1. CASE Start
  <2>1. launch + 1 \in 0 .. MaxLaunches /\ launch + 1 # 0
    BY <1>1 DEF Start
  <2>2. QED
    BY <1>1, <2>1 DEF Start
<1>2. CASE CreateRunLock
  BY <1>2 DEF CreateRunLock
<1>7. CASE ClearRunLock
  BY <1>7 DEF ClearRunLock
<1>8. CASE WriteRunLock
  BY <1>8 DEF WriteRunLock
<1>3. CASE RefuseRunLock
  BY <1>3 DEF RefuseRunLock
<1>4. CASE ReleaseRunLock
  BY <1>4 DEF ReleaseRunLock
<1>5. CASE ReleaseWorkspace
  BY <1>5 DEF ReleaseWorkspace
<1>9. QED
  BY <1>1, <1>2, <1>3, <1>4, <1>5, <1>7, <1>8

LEMMA CommandTypeStep ==
    ASSUME TypeOK, LockInv,
           WriteInitial \/ LaunchCommand \/ Heartbeat \/ RunCheckpoint \/ CheckpointReturns
           \/ CheckpointsDone \/ WriteHeartbeat \/ CommandReturns \/ WriteResult \/ WriteFinal
    PROVE  TypeOK'
<1> USE Numbers DEF TypeOK, runner, locks, checks, refresh, Moves
<1>1. CASE WriteInitial \/ WriteHeartbeat \/ WriteFinal
  <2>1. \E run \in Runs, done \in Times : Snapshot(run, done)
    BY <1>1 DEF WriteInitial, WriteHeartbeat, WriteFinal, Runs, Terminal, Refreshing, Times
  <2>2. {status, candidate}' \subseteq Report /\ rpc' = rpc /\ refreshes' = refreshes
    BY <2>1, SnapshotType
  <2>3. pc' \in {"launch", "wait", "release"}
        /\ UNCHANGED <<clock, launch, started, observed, phase, todo, rc, alive, locks, checks,
                       broken, succeeded>>
    BY <1>1 DEF WriteInitial, WriteHeartbeat, WriteFinal
  <2>4. QED
    BY <2>2, <2>3
<1>2. CASE LaunchCommand \/ RunCheckpoint
  <2>1. pc # "idle" /\ pc' \in {"wait", "checking"}
        /\ UNCHANGED <<clock, launch, started, observed, phase, todo, rc, locks, checks, status,
                       refresh, broken, succeeded>>
    BY <1>2 DEF LaunchCommand, RunCheckpoint
  <2>2. alive' \subseteq Launches \X {"command", "checkpoint"}
    BY <1>2, <2>1 DEF LaunchCommand, RunCheckpoint, LockInv, Launches
  <2>3. QED
    BY <2>1, <2>2
<1>3. CASE Heartbeat
  <2>1. clock' \in Times \ {0} /\ observed' \in Times /\ todo' \subseteq Checkpoints
    BY <1>3 DEF Heartbeat, Expired, Times, ToRun
  <2>2. QED
    BY <1>3, <2>1 DEF Heartbeat
<1>4. CASE CheckpointReturns
  <2>1. clock' \in Times \ {0}
    BY <1>4 DEF CheckpointReturns, Times
  <2>2. PICK c \in todo, pass \in BOOLEAN :
            /\ event' = [event EXCEPT ![c] = [at |-> observed, pass |-> pass]]
            /\ passed' = IF pass /\ Due(c, started, observed) THEN passed \cup {<<launch, c>>}
                         ELSE passed
            /\ todo' = todo \ {c}
    BY <1>4 DEF CheckpointReturns
  <2>3. event' \in [Checkpoints -> [at : Times, pass : BOOLEAN]] /\ todo' \subseteq Checkpoints
    BY <2>2
  <2>4. passed' \subseteq Launches \X Checkpoints
    BY <1>4, <2>2 DEF CheckpointReturns, LockInv, Launches
  <2>5. QED
    BY <1>4, <2>1, <2>3, <2>4 DEF CheckpointReturns
<1>5. CASE CheckpointsDone
  BY <1>5 DEF CheckpointsDone
<1>6. CASE CommandReturns
  <2>1. succeeded' \subseteq Launches
    BY <1>6 DEF CommandReturns, LockInv, Launches
  <2>2. rc' \in {"none", "ok", "failed"} /\ alive' \subseteq alive /\ pc' = "result"
    BY <1>6 DEF CommandReturns
  <2>3. QED
    BY <1>6, <2>1, <2>2 DEF CommandReturns
<1>7. CASE WriteResult
  BY <1>7 DEF WriteResult, ToRun
<1>8. QED
  BY <1>1, <1>2, <1>3, <1>4, <1>5, <1>6, <1>7

LEMMA FaultTypeStep ==
    ASSUME TypeOK, LockInv, Faults \/ CommandEnds \/ TimePasses
    PROVE  TypeOK'
<1> USE Numbers DEF TypeOK, runner, locks, checks, refresh, Moves, Exits
<1>1. CASE RunnerFails
  BY <1>1 DEF RunnerFails
<1>2. CASE WriteRunLockFails \/ CleanupFails \/ ReleaseFails \/ Killed
  <2>1. launch # 0
    BY <1>2 DEF WriteRunLockFails, CleanupFails, ReleaseFails, Killed, LockInv, Own, Launches
  <2>2. alive' \subseteq alive /\ Exits(pc) /\ broken' = broken \cup {launch}
        /\ UNCHANGED <<locks, checks, status, refresh, succeeded>>
    BY <1>2 DEF WriteRunLockFails, CleanupFails, ReleaseFails, Killed, Own
  <2>3. 0 \in Times /\ launch \in Launches
    BY <2>1 DEF Launches, Times
  <2>4. QED
    BY <2>2, <2>3
<1>3. CASE CommandEnds
  BY <1>3 DEF CommandEnds
<1>4. CASE TimePasses
  BY <1>4 DEF TimePasses, Times
<1>5. QED
  BY <1>1, <1>2, <1>3, <1>4 DEF Faults

LEMMA RefreshTypeStep ==
    ASSUME TypeOK, Operator
    PROVE  TypeOK'
<1> USE Numbers DEF TypeOK, runner, locks, checks
<1>1. ASSUME NEW run \in Runs, NEW done \in Times, RefreshBuild(run, done)
      PROVE  TypeOK'
  <2>1. candidate' \in Report
    <3>1. CASE candidate' = candidate
      BY <3>1
    <3>2. ASSUME NEW fresh \in SUBSET Checkpoints,
                 candidate' = Build([run |-> run, start |-> 0, done |-> done, checkpoint |-> 0],
                                    status, clock, fresh)
          PROVE  candidate' \in Report
      <4>1. 0 \in Times
        BY DEF Times
      <4>2. QED
        BY <3>2, <4>1, BuiltType
    <3>3. QED
      BY <1>1, <3>1, <3>2 DEF RefreshBuild
  <2>2. refreshes' \in 0 .. MaxRefreshes
    BY <1>1, RunAssumption DEF RefreshBuild
  <2>3. QED
    BY <1>1, <2>1, <2>2 DEF RefreshBuild
<1>2. CASE RefreshPromote
  BY <1>2, MissingReport DEF RefreshPromote
<1>3. CASE RefreshStops
  BY <1>3 DEF RefreshStops
<1>4. QED
  BY <1>1, <1>2, <1>3, RunAssumption DEF Operator, Runs, Terminal, Refreshing, Times

LEMMA TypeStep == TypeOK /\ LockInv /\ [Next]_vars => TypeOK'
<1> SUFFICES ASSUME TypeOK, LockInv, [Next]_vars PROVE TypeOK'
  OBVIOUS
<1>1. CASE UNCHANGED vars
  BY <1>1 DEF vars, runner, locks, checks, refresh, TypeOK
<1>2. CASE \E p \in alive : LeftoverEnds(p)
  BY <1>2 DEF LeftoverEnds, TypeOK, runner, locks, checks, refresh
<1>3. CASE Step
  BY <1>3, LockTypeStep, CommandTypeStep DEF Step
<1>4. QED
  BY <1>1, <1>2, <1>3, LockTypeStep, FaultTypeStep, RefreshTypeStep DEF Next

-----------------------------------------------------------------------------
\* The steps that exit, and those that leave the time and the events alone.
Exit ==
    \/ RefuseRunLock \/ WriteRunLockFails \/ ReleaseWorkspace \/ CleanupFails \/ ReleaseFails
    \/ Killed
Timeless ==
    \/ CreateRunLock \/ ClearRunLock \/ WriteRunLock \/ WriteInitial \/ LaunchCommand
    \/ RunCheckpoint \/ CheckpointsDone \/ WriteHeartbeat \/ CommandReturns \/ WriteFinal
    \/ ReleaseRunLock \/ RunnerFails \/ CommandEnds \/ (\E p \in alive : LeftoverEnds(p))
    \/ Operator

LEMMA NextCases ==
    Next => Start \/ Heartbeat \/ CheckpointReturns \/ WriteResult \/ TimePasses \/ Exit \/ Timeless
BY DEF Next, Step, Faults, Exit, Timeless

LEMMA TimelessFacts ==
    ASSUME Timeless
    PROVE  /\ UNCHANGED <<clock, launch, started, observed, event, passed>>
           /\ pc' # "idle" => pc # "idle"
           /\ broken' = broken /\ succeeded \subseteq succeeded'
<1> USE DEF Moves, runner, locks, checks, refresh
<1>1. CASE CreateRunLock \/ ClearRunLock \/ WriteRunLock \/ LaunchCommand \/ RunCheckpoint
           \/ CheckpointsDone \/ ReleaseRunLock \/ RunnerFails
  BY <1>1 DEF CreateRunLock, ClearRunLock, WriteRunLock, LaunchCommand, RunCheckpoint,
              CheckpointsDone, ReleaseRunLock, RunnerFails
<1>2. CASE WriteInitial \/ WriteHeartbeat \/ WriteFinal
  BY <1>2 DEF WriteInitial, WriteHeartbeat, WriteFinal
<1>3. CASE CommandReturns
  BY <1>3 DEF CommandReturns
<1>4. CASE CommandEnds \/ \E p \in alive : LeftoverEnds(p)
  BY <1>4 DEF CommandEnds, LeftoverEnds
<1>5. CASE Operator
  BY <1>5 DEF Operator, RefreshBuild, RefreshPromote, RefreshStops
<1>6. QED
  BY <1>1, <1>2, <1>3, <1>4, <1>5 DEF Timeless

LEMMA ExitFacts ==
    ASSUME Exit
    PROVE  /\ pc' = "idle" /\ started' = 0 /\ observed' = 0
           /\ rc' = "none"
           /\ UNCHANGED <<clock, launch, event, passed, status, candidate, runlock, succeeded>>
           /\ broken \subseteq broken'
BY DEF Exit, RefuseRunLock, WriteRunLockFails, ReleaseWorkspace, CleanupFails, ReleaseFails,
       Killed, Exits, locks, checks, refresh

LEMMA ClockStep ==
    ASSUME TypeOK, ClockInv, [Next]_vars
    PROVE  ClockInv'
<1> USE Numbers
<1>1. clock \in Nat \ {0} /\ started \in Nat /\ observed \in Nat
      /\ \A c \in Checkpoints : event[c].at \in Nat
  BY DEF TypeOK, Times
<1>2. CASE Start
  BY <1>1, <1>2 DEF Start, ClockInv, checks
<1>3. CASE Heartbeat
  BY <1>1, <1>3 DEF Heartbeat, ClockInv, checks
<1>4. CASE CheckpointReturns
  <2>1. clock' \in Nat /\ clock <= clock' /\ UNCHANGED <<started, observed>> /\ pc # "idle"
    BY <1>1, <1>4 DEF CheckpointReturns
  <2>2. \A c \in Checkpoints : event'[c].at \in {event[c].at, observed}
    BY <1>4 DEF CheckpointReturns, TypeOK
  <2>3. QED
    BY <1>1, <2>1, <2>2 DEF ClockInv
<1>5. CASE WriteResult
  BY <1>1, <1>5 DEF WriteResult, ClockInv, checks
<1>6. CASE TimePasses
  BY <1>1, <1>6 DEF TimePasses, ClockInv, runner, checks
<1>7. CASE Exit
  BY <1>1, <1>7, ExitFacts DEF ClockInv
<1>8. CASE Timeless
  BY <1>8, TimelessFacts DEF ClockInv
<1>9. CASE UNCHANGED vars
  BY <1>9 DEF vars, runner, checks, ClockInv
<1>10. QED
  BY <1>2, <1>3, <1>4, <1>5, <1>6, <1>7, <1>8, <1>9, NextCases

-----------------------------------------------------------------------------
(* The locks.                                                              *)
LEMMA LockStep ==
    ASSUME TypeOK, LockInv, [Next]_vars
    PROVE  LockInv'
<1> USE DEF TypeOK, LockInv, Writing, Free, locks, Moves
<1>1. CASE Start
  <2>1. launch' # 0 /\ workspace' = launch' /\ pc' = "runlock"
        /\ pc = "idle" /\ UNCHANGED <<runlock, broken>>
    BY <1>1, Numbers DEF Start
  <2>2. QED
    BY <2>1
<1>2. CASE CreateRunLock \/ ClearRunLock \/ WriteRunLock \/ ReleaseRunLock
  BY <1>2, Numbers DEF CreateRunLock, ClearRunLock, WriteRunLock, ReleaseRunLock, Emptied, Launches
<1>3. CASE RefuseRunLock
  BY <1>3 DEF RefuseRunLock, Exits
<1>4. CASE ReleaseWorkspace
  BY <1>4, Numbers DEF ReleaseWorkspace, Exits, Emptied, Launches
<1>5. CASE WriteRunLockFails \/ CleanupFails \/ ReleaseFails \/ Killed
  <2>1. broken' = broken \cup {launch} /\ pc' = "idle" /\ UNCHANGED <<workspace, runlock, launch>>
        /\ pc # "idle"
    <3>1. CASE WriteRunLockFails
      BY <3>1 DEF WriteRunLockFails, Exits
    <3>2. CASE CleanupFails
      BY <3>2 DEF CleanupFails, Exits
    <3>3. CASE ReleaseFails
      BY <3>3 DEF ReleaseFails, Exits
    <3>4. CASE Killed
      BY <3>4 DEF Killed, Exits
    <3>5. QED
      BY <1>5, <3>1, <3>2, <3>3, <3>4
  <2>2. workspace = launch /\ launch \in broken'
    BY <2>1
  <2>3. runlock \in {launch, Free, Emptied} \/ runlock \in broken
    <3>1. pc \in Writing \cup {"initial", "release", "created", "unlock", "runlock"}
      BY <2>1
    <3>2. runlock \in Launches \cup {Free, Emptied}
      BY Numbers DEF Launches, Emptied
    <3>3. QED
      BY <3>1, <3>2
  <2>4. 0 \notin Launches /\ Emptied \notin Launches
    BY Numbers DEF Launches, Emptied
  <2>5. QED
    BY <2>1, <2>2, <2>3, <2>4
<1>6. CASE WriteInitial \/ LaunchCommand \/ Heartbeat \/ RunCheckpoint \/ CheckpointReturns
           \/ CheckpointsDone \/ WriteHeartbeat \/ CommandReturns \/ WriteResult \/ WriteFinal
           \/ RunnerFails
  <2>1. pc \in Writing \cup {"initial"} /\ pc' \in Writing \cup {"release"}
        /\ UNCHANGED <<workspace, runlock, launch, broken>>
    BY <1>6 DEF WriteInitial, LaunchCommand, Heartbeat, RunCheckpoint, CheckpointReturns,
                CheckpointsDone, WriteHeartbeat, CommandReturns, WriteResult, WriteFinal, RunnerFails
  <2>2. QED
    BY <2>1
<1>7. CASE CommandEnds \/ TimePasses \/ Operator \/ (\E p \in alive : LeftoverEnds(p))
           \/ UNCHANGED vars
  <2>1. UNCHANGED <<pc, launch, workspace, runlock, broken>>
    BY <1>7 DEF CommandEnds, TimePasses, Operator, RefreshBuild, RefreshPromote, RefreshStops,
                LeftoverEnds, vars, runner
  <2>2. QED
    BY <2>1
<1>8. QED
  BY <1>1, <1>2, <1>3, <1>4, <1>5, <1>6, <1>7 DEF Next, Step, Faults

-----------------------------------------------------------------------------
(* The commands that live.                                                 *)
LEMMA Inhabitants ==
    ASSUME TypeOK, NEW p \in alive
    PROVE  p[1] \in Nat \ {0} /\ p[2] \in Kinds /\ p = <<p[1], p[2]>>
BY DEF TypeOK, Launches, Kinds

\* A step inside a launch that ends commands, or starts one of its own.
LEMMA InLaunch ==
    ASSUME TypeOK, AliveInv, pc # "idle", pc' # "idle", UNCHANGED <<launch, broken>>,
           NEW kind, alive' \subseteq alive \cup {<<launch, kind>>}
    PROVE  AliveInv'
<1>1. launch \in Nat
  BY DEF TypeOK
<1>2. \A p \in alive' : p \in alive \/ p[1] = launch
  OBVIOUS
<1>3. QED
  BY <1>1, <1>2 DEF AliveInv, NoForeignCommand

LEMMA AliveStep ==
    ASSUME TypeOK, LockInv, AliveInv, OwnInv, [Next]_vars
    PROVE  AliveInv'
<1> USE DEF Moves, locks
<1>1. CASE Start
  <2>1. /\ pc = "idle" /\ pc' = "runlock" /\ launch' = launch + 1
        /\ workspace = Free \/ <<workspace, "command">> \notin alive
        /\ UNCHANGED <<alive, broken>>
    BY <1>1 DEF Start, Stale
  <2>2. ASSUME NEW p \in alive
        PROVE  p[1] <= launch /\ p[1] # launch + 1 /\ p[1] \in broken /\ p[2] = "checkpoint"
    <3>1. p[1] \in Nat \ {0} /\ p[2] \in Kinds /\ p = <<p[1], p[2]>> /\ launch \in Nat
      BY Inhabitants DEF TypeOK
    <3>2. p[1] <= launch /\ p[1] \in broken /\ (p[2] = "command" => workspace = p[1])
      BY <2>1 DEF AliveInv
    <3>3. p[2] # "command"
      BY <2>1, <3>1, <3>2 DEF Free
    <3>4. QED
      BY <3>1, <3>2, <3>3 DEF Kinds
  <2>3. \A p \in alive' : p[1] <= launch'
    <3>1. SUFFICES ASSUME NEW p \in alive PROVE p[1] <= launch + 1
      BY <2>1
    <3>2. QED
      BY <2>2, Inhabitants DEF TypeOK
  <2>4. QED
    BY <2>1, <2>2, <2>3 DEF AliveInv, NoForeignCommand
<1>2. CASE RefuseRunLock \/ ReleaseWorkspace
  <2>1. /\ pc \in {"runlock", "unlock"} /\ pc' = "idle"
        /\ UNCHANGED <<alive, broken, launch>>
    BY <1>2 DEF RefuseRunLock, ReleaseWorkspace, Exits
  <2>2. ASSUME NEW p \in alive
        PROVE  p[1] \in broken /\ p[2] # "command"
    <3>1. p[2] \in Kinds /\ p = <<p[1], p[2]>>
      BY Inhabitants
    <3>2. p[1] # launch
      BY <2>1, <3>1 DEF OwnInv, Kinds
    <3>3. QED
      BY <2>1, <3>2 DEF AliveInv, NoForeignCommand
  <2>3. QED
    BY <2>1, <2>2 DEF AliveInv, NoForeignCommand
<1>3. CASE WriteRunLockFails \/ CleanupFails \/ ReleaseFails \/ Killed
  <2>1. /\ pc # "idle" /\ pc' = "idle" /\ broken' = broken \cup {launch}
        /\ alive' \subseteq alive /\ UNCHANGED <<launch, workspace>>
    <3>1. CASE WriteRunLockFails
      BY <3>1 DEF WriteRunLockFails, Exits
    <3>2. CASE CleanupFails
      BY <3>2 DEF CleanupFails, Exits, Own
    <3>3. CASE ReleaseFails
      BY <3>3 DEF ReleaseFails, Exits
    <3>4. CASE Killed
      BY <3>4 DEF Killed, Exits
    <3>5. QED
      BY <1>3, <3>1, <3>2, <3>3, <3>4
  <2>2. workspace = launch
    BY <2>1 DEF LockInv
  <2>3. QED
    BY <2>1, <2>2 DEF AliveInv, NoForeignCommand
<1>4. CASE CreateRunLock \/ ClearRunLock \/ WriteRunLock \/ WriteInitial \/ CheckpointsDone
           \/ WriteHeartbeat \/ WriteFinal \/ ReleaseRunLock \/ Heartbeat \/ WriteResult
  <2>1. pc # "idle" /\ pc' # "idle" /\ UNCHANGED <<launch, broken, alive>>
    <3>1. CASE CreateRunLock \/ ClearRunLock \/ WriteRunLock \/ WriteInitial
      BY <3>1 DEF CreateRunLock, ClearRunLock, WriteRunLock, WriteInitial
    <3>2. CASE CheckpointsDone
      BY <3>2 DEF CheckpointsDone, TypeOK
    <3>3. CASE WriteHeartbeat \/ WriteFinal \/ ReleaseRunLock \/ Heartbeat \/ WriteResult
      BY <3>3 DEF WriteHeartbeat, WriteFinal, ReleaseRunLock, Heartbeat, WriteResult
    <3>4. QED
      BY <1>4, <3>1, <3>2, <3>3
  <2>2. QED
    BY <2>1, InLaunch
<1>5. CASE LaunchCommand
  BY <1>5, InLaunch DEF LaunchCommand
<1>6. CASE RunCheckpoint
  BY <1>6, InLaunch DEF RunCheckpoint
<1>7. CASE CheckpointReturns
  BY <1>7, InLaunch DEF CheckpointReturns
<1>8. CASE CommandReturns
  BY <1>8, InLaunch DEF CommandReturns
<1>9. CASE RunnerFails
  BY <1>9, InLaunch DEF RunnerFails
<1>10. CASE CommandEnds
  BY <1>10, InLaunch DEF CommandEnds
<1>11. CASE TimePasses \/ Operator \/ (\E p \in alive : LeftoverEnds(p)) \/ UNCHANGED vars
  <2>1. UNCHANGED <<pc, launch, workspace, broken>> /\ alive' \subseteq alive
    BY <1>11 DEF TimePasses, Operator, RefreshBuild, RefreshPromote, RefreshStops,
                 LeftoverEnds, vars, runner
  <2>2. QED
    BY <2>1 DEF AliveInv, NoForeignCommand
<1>12. QED
  BY <1>1, <1>2, <1>3, <1>4, <1>5, <1>6, <1>7, <1>8, <1>9, <1>10, <1>11 DEF Next, Step, Faults

LEMMA OwnStep ==
    ASSUME TypeOK, AliveInv, OwnInv, [Next]_vars
    PROVE  OwnInv'
<1> USE DEF Moves, Unlaunched, Over
<1>1. CASE Start
  <2>1. pc = "idle" /\ pc' = "runlock" /\ launch' = launch + 1 /\ UNCHANGED <<alive, rc>>
    BY <1>1 DEF Start
  <2>2. \A p \in alive : p[1] # launch + 1
    <3>1. SUFFICES ASSUME NEW p \in alive PROVE p[1] # launch + 1
      OBVIOUS
    <3>2. QED
      BY Inhabitants DEF AliveInv, TypeOK
  <2>3. <<launch + 1, "command">> \notin alive /\ <<launch + 1, "checkpoint">> \notin alive
    BY <2>2
  <2>4. QED
    BY <2>1, <2>3 DEF OwnInv
<1>2. CASE Exit
  BY <1>2, ExitFacts DEF OwnInv
<1>3. CASE CreateRunLock \/ ClearRunLock \/ WriteRunLock \/ WriteInitial
  <2>1. /\ pc \in {"runlock", "created", "initial"}
        /\ pc' \in {"runlock", "created", "initial", "launch"}
        /\ UNCHANGED <<launch, rc, alive>>
    BY <1>3 DEF CreateRunLock, ClearRunLock, WriteRunLock, WriteInitial
  <2>2. QED
    BY <2>1 DEF OwnInv
<1>4. CASE LaunchCommand
  <2>1. /\ pc = "launch" /\ pc' = "wait" /\ UNCHANGED <<launch, rc>>
        /\ alive' = alive \cup {<<launch, "command">>}
    BY <1>4 DEF LaunchCommand
  <2>2. QED
    BY <2>1 DEF OwnInv
<1>5. CASE Heartbeat
  <2>1. pc = "wait" /\ pc' = "check" /\ phase' = "beat" /\ UNCHANGED <<launch, rc, alive>>
    BY <1>5 DEF Heartbeat
  <2>2. QED
    BY <2>1 DEF OwnInv
<1>6. CASE RunCheckpoint
  <2>1. /\ pc = "check" /\ pc' = "checking" /\ UNCHANGED <<launch, rc, phase, succeeded>>
        /\ alive' = alive \cup {<<launch, "checkpoint">>}
    BY <1>6 DEF RunCheckpoint
  <2>2. QED
    BY <2>1 DEF OwnInv
<1>7. CASE CheckpointReturns
  <2>1. /\ pc = "checking" /\ pc' = "check" /\ UNCHANGED <<launch, rc, phase, succeeded>>
        /\ alive' = alive \ {<<launch, "checkpoint">>}
    BY <1>7 DEF CheckpointReturns
  <2>2. QED
    BY <2>1 DEF OwnInv
<1>8. CASE CheckpointsDone
  <2>1. pc = "check" /\ pc' = phase /\ UNCHANGED <<launch, rc, phase, succeeded, alive>>
    BY <1>8 DEF CheckpointsDone
  <2>2. QED
    BY <2>1 DEF OwnInv, TypeOK
<1>9. CASE WriteHeartbeat
  <2>1. pc = "beat" /\ pc' = "wait" /\ UNCHANGED <<launch, rc, alive>>
    BY <1>9 DEF WriteHeartbeat
  <2>2. QED
    BY <2>1 DEF OwnInv
<1>10. CASE CommandReturns
  <2>1. /\ pc = "wait" /\ pc' = "result" /\ UNCHANGED launch
        /\ succeeded' = IF rc = "ok" THEN succeeded \cup {launch} ELSE succeeded
        /\ \/ rc # "none" /\ rc' = rc /\ alive' = alive
           \/ rc = "none" /\ rc' = "failed" /\ alive' = alive \ {<<launch, "command">>}
    BY <1>10 DEF CommandReturns
  <2>2. QED
    BY <2>1 DEF OwnInv
<1>11. CASE WriteResult
  <2>1. pc = "result" /\ pc' = "check" /\ UNCHANGED <<launch, rc, alive, succeeded>>
    BY <1>11 DEF WriteResult
  <2>2. QED
    BY <2>1 DEF OwnInv
<1>12. CASE WriteFinal \/ ReleaseRunLock
  <2>1. pc \in {"final", "release"} /\ pc' \in {"release", "unlock"} /\ UNCHANGED <<launch, rc, alive>>
    BY <1>12 DEF WriteFinal, ReleaseRunLock
  <2>2. QED
    BY <2>1 DEF OwnInv
<1>13. CASE RunnerFails
  <2>1. pc' = "release" /\ launch' = launch /\ alive' = alive \ Own
    BY <1>13 DEF RunnerFails
  <2>2. QED
    BY <2>1, Inhabitants DEF OwnInv, Own, Kinds, TypeOK
<1>14. CASE CommandEnds
  <2>1. /\ pc # "idle" /\ <<launch, "command">> \in alive
        /\ alive' = alive \ {<<launch, "command">>} /\ UNCHANGED <<pc, launch, phase>>
    BY <1>14 DEF CommandEnds
  <2>2. QED
    BY <2>1 DEF OwnInv
<1>15. CASE TimePasses \/ Operator \/ (\E p \in alive : LeftoverEnds(p)) \/ UNCHANGED vars
  <2>1. UNCHANGED <<pc, launch, rc, phase, succeeded>> /\ alive' \subseteq alive
    BY <1>15 DEF TimePasses, Operator, RefreshBuild, RefreshPromote, RefreshStops,
                 LeftoverEnds, vars, runner
  <2>2. QED
    BY <2>1 DEF OwnInv
<1>16. QED
  BY <1>1, <1>2, <1>3, <1>4, <1>5, <1>6, <1>7, <1>8, <1>9, <1>10, <1>11, <1>12, <1>13, <1>14,
     <1>15 DEF Next, Step, Faults, Exit

-----------------------------------------------------------------------------
(* The command log and the reports.                                        *)
\* No checkpoint of a run that starts now has run since it was due.
LEMMA NoEventAhead ==
    ASSUME TypeOK, ClockInv
    PROVE  \A l : PassedSince(l, clock)
<1>1. SUFFICES ASSUME NEW c \in Checkpoints PROVE ~ (event[c].at >= clock + DueAfter[c])
  BY DEF PassedSince
<1>2. event[c].at \in Nat /\ clock \in Nat /\ DueAfter[c] \in Nat \ {0} /\ event[c].at <= clock
  BY Numbers DEF TypeOK, Times, ClockInv
<1>3. QED
  BY <1>2

LEMMA EventStep ==
    ASSUME TypeOK, ClockInv, LockInv, EventInv, [Next]_vars
    PROVE  EventInv'
<1> USE DEF EventInv, PassedSince
<1>1. CASE Start
  <2>1. started' = clock /\ UNCHANGED <<event, passed>>
    BY <1>1 DEF Start, checks
  <2>2. QED
    BY <2>1, NoEventAhead
<1>2. CASE CheckpointReturns
  <2>1. PICK c \in todo, pass \in BOOLEAN :
            /\ event' = [event EXCEPT ![c] = [at |-> observed, pass |-> pass]]
            /\ passed' = IF pass /\ Due(c, started, observed) THEN passed \cup {<<launch, c>>}
                         ELSE passed
    BY <1>2 DEF CheckpointReturns
  <2>2. UNCHANGED <<launch, started>> /\ pc # "idle"
    BY <1>2 DEF CheckpointReturns
  <2>3. ASSUME NEW d \in Checkpoints, event'[d].pass, event'[d].at >= started + DueAfter[d]
        PROVE  <<launch, d>> \in passed'
    <3>1. CASE d = c
      <4>1. event'[d] = [at |-> observed, pass |-> pass]
        BY <2>1, <3>1 DEF TypeOK
      <4>2. Due(c, started, observed) /\ pass
        BY <2>3, <3>1, <4>1, Numbers DEF Due, TypeOK, Times
      <4>3. QED
        BY <2>1, <3>1, <4>2
    <3>2. CASE d # c
      BY <2>1, <2>2, <2>3, <3>2 DEF TypeOK
    <3>3. QED
      BY <3>1, <3>2
  <2>4. QED
    BY <2>2, <2>3
<1>3. CASE Heartbeat \/ WriteResult
  BY <1>3 DEF Heartbeat, WriteResult, checks
<1>4. CASE Exit \/ TimePasses
  BY <1>4, ExitFacts DEF TimePasses, runner
<1>5. CASE Timeless
  BY <1>5, TimelessFacts
<1>6. CASE UNCHANGED vars
  BY <1>6 DEF vars, runner, checks
<1>7. QED
  BY <1>1, <1>2, <1>3, <1>4, <1>5, <1>6, NextCases

\* The fields of a report that is built, and what its periodic evidence says.
LEMMA BuiltFacts ==
    ASSUME NEW run, NEW start, NEW done, NEW checkpoint, NEW prior, NEW now, NEW fresh,
           NEW b, NEW req,
           req = [run |-> run, start |-> start, done |-> done, checkpoint |-> checkpoint],
           b = Build(req, prior, now, fresh)
    PROVE  /\ Preserved(req, prior) =>
                 start = 0 /\ done = 0 /\ b.run = prior.run /\ b.explicit = prior.explicit
           /\ ~ Preserved(req, prior) => b.run = run /\ b.explicit = (start = 0 /\ run \in Terminal)
           /\ b.launch = (IF start # 0 THEN launch ELSE prior.launch)
           /\ b.start = Or(start, Or(prior.start, now))
           /\ b.checkpoint = Or(checkpoint, Or(prior.checkpoint, now))
           /\ b.behind = (start = 0 /\ prior.behind)
           /\ b.periodic = "current" =>
                 \A c \in Checkpoints :
                     Due(c, b.start, IF b.run \in Terminal THEN b.done ELSE now) =>
                         event[c].pass /\ event[c].at >= b.start + DueAfter[c]
<1>1. /\ b.start = Or(start, Or(prior.start, now))
      /\ b.checkpoint = Or(checkpoint, Or(prior.checkpoint, now))
      /\ b.launch = (IF start # 0 THEN launch ELSE prior.launch)
      /\ b.behind = (start = 0 /\ prior.behind)
  BY DEF Build
<1>2. /\ Preserved(req, prior) => b.run = prior.run /\ b.explicit = prior.explicit
      /\ ~ Preserved(req, prior) => b.run = run /\ b.explicit = (start = 0 /\ run \in Terminal)
  BY DEF Build
<1>3. Preserved(req, prior) => start = 0 /\ done = 0
  BY DEF Preserved
<1>4. b.periodic = Periodic(b.start, IF b.run \in Terminal THEN b.done ELSE now, b.checkpoint, fresh)
  BY DEF Build
<1>5. ASSUME b.periodic = "current", NEW c \in Checkpoints,
             Due(c, b.start, IF b.run \in Terminal THEN b.done ELSE now)
      PROVE  event[c].pass /\ event[c].at >= b.start + DueAfter[c]
  <2>1. Observed(c, b.start, IF b.run \in Terminal THEN b.done ELSE now, b.checkpoint)
    BY <1>4, <1>5, PeriodicFacts
  <2>2. QED
    BY <1>5, <2>1, ObservedFacts
<1>6. QED
  BY <1>1, <1>2, <1>3, <1>5

\* A snapshot of the runner is about its launch.
LEMMA SnapshotSound ==
    ASSUME TypeOK, ClockInv, LockInv, EventInv, ReportInv,
           pc \in {"initial", "beat", "final"}, pc' \in {"launch", "wait", "release"},
           NEW run \in Runs, NEW done \in Times, Snapshot(run, done),
           run = "completed" => launch \in succeeded,
           UNCHANGED <<clock, launch, started, event, passed, succeeded>>
    PROVE  ReportInv'
<1>1. PICK fresh \in SUBSET Checkpoints :
          status' = Build([run |-> run, start |-> started, done |-> done, checkpoint |-> observed],
                          status, observed, fresh)
  BY DEF Snapshot
<1> DEFINE req == [run |-> run, start |-> started, done |-> done, checkpoint |-> observed]
<1>2. /\ started \in Nat \ {0} /\ observed \in Nat \ {0} /\ clock \in Nat
      /\ started <= clock /\ observed <= clock
  BY DEF TypeOK, Times, ClockInv
<1>3. ~ Preserved(req, status)
  BY <1>2 DEF Preserved
<1>4. /\ status'.run = run /\ status'.launch = launch /\ status'.start = started
      /\ status'.checkpoint = observed /\ ~ status'.behind
      /\ status'.periodic = "current" =>
            \A c \in Checkpoints :
                Due(c, started, IF run \in Terminal THEN status'.done ELSE observed) =>
                    event[c].pass /\ event[c].at >= started + DueAfter[c]
  <2>1. req = [run |-> run, start |-> started, done |-> done, checkpoint |-> observed]
    OBVIOUS
  <2>2. Or(started, Or(status.start, observed)) = started
        /\ Or(observed, Or(status.checkpoint, observed)) = observed
    BY <1>2 DEF Or
  <2> HIDE DEF req
  <2>3. status'.run = run /\ status'.start = started /\ status'.checkpoint = observed
    BY <1>1, <1>3, <2>1, <2>2, BuiltFacts
  <2>4. status'.launch = (IF started # 0 THEN launch ELSE status.launch)
        /\ status'.behind = (started = 0 /\ status.behind)
    BY <1>1, <2>1, BuiltFacts
  <2>5. status'.periodic = "current" =>
            \A c \in Checkpoints :
                Due(c, status'.start, IF status'.run \in Terminal THEN status'.done ELSE observed) =>
                    event[c].pass /\ event[c].at >= status'.start + DueAfter[c]
    BY <1>1, <2>1, BuiltFacts
  <2>6. QED
    BY <1>2, <2>3, <2>4, <2>5
<1>5. PassedSince(launch, started) /\ PassedSince(launch, started)'
  BY DEF EventInv, PassedSince
<1>6. Sound(status)'
  <2>1. status'.start # 0 /\ status' # Missing
    BY <1>2, <1>4 DEF Missing
  <2>2. PassedSince(status.launch, status.start)'
    BY <1>4, <1>5 DEF PassedSince
  <2>3. status'.periodic = "current" =>
            \A c \in Checkpoints :
                Due(c, status'.start, Now(status)') => <<status'.launch, c>> \in passed'
    <3>1. Now(status)' = IF run \in Terminal THEN status'.done ELSE observed
      BY <1>4 DEF Now
    <3>2. QED
      BY <1>4, <1>5, <3>1 DEF PassedSince
  <2>4. status'.start <= clock' /\ status'.checkpoint <= clock'
    BY <1>2, <1>4
  <2>5. status'.launch = launch' /\ status'.start = started'
    BY <1>4
  <2>6. status'.run = "completed" => status'.launch \in succeeded'
    BY <1>4
  <2>7. QED
    BY <2>1, <2>2, <2>3, <2>4, <2>5, <2>6 DEF Sound, Due
<1>7. Sound(candidate)'
  <2>1. candidate' = IF candidate = Missing THEN Missing ELSE [candidate EXCEPT !.behind = TRUE]
    BY DEF Snapshot, Outdated
  <2>2. CASE candidate = Missing
    BY <1>2, <2>1, <2>2 DEF Sound, Missing
  <2>3. CASE candidate # Missing
    <3>1. /\ candidate'.start = candidate.start /\ candidate'.checkpoint = candidate.checkpoint
          /\ candidate'.run = candidate.run /\ candidate'.explicit = candidate.explicit
          /\ candidate'.launch = candidate.launch /\ candidate'.behind
      BY <2>1, <2>3 DEF TypeOK, Report
    <3>2. Sound(candidate)
      BY DEF ReportInv
    <3>3. QED
      BY <2>3, <3>1, <3>2 DEF Sound
  <2>4. QED
    BY <2>2, <2>3
<1>8. status' # Missing
  BY <1>2, <1>4 DEF Missing
<1>9. QED
  BY <1>6, <1>7, <1>8 DEF ReportInv

\* A candidate that a refresh builds says of its launch what was so.
LEMMA RefreshSound ==
    ASSUME TypeOK, ClockInv, ReportInv, NEW run \in Runs, NEW done \in Times,
           RefreshBuild(run, done)
    PROVE  ReportInv'
<1>1. UNCHANGED <<clock, pc, launch, started, event, passed, succeeded, status>>
  BY DEF RefreshBuild, runner, checks
<1>2. Sound(status)'
  BY <1>1 DEF ReportInv, Sound, PassedSince, Now, Due
<1>3. CASE candidate' = candidate
  BY <1>1, <1>2, <1>3 DEF ReportInv, Sound, PassedSince, Now, Due
<1>4. ASSUME NEW fresh \in SUBSET Checkpoints,
             candidate' = Build([run |-> run, start |-> 0, done |-> done, checkpoint |-> 0],
                                status, clock, fresh)
      PROVE  ReportInv'
  <2> DEFINE req == [run |-> run, start |-> 0, done |-> done, checkpoint |-> 0]
  <2>1. /\ clock \in Nat \ {0} /\ status.start \in Nat /\ status.checkpoint \in Nat
        /\ status.start <= clock /\ status.checkpoint <= clock
    BY DEF TypeOK, Times, Report, ReportInv, Sound
  <2>2. /\ Preserved(req, status) =>
              candidate'.run = status.run /\ candidate'.explicit = status.explicit
        /\ ~ Preserved(req, status) =>
              candidate'.run = run /\ candidate'.explicit = (run \in Terminal)
        /\ candidate'.launch = status.launch /\ candidate'.behind = status.behind
        /\ candidate'.start = Or(status.start, clock)
        /\ candidate'.checkpoint = Or(status.checkpoint, clock)
        /\ candidate'.periodic = "current" =>
              \A c \in Checkpoints :
                  Due(c, candidate'.start,
                      IF candidate'.run \in Terminal THEN candidate'.done ELSE clock) =>
                          event[c].pass /\ event[c].at >= candidate'.start + DueAfter[c]
    <3>1. req = [run |-> run, start |-> 0, done |-> done, checkpoint |-> 0]
      OBVIOUS
    <3>2. \A t : Or(0, t) = t
      BY DEF Or
    <3> HIDE DEF req
    <3>3. status.behind \in BOOLEAN /\ candidate'.behind = (0 = 0 /\ status.behind)
      BY <1>4, <3>1, BuiltFacts DEF TypeOK, Report
    <3>4. QED
      BY <1>4, <3>1, <3>2, <3>3, BuiltFacts
  <2>3. candidate'.start \in Nat \ {0} /\ candidate'.start <= clock /\ candidate'.checkpoint <= clock
    BY <2>1, <2>2 DEF Or
  <2>4. candidate'.run = "completed" /\ ~ candidate'.explicit => candidate'.launch \in succeeded
    BY <2>2 DEF Terminal, ReportInv, Sound
  <2>5. ASSUME ~ candidate'.behind
        PROVE  /\ PassedSince(candidate'.launch, candidate'.start)
               /\ pc \in Writing => candidate'.launch = launch /\ candidate'.start = started
    <3>1. CASE status = Missing
      <4>1. candidate'.start = clock
        BY <2>2, <3>1 DEF Missing, Or
      <4>2. pc \notin Writing
        BY <3>1 DEF ReportInv
      <4>3. QED
        BY <4>1, <4>2, NoEventAhead
    <3>2. CASE status # Missing
      <4>1. candidate'.start = status.start /\ ~ status.behind
        BY <2>2, <2>5, <3>2 DEF Or, ReportInv, Sound
      <4>2. QED
        BY <2>2, <3>2, <4>1 DEF ReportInv, Sound
    <3>3. QED
      BY <3>1, <3>2
  <2>6. ASSUME ~ candidate'.behind, candidate'.periodic = "current",
               NEW c \in Checkpoints, Due(c, candidate'.start, Now(candidate'))
        PROVE  <<candidate'.launch, c>> \in passed
    <3>1. Due(c, candidate'.start,
              IF candidate'.run \in Terminal THEN candidate'.done ELSE clock)
      <4>1. CASE candidate'.run \in Terminal
        BY <2>6, <4>1 DEF Now
      <4>2. CASE candidate'.run \notin Terminal
        <5>1. Due(c, candidate'.start, candidate'.checkpoint)
          BY <2>6, <4>2 DEF Now
        <5>2. candidate'.checkpoint \in Nat
          BY <2>1, <2>2 DEF Or
        <5>3. QED
          BY <2>1, <2>3, <4>2, <5>1, <5>2, Numbers DEF Due
      <4>3. QED
        BY <4>1, <4>2
    <3>2. QED
      BY <2>2, <2>5, <2>6, <3>1 DEF PassedSince
  <2>7. Sound(candidate)'
    BY <1>1, <2>3, <2>4, <2>5, <2>6 DEF Sound, PassedSince, Now, Due
  <2>8. QED
    BY <1>1, <1>2, <2>7 DEF ReportInv
<1>5. QED
  BY <1>3, <1>4 DEF RefreshBuild

\* What a report says stays so while the launch goes on, and once it is over.
LEMMA ReportKept ==
    ASSUME TypeOK, ReportInv, UNCHANGED <<status, candidate>>,
           clock' \in Nat, clock <= clock', succeeded \subseteq succeeded', passed \subseteq passed',
           pc' \in Writing => pc \in Writing /\ UNCHANGED <<launch, started>>,
           \A c \in Checkpoints :
               \/ event'[c] = event[c]
               \/ /\ pc \in Writing
                  /\ event'[c].pass /\ event'[c].at >= started + DueAfter[c] =>
                        <<launch, c>> \in passed'
    PROVE  ReportInv'
<1>1. ASSUME NEW r \in Report, Sound(r)
      PROVE  /\ r.start = 0 => r = Missing
             /\ r.start <= clock' /\ r.checkpoint <= clock'
             /\ r.run = "completed" /\ ~ r.explicit => r.launch \in succeeded'
             /\ r # Missing /\ ~ r.behind =>
                   /\ \A c \in Checkpoints :
                         event'[c].pass /\ event'[c].at >= r.start + DueAfter[c] =>
                             <<r.launch, c>> \in passed'
                   /\ r.periodic = "current" =>
                         \A c \in Checkpoints : Due(c, r.start, Now(r)) => <<r.launch, c>> \in passed'
                   /\ pc' \in Writing => r.launch = launch' /\ r.start = started'
  <2>1. r.start \in Nat /\ r.checkpoint \in Nat /\ clock \in Nat
    BY DEF Report, TypeOK, Times
  <2>2. r.start <= clock' /\ r.checkpoint <= clock'
    BY <1>1, <2>1 DEF Sound
  <2>3. ASSUME r # Missing, ~ r.behind, NEW c \in Checkpoints,
               event'[c].pass, event'[c].at >= r.start + DueAfter[c]
        PROVE  <<r.launch, c>> \in passed'
    <3>1. PassedSince(r.launch, r.start)
          /\ (pc \in Writing => r.launch = launch /\ r.start = started)
      BY <1>1, <2>3 DEF Sound
    <3>2. CASE event'[c] = event[c]
      BY <2>3, <3>1, <3>2 DEF PassedSince
    <3>3. CASE event'[c] # event[c]
      BY <2>3, <3>1, <3>3
    <3>4. QED
      BY <3>2, <3>3
  <2>4. QED
    BY <1>1, <2>2, <2>3 DEF Sound
<1>2. status \in Report /\ candidate \in Report /\ Sound(status) /\ Sound(candidate)
  BY DEF TypeOK, ReportInv
<1>3. Sound(status)'
  BY <1>1, <1>2 DEF Sound, PassedSince, Now, Due
<1>4. Sound(candidate)'
  BY <1>1, <1>2 DEF Sound, PassedSince, Now, Due
<1>5. QED
  BY <1>3, <1>4 DEF ReportInv

LEMMA ReportStep ==
    ASSUME TypeOK, ClockInv, LockInv, OwnInv, EventInv, ReportInv, [Next]_vars
    PROVE  ReportInv'
<1> USE DEF Moves
<1>1. clock \in Nat
  BY DEF TypeOK, Times
<1>2. CASE Start \/ Exit \/ TimePasses
  <2>1. /\ pc' \notin Writing /\ clock' \in Nat /\ clock <= clock'
        /\ UNCHANGED <<status, candidate, event, passed, succeeded>>
    <3>1. CASE Start
      BY <1>1, <3>1 DEF Start, Writing, checks, refresh
    <3>2. CASE Exit
      <4>1. UNCHANGED <<clock, status, candidate, event, passed, succeeded>> /\ pc' = "idle"
        BY <3>2, ExitFacts
      <4>2. QED
        BY <1>1, <4>1 DEF Writing
    <3>3. CASE TimePasses
      BY <1>1, <3>3 DEF TimePasses, Writing, runner, checks, refresh
    <3>4. QED
      BY <1>2, <3>1, <3>2, <3>3
  <2>2. QED
    BY <2>1, ReportKept
<1>3. CASE Heartbeat \/ WriteResult
  <2>1. /\ pc \in Writing /\ clock' \in Nat /\ clock <= clock'
        /\ UNCHANGED <<launch, started, status, candidate, event, passed, succeeded>>
    BY <1>1, <1>3 DEF Heartbeat, WriteResult, Writing, checks, refresh
  <2>2. QED
    BY <2>1, ReportKept
<1>4. CASE CheckpointReturns
  <2>1. PICK c \in todo, pass \in BOOLEAN :
            /\ event' = [event EXCEPT ![c] = [at |-> observed, pass |-> pass]]
            /\ passed' = IF pass /\ Due(c, started, observed) THEN passed \cup {<<launch, c>>}
                         ELSE passed
    BY <1>4 DEF CheckpointReturns
  <2>2. /\ pc \in Writing /\ clock' \in Nat /\ clock <= clock'
        /\ UNCHANGED <<launch, started, status, candidate, succeeded>>
    BY <1>1, <1>4 DEF CheckpointReturns, Writing, refresh
  <2>3. passed \subseteq passed'
    BY <2>1
  <2>4. ASSUME NEW d \in Checkpoints, event'[d] # event[d],
               event'[d].pass, event'[d].at >= started + DueAfter[d]
        PROVE  <<launch, d>> \in passed'
    <3>1. d = c /\ event'[d] = [at |-> observed, pass |-> pass]
      BY <2>1, <2>4 DEF TypeOK
    <3>2. pass /\ Due(c, started, observed)
      BY <2>4, <3>1, Numbers DEF Due, TypeOK, Times
    <3>3. QED
      BY <2>1, <3>1, <3>2
  <2>5. QED
    BY <2>2, <2>3, <2>4, ReportKept
<1>5. CASE WriteInitial \/ WriteHeartbeat \/ WriteFinal
  <2>1. UNCHANGED <<clock, launch, started, event, passed, succeeded>>
    BY <1>5 DEF WriteInitial, WriteHeartbeat, WriteFinal, checks
  <2>2. CASE WriteInitial \/ WriteHeartbeat
    <3>1. pc \in {"initial", "beat"} /\ pc' \in {"launch", "wait"} /\ Snapshot("running", 0)
      BY <2>2 DEF WriteInitial, WriteHeartbeat
    <3>2. 0 \in Times /\ "running" \in Runs
      BY Numbers DEF Times, Runs, Refreshing
    <3>3. QED
      BY <2>1, <3>1, <3>2, SnapshotSound
  <2>3. CASE WriteFinal
    <3>1. /\ pc = "final" /\ pc' = "release"
          /\ Snapshot(IF rc = "ok" THEN "completed" ELSE "failed", observed)
      BY <2>3 DEF WriteFinal
    <3>2. observed \in Times /\ (IF rc = "ok" THEN "completed" ELSE "failed") \in Runs
      BY DEF TypeOK, Runs, Terminal
    <3>3. (IF rc = "ok" THEN "completed" ELSE "failed") = "completed" => launch \in succeeded
      BY <3>1 DEF OwnInv, Over
    <3>4. QED
      BY <2>1, <3>1, <3>2, <3>3, SnapshotSound
  <2>4. QED
    BY <1>5, <2>2, <2>3
<1>6. CASE CreateRunLock \/ ClearRunLock \/ WriteRunLock \/ LaunchCommand \/ RunCheckpoint
           \/ CheckpointsDone \/ CommandReturns \/ ReleaseRunLock \/ RunnerFails \/ CommandEnds
           \/ (\E p \in alive : LeftoverEnds(p))
  <2>1. /\ UNCHANGED <<clock, launch, started, event, passed, status, candidate>>
        /\ pc' \in Writing => pc \in Writing
    <3>1. CASE CreateRunLock \/ ClearRunLock \/ WriteRunLock \/ ReleaseRunLock
      BY <3>1 DEF CreateRunLock, ClearRunLock, WriteRunLock, ReleaseRunLock, Writing, checks, refresh
    <3>2. CASE LaunchCommand \/ RunCheckpoint \/ CheckpointsDone
      BY <3>2 DEF LaunchCommand, RunCheckpoint, CheckpointsDone, Writing, checks, refresh
    <3>3. CASE CommandReturns \/ RunnerFails
      BY <3>3 DEF CommandReturns, RunnerFails, Writing, checks, refresh
    <3>4. CASE CommandEnds \/ \E p \in alive : LeftoverEnds(p)
      BY <3>4 DEF CommandEnds, LeftoverEnds, runner, checks, refresh
    <3>5. QED
      BY <1>6, <3>1, <3>2, <3>3, <3>4
  <2>2. succeeded \subseteq succeeded'
    BY <1>6, TimelessFacts DEF Timeless
  <2>3. QED
    BY <1>1, <2>1, <2>2, ReportKept
<1>7. CASE RefreshPromote
  <2>1. UNCHANGED <<clock, pc, launch, started, event, passed, succeeded>>
    BY <1>7 DEF RefreshPromote, runner, checks
  <2>2. /\ status' \in {status, candidate} /\ candidate' \in {candidate, Missing}
        /\ status' = status \/ status' # Missing
    BY <1>7 DEF RefreshPromote
  <2>3. Sound(Missing)
    BY <1>1 DEF Sound, Missing
  <2>4. QED
    BY <2>1, <2>2, <2>3 DEF ReportInv, Sound, PassedSince, Now, Due
<1>8. CASE RefreshStops
  BY <1>8 DEF RefreshStops, runner, checks, ReportInv, Sound, PassedSince, Now, Due
<1>9. ASSUME NEW run \in Runs, NEW done \in Times, RefreshBuild(run, done)
      PROVE  ReportInv'
  BY <1>9, RefreshSound
<1>10. CASE Operator
  <2>1. 0 \in Times /\ clock \in Times /\ "blocked" \in Runs /\ Finals \subseteq Runs
    BY RunAssumption, Numbers DEF TypeOK, Times, Runs, Terminal, Refreshing
  <2>2. QED
    BY <1>7, <1>8, <1>9, <1>10, <2>1 DEF Operator
<1>11. CASE UNCHANGED vars
  BY <1>11 DEF vars, runner, checks, refresh, ReportInv, Sound, PassedSince, Now, Due
<1>12. QED
  BY <1>2, <1>3, <1>4, <1>5, <1>6, <1>10, <1>11, NextCases DEF Timeless

-----------------------------------------------------------------------------
LEMMA Invariance == Spec => []IInv
<1>1. IInv /\ [Next]_vars => IInv'
  BY TypeStep, ClockStep, LockStep, AliveStep, OwnStep, EventStep, ReportStep DEF IInv
<1>2. QED
  BY Initially, <1>1, PTL DEF Spec

(* Every variable keeps its type, whatever the number of launches, of      *)
(* refreshes and of checkpoints: no launch takes one number twice.         *)
THEOREM TypeCorrect == Spec => []TypeOK
<1>1. IInv => TypeOK
  BY DEF IInv
<1>2. QED
  BY Invariance, <1>1, PTL

(* While a launch has the workspace, no command of an earlier one lives    *)
(* but a checkpoint command of a broken launch (_acquire_workspace_lock    *)
(* and _run_checkpoint_command).                                           *)
THEOREM ForeignCommands == Spec => []NoForeignCommand
<1>1. IInv => NoForeignCommand
  BY DEF IInv, AliveInv
<1>2. QED
  BY Invariance, <1>1, PTL

(* A launch that has ended left neither of its locks unless it is broken   *)
(* (the finally of run_goal_runtime_command).                              *)
THEOREM LocksAreSettled == Spec => []LocksSettled
<1>1. IInv => LocksSettled
  BY DEF IInv, LockInv, LocksSettled
<1>2. QED
  BY Invariance, <1>1, PTL

(* A report of completion that no operator asked for is of a launch whose  *)
(* command returned 0 in time, whoever wrote the report and from whatever  *)
(* reports it was merged (_merged_run_state).                              *)
THEOREM GenuineCompletion == Spec => []CompletedIsGenuine
<1>1. IInv => CompletedIsGenuine
  BY DEF IInv, ReportInv, Sound, CompletedIsGenuine
<1>2. QED
  BY Invariance, <1>1, PTL

(* Current periodic evidence is of the launch the report names, though the *)
(* command log is shared by all of them (build_periodic_evidence).         *)
THEOREM OwnEvidence == Spec => []PeriodicIsOfLaunch
<1>1. IInv => PeriodicIsOfLaunch
  <2>1. SUFFICES ASSUME Sound(status), status.periodic = "current", ~ status.behind
                 PROVE  \A c \in Checkpoints :
                            Due(c, status.start, Now(status)) => <<status.launch, c>> \in passed
    BY DEF IInv, ReportInv, PeriodicIsOfLaunch, Now
  <2>2. status # Missing
    BY <2>1 DEF Missing
  <2>3. QED
    BY <2>1, <2>2 DEF Sound
<1>2. QED
  BY Invariance, <1>1, PTL

-----------------------------------------------------------------------------
\* From the start of a launch to its final report.
Open == Writing \cup {"runlock", "created", "initial"}

\* No report is of a launch to come, nor says that the open one is over.
Ended(r) ==
    /\ r.launch <= launch
    /\ pc \in Open /\ r.run \in Terminal /\ ~ r.explicit => r.launch < launch

(* Unless the operator gave its status, a candidate that the runner has    *)
(* not overtaken repeats the terminal status of the report it was built    *)
(* from: the report has not changed since, or it was that candidate.       *)
TerminalInv ==
    /\ Ended(status) /\ Ended(candidate)
    /\ candidate # Missing /\ ~ candidate.behind /\ ~ candidate.explicit
       /\ status.run \in Terminal
       => candidate.run = status.run /\ candidate.done = status.done

\* What the runner writes.
LEMMA SnapshotFacts ==
    ASSUME TypeOK, NEW run \in Runs, NEW done \in Times, Snapshot(run, done), started # 0
    PROVE  /\ status'.launch = launch /\ status'.run = run /\ ~ status'.explicit /\ ~ status'.behind
           /\ candidate' = Missing \/ candidate'.behind
           /\ candidate'.launch = candidate.launch /\ candidate'.run = candidate.run
           /\ candidate'.explicit = candidate.explicit
<1> DEFINE req == [run |-> run, start |-> started, done |-> done, checkpoint |-> observed]
<1>1. PICK fresh \in SUBSET Checkpoints : status' = Build(req, status, observed, fresh)
  BY DEF Snapshot
<1>2. status'.launch = launch /\ status'.run = run /\ ~ status'.explicit /\ ~ status'.behind
  <2>1. req = [run |-> run, start |-> started, done |-> done, checkpoint |-> observed]
    OBVIOUS
  <2> HIDE DEF req
  <2>2. ~ Preserved(req, status)
    BY <1>1, <2>1, BuiltFacts
  <2>3. status'.launch = launch /\ status'.run = run
    BY <1>1, <2>1, <2>2, BuiltFacts
  <2>4. status'.explicit = (started = 0 /\ run \in Terminal)
    BY <1>1, <2>1, <2>2, BuiltFacts
  <2>5. status'.behind = (started = 0 /\ status.behind)
    BY <1>1, <2>1, BuiltFacts
  <2>6. QED
    BY <2>3, <2>4, <2>5
<1>3. candidate' = Outdated(candidate) /\ candidate \in Report
  BY DEF Snapshot, TypeOK
<1>4. QED
  BY <1>2, <1>3 DEF Outdated, Report

\* What a refresh builds.
LEMMA CandidateFacts ==
    ASSUME NEW run, NEW done, NEW fresh, run \in Terminal \/ (run \in Refreshing /\ done = 0),
           candidate' = Build([run |-> run, start |-> 0, done |-> done, checkpoint |-> 0],
                              status, clock, fresh)
    PROVE  /\ candidate'.launch = status.launch
           /\ ~ candidate'.explicit /\ (candidate'.run \in Terminal \/ status.run \in Terminal) =>
                 /\ candidate'.run = status.run /\ candidate'.done = status.done
                 /\ ~ status.explicit
<1> DEFINE req == [run |-> run, start |-> 0, done |-> done, checkpoint |-> 0]
<1>1. /\ Preserved(req, status) => candidate'.run = status.run /\ candidate'.explicit = status.explicit
      /\ ~ Preserved(req, status) => candidate'.run = run /\ candidate'.explicit = (run \in Terminal)
      /\ candidate'.launch = status.launch
  BY DEF Build
<1>2. Preserved(req, status) => candidate'.done = status.done
  BY DEF Build, Preserved, Or
<1>3. run \in Refreshing /\ done = 0 /\ status.run \in Terminal => Preserved(req, status)
  BY DEF Preserved
<1>4. Refreshing \cap Terminal = {}
  BY DEF Refreshing, Terminal
<1>5. CASE Preserved(req, status)
  BY <1>1, <1>2, <1>5
<1>6. CASE ~ Preserved(req, status)
  BY <1>1, <1>3, <1>4, <1>6
<1>7. QED
  BY <1>5, <1>6

LEMMA TerminalStep ==
    ASSUME TypeOK, ClockInv, TerminalInv, [Next]_vars
    PROVE  TerminalInv'
<1>1. /\ launch \in Nat /\ status \in Report /\ candidate \in Report
      /\ status.launch \in Nat /\ candidate.launch \in Nat
  BY Numbers DEF TypeOK, Report
<1> USE DEF TerminalInv, Ended, Open, Writing
<1>2. CASE Start
  BY <1>1, <1>2 DEF Start, refresh
<1>3. CASE Exit
  BY <1>3, ExitFacts
<1>4. CASE Heartbeat \/ CheckpointReturns \/ WriteResult \/ TimePasses
  BY <1>4 DEF Heartbeat, CheckpointReturns, WriteResult, TimePasses, runner, refresh
<1>5. CASE WriteInitial \/ WriteHeartbeat \/ WriteFinal
  <2>1. started # 0 /\ launch' = launch /\ pc \in Open
    BY <1>5 DEF WriteInitial, WriteHeartbeat, WriteFinal, Moves, ClockInv
  <2>2. CASE WriteInitial \/ WriteHeartbeat
    <3>1. Snapshot("running", 0) /\ 0 \in Times /\ "running" \in Runs /\ "running" \notin Terminal
      BY <2>2, Numbers DEF WriteInitial, WriteHeartbeat, Times, Runs, Refreshing, Terminal
    <3>2. QED
      BY <1>1, <2>1, <3>1, SnapshotFacts
  <2>3. CASE WriteFinal
    <3>1. \E run \in Runs : Snapshot(run, observed)
      BY <2>3 DEF WriteFinal, Runs, Terminal
    <3>2. observed \in Times /\ pc' = "release"
      BY <2>3 DEF WriteFinal, Moves, TypeOK
    <3>3. QED
      BY <1>1, <2>1, <3>1, <3>2, SnapshotFacts
  <2>4. QED
    BY <1>5, <2>2, <2>3
<1>6. CASE \/ CreateRunLock \/ ClearRunLock \/ WriteRunLock \/ LaunchCommand \/ RunCheckpoint
           \/ CheckpointsDone \/ CommandReturns \/ ReleaseRunLock \/ RunnerFails \/ CommandEnds
           \/ (\E p \in alive : LeftoverEnds(p)) \/ RefreshStops \/ UNCHANGED vars
  <2>1. UNCHANGED <<launch, status, candidate>> /\ (pc' \in Open => pc \in Open)
    <3>1. CASE CreateRunLock \/ ClearRunLock \/ WriteRunLock \/ ReleaseRunLock
      BY <3>1 DEF CreateRunLock, ClearRunLock, WriteRunLock, ReleaseRunLock, Moves, refresh
    <3>2. CASE LaunchCommand \/ RunCheckpoint \/ CheckpointsDone
      BY <3>2 DEF LaunchCommand, RunCheckpoint, CheckpointsDone, Moves, refresh
    <3>3. CASE CommandReturns \/ RunnerFails
      BY <3>3 DEF CommandReturns, RunnerFails, Moves, refresh
    <3>4. CASE CommandEnds \/ (\E p \in alive : LeftoverEnds(p)) \/ RefreshStops \/ UNCHANGED vars
      BY <3>4 DEF CommandEnds, LeftoverEnds, RefreshStops, vars, runner, refresh
    <3>5. QED
      BY <1>6, <3>1, <3>2, <3>3, <3>4
  <2>2. QED
    BY <2>1
<1>7. CASE RefreshPromote
  <2>1. UNCHANGED <<launch, pc>> /\ status' \in {status, candidate}
        /\ (candidate' = candidate \/ candidate' = Missing)
        /\ (status' = candidate \/ (status' = status /\ candidate' = candidate))
    BY <1>7 DEF RefreshPromote, runner
  <2>2. Missing.launch = 0 /\ Missing.run = "none" /\ "none" \notin Terminal
    BY DEF Missing, Terminal
  <2>3. QED
    BY <1>1, <2>1, <2>2
<1>8. ASSUME NEW run, NEW done, RefreshBuild(run, done),
             run \in Terminal \/ (run \in Refreshing /\ done = 0)
      PROVE  TerminalInv'
  <2>1. UNCHANGED <<launch, pc, status>>
    BY <1>8 DEF RefreshBuild, runner
  <2>2. CASE candidate' = candidate
    BY <2>1, <2>2
  <2>3. ASSUME NEW fresh \in SUBSET Checkpoints,
               candidate' = Build([run |-> run, start |-> 0, done |-> done, checkpoint |-> 0],
                                  status, clock, fresh)
        PROVE  TerminalInv'
    BY <1>8, <2>1, <2>3, CandidateFacts
  <2>4. QED
    BY <1>8, <2>2, <2>3 DEF RefreshBuild
<1>9. CASE Operator
  BY <1>6, <1>7, <1>8, <1>9, RunAssumption DEF Operator, Terminal, Refreshing
<1>10. QED
  BY <1>2, <1>3, <1>4, <1>5, <1>6, <1>7, <1>9, NextCases DEF Timeless

(* A report that says how a launch ended is replaced only by that of a     *)
(* later launch, by the operator's, by the runner whose launch the         *)
(* operator finalized early, or by a candidate the runner had overtaken    *)
(* (_should_preserve_terminal_run_status).                                 *)
THEOREM EndIsKept == Spec => TerminalKept
<1>1. Init => TerminalInv
  BY DEF Init, TerminalInv, Ended, Missing, Terminal
<1>2. IInv /\ TerminalInv /\ [Next]_vars => TerminalInv'
  BY TerminalStep DEF IInv
<1>3. Spec => []TerminalInv
  BY <1>1, <1>2, Invariance, PTL DEF Spec
<1>4. ASSUME IInv, TerminalInv, [Next]_vars, status.run \in Terminal, status' # status
      PROVE  \/ status'.launch > status.launch
             \/ status'.explicit \/ status'.behind
             \/ status.explicit /\ pc' # pc
             \/ status'.run = status.run /\ status'.done = status.done
  <2>1. TypeOK /\ ClockInv
    BY <1>4 DEF IInv
  <2>2. WriteInitial \/ WriteHeartbeat \/ WriteFinal \/ RefreshPromote
    <3>1. ~ UNCHANGED <<status, candidate>> => Timeless
      BY <1>4, NextCases, ExitFacts
         DEF Start, Heartbeat, CheckpointReturns, WriteResult, TimePasses, refresh, vars
    <3>2. Timeless => WriteInitial \/ WriteHeartbeat \/ WriteFinal \/ RefreshPromote
      BY <1>4 DEF Timeless, CreateRunLock, ClearRunLock, WriteRunLock, LaunchCommand,
                  RunCheckpoint, CheckpointsDone, CommandReturns, ReleaseRunLock, RunnerFails,
                  CommandEnds, LeftoverEnds, Operator, RefreshBuild, RefreshStops
    <3>3. QED
      BY <1>4, <3>1, <3>2
  <2>3. CASE RefreshPromote
    BY <1>4, <2>3 DEF RefreshPromote, TerminalInv
  <2>4. CASE WriteInitial \/ WriteHeartbeat \/ WriteFinal
    <3>1. pc \in Open /\ pc' # pc /\ started # 0
      BY <2>1, <2>4 DEF WriteInitial, WriteHeartbeat, WriteFinal, Moves, ClockInv, Open, Writing
    <3>2. \E run \in Runs, done \in Times : Snapshot(run, done)
      BY <2>1, <2>4, Numbers
         DEF WriteInitial, WriteHeartbeat, WriteFinal, Runs, Terminal, Refreshing, TypeOK, Times
    <3>3. status'.launch = launch
      BY <2>1, <3>1, <3>2, SnapshotFacts
    <3>4. launch \in Nat /\ status.launch \in Nat
      BY <2>1, Numbers DEF TypeOK, Report
    <3>5. QED
      BY <1>4, <3>1, <3>3, <3>4 DEF TerminalInv, Ended
  <2>5. QED
    BY <2>2, <2>3, <2>4
<1>5. QED
  BY <1>3, <1>4, Invariance, PTL DEF Spec, TerminalKept

-----------------------------------------------------------------------------
(***************************************************************************)
(* The launches use the workspace lock as WorkspaceLock allows.  What it   *)
(* sees of them: whose command runs, and which launches have ended.        *)
(***************************************************************************)
Running == {l \in Launches : <<l, "command">> \in alive}
Past == {l \in Launches : l < launch \/ (l = launch /\ pc = "idle")}

\* The workspace is never that of a launch to come.
BoundInv == workspace <= launch

LEMMA BoundStep == TypeOK /\ BoundInv /\ [Next]_vars => BoundInv'
<1> SUFFICES ASSUME TypeOK, BoundInv, [Next]_vars PROVE BoundInv'
  OBVIOUS
<1>1. launch \in Nat
  BY DEF TypeOK
<1>2. CASE Start
  BY <1>1, <1>2 DEF Start, BoundInv
<1>3. CASE RefuseRunLock \/ ReleaseWorkspace
  BY <1>1, <1>3 DEF RefuseRunLock, ReleaseWorkspace, Exits, Free, BoundInv
<1>4. CASE ~ Start /\ ~ RefuseRunLock /\ ~ ReleaseWorkspace
  <2>1. UNCHANGED <<workspace, launch>>
    BY <1>4 DEF Next, Step, Faults, Operator, CreateRunLock, ClearRunLock, WriteRunLock,
         WriteInitial, LaunchCommand, Heartbeat, RunCheckpoint, CheckpointReturns,
         CheckpointsDone, WriteHeartbeat, CommandReturns, WriteResult, WriteFinal,
         ReleaseRunLock, WriteRunLockFails, RunnerFails, CleanupFails, ReleaseFails, Killed,
         CommandEnds, LeftoverEnds, TimePasses, RefreshBuild, RefreshPromote, RefreshStops,
         Moves, Exits, locks, runner, vars
  <2>2. QED
    BY <2>1 DEF BoundInv
<1>5. QED
  BY <1>2, <1>3, <1>4

\* A step that launches or ends no command, and begins or ends no launch.
LEMMA QuietStep ==
    ASSUME UNCHANGED <<launch, workspace>>, Running' = Running,
           pc' = "idle" <=> pc = "idle"
    PROVE  UNCHANGED Kept!vars
BY DEF Kept!vars, Running, Past

LEMMA EndingStep ==
    ASSUME UNCHANGED <<launch, workspace>>, pc' = "idle" <=> pc = "idle",
           NEW l \in Launches, Running' = Running \ {l}
    PROVE  Kept!Next
<1>1. Past' = Past
  BY DEF Past
<1>2. Kept!EndCommand(l)
  BY <1>1 DEF Kept!EndCommand, Running, Past
<1>3. QED
  BY <1>2 DEF Kept!Next

\* The last launch ends.
LEMMA ExitSees ==
    ASSUME TypeOK, launch # 0, pc # "idle", pc' = "idle", UNCHANGED launch
    PROVE  launch \in Launches /\ Past' = Past \cup {launch}
BY Numbers DEF TypeOK, Launches, Past

LEMMA CommandKeeps ==
    ASSUME TypeOK, LockInv, [Next]_vars,
           LaunchCommand \/ CommandReturns \/ RunnerFails \/ CommandEnds
           \/ \E p \in alive : LeftoverEnds(p)
    PROVE  Kept!Next \/ UNCHANGED Kept!vars
<1> USE DEF Moves, locks
<1>0. pc # "idle" => launch \in Launches
  BY Numbers DEF TypeOK, LockInv, Launches
<1>1. CASE LaunchCommand
  <2>1. /\ pc = "launch" /\ launch \in Launches /\ workspace = launch
        /\ UNCHANGED <<launch, workspace>> /\ pc' = "wait"
        /\ alive' = alive \cup {<<launch, "command">>}
    BY <1>0, <1>1 DEF LaunchCommand, LockInv
  <2>2. Running' = Running \cup {launch} /\ Past' = Past /\ launch \notin Past
    BY <2>1 DEF Running, Past, TypeOK
  <2>3. PICK l \in Launches : l = launch
    BY <2>1
  <2>4. Kept!Launch(l)
    BY <2>1, <2>2, <2>3 DEF Kept!Launch, Running, Past
  <2>5. QED
    BY <2>4 DEF Kept!Next
<1>2. CASE CommandReturns \/ RunnerFails \/ CommandEnds
  <2>1. /\ pc # "idle" /\ pc' # "idle" /\ UNCHANGED <<launch, workspace>>
        /\ \/ alive' = alive
           \/ alive' = alive \ {<<launch, "command">>}
           \/ alive' = alive \ Own
    BY <1>2 DEF CommandReturns, RunnerFails, CommandEnds
  <2>2. Running' = Running \/ Running' = Running \ {launch}
    BY <2>1 DEF Running, Own
  <2>3. QED
    BY <1>0, <2>1, <2>2, QuietStep, EndingStep
<1>3. ASSUME NEW p \in alive, LeftoverEnds(p) PROVE Kept!Next \/ UNCHANGED Kept!vars
  <2>1. UNCHANGED <<launch, workspace, pc>> /\ alive' = alive \ {p}
    BY <1>3 DEF LeftoverEnds, runner
  <2>2. p[1] \in Launches /\ p = <<p[1], p[2]>>
    BY DEF TypeOK
  <2>3. Running' = Running \/ Running' = Running \ {p[1]}
    BY <2>1, <2>2 DEF Running
  <2>4. QED
    BY <2>1, <2>2, <2>3, QuietStep, EndingStep
<1>4. QED
  BY <1>1, <1>2, <1>3

LEMMA ExitKeeps ==
    ASSUME TypeOK, LockInv, OwnInv, Exit
    PROVE  Kept!Next
<1> USE DEF locks
<1>1. /\ pc # "idle" /\ pc' = "idle" /\ UNCHANGED launch /\ launch # 0 /\ workspace = launch
  BY DEF Exit, RefuseRunLock, WriteRunLockFails, ReleaseWorkspace, CleanupFails,
         ReleaseFails, Killed, Exits, LockInv
<1>2. launch \in Launches /\ Past' = Past \cup {launch}
  BY <1>1, ExitSees
<1>0. PICK l \in Launches : l = launch
  BY <1>2
<1>3. CASE RefuseRunLock \/ ReleaseWorkspace
  <2>1. pc \in {"runlock", "unlock"} /\ workspace' = Free /\ alive' = alive
    BY <1>3 DEF RefuseRunLock, ReleaseWorkspace, Exits
  <2>2. launch \notin Running /\ Running' = Running
    BY <1>1, <2>1 DEF OwnInv, Running
  <2>3. Kept!Release(l)
    BY <1>0, <1>1, <1>2, <2>1, <2>2 DEF Kept!Release, Running, Past
  <2>4. QED
    BY <2>3 DEF Kept!Next
<1>4. CASE WriteRunLockFails \/ ReleaseFails \/ Killed \/ CleanupFails
  <2>1. workspace' = workspace
    BY <1>4 DEF WriteRunLockFails, ReleaseFails, Killed, CleanupFails
  <2>2. Running' \in {Running, Running \ {launch}}
    <3>1. CASE WriteRunLockFails \/ ReleaseFails \/ Killed
      BY <3>1 DEF WriteRunLockFails, ReleaseFails, Killed, Running
    <3>2. CASE CleanupFails
      BY <3>2 DEF CleanupFails, Own, Running
    <3>3. QED
      BY <1>4, <3>1, <3>2
  <2>3. Kept!Die(l)
    BY <1>0, <1>2, <2>1, <2>2 DEF Kept!Die, Running, Past
  <2>4. QED
    BY <2>3 DEF Kept!Next
<1>5. QED
  BY <1>3, <1>4 DEF Exit

LEMMA StartKeeps ==
    ASSUME TypeOK, LockInv, BoundInv, Start
    PROVE  Kept!Next
<1>1. /\ pc = "idle" /\ pc' = "runlock" /\ launch' = launch + 1 /\ workspace' = launch + 1
      /\ launch \in Nat /\ launch + 1 \in Launches
      /\ UNCHANGED alive
  BY Numbers DEF Start, TypeOK, Launches
<1>2. Running' = Running /\ Past' = Past /\ launch + 1 \notin Past
  BY <1>1 DEF Running, Past, Launches
<1>3. workspace = Free \/ workspace \in Past \ Running
  <2>1. workspace = Free \/ (workspace # Free /\ <<workspace, "command">> \notin alive)
    BY DEF Start, Stale
  <2>2. workspace # Free => workspace \in Launches /\ workspace <= launch
    BY DEF TypeOK, BoundInv, Free, Launches
  <2>3. QED
    BY <1>1, <2>1, <2>2 DEF Running, Past, Launches
<1>4. PICK l \in Launches : l = launch + 1
  BY <1>1
<1>5. Kept!Take(l)
  BY <1>1, <1>2, <1>3, <1>4 DEF Kept!Take, Kept!Free, Running, Past
<1>6. QED
  BY <1>5 DEF Kept!Next

LEMMA NextKeeps == IInv /\ BoundInv /\ [Next]_vars => [Kept!Next]_(Kept!vars)
<1> SUFFICES ASSUME IInv, BoundInv, [Next]_vars PROVE Kept!Next \/ UNCHANGED Kept!vars
  OBVIOUS
<1> USE DEF IInv, Moves, locks
<1>1. CASE Start
  BY <1>1, StartKeeps
<1>2. CASE Exit
  BY <1>2, ExitKeeps
<1>3. CASE LaunchCommand \/ CommandReturns \/ RunnerFails \/ CommandEnds
           \/ \E p \in alive : LeftoverEnds(p)
  BY <1>3, CommandKeeps
<1>4. CASE RunCheckpoint \/ CheckpointReturns
  <2>1. UNCHANGED <<launch, workspace>> /\ pc # "idle" /\ pc' # "idle"
        /\ \/ alive' = alive \cup {<<launch, "checkpoint">>}
           \/ alive' = alive \ {<<launch, "checkpoint">>}
    BY <1>4 DEF RunCheckpoint, CheckpointReturns
  <2>2. Running' = Running
    BY <2>1 DEF Running
  <2>3. QED
    BY <2>1, <2>2, QuietStep
<1>5. CASE CreateRunLock \/ ClearRunLock \/ WriteRunLock \/ WriteInitial \/ Heartbeat
           \/ CheckpointsDone \/ WriteHeartbeat \/ WriteResult \/ WriteFinal
           \/ ReleaseRunLock \/ TimePasses \/ Operator \/ UNCHANGED vars
  <2>1. UNCHANGED <<launch, workspace, alive>> /\ (pc' = "idle" <=> pc = "idle")
    <3>1. CASE CreateRunLock \/ ClearRunLock \/ WriteRunLock \/ ReleaseRunLock
      BY <3>1 DEF CreateRunLock, ClearRunLock, WriteRunLock, ReleaseRunLock
    <3>2. CASE WriteInitial \/ WriteHeartbeat \/ WriteFinal
      BY <3>2 DEF WriteInitial, WriteHeartbeat, WriteFinal
    <3>3. CASE Heartbeat \/ CheckpointsDone \/ WriteResult
      BY <3>3 DEF Heartbeat, CheckpointsDone, WriteResult, TypeOK
    <3>4. CASE TimePasses \/ Operator \/ UNCHANGED vars
      BY <3>4 DEF TimePasses, Operator, RefreshBuild, RefreshPromote, RefreshStops, runner,
                  vars
    <3>5. QED
      BY <1>5, <3>1, <3>2, <3>3, <3>4
  <2>2. QED
    BY <2>1, QuietStep DEF Running
<1>6. QED
  BY <1>1, <1>2, <1>3, <1>4, <1>5 DEF Next, Step, Faults, Exit

(* However many launches there are, and however they fail or are killed,   *)
(* they hold, use and pass on the workspace as WorkspaceLock says, which   *)
(* is what the lock file provides (run_goal_runtime_command).              *)
THEOREM LockKept == Spec => KeepsLock
<1>1. Init => Kept!Init /\ BoundInv
  BY DEF Init, Kept!Init, BoundInv, Free, Launches
<1>2. Spec => []BoundInv
  <2>1. IInv => TypeOK
    BY DEF IInv
  <2>2. QED
    BY <1>1, <2>1, BoundStep, Invariance, PTL DEF Spec
<1>3. QED
  BY <1>1, <1>2, NextKeeps, Invariance, PTL DEF Spec, KeepsLock, Kept!Spec

-----------------------------------------------------------------------------
(***************************************************************************)
(* What a launch has left to do: the heartbeats there is time for, and     *)
(* between two of them the steps to the next.  A checkpoint that is run    *)
(* may take time, and is not run again before the next heartbeat.          *)
(***************************************************************************)
Beats == IF pc # "idle" /\ clock < started + Timeout THEN started + Timeout - clock ELSE 0

Rest == 2 * NumCheckpoints
Checking == 2 * Cardinality(todo) + (IF phase = "final" THEN 3 ELSE Rest + 7)

Left ==
    CASE pc = "idle" -> 0
      [] pc = "unlock" -> 1
      [] pc = "release" -> 2
      [] pc = "final" -> 3
      [] pc = "result" -> Rest + 5
      [] pc = "wait" -> Rest + 6
      [] pc \in {"beat", "launch"} -> Rest + 7
      [] pc = "initial" -> Rest + 8
      [] pc = "created" -> Rest + 9
      [] pc = "runlock" -> Rest + (IF runlock = Free THEN 10 ELSE 11)
      [] pc = "checking" -> Checking
      [] pc = "check" -> Checking + 1

Shorter == Beats' < Beats \/ (Beats' = Beats /\ Left' < Left)

LEMMA ToDo ==
    ASSUME NEW S \in SUBSET Checkpoints
    PROVE  /\ Cardinality(S) \in 0 .. NumCheckpoints
           /\ \A c \in S : Cardinality(S \ {c}) = Cardinality(S) - 1
<1>1. NumCheckpoints \in Nat \ {0}
  BY RunAssumption
<1>2. IsFiniteSet(Checkpoints) /\ Cardinality(Checkpoints) = NumCheckpoints
  BY <1>1, FS_Interval DEF Checkpoints
<1>3. IsFiniteSet(S) /\ Cardinality(S) <= NumCheckpoints
  BY <1>2, FS_Subset
<1>4. Cardinality(S) \in Nat
  BY <1>3, FS_CardinalityType
<1>5. QED
  BY <1>1, <1>3, <1>4, FS_RemoveElement

Counted == Beats \in Nat /\ Left \in Nat

LEMMA Counts == TypeOK => Counted
<1>1. SUFFICES ASSUME TypeOK PROVE Counted
  OBVIOUS
<1>2. clock \in Nat /\ started \in Nat /\ Timeout \in Nat /\ Rest \in Nat
  BY <1>1, RunAssumption DEF TypeOK, Times, Rest
<1>3. Cardinality(todo) \in Nat
  BY <1>1, <1>2, ToDo, RunAssumption DEF TypeOK
<1>4. Left \in Nat
  BY <1>1, <1>2, <1>3 DEF TypeOK, Left, Checking
<1>5. QED
  BY <1>2, <1>4 DEF Counted, Beats

\* The time that is left does not grow within a launch, and an end leaves none.
LEMMA BeatsLower ==
    ASSUME TypeOK, pc # "idle",
           pc' = "idle" \/ (started' = started /\ clock' \in {clock, clock + 1})
    PROVE  Beats' <= Beats
<1>1. clock \in Nat /\ started \in Nat /\ Timeout \in Nat
  BY RunAssumption DEF TypeOK, Times
<1>2. QED
  BY <1>1 DEF Beats

LEMMA LocksShorten ==
    ASSUME TypeOK, \/ CreateRunLock \/ ClearRunLock \/ WriteRunLock \/ WriteInitial
                   \/ LaunchCommand \/ WriteFinal \/ ReleaseRunLock
    PROVE  Shorter
<1>1. UNCHANGED <<clock, started>> /\ pc # "idle" /\ pc' # "idle"
  BY DEF CreateRunLock, ClearRunLock, WriteRunLock, WriteInitial, LaunchCommand, WriteFinal,
         ReleaseRunLock, Moves
<1>2. Beats' = Beats
  BY <1>1 DEF Beats
<1>3. Rest \in Nat
  BY RunAssumption DEF Rest
<1>4. Left' < Left
  BY <1>3, Numbers DEF CreateRunLock, ClearRunLock, WriteRunLock, WriteInitial, LaunchCommand,
         WriteFinal, ReleaseRunLock, Moves, Left, Free, Launches
<1>5. QED
  BY <1>2, <1>4 DEF Shorter

LEMMA CommandShortens ==
    ASSUME TypeOK, \/ RunCheckpoint \/ CheckpointReturns \/ CheckpointsDone \/ WriteHeartbeat
                   \/ CommandReturns \/ WriteResult
    PROVE  Shorter
<1>1. /\ started' = started /\ clock' \in {clock, clock + 1}
      /\ pc # "idle" /\ pc' # "idle"
  BY DEF RunCheckpoint, CheckpointReturns, CheckpointsDone, WriteHeartbeat, CommandReturns,
         WriteResult, Moves, TypeOK
<1>2. Beats' <= Beats /\ Beats \in Nat
  BY <1>1, BeatsLower, Counts DEF Counted
<1>3. Rest \in Nat /\ Rest = 2 * NumCheckpoints /\ NumCheckpoints \in Nat
  BY RunAssumption DEF Rest
<1>4. Cardinality(todo) \in 0 .. NumCheckpoints
  BY ToDo DEF TypeOK
<1>5. CASE RunCheckpoint
  BY <1>3, <1>4, <1>5 DEF RunCheckpoint, Moves, Left, Checking, Shorter, Beats
<1>6. CASE CheckpointReturns
  <2>1. Cardinality(todo') = Cardinality(todo) - 1
    BY <1>6, ToDo DEF CheckpointReturns, TypeOK
  <2>2. Left' < Left
    BY <1>3, <1>4, <1>6, <2>1 DEF CheckpointReturns, Left, Checking
  <2>3. Beats' \in Int
    BY <1>1, RunAssumption DEF Beats, TypeOK, Times
  <2>4. QED
    BY <1>2, <2>2, <2>3 DEF Shorter
<1>7. CASE CheckpointsDone
  <2>1. Cardinality(todo) = 0
    BY <1>7, FS_EmptySet DEF CheckpointsDone
  <2>2. Left' < Left
    BY <1>3, <1>7, <2>1 DEF CheckpointsDone, Moves, Left, Checking, TypeOK
  <2>3. Beats' = Beats
    BY <1>1, <1>7 DEF CheckpointsDone, Moves, Beats
  <2>4. QED
    BY <2>2, <2>3 DEF Shorter
<1>8. CASE WriteHeartbeat \/ CommandReturns
  BY <1>3, <1>8 DEF WriteHeartbeat, CommandReturns, Moves, Left, Shorter, Beats
<1>9. CASE WriteResult
  <2>1. Cardinality(todo') \in 0 .. NumCheckpoints
    BY <1>9, ToDo DEF WriteResult, ToRun
  <2>2. Left' < Left
    BY <1>3, <1>9, <2>1 DEF WriteResult, Left, Checking
  <2>3. Beats' = Beats
    BY <1>1, <1>9 DEF WriteResult, Beats
  <2>4. QED
    BY <2>2, <2>3 DEF Shorter
<1>10. QED
  BY <1>5, <1>6, <1>7, <1>8, <1>9

LEMMA HeartbeatShortens == TypeOK /\ Heartbeat => Shorter
<1>1. SUFFICES ASSUME TypeOK, Heartbeat PROVE Beats' < Beats
  BY DEF Shorter
<1>2. clock \in Nat /\ started \in Nat /\ Timeout \in Nat
  BY <1>1, RunAssumption DEF TypeOK, Times
<1>3. clock < started + Timeout
  BY <1>1, <1>2 DEF Heartbeat, Expired
<1>4. QED
  BY <1>1, <1>2, <1>3 DEF Heartbeat, Beats

LEMMA ExitShortens == TypeOK /\ (Exit \/ RunnerFails) => Shorter
<1>1. SUFFICES ASSUME TypeOK, Exit \/ RunnerFails PROVE Shorter
  OBVIOUS
<1>2. Rest \in Nat /\ Cardinality(todo) \in Nat
  BY <1>1, RunAssumption, ToDo DEF TypeOK, Rest
<1>3. CASE Exit
  <2>1. pc # "idle" /\ pc' = "idle"
    BY <1>3 DEF Exit, RefuseRunLock, WriteRunLockFails, ReleaseWorkspace, CleanupFails,
                ReleaseFails, Killed, Exits
  <2>2. Beats' <= Beats /\ Beats' = 0 /\ Beats \in Nat
    BY <1>1, <2>1, BeatsLower, Counts DEF Beats, Counted
  <2>3. Left' = 0 /\ Left > 0
    BY <1>1, <1>2, <2>1 DEF TypeOK, Left, Checking
  <2>4. QED
    BY <2>2, <2>3 DEF Shorter
<1>4. CASE RunnerFails
  <2>1. Left' < Left
    BY <1>2, <1>4 DEF RunnerFails, Moves, Left, Checking
  <2>2. Beats' = Beats
    BY <1>4 DEF RunnerFails, Moves, Beats
  <2>3. QED
    BY <2>1, <2>2 DEF Shorter
<1>5. QED
  BY <1>1, <1>3, <1>4

LEMMA NextShortens ==
    ASSUME TypeOK, [Next]_vars, pc # "idle"
    PROVE  IF Step \/ Faults THEN Shorter ELSE UNCHANGED <<Beats, Left>>
<1>1. CASE Step \/ Faults
  BY <1>1, LocksShorten, CommandShortens, HeartbeatShortens, ExitShortens DEF Step, Faults, Exit
<1>2. CASE ~ (Step \/ Faults)
  <2>1. CommandEnds \/ (\E p \in alive : LeftoverEnds(p)) \/ Operator \/ UNCHANGED vars
    BY <1>2 DEF Next, Start, TimePasses
  <2>2. UNCHANGED <<clock, pc, started, todo, phase, runlock>>
    BY <2>1 DEF CommandEnds, LeftoverEnds, Operator, RefreshBuild, RefreshPromote,
                RefreshStops, vars, runner, locks
  <2>3. QED
    BY <1>2, <2>2 DEF Beats, Left, Checking
<1>3. QED
  BY <1>1, <1>2

(* The core of LaunchEnds, for any timeout and any number of checkpoints:  *)
(* every step of a launch, of its failures too, leaves it fewer heartbeats *)
(* or as many and fewer steps to the next, and nothing else it meets adds  *)
(* to either (run_goal_runtime_command's loop, and the one around the      *)
(* per-run lock); that the runner keeps stepping is fairness.              *)
THEOREM LaunchesShorten ==
    Spec => /\ []Counted
            /\ [][pc # "idle" =>
                     IF Step \/ Faults THEN Shorter ELSE UNCHANGED <<Beats, Left>>]_vars
<1>1. TypeOK /\ [Next]_vars =>
         [pc # "idle" => IF Step \/ Faults THEN Shorter ELSE UNCHANGED <<Beats, Left>>]_vars
  BY NextShortens
<1>2. QED
  BY <1>1, Counts, TypeCorrect, PTL DEF Spec
==============================================================================
