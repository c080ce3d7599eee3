# LLMwiki: TLA+ models, checks and proofs

LLMwiki maintains a wiki of files with the help of a language model, and
improves its own tools the same way: a *goal run* holds the repository while an
*auto-improve session* takes proposals from a queue, a *mechanism experiment*
has an executor mutate a disposable copy of the repository for each of them, a
*promotion gate* judges the candidate, and what it promotes is *applied* to the
live tree and *finalized* in the run's files and in the system log. All state
is files; processes die, are signalled, run out of time and come back.

The modules here model that path from the lock down to the replacement of one
file, and beside it the *fixed point* of the release closeout, the pass that
brings the tracked reports up to date with one another. TLC checks them on
small instances; TLAPS proves the safety properties and the refinements they
check for every value of the constants, and that what is repeated on the way to
an end gets shorter with every step.

Source paths below are relative to `src/ops/scripts/`.

## Contents

| Module | Models | Checked by | Proved in |
|---|---|---|---|
| `WorkspaceLock` | the abstract lock `GoalRuntimeLock` implements and `GoalRun` uses | `lock`, `goal_run` | both of their proofs |
| `GoalRuntimeLock` | the repository-wide lock of goal runs | `lock`, `lock_mutex` | `GoalRuntimeLockProofs` |
| `GoalRun` | the launches of one goal run and its status report | `goal_run` | `GoalRunProofs` |
| `TimedCommand` | running a command with a deadline, and aborting it | `command`, `command_race` | `TimedCommandProofs` |
| `AutoImproveSession` | the session loop over its calls, crashes and resumes | `session`, `session_live` | `AutoImproveSessionProofs` |
| `MechanismExperiment` | the calls of one run identifier | `experiment` | `MechanismExperimentProofs` |
| `Promotion` | the abstract specification `MechanismExperiment` implements | `experiment` | `MechanismExperimentProofs` |
| `Installation` | one attempt to install a candidate: `ManifestApply` implements it, `MechanismExperiment` calls it | `apply` | `ManifestApplyProofs` |
| `ManifestApply` | the apply transaction over the live files | `apply` | `ManifestApplyProofs` |
| `FinalizeRun` | finalization, its multi-file write, and the log split | `finalize`, `finalize_split` | `FinalizeRunProofs` |
| `ReleaseFixedPoint` | the closeout pass, its authority, the finality attestation | `fixed_point` | `ReleaseFixedPointProofs` |

Each `MC<Module>` extends its module for TLC and adds the symmetry sets; the
`.cfg` of a run gives the constants. `PROJECT.json` holds, per module, the map
from definitions to source lines, the mutants that show each property can fail,
the hazards and the findings. A definition whose comment begins with "Mutant
of" is no part of the model: it is a plausible bug, put in place of the
definition it names to see that a property notices.

To repeat a run: `tlc -workers 2 -config lock.cfg MCGoalRuntimeLock`. To repeat
a proof: `tlapm GoalRuntimeLockProofs.tla`.

## The system

### How the parts interact

```
 goal_runtime_runner --(lock file)-- other runners, "check --cleanup-stale", "stop"
        |     |    \--(status report)-- auto-improve-goal-status, -finalize
        |     | checkpoint commands, each under run_with_timeout
        | run_with_timeout
        v
 auto-improve session -- report on disk -- maintenance, resume plan, backlog
        | per proposal
        v
 mechanism experiment -- run directory (ledger, manifest, assessments, report)
        | executor and checks, each under run_with_timeout
        | gate verdict
        +--> apply_manifest_transaction --> live tree
        +--> finalize_run --> report, ledger, planning, system log <-- log split

 release closeout pass -- writers, in policy order --> tracked reports <-- anyone
        +--> authority --> finality attestation <-- dry run, verification
```

Calls go downwards in one process or in a child it launches. Everything that
goes sideways goes through files: the locks, the status report, the session report,
the run directory, the system log, the tracked reports. No part holds a file open between reading it and
acting on what it read, which is where most of the hazards below come from.

### Components

**Goal runtime workspace lock** (`mechanism/goal_runtime_lock.py`, its use in
`mechanism/goal_runtime_runner.py`). *State*: one JSON file with a token, the
runner, and the process group of its command or the mark that one is about to
exist. *Operations*: acquire, mark pending, register child, release, inspect,
clean up when stale, stop. *Hard*: read, probe and unlink are separate system
calls; `write_text` truncates before it writes; a runner dies while its command
lives on. *Correct when*: one holder; no takeover while a command lives; a
finished release leaves nothing; every attempt ends.

**Goal runtime runner** (`mechanism/goal_runtime_runner.py`,
`mechanism/goal_runtime_maintenance.py`, `mechanism/goal_run_status.py`).
*State*: a per-run lock below the workspace lock, the command log of the
periodic checkpoints, the run-local status report. *Operations*: take both
locks, write a status at the start, at each heartbeat and at the end, run the
checkpoint commands that are due, release, refresh and finalize the status from
outside. *Hard*: every status is merged with the prior one of the same run
identifier, perhaps another launch's; the log is shared by all launches; a
refresh builds and promotes in two processes and takes no lock; checkpoint
commands run inside the heartbeat and no lock names them. *Correct when*: what
the status says is of the launch it names; an ended launch leaves no lock it
could release; no command of one launch is alive under the next; a launch ends.

**Timed commands** (`core/command_runtime.py`). *State*: a process, its group,
its pipes, the parent's place in the wait. *Operations*: communicate with
heartbeats, escalate at the deadline (SIGTERM, grace, SIGKILL), abort on errors
and signals. *Hard*: completion races with the deadline; descendants leave the
group or keep the pipes; signals arrive during an abort. *Correct when*: a
success is genuine; an abort leaves nothing of the group; a call returns.

**Auto-improve session loop** (`mechanism/auto_improve_*.py`). *State*: the
session report (iterations, attempted proposals, blocker counts, failure
streak, budget and its contract, next-run decisions, stop reason) and the
loop's locals. *Operations*: start, resume, learning preflight, the iteration,
stops before and after the loop, maintenance, completion. *Hard*: a crash loses
what was not written; counters are rebuilt from iterations or carried over; a
resume may raise the budget; the backlog and the queue change under the loop.
*Correct when*: budgets and stops hold over the whole history of a session, not
only over one call; nothing recorded is lost; a stop reason is true.

**Mechanism experiment** (`mechanism/run_mechanism_experiment_runtime.py`,
`mechanism_run_*_runtime.py`). *State*: the run directory: ledger, captured
assessments, changed-files manifest, promotion report; the live tree.
*Operations*: scaffold or load, mutate, capture, check, one bounded repair,
gate, canary plan or live apply, record, finalize. *Hard*: a run identifier may
be called again and finds what the last call left; a call may die between any
two of its writes; errors of one class are recorded by the session as "blocked"
and others end it. *Correct when*: the live tree only ever becomes what the
gate judged and promoted; what is recorded as blocked changed nothing; what is
complete stays closed.

**Promotion apply transaction** (`core/filesystem_runtime.py`,
`mechanism/mechanism_run_workspace_runtime.py`). *State*: the live files, a
temporary directory with backups and staged candidates. *Operations*: plan,
rollback rehearsal, prepare, replace, roll back, remove the directory. *Hard*:
failures in the middle, failing rollbacks, kills and interrupts. *Correct
when*: all or nothing, or exactly the named exceptions; no original is lost.

**Run finalization and log split** (`mechanism/finalize_run_*.py`,
`mechanism/system_log_split.py`). *State*: per run the report, the ledger and
the planning validation; the system log and the events file. *Operations*:
resolve the log state, replace four files with rollback, fingerprint; append
moved entries and rewrite the log. *Hard*: neither takes a lock; the log is
rewritten whole from an earlier read; a kill between two replacements. *Correct
when*: an entry exists only for a run whose files refer to it; a failure
restores the run; an entry, once logged, is lost only to a call that overlapped
its own or to a split that could not write it back.

**Release fixed point and finality** (`release/release_closeout_fixed_point.py`,
`release/release_closeout_finality_attestation.py`). *State*: the tracked
reports, each derived from the tree, the revision and other reports; the report
of the last pass (the authority); the attestation over it. *Operations*: run
the writers in policy order, promote, attest, recommend (dry run), verify.
*Hard*: a pass may fail or be killed midway; nothing holds the repository
meanwhile; reports are compared by digests with their volatile parts left out.
*Correct when*: "settled" and "verified" are true; one pass is enough; a second
one changes nothing.

The other parts are listed under "Not modelled" at the end.

## The modules

Three of them are abstract specifications. They are where the modules meet:
what one component promises and another one builds on.

```
 GoalRuntimeLock --implements--> WorkspaceLock <--implements-- GoalRun
 ManifestApply   --implements--> Installation  <--uses-- MechanismExperiment
                                 Promotion <--implements-- MechanismExperiment
```

### WorkspaceLock

A holder or none, the users whose command is alive, the users that have come to
their end. A user that has not ended takes a free lock, launches its command
while it holds the lock, and releases it with the command over; it may die at
any moment and leave both behind; the lock is free again when its holder is
dead and the holder's command too. `Lose` is the end of all promises.

`GoalRuntimeLock` implements it with the owner of the file the path names as
the holder and `raced` as the loss: whatever the system calls do one by one, the
file is a lock until an unlink hits another file than the one judged.
`GoalRun` implements it with its launches as the users, and never loses it: it
is what one launch may assume of the next, and why `GoalRun` needs the lock's
outcomes only.

### GoalRuntimeLock

A file is named by the runner and the stage that created it, so that "the lock
path" and "the file behind it" are different things: `path` says which file the
name denotes and `content` what is in each file. `fd` is the file a runner has
open for writing, `seen` the payload a process has read, `child` the state of
its command's process group. Every system call is an action: `CreateLock` is
the `O_EXCL` open, `WriteNewLock` the write, `UpdateLoad`, `UpdateOpen` and
`UpdateWrite` the three parts of a rewrite (the open truncates), `Load`,
`Probe` and `UnlinkStale` the three of a stale cleanup. `lingering` is a group
whose leader was reaped while a descendant lives.

An operator process runs `check --cleanup-stale` or `stop`; which one is chosen
when its inspection ends, so one process stands for both. `raced` is a history
variable: a stale unlink removed a file other than the one it judged.

*Left out*: a reused process identifier, the Windows backend, and a stop sent
from inside the command's own group.

### GoalRun

The launches of one run identifier, one after another. Time is counted in
heartbeats: a checkpoint is due `DueAfter` a start, is run again `Retry` after
it failed, and the deadline is looked at only at a heartbeat, when all due
checkpoints have run. `Start` is the acquired workspace lock, `CreateRunLock`,
`ClearRunLock` and `WriteRunLock` the loop around the per-run lock, `Heartbeat`
to `WriteHeartbeat` one heartbeat, `CommandReturns` to `ReleaseWorkspace` the
end. The workspace lock and a command with its deadline have their outcomes
only; their steps are in `GoalRuntimeLock`, which gives the same `WorkspaceLock`,
and in `TimedCommand`. `Build` is the
merge of a request with the prior report, which the runner's snapshots and the
operator's `RefreshBuild` both go through; `RefreshPromote` puts the candidate
in place in a second process. `Faults` are an exception, a cleanup that cannot
be confirmed, a release that fails, and a kill. In a report, `launch`,
`explicit` and `behind` are history: whose start time it has, whether the
operator set its status, and whether the runner wrote another one since it was
built.

*Left out*: the audit log, the markdown and the resume metadata, the backoff
after a usage limit, health and blockers, the certificate, the contents of the
evidence files, launches that are refused because another one runs, and a kill
between the pending mark and the registration of the command (which is in
`GoalRuntimeLock`).

### TimedCommand

The state after the launch: who is alive, who holds the pipes, who is in the
group (each chosen freely at the start, since a descendant may call `setsid`
or close its output at once), whether the leader was reaped and the output read
to its end. `pc` follows `_run_with_timeout_request`; the second half of its
states is the escalation of `_finalize_timed_out_process`. `Poll` and
`ReadyOutput` are the two questions the code asks there. `Interrupt` is SIGINT
or SIGTERM at any moment; the previous handler of that signal raises, or
ignores it and lets the parent go on. Time is a choice: any bounded wait may
expire at any moment. `Collect` and `ReadEnd` stand for
`subprocess.Popen.communicate`, which is not part of the repository: what it
does with a timeout of zero is the subject of the finding below.

*Left out*: the Windows backend, the launch itself, output normalisation,
telemetry.

### AutoImproveSession

`report` is what is on disk and `session` the dictionary of the call in
progress; a crash at any `pc` loses the difference. `Start` and `Resume` build
the dictionary, `Begin` to `PreflightBlocks` are the first stop check and the
learning gate, `RangeEnds`, `CheckStops` and `CheckPasses` the head of the
loop, `Select`, `Execute` and `Persist` an iteration, `After` the second stop
check, `Maintain` to `Sleep` the maintenance loop. `Normalized` is
`_normalize_loop_state`, which every write of the report applies.

The queue is the environment's: any proposal not yet attempted may be at its
head. The remediation backlog is a flag that opens and closes at any time. An
experiment is one of five outcomes. A quarantined proposal is also an attempted
one, so quarantine adds nothing within a session. In the maintenance loop the
queue may look different at every cycle, and may hold attempted proposals again.

*Left out*: routing and scaffolding of an iteration, telemetry and rollups, the
executor check of a resume, and the order of the queue.

### MechanismExperiment

Trees are named, not spelled out: a candidate is its call, its attempt, and
whether the check command wrote to its workspace (`Overwritten`), next to the
original tree, a torn one, and a file that is not there. Its assessments are
captured before the check, its manifest is made after it.
`captured`, `manifest` and `report` say which candidate each file of the run
directory is about; an action that rewrites one leaves the others as they were,
whoever wrote them. `ledger` has its status and its set of events, because
`append_ledger_event` does not add an event twice and still writes the status.
The apply is one step, whose outcomes are those `Installation` leaves
(`Installed!Leaves`): done, the candidate is live; failed, which is an exception
here, all, some or none of it may be. The finalization has its outcomes only. The steps
of both are in the next modules. `RaiseError` is the error class the session records as
blocked, `RaiseOther` any other, `Crash` a kill. `OperatorFinalize` is
`finalize_run` from the command line between two calls.

*Left out*: the gate's rules (any verdict is possible), how assessments are
made, copying workspaces, telemetry, and the repair context (only the executor's
prompt reads it).

### Promotion

What the calls of one run identifier promise, without how: a call opens, may
offer a candidate, installs it or breaks off (`Break`: the whole candidate, some
of it or nothing is then live), ends, or closes the run; a closed run is never
opened again. `MechanismExperiment` instantiates it with
the mapping `Stage` (a live call that is about to apply has offered, one that
applied has installed), the judged candidate of its promotion report as the
offer, and a ledger that is complete as closed. `KeepsPromise` is the abstract
specification under that mapping: TLC checks it, and TLAPS proves it.

### Installation

What is known of a tree after one attempt to install a candidate: reported
applied, it holds the candidate; failed without a rollback issue, it is as it
was; and otherwise every file is one or the other. `ManifestApply` implements it
(`ImplementsInstallation`) with the mapping `Tree` from its files to one of three
trees, and `Outcome` from its end to what the caller sees; the experiment's apply
step takes its outcomes from the same module, so that the two cannot disagree.

### ManifestApply

One item per manifest entry, with its kind of change, whether its path is in
the allowed roots, and whether the live file exists, all chosen freely: the
live tree may have moved since the manifest was made, and goes on moving. An
edit before a file is backed up (`EditBefore`) is what the transaction finds
there, and what a rollback must bring back; one after that (`EditAfter`) it
overwrites unseen. The properties are about every file that was not written
since its backup, and about what was in it at that moment. `Plan` and `PlanFails`
check the manifest, `Rehearse` and `RehearseFails` the rehearsal in a copy,
`Prepare` backs up and stages one item, the `apply` and `rollback` phases
replace and restore one item per step, `RemoveTemporaries` is the `finally`.
An `OSError` starts the rollback; a `KeyboardInterrupt` does not, and removes
the backups with the directory, as in the code.

*Left out*: a live file that others delete after its backup (only its content
changes), the removal of empty parent directories, and what the reports say
beyond the rollback issues.

### FinalizeRun

An entry of the log is named by the call that writes it; `file` holds, per run
and file, the `entry_ref` that file was finalized with. A call loads the files,
resolves the log state, stages, replaces report, ledger, planning and last the
log one by one, and on an `OSError` rolls back in reverse; each step may fail
and each may be the last. The report and the ledger are loaded one after the
other, and so are the originals the rollback keeps. A split reads the log,
appends to the events file, truncates the log and writes what is left, as many
entries as `TailEntries` says; `handle` is the splitter that has the log open,
whose write is lost when a finalization has replaced the file under it. Nothing
here takes a lock, so the steps of all calls interleave. Each call's `met` is
history: the calls that ran at a time when it did. The properties say what an
overlap can spoil and what it cannot.

*Left out*: rendering, usage errors on malformed input, contents of the files
beyond their log state.

### ReleaseFixedPoint

A report is the version of its binding digest and what it was derived from: the
tree, the revision, the versions of the reports it depends on. A writer that
derives the same leaves the version alone (`SameBinding`); whether the revision
counts depends on the report's binding mode. `Begin` to `Finish` are the pass,
with reading and writing as two steps of a writer, since others may write in
between; `Promote` and `Attest` follow. `Recommended` and `Verified` are the two
checks that write nothing. `Edit`, `Commit` and `OutsideWrite` may happen at any
moment; `touched` is what the comparison of output states before and after a
command shows. `outside` is history: whether anybody else acted during the
pass, and whether in a way that comparison cannot show (between two commands,
or on the path the running command declares).

*Left out*: two passes at once, the deletion of a report, digests and schema
checks, durations, and writers that read what the policy does not declare. The
dry run also refreshes a report the freshness report objects to
(`release_closeout_fixed_point.py:936`), which can only add writers to what
`RecommendationCovers` asks for, and does not call a pass settled while evidence is missing or
a raw digest changed alone (`:1059`), which a pass nobody disturbed leaves none of. An
attestation that fails stays a candidate (`src/mk/release-evidence.mk:307`); the
model puts it in place, so that `PassSettles` has to show that an undisturbed
pass makes none.

## Runs

| Run | Bounds | Distinct states | What it shows |
|---|---|---|---|
| `lock` | 2 runners, 1 operator | 115 471 | with crashes and failing writes: one holder unless a stale unlink raced; a live command keeps its lock; it is a `WorkspaceLock` until then; a finished release leaves no lock but an emptied one; every attempt ends |
| `lock_mutex` | 3 runners, no fault | violated | two runners hold the workspace |
| `goal_run` | 2 launches, 2 checkpoints, clock to 4, 1 refresh | 1 955 440 | what the status says is of the launch it names, a terminal status is kept, no foreign command, the locks are settled, the workspace lock is used as `WorkspaceLock` allows, a launch ends |
| `command` | 2 descendants, 2 signals | 95 709 | a success is genuine, an abort leaves nothing, a timeout leaves nobody of the group that holds the output, the call ends |
| `command_race` | 1 descendant | violated | a completed command is reported as timed out |
| `session` | 3 proposals, 3 calls | 3 379 478 | budgets, streaks and blocker stops over the whole history; nothing recorded is lost; stop reasons are true |
| `session_live` | 2 proposals, 2 calls | 131 868 | every call ends, its maintenance loop included |
| `experiment` | 3 calls of 2 attempts | 1 700 321 | only the promoted candidate goes live, a blocked call changed nothing, the ledger tells the end, a completed run's candidate is live, the abstract promotion is implemented, a call ends |
| `apply` | 3 files | 185 774 | all or nothing, no original lost, one `Installation`, with edits by others at any moment |
| `finalize` | 2 finalizations, 2 runs, 1 split that leaves 1 entry | 6 736 467 | in every interleaving, with kills and failing files: no entry without its run's files, an entry is lost only to an overlap or an interrupted split, a failure restores the run, a refusal has a cause |
| `finalize_split` | 2 finalizations, 1 split | violated | a finalized run no longer resolves |
| `fixed_point` | 4 reports, 3 passes, 2 outside events | 2 347 885 | the dry run recommends every stale writer, verified finality is consistent, one undisturbed pass settles, a second one changes nothing |

The type invariants of the proved modules are not checked again by the runs.

### Why the bounds are enough

- *lock*: the hazards need a holder, one who judges it and one who comes in
  between. With two runners, each of which is both a holder and a judge and may
  start over after a cleanup, and an operator, every pair of roles meets at
  every step; the race proper needs three runners, and `lock_mutex` has them. A
  runner creates one file per stage, which is all it can do.
- *goal_run*: the hazards need a launch that leaves something (a lock, a
  command, an event in the log, a candidate) and one that finds it: two
  launches. Two checkpoints let one be due and not the other, and one fail
  before the other passes; with a clock to four each is due, run, and due again
  for a retry in either launch. One refresh is built before and promoted after
  any step of the runner. The safety properties are proved for any number.
- *command*: one descendant inside the group and one outside, each with or
  without the pipes, is the richest mixture the properties tell apart; two
  signals are one that aborts and one that comes during that abort.
- *session*: the failure budget, the blocker threshold and the time budget are
  small so that each stop is reached and passed; three proposals allow a
  failure, a success and a failure, which is what a streak that is not reset
  needs; three calls are one that uses its budget, one that raises it and dies,
  and one that must not raise it again. One proposal is a repair, which the
  backlog check treats differently. The clock ends one tick after its target,
  maintenance cycles are told apart up to the limit. *session_live* has no symmetry, which liveness
  excludes; two calls are one that leaves a report and one that resumes it.
- *experiment*: three calls let the second leave files of a failed attempt over
  those of the first and the third read both; two attempts are the code's own
  bound.
- *apply*: three files hold an added, a modified and a deleted one, and let a
  failure at the last have one whose rollback fails before one it must still put
  back; each of them may be edited before and after its backup. The proofs are
  for any number.
- *finalize*: each hazard is between two calls, of one run or of two, or a call
  and a split, and both finalizations may come before, during or after the split
  or each other. With two entries and one left in the log, the split moves one
  and writes one back, or finds a single one and only keeps it. The order of more calls adds
  nothing but more of the same pairs; the proofs are for any number of calls, splits and
  kept entries.
- *fixed_point*: the four reports have the shape of the policy: a root, one
  derived from it, the manifest, which is bound to the revision, and one after
  the manifest; one has a costly prerequisite. Three passes are one that
  establishes the evidence, one that is disturbed or partial, and one that must
  repair it; two outside events are one during a pass and one after it. The
  proofs are for any policy, any passes and any disturbance.

Calls, launches, passes, interrupts and clocks are the only counters; each is
capped in a guard by a constant named in its module. `CHECK_DEADLOCK FALSE` is
set for the experiment, the fixed point and the goal run, whose calls, passes
and launches are bounded; in the other modules an explicit action lets the
finished system stutter. Symmetry is used only in runs without a liveness
property.

### Fairness

Fairness is stated in the modules that have a liveness property (the lock, the
goal run, the command, the session and the experiment). It is weak,
and only for the steps of a process that is alive, or of the call in progress.
The justification is that these processes never block without a limit: a
launched command runs under a deadline, which `TimedCommand` shows to end the
call, checkpoint commands have a timeout of their own, the deadline of a goal
run is looked at between heartbeats, which come by time, the sleeps of the
maintenance loop are bounded, and file operations return. Nothing is assumed of
crashes, signals, failing operations, the command's own processes, the operator,
the queue or the backlog: they may act at any time or never. A process that
crashed takes no further step and needs none.

## What is proved

The proofs hold for every value of the constants, under the assumptions named
in the modules: disjoint kinds of processes and Boolean switches
(`LockAssumption`), positive times (`RunAssumption`), a leader among the
processes (`CommandAssumption`), a manifest of at least one file
(`ManifestAssumption`), any number of calls (`ExperimentAssumption`), pending
marks that are no entry (`FinalizeAssumption`), a finite queue and positive
budgets (`SessionAssumption`), and for
the fixed point the policies `_writer_specs` accepts (`PolicyAssumption`: no
writer depends on itself or a later one) with initial targets that leave out no
writer that depends on another (`InitialsAssumption`, as the Make targets have
them).

**GoalRuntimeLockProofs.** `TypeCorrect`, `Exclusion` (`ExclusionUnlessRaced`),
`Coverage` (`ChildCovered`), `Takeover` (`TakeoverOnlyFromTheDead`),
`OnlyEmptiedLeft` (`ReleaseLeavesOnlyEmptied`), `LockKept` (`KeepsLock`),
`AttemptsBounded`. Exclusion
is not inductive: that a runner in its critical section is alone depends on the
file behind the path being its own, which depends on nobody having judged that
file stale, which depends on what the payload says of the runner and its
command. The invariant has those four parts: `StaleJudged` (a verdict still
waiting for its unlink was about a dead runner and an ended command),
`ChildAttended` (a command is running only while its runner is between launch
and cleanup, or dead), `OwnFile` (who holds the workspace holds the file the
path names) and `Covered` (the path's file names the runner of every live
command). The last two hold until `raced`. There is one lemma per group of
actions. `OnlyEmptiedLeft` adds `EmptiedInv` (a file without an owner is an empty
one): a release that reads no owner then leaves an empty file. `LockKept` maps
each system call to a step of `WorkspaceLock` or to a stutter, with one lemma per
group of actions as above: that a launch is by the holder is `OwnFile`, that a
stale unlink clears a free lock is `StaleJudged`.

**GoalRunProofs.** `TypeCorrect`, `ForeignCommands` (`NoForeignCommand`),
`LocksAreSettled` (`LocksSettled`), `GenuineCompletion` (`CompletedIsGenuine`),
`OwnEvidence` (`PeriodicIsOfLaunch`), `EndIsKept` (`TerminalKept`), `LockKept`
(`KeepsLock`), `LaunchesShorten`. `LockInv` says which lock a launch holds
at which step, and that what is left of an earlier one is from a broken launch;
`AliveInv` and `OwnInv` which commands live; `ClockInv` that nothing is recorded
ahead of the time, so that no event of an earlier launch is at or after the due
time of a later one; `EventInv` that an event which counts is this launch's; and
`ReportInv` that the report and the candidate, each built from the other side's
last one, are both sound. A refresh's candidate is why the last part must be
about both. `TerminalInv`, for `EndIsKept`: no report says that the open launch
is over, and a candidate that is neither the operator's nor overtaken repeats the
terminal status it was built from.

**TimedCommandProofs.** `TypeCorrect`, `GenuineSuccess` (`SuccessIsGenuine`),
`AbortIsComplete` (`AbortLeavesNothing`), `SurvivorsOfTimeout`
(`TimeoutSurvivors`), `WaitsShorten`. `SeenInv`: what the parent saw stays true, because
processes only end and outputs are only closed. `KilledInv`: after SIGKILL went
to the group nobody of it is left, also when an abort that an ignored signal
started returns to the escalation. `AbortInv`: an abort that has not failed has
emptied the group by its drain.

**ReleaseFixedPointProofs.** `TypeCorrect`, `StaleWritersRecommended`
(`RecommendationCovers`), `VerifiedFinality` (`VerifiedIsConsistent`),
`OnePassSettles` (`PassSettles`), `SettledIsFixed` (`FixedPoint`). The first two
rest on `PrefixInv` (the reports behind the pass are consistent, since a writer
comes after all it depends on) and `RecordInv` (a report that still has the
version a record gives it was derived from the versions that record gives the
others), which survives failures, kills and edits because versions only grow.
The last two need to know that an undisturbed pass reads what there is
(`QuietInv`) and that a report holds nothing of what its writer does not depend
on (`ShapeInv`).

**ManifestApplyProofs.** `TypeCorrect`, `AtomicApply` (`AllOrNothing`),
`NothingLost` (`OriginalsKept`), `PreparedChanges` (`ChangesArePrepared`),
`TransactionInstalls` (`ImplementsInstallation`). The
invariant follows the phases: untouched live files while planning; the files
before `item` backed up and staged while preparing, the others as they are and
in no backup; the files before `item` at their target and the others at their
original while applying; and while rolling
back, the files after `item` restored or named in `errors`, those before still
at their target. All of that is but for the files edited after their backup;
`NextEdit` shows that an edit before it only moves the original, since nothing
has been saved of that file yet. `AllOrNothing` is the last of these at the end
of the walk. The refinement adds `TreeInv`, that no file has a third content
and that what is reported applied is.

**FinalizeRunProofs.** `TypeCorrect`, `EntriesAreRecorded` (`EntryRecorded`),
`FailureRestores` (`FailureRestoresRun`), `LossesExplained`
(`LostOnlyToOverlap`), `RefusalsExplained` (`RefusalExplained`), for any number
of calls, splits and kept entries, in every interleaving. `MetInv`: two calls
that run have met, so that a call which met none of its run has the run's files
to itself. For such a call (`Unmet`) `CallInv` says what is in them: what it
loaded, then new up to its position and old from there on, and while rolling
back restored behind it or among its issues. `FreshInv`: the entry of a call
that has not replaced the log is in no log, events file or text that somebody
read. `RecordedInv` is `EntryRecorded` about more than the log and the events: it
includes the entries somebody holds in memory, since they may write them back,
and says that every other call of the run has found the entry and will keep it.
`LossInv`: whoever has read the log and is still to write it either has the
entry in its text, or met the call that wrote it, or the entry is in the events,
or it is gone for good; and what a split is about to take out of the log is in
the events by then, while an empty log is one a split has open. `BackedInv`, for the
refusals: the call a report refers to, wherever that report is or is kept in
memory, has logged its entry, is about to, or died, failed or was overlapped.

**AutoImproveSessionProofs.** `TypeCorrect`, `RunsWithinBudgets`
(`RunsAllowed`), `HistoryIsKept` (`HistoryKept`), `StopsAreGenuine`
(`StopIsGenuine`), `GrowthIsEarned` (`GrowthIsUsed`), `CallsShorten`. The code decides with
counters, the properties are about the iterations; `Exact` says that both agree
in the session and in the report: the streak is the number of failures since the
last promotion, and every blocker's count the number of its occurrences, but for
the backlog's own, which a mark may raise and no iteration has. Appending an
iteration and rebuilding the counts both keep it. `HistoryInv`: the report's
iterations are a prefix of the session's, or the session is new and has not
written yet. `StopInv`: a reason the loop has is true of the session from then
on, and which reasons can reach which step. `LabelInv`: a report that says the
budget is used tells the truth, since a session whose record still says so from
an earlier call runs nothing until the preflight overwrites it.

**MechanismExperimentProofs.** `TypeCorrect`, `OnlyThePromoted`
(`LiveIsPromoted`), `ChangesAnnounced`, `BlockedIsHarmless`, `PromiseKept`
(`KeepsPromise`), `FinalizedLive` (`FinalizedIsLive`), `LedgerSaysResult`
(`StatusOfResult`), `CallsBounded`. `OpenInv`: a call in
progress works on a run that is not complete. `FilesInv`: from the step that
writes a file on, that file is about the attempt in progress, which is what
keeps an earlier attempt's files out of the gate; the assessments are of the
candidate before its check, all else of what the check left. `AppliedInv`: only a promoted
live call gets to the apply, after its rehearsal is in the ledger, and
afterwards the live tree is the candidate. `StatusInv`: the status of the steps a
call ends at. `FoundInv`: until then, and for
whoever is not promoted, the live tree is what the call found. The action
properties follow from these by looking at the one action that can make the
change, and the refinement by mapping each action to a step of `Promotion` or to
a stutter.

**That things end.** A liveness property says two things: that what is under
way cannot go on for ever, and that it is not left where it is. The first is
proved, by a measure that every step lowers, for every value of the constants;
the second is the fairness, and stays with TLC.

| Theorem | For | Measure | What could have gone round |
|---|---|---|---|
| `AttemptsBounded` | `AttemptTerminates` | the files that may still be created, three for each runner, then the steps of one attempt | clearing a stale lock and finding another one |
| `LaunchesShorten` | `LaunchEnds` | the heartbeats to the deadline, then the checkpoints to do and the steps to the next heartbeat | the heartbeats with their checkpoints, and the loop around the per-run lock |
| `WaitsShorten` | `CallEnds` of a command | the waits before the return; a signal adds two | an abort that an ignored signal sends back |
| `CallsShorten` | `SessionEnds` | the proposals not attempted, then the time to the target, then steps | iterations, and a maintenance loop that sleeps for no time (`SleepInv` excludes it) |
| `CallsBounded` | `CallEnds` of an experiment | the repairs left, then steps: at most 22 | the repair |

Each theorem also says of every other action (a command's own steps, a signal,
a change of the backlog) how much it may add to the measure, which is
nothing but for a signal and a new lock file.

**Only model-checked.** The liveness properties themselves (`AttemptTerminates`,
`LaunchEnds`, `CallEnds`, `SessionEnds`): fairness is about
enabledness, which the prover does not treat. All
other properties of the runs are proved. `PreparedChanges`
(`ChangesArePrepared` of `ManifestApply`) and `Takeover`
(`TakeoverOnlyFromTheDead` of `GoalRuntimeLock`) are proved and not run; the
latter is part of `KeepsLock`, which is.

## Findings

Three runs are expected to find a violation; each states what a doc or a test
of the repository says.

1. `lock_mutex`: two runners judge the same stale lock; the first unlinks it
   and creates its own, the second unlinks that one by name
   (`goal_runtime_lock.py:228`, `:190`). `Exclusion` shows that this is the
   only way to lose exclusion.
2. `command_race`: `communicate(timeout=0)` does not read an end of output it
   has not read before, so a command that completed before its deadline was
   noticed is taken for timed out (`command_runtime.py:485`): the signals find
   no process, and the result says `timed_out`.
   `SuccessIsGenuine` is the direction that does hold.
3. `finalize_split`: after a split, the planning gate rejects the runs whose
   entries it moved, and finalizing them again is refused
   (`system_log_split.py:91`), also where no call overlapped the finalization.

### Known weaknesses

The models also hold behaviours that no document of the repository rules out
in so many words. The properties are stated around them, which says exactly how
far they reach.

- When the write of the pending mark fails after the file is truncated
  (`goal_runtime_lock.py:249`), the release does not find its token, and the
  empty lock is one that no runner and no cleanup removes.
  `ReleaseLeavesOnlyEmptied` shows that this is the only leftover.
- An empty per-run lock, left by a kill between its creation and its write,
  refuses its run identifier from then on. A runner whose write of it fails
  leaves before its `try`, and does not release the workspace lock, which is
  then stale (`goal_runtime_runner.py:418`). `LocksSettled` counts both launches
  as broken.
- The locks kept after a checkpoint command could not be cleaned up name a dead
  runner and no live command, so the next runner takes them for stale, although
  `docs/ops-runtime.md:59` has them kept for the operator. `NoForeignCommand`
  excepts these commands and no others.
- The recipe of `auto-improve-goal-status` promotes its candidate even when
  `goal_run_status` failed, and a candidate built while the run went on replaces
  the terminal status written meanwhile (`src/mk/mechanism.mk:333`).
  `TerminalKept` excepts it.
- A runner that ends by an exception leaves the status "running".
- The write of the session report rebuilds the blocker counts and drops the
  mark an open backlog just left, when a generic and a specific failure are both
  among the iterations (`auto_improve_loop_decision_runtime.py:226`). A resume
  then goes past its first check.
- What the check command writes to its workspace is applied with the candidate
  it checked, and no assessment has seen it
  (`run_mechanism_experiment_runtime.py:779`). The gate sees the paths in the
  manifest. `LiveIsPromoted` and `FinalizedIsLive` say that this is the only
  difference between what was assessed and what is live.
- Two finalizations that overlap, or one that overlaps a split, may write the log
  without the other's entry, and two of one run leave its files and its
  rollback to chance (`finalize_run_log_runtime.py:221`,
  `system_log_split.py:91`), although the report then calls the entry an
  "append-only log entry" (`finalize_run_state_runtime.py:66`). A split that
  keeps entries and is killed after it truncated the log loses them.
  `LostOnlyToOverlap` says that nothing else loses an entry; the other
  properties of `finalize` except calls of one run that overlapped.
- A session that is killed while a proposal runs has no record of the attempt,
  and its resume may run it again (`auto_improve_iteration_persistence_runtime.py:985`).
  `HistoryKept` is about what was written.
- A live file edited between its backup and its replacement loses the edit
  without a word, in the apply and in its rollback
  (`filesystem_runtime.py:722`). `AllOrNothing` and `OriginalsKept` except the
  files written since their backup and no others.
- `finalize_run` from the command line after a second call judges by the first
  call's report and records the artifacts as aligned
  (`finalize_run_state_runtime.py:137`). `FinalizedIsLive` shows that the
  experiment's own finalization is not affected.

## Plan

Done: the modules above, in the order lock, apply, finalize, command, session,
experiment, fixed point, goal run, which is the order of what a mistake would
cost; the abstract promotion, lock and installation with their refinements; the
proofs about all modules, and the measures by which they end.

Next, in this order:

1. The session and the experiment together: what a session believes of a
   proposal against what is live, over crashes of either.
2. The usage-limit backoff of the goal runner, the maintenance resume plan and
   the session start from the Make targets.
3. Operators for the promotion gate's and the planning gate's verdicts and for
   artifact freshness, checked against a reference definition.
4. What retention may remove under a held lock; the multi-file intake of the
   raw registry; reuse of test evidence.

## Not modelled

Most of the repository's lines are sequential report builders: they read files,
compute, and write one report, with no state between calls and nobody beside
them but through the report they write. For these a state machine has nothing
to add to their tests. They are the admission and maintenance tools of a goal
run, proposal generation and readiness, run scaffolding and capture, the
executor adapters, the learning tools, the release closeout's evidence builders
and governance, the public mirror, the supply chain documents, wiki evaluation
and lint, and the policies and Make targets. What the modelled parts take from
them is in the models as a free choice: any queue, any verdict, any outcome of
an executor, any backlog.

The gates, artifact freshness, retention, raw intake and test evidence are
decisions worth stating as operators or small machines; they are in the plan.
