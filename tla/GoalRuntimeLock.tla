-------------------------- MODULE GoalRuntimeLock --------------------------
(***************************************************************************)
(* The repository-wide goal runtime lock: one JSON file that runners       *)
(* create with O_EXCL, rewrite in place around the launch of their command *)
(* and unlink on release, while other runners, "check --cleanup-stale" and *)
(* "stop" read it, probe the recorded processes and unlink it when they    *)
(* find it stale.  (goal_runtime_lock.py, and its use by                   *)
(* goal_runtime_runner.py.)                                                *)
(*                                                                         *)
(* Every system call is a step of its own: the file is never held open     *)
(* between the read, the probe and the unlink.                             *)
(***************************************************************************)
EXTENDS Naturals, FiniteSets

CONSTANTS
    Runners,      \* processes of "goal_runtime_runner"
    Operators,    \* processes of "goal_runtime_lock", each of which runs
                  \* "check --cleanup-stale" or "stop"
    NoOne,        \* owner of an empty or unreadable lock file
    NoInode,      \* the lock path does not exist
    Crashes,      \* TRUE: a runner may be killed at any step
    WriteFaults   \* TRUE: a write to the vault may fail (disk full, ...)

Stages == {"acquire", "mark", "register"}

(* A runner creates at most one file per stage, so this pair names it.     *)
Inode == Runners \X Stages

ASSUME LockAssumption ==
    /\ NoOne \notin Runners
    /\ NoInode \notin Inode
    /\ Runners \cap Operators = {}
    /\ Crashes \in BOOLEAN
    /\ WriteFaults \in BOOLEAN

Actors == Runners \cup Operators

VARIABLES
    path,      \* the file the lock path names
    content,   \* the payload in each file
    pc,        \* where each process is
    fd,        \* the file a runner has open for writing
    seen,      \* the payload a process has read
    child,     \* the process group of each runner's command
    raced      \* history: a lock was unlinked that is not the one judged stale

vars == <<path, content, pc, fd, seen, child, raced>>

ChildStates == {"none", "running", "lingering", "gone"}
Registration == {"none", "pending", "registered"}
Payload == [owner : Runners \cup {NoOne}, child : Registration]
Empty == [owner |-> NoOne, child |-> "none"]

Inspecting == {"idle", "load", "probe", "unlinkStale"}
Holding == {"created", "holding", "marking", "markWrite", "launch", "launched",
            "registering", "regWrite", "abort", "running", "cleanup", "release",
            "unlink"}
Exited == {"exited", "refused", "failed", "retained", "crashed"}
Signalling == {"signalChild", "signalRunner"}
Covering == {"launched", "registering", "regWrite", "abort", "running", "cleanup"}

TypeOK ==
    /\ path \in Inode \cup {NoInode}
    /\ content \in [Inode -> Payload]
    /\ pc \in [Actors -> Inspecting \cup Holding \cup Exited \cup Signalling]
    /\ \A a \in Operators : pc[a] \notin Holding
    /\ fd \in [Runners -> Inode \cup {NoInode}]
    /\ seen \in [Actors -> Payload]
    /\ child \in [Runners -> ChildStates]
    /\ raced \in BOOLEAN

Init ==
    /\ path = NoInode
    /\ content = [i \in Inode |-> Empty]
    /\ pc = [a \in Actors |-> IF a \in Runners THEN "idle" ELSE "load"]
    /\ fd = [r \in Runners |-> NoInode]
    /\ seen = [a \in Actors |-> Empty]
    /\ child = [r \in Runners |-> "none"]
    /\ raced = FALSE

-----------------------------------------------------------------------------
(* What an inspection decides.                                             *)

\* _load_payload: a missing or truncated file reads as an empty object.
LoadPayload == IF path = NoInode THEN Empty ELSE content[path]

\* _process_is_running and _process_group_is_running.
RunnerAlive(r) == pc[r] \notin Exited
ChildAlive(r) == child[r] \in {"running", "lingering"}

\* Mutants of ActiveChild and ActiveRunner: that process is not probed.
NoChildProbe(p) == FALSE
NoRunnerProbe(p) == FALSE

\* _active_owner looks at the child before the runner.
ActiveChild(p) ==
    /\ p.owner # NoOne
    /\ p.child = "registered"
    /\ ChildAlive(p.owner)
ActiveRunner(p) == p.owner # NoOne /\ RunnerAlive(p.owner)

\* Mutant of IsStale: an unfinished child registration is not respected.
IsStaleIgnoringPending(p) ==
    p.owner # NoOne /\ ~ ActiveChild(p) /\ ~ ActiveRunner(p)

\* inspect_workspace_lock reports "stale".
IsStale(p) ==
    /\ p.owner # NoOne
    /\ ~ ActiveChild(p)
    /\ ~ ActiveRunner(p)
    /\ p.child # "pending"

Goto(a, label) == pc' = [pc EXCEPT ![a] = label]

-----------------------------------------------------------------------------
(* inspect_workspace_lock, by whoever runs it.                             *)

Load(a) ==
    /\ pc[a] = "load"
    /\ seen' = [seen EXCEPT ![a] = LoadPayload]
    /\ Goto(a, "probe")
    /\ UNCHANGED <<path, content, fd, child, raced>>

Probe(a) ==
    /\ pc[a] = "probe"
    /\ \/ IsStale(seen[a]) /\ Goto(a, "unlinkStale")
       \/ ~ IsStale(seen[a]) /\ Goto(a, "refused")
       \/ /\ a \in Operators       \* "stop"
          /\ ActiveChild(seen[a])
          /\ Goto(a, "signalChild")
       \/ /\ a \in Operators       \* "stop"
          /\ ~ ActiveChild(seen[a]) /\ ActiveRunner(seen[a])
          /\ Goto(a, "signalRunner")
    /\ UNCHANGED <<path, content, fd, seen, child, raced>>

\* Mutant of UnlinkStale: the runner goes on without unlinking.
UnlinkStaleForgotten(a) ==
    /\ pc[a] = "unlinkStale"
    /\ Goto(a, IF a \in Runners THEN "idle" ELSE "exited")
    /\ UNCHANGED <<path, content, fd, seen, child, raced>>

\* The unlink is by name: it removes whatever file is there by now.
UnlinkStale(a) ==
    /\ pc[a] = "unlinkStale"
    /\ path' = NoInode
    /\ raced' = (raced \/ (path # NoInode /\ content[path] # seen[a]))
    /\ Goto(a, IF a \in Runners THEN "idle" ELSE "exited")
    /\ UNCHANGED <<content, fd, seen, child>>

-----------------------------------------------------------------------------
(* acquire_workspace_lock.                                                 *)

CreateLock(r) ==
    /\ pc[r] = "idle"
    /\ path = NoInode
    /\ path' = <<r, "acquire">>
    /\ content' = [content EXCEPT ![<<r, "acquire">>] = Empty]
    /\ fd' = [fd EXCEPT ![r] = <<r, "acquire">>]
    /\ Goto(r, "created")
    /\ UNCHANGED <<seen, child, raced>>

LockExists(r) ==
    /\ pc[r] = "idle"
    /\ path # NoInode
    /\ Goto(r, "load")
    /\ UNCHANGED <<path, content, fd, seen, child, raced>>

WriteNewLock(r) ==
    /\ pc[r] = "created"
    /\ content' = [content EXCEPT ![fd[r]] = [owner |-> r, child |-> "none"]]
    /\ Goto(r, "holding")
    /\ UNCHANGED <<path, fd, seen, child, raced>>

\* The empty file stays behind, and reads as "invalid" from then on.
WriteNewLockFails(r) ==
    /\ WriteFaults
    /\ pc[r] = "created"
    /\ Goto(r, "failed")
    /\ UNCHANGED <<path, content, fd, seen, child, raced>>

\* run_goal_runtime_command before the launch: the per-run lock is busy or
\* the initial status cannot be written.
PrelaunchFails(r) ==
    /\ WriteFaults
    /\ pc[r] = "holding"
    /\ Goto(r, "release")
    /\ UNCHANGED <<path, content, fd, seen, child, raced>>

-----------------------------------------------------------------------------
(* _update_workspace_lock: read, compare the token, truncate, write.       *)

UpdateLoad(r, from, opening, failing) ==
    /\ pc[r] = from
    /\ seen' = [seen EXCEPT ![r] = LoadPayload]
    /\ Goto(r, IF LoadPayload.owner = r THEN opening ELSE failing)
    /\ UNCHANGED <<path, content, fd, child, raced>>

\* write_text opens by name: it truncates the file there is, or creates one.
UpdateOpen(r, opening, stage, writing) ==
    /\ pc[r] = opening
    /\ LET target == IF path = NoInode THEN <<r, stage>> ELSE path
       IN  /\ path' = target
           /\ content' = [content EXCEPT ![target] = Empty]
           /\ fd' = [fd EXCEPT ![r] = target]
    /\ Goto(r, writing)
    /\ UNCHANGED <<seen, child, raced>>

UpdateWrite(r, writing, registration, done) ==
    /\ pc[r] = writing
    /\ content' = [content EXCEPT ![fd[r]] = [owner |-> r, child |-> registration]]
    /\ Goto(r, done)
    /\ UNCHANGED <<path, fd, seen, child, raced>>

\* The file could not be opened, or was truncated and could not be written.
UpdateFails(r, at, failing) ==
    /\ WriteFaults
    /\ pc[r] = at
    /\ Goto(r, failing)
    /\ UNCHANGED <<path, content, fd, seen, child, raced>>

\* mark_workspace_lock_child_pending
MarkChildPending(r) ==
    \/ UpdateLoad(r, "holding", "marking", "release")
    \/ UpdateOpen(r, "marking", "mark", "markWrite")
    \/ UpdateWrite(r, "markWrite", "pending", "launch")
    \/ UpdateFails(r, "marking", "release")
    \/ UpdateFails(r, "markWrite", "release")

\* update_workspace_lock_child, after the launch
UpdateChild(r) ==
    \/ UpdateLoad(r, "launched", "registering", "abort")
    \/ UpdateOpen(r, "registering", "register", "regWrite")
    \/ UpdateWrite(r, "regWrite", "registered", "running")
    \/ UpdateFails(r, "registering", "abort")
    \/ UpdateFails(r, "regWrite", "abort")

-----------------------------------------------------------------------------
(* The command's process group.                                            *)

LaunchChild(r) ==
    /\ pc[r] = "launch"
    /\ child' = [child EXCEPT ![r] = "running"]
    /\ Goto(r, "launched")
    /\ UNCHANGED <<path, content, fd, seen, raced>>

\* Mutant of LaunchFails: the error leaves the runner with its lock.
LaunchFailsUnreleased(r) ==
    /\ pc[r] = "launch"
    /\ Goto(r, "exited")
    /\ UNCHANGED <<path, content, fd, seen, child, raced>>

LaunchFails(r) ==
    /\ pc[r] = "launch"
    /\ Goto(r, "release")
    /\ UNCHANGED <<path, content, fd, seen, child, raced>>

\* run_with_timeout returned: the leader is reaped, and a descendant that
\* does not hold the pipes may linger in its group.
CommandReturns(r) ==
    /\ pc[r] = "running"
    /\ \E left \in {"gone", "lingering"} :
          /\ left = "lingering" => child[r] # "gone"
          /\ child' = [child EXCEPT ![r] = left]
    /\ Goto(r, "release")
    /\ UNCHANGED <<path, content, fd, seen, raced>>

\* A heartbeat write failed, or a signal reached the runner.
CommandInterrupted(r) ==
    /\ pc[r] = "running"
    /\ Goto(r, "cleanup")
    /\ UNCHANGED <<path, content, fd, seen, child, raced>>

\* cleanup_process_after_error
CleanupChild(r) ==
    /\ pc[r] \in {"abort", "cleanup"}
    /\ child' = [child EXCEPT ![r] = "gone"]
    /\ Goto(r, "release")
    /\ UNCHANGED <<path, content, fd, seen, raced>>

\* ProcessCleanupError: the kill or the reaping failed, the locks are kept.
CleanupFails(r) ==
    /\ pc[r] \in {"abort", "cleanup"}
    /\ \E left \in {child[r], "gone"} : child' = [child EXCEPT ![r] = left]
    /\ Goto(r, "retained")
    /\ UNCHANGED <<path, content, fd, seen, raced>>

ChildExits(r) ==
    /\ ChildAlive(r)
    /\ child' = [child EXCEPT ![r] = "gone"]
    /\ UNCHANGED <<path, content, pc, fd, seen, raced>>

-----------------------------------------------------------------------------
(* release_workspace_lock.                                                 *)

ReleaseLoad(r) ==
    /\ pc[r] = "release"
    /\ seen' = [seen EXCEPT ![r] = LoadPayload]
    /\ Goto(r, IF LoadPayload.owner = r THEN "unlink" ELSE "exited")
    /\ UNCHANGED <<path, content, fd, child, raced>>

ReleaseUnlink(r) ==
    /\ pc[r] = "unlink"
    /\ path' = NoInode
    /\ Goto(r, "exited")
    /\ UNCHANGED <<content, fd, seen, child, raced>>

-----------------------------------------------------------------------------
(* stop_workspace_lock, and processes that die.                            *)

\* SIGTERM to the registered group, which may survive it.
StopChild(s) ==
    /\ pc[s] = "signalChild"
    /\ LET r == seen[s].owner
       IN  \E left \in {child[r], "gone"} : child' = [child EXCEPT ![r] = left]
    /\ Goto(s, "exited")
    /\ UNCHANGED <<path, content, fd, seen, raced>>

\* SIGTERM to the runner: run_with_timeout's handler cleans the command up,
\* outside of it the default action kills the runner on the spot.
StopRunner(s) ==
    /\ pc[s] = "signalRunner"
    /\ LET r == seen[s].owner
       IN  \/ /\ pc[r] \in {"running", "cleanup"}
              /\ pc' = [pc EXCEPT ![s] = "exited", ![r] = "cleanup"]
           \/ /\ pc[r] \notin Exited \cup {"running", "cleanup"}
              /\ pc' = [pc EXCEPT ![s] = "exited", ![r] = "crashed"]
           \/ pc[r] \in Exited /\ Goto(s, "exited")
    /\ UNCHANGED <<path, content, fd, seen, child, raced>>

Crash(r) ==
    /\ Crashes
    /\ RunnerAlive(r)
    /\ Goto(r, "crashed")
    /\ UNCHANGED <<path, content, fd, seen, child, raced>>

-----------------------------------------------------------------------------
AcquireStep(r) ==
    \/ CreateLock(r)
    \/ LockExists(r)
    \/ WriteNewLock(r)
    \/ WriteNewLockFails(r)
    \/ PrelaunchFails(r)

CommandStep(r) ==
    \/ LaunchChild(r)
    \/ LaunchFails(r)
    \/ CommandReturns(r)
    \/ CommandInterrupted(r)
    \/ CleanupChild(r)
    \/ CleanupFails(r)

InspectStep(a) == Load(a) \/ Probe(a) \/ UnlinkStale(a)

RunnerStep(r) ==
    \/ AcquireStep(r)
    \/ InspectStep(r)
    \/ MarkChildPending(r)
    \/ UpdateChild(r)
    \/ CommandStep(r)
    \/ ReleaseLoad(r)
    \/ ReleaseUnlink(r)

OperatorStep(a) == InspectStep(a) \/ StopChild(a) \/ StopRunner(a)

AllDone == \A a \in Actors : pc[a] \in Exited

Done == AllDone /\ UNCHANGED vars

Next ==
    \/ \E r \in Runners : RunnerStep(r) \/ ChildExits(r) \/ Crash(r)
    \/ \E a \in Operators : OperatorStep(a)
    \/ Done

(* A live process keeps executing; run_with_timeout bounds its command.    *)
Fairness ==
    /\ \A r \in Runners : WF_vars(RunnerStep(r))
    /\ \A a \in Operators : WF_vars(OperatorStep(a))

Spec == Init /\ [][Next]_vars /\ Fairness

-----------------------------------------------------------------------------
(* Properties                                                              *)

Owners == {r \in Runners : pc[r] \in Holding}

(* Two runners never hold the workspace at once: what                      *)
(* "active_workspace_lock_blocks_second_goal_runtime" promises.  It fails: *)
(* between one process's inspection and its unlink another may replace the *)
(* stale lock.                                                             *)
MutualExclusion == Cardinality(Owners) <= 1

(* The race above is the only way to lose exclusion: as long as every      *)
(* stale unlink removed the file it had judged, no two runners hold the    *)
(* workspace, whatever crashes, failed writes and signals occur.           *)
ExclusionUnlessRaced ==
    ~ raced => \A p, q \in Runners :
                  pc[p] \in Holding /\ pc[q] \in Holding => p = q

(* While a command that was launched and not reaped is alive, the lock     *)
(* file is there, and it names the command's runner together with the      *)
(* pending mark or the registration (or is being rewritten): the           *)
(* workspace cannot be taken from a live child, even when its runner is    *)
(* gone.                                                                   *)
ChildCovered ==
    ~ raced => \A r \in Runners :
                  child[r] = "running" =>
                      /\ path = <<r, "acquire">>
                      /\ content[path] # [owner |-> r, child |-> "none"]

(* Until an unlink races, the file is the lock of WorkspaceLock: only the  *)
(* runner that created it launches its command, no stale unlink takes the  *)
(* workspace from a live runner or command, and no failure or death passes *)
(* it on (acquire_workspace_lock, cleanup_stale_workspace_lock).           *)
Kept == INSTANCE WorkspaceLock WITH
    Users <- Runners,
    holder <- IF path = NoInode THEN NoOne ELSE path[1],
    commands <- {r \in Runners : child[r] = "running"},
    dead <- {r \in Runners : pc[r] \in Exited},
    lost <- raced

KeepsLock == Kept!Spec

(* A stale unlink that removes the lock it judged removes a lock whose     *)
(* runner is dead and whose command has ended.                             *)
TakeoverOnlyFromTheDead ==
    [][\A a \in Actors :
          UnlinkStale(a) /\ ~ raced' /\ path # NoInode =>
              LET q == content[path].owner
              IN  q \in Runners /\ ~ RunnerAlive(q) /\ child[q] # "running"]_vars

(* A lock that a runner leaves behind its release is the empty one that a  *)
(* marker write left when it failed after truncating the file, never one   *)
(* that still names the runner.                                            *)
ReleaseLeavesOnlyEmptied ==
    ~ raced => \A r \in Runners :
                  pc[r] = "exited" /\ path = <<r, "acquire">> => content[path] = Empty

(* Every attempt to run a goal ends: it runs and releases, is refused,     *)
(* fails or dies; clearing stale locks does not go round for ever.         *)
AttemptTerminates == \A r \in Runners : <>(pc[r] \in Exited)
=============================================================================
