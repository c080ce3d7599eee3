----------------------- MODULE GoalRuntimeLockProofs -----------------------
(***************************************************************************)
(* Proofs about GoalRuntimeLock, for any number of processes and with or   *)
(* without crashes and failing writes: types, exclusion and coverage of a  *)
(* live command as long as no stale unlink raced, and the soundness of     *)
(* a takeover.                                                             *)
(***************************************************************************)
EXTENDS GoalRuntimeLock, TLAPS

(* What the processes have concluded: one that is about to unlink has seen *)
(* a lock whose runner is dead and whose command has ended.                *)
StaleJudged ==
    \A a \in Actors : pc[a] = "unlinkStale" =>
        /\ seen[a].owner \in Runners
        /\ ~ RunnerAlive(seen[a].owner)
        /\ seen[a].child # "pending"
        /\ seen[a].child = "registered" => ~ ChildAlive(seen[a].owner)

(* A runner does not get past its command while the command runs.          *)
ChildAttended ==
    \A r \in Runners :
        child[r] = "running" => pc[r] \in Covering \cup {"retained", "crashed"}

(* As long as no unlink raced, the lock file belongs to the runner that    *)
(* created it, only that runner writes to it, and it covers its command.   *)
OwnFile ==
    /\ \A p \in Runners : pc[p] \in Holding => path = <<p, "acquire">>
    /\ \A r \in Runners, s \in Stages : path = <<r, s>> =>
          s = "acquire" /\ content[path].owner \in {r, NoOne}
    /\ \A r \in Runners :
          pc[r] \in {"created", "markWrite", "regWrite"} => fd[r] = <<r, "acquire">>

Covered ==
    \A r \in Runners :
        /\ pc[r] = "launch" =>
              content[<<r, "acquire">>] = [owner |-> r, child |-> "pending"]
        /\ child[r] = "running" =>
              /\ path = <<r, "acquire">>
              /\ content[path] # [owner |-> r, child |-> "none"]

IInv ==
    /\ TypeOK
    /\ StaleJudged
    /\ ChildAttended
    /\ ~ raced => OwnFile /\ Covered

-----------------------------------------------------------------------------
LEMMA InitType == Init => TypeOK
<1> SUFFICES ASSUME Init PROVE TypeOK
  OBVIOUS
<1>1. Empty \in Payload
  BY DEF Empty, Payload, Registration
<1>2. path \in Inode \cup {NoInode} /\ raced \in BOOLEAN
  BY DEF Init
<1>3. content \in [Inode -> Payload] /\ seen \in [Actors -> Payload]
  BY <1>1 DEF Init
<1>4. /\ pc \in [Actors -> Inspecting \cup Holding \cup Exited \cup Signalling]
      /\ \A a \in Operators : pc[a] \notin Holding
  BY LockAssumption DEF Init, Inspecting, Holding, Actors
<1>5. fd \in [Runners -> Inode \cup {NoInode}] /\ child \in [Runners -> ChildStates]
  BY DEF Init, ChildStates
<1>6. QED
  BY <1>2, <1>3, <1>4, <1>5 DEF TypeOK

LEMMA InspectType ==
    ASSUME TypeOK, NEW a \in Actors, InspectStep(a)
    PROVE  TypeOK'
<1>1. CASE Load(a)
  BY <1>1 DEF Load, LoadPayload, Goto, TypeOK, Actors, Inspecting,
     Holding, Empty, Payload, Registration
<1>2. CASE Probe(a)
  BY <1>2, LockAssumption DEF Probe, Goto, TypeOK, Actors,
     Inspecting, Holding, Exited, Signalling
<1>3. CASE UnlinkStale(a)
  BY <1>3 DEF UnlinkStale, Goto, TypeOK, Actors, Inspecting, Holding,
     Exited
<1>4. QED
  BY <1>1, <1>2, <1>3 DEF InspectStep

LEMMA AcquireType ==
    ASSUME TypeOK, NEW r \in Runners, AcquireStep(r)
    PROVE  TypeOK'
<1> USE LockAssumption DEF TypeOK, Actors, Goto, Inode, Stages, Payload,
        Registration, Empty, Inspecting, Holding, Exited
<1>1. CASE CreateLock(r)
  BY <1>1 DEF CreateLock
<1>2. CASE LockExists(r)
  BY <1>2 DEF LockExists
<1>3. CASE WriteNewLock(r)
  BY <1>3 DEF WriteNewLock
<1>4. CASE WriteNewLockFails(r)
  BY <1>4 DEF WriteNewLockFails
<1>5. CASE PrelaunchFails(r)
  BY <1>5 DEF PrelaunchFails
<1>6. QED
  BY <1>1, <1>2, <1>3, <1>4, <1>5 DEF AcquireStep

LEMMA UpdateType ==
    ASSUME TypeOK, NEW r \in Runners, MarkChildPending(r) \/ UpdateChild(r)
    PROVE  TypeOK'
<1> USE LockAssumption DEF TypeOK, Actors, Goto, Inode, Stages, Payload,
        Registration, Empty, Holding
<1>1. ASSUME NEW at, NEW opening \in Holding, NEW failing \in Holding,
             UpdateLoad(r, at, opening, failing)
      PROVE  TypeOK'
  BY <1>1 DEF UpdateLoad, LoadPayload
<1>2. ASSUME NEW opening, NEW stage \in Stages, NEW writing \in Holding,
             UpdateOpen(r, opening, stage, writing)
      PROVE  TypeOK'
  BY <1>2 DEF UpdateOpen
<1>3. ASSUME NEW writing, NEW registration \in Registration, NEW done \in Holding,
             UpdateWrite(r, writing, registration, done)
      PROVE  TypeOK'
  BY <1>3 DEF UpdateWrite
<1>4. ASSUME NEW at, NEW failing \in Holding, UpdateFails(r, at, failing)
      PROVE  TypeOK'
  BY <1>4 DEF UpdateFails
<1>5. QED
  BY <1>1, <1>2, <1>3, <1>4 DEF MarkChildPending, UpdateChild

LEMMA CommandType ==
    ASSUME TypeOK, NEW r \in Runners,
           CommandStep(r) \/ ReleaseLoad(r) \/ ReleaseUnlink(r) \/ ChildExits(r)
           \/ Crash(r)
    PROVE  TypeOK'
<1> USE LockAssumption DEF TypeOK, Actors, Goto, Holding, Exited, ChildStates
<1>1. CASE LaunchChild(r)
  BY <1>1 DEF LaunchChild
<1>2. CASE LaunchFails(r)
  BY <1>2 DEF LaunchFails
<1>3. CASE CommandReturns(r)
  BY <1>3 DEF CommandReturns
<1>4. CASE CommandInterrupted(r)
  BY <1>4 DEF CommandInterrupted
<1>5. CASE CleanupChild(r)
  BY <1>5 DEF CleanupChild
<1>6. CASE CleanupFails(r)
  BY <1>6 DEF CleanupFails
<1>7. CASE ReleaseLoad(r)
  BY <1>7 DEF ReleaseLoad, LoadPayload, Empty, Payload, Registration
<1>8. CASE ReleaseUnlink(r)
  BY <1>8 DEF ReleaseUnlink
<1>9. CASE ChildExits(r)
  BY <1>9 DEF ChildExits
<1>10. CASE Crash(r)
  BY <1>10 DEF Crash
<1>11. QED
  BY <1>1, <1>2, <1>3, <1>4, <1>5, <1>6, <1>7, <1>8, <1>9, <1>10
     DEF CommandStep

LEMMA StopType ==
    ASSUME TypeOK, NEW s \in Operators, StopChild(s) \/ StopRunner(s)
    PROVE  TypeOK'
<1> USE LockAssumption DEF TypeOK, Actors, Goto, Holding, Exited
<1>1. CASE StopChild(s)
  BY <1>1 DEF StopChild, ChildStates, Payload
<1>2. CASE StopRunner(s)
  BY <1>2 DEF StopRunner, Payload
<1>3. QED
  BY <1>1, <1>2

LEMMA NextType == TypeOK /\ [Next]_vars => TypeOK'
<1> SUFFICES ASSUME TypeOK, [Next]_vars PROVE TypeOK'
  OBVIOUS
<1>1. CASE UNCHANGED vars
  BY <1>1 DEF vars, TypeOK
<1>2. ASSUME NEW r \in Runners, RunnerStep(r) \/ ChildExits(r) \/ Crash(r)
      PROVE  TypeOK'
  <2>1. r \in Actors
    BY DEF Actors
  <2>2. QED
    BY <1>2, <2>1, InspectType, AcquireType, UpdateType, CommandType DEF RunnerStep
<1>3. ASSUME NEW a \in Operators, OperatorStep(a) PROVE TypeOK'
  <2>1. a \in Actors
    BY DEF Actors
  <2>2. QED
    BY <1>3, <2>1, InspectType, StopType DEF OperatorStep
<1>4. QED
  BY <1>1, <1>2, <1>3 DEF Next, Done

(* Every state keeps the types of the lock file, the payloads read and the *)
(* program counters: goal_runtime_lock.py never leaves its own vocabulary. *)
THEOREM TypeCorrect == Spec => []TypeOK
<1>1. QED
  BY InitType, NextType, PTL DEF Spec

-----------------------------------------------------------------------------
(* A process that has exited stays so, and a command that has ended does   *)
(* not come back unless its runner is at the launch.                       *)
LEMMA DeadStayDead ==
    ASSUME TypeOK, [Next]_vars, NEW q \in Runners
    PROVE  /\ ~ RunnerAlive(q) => ~ RunnerAlive(q)'
           /\ ~ RunnerAlive(q) /\ ~ ChildAlive(q) => ~ ChildAlive(q)'
<1> USE DEF RunnerAlive, ChildAlive, Exited, Goto, TypeOK, Actors
<1>1. CASE UNCHANGED vars
  BY <1>1 DEF vars
<1>2. ASSUME NEW r \in Runners, AcquireStep(r) PROVE
        /\ ~ RunnerAlive(q) => ~ RunnerAlive(q)'
        /\ ~ RunnerAlive(q) /\ ~ ChildAlive(q) => ~ ChildAlive(q)'
  BY <1>2 DEF AcquireStep, CreateLock, LockExists, WriteNewLock, WriteNewLockFails,
     PrelaunchFails
<1>3. ASSUME NEW r \in Runners, MarkChildPending(r) \/ UpdateChild(r) PROVE
        /\ ~ RunnerAlive(q) => ~ RunnerAlive(q)'
        /\ ~ RunnerAlive(q) /\ ~ ChildAlive(q) => ~ ChildAlive(q)'
  BY <1>3 DEF MarkChildPending, UpdateChild, UpdateLoad, UpdateOpen, UpdateWrite,
     UpdateFails
<1>4. ASSUME NEW r \in Runners, CommandStep(r) PROVE
        /\ ~ RunnerAlive(q) => ~ RunnerAlive(q)'
        /\ ~ RunnerAlive(q) /\ ~ ChildAlive(q) => ~ ChildAlive(q)'
  BY <1>4 DEF CommandStep, LaunchChild, LaunchFails, CommandReturns,
     CommandInterrupted, CleanupChild, CleanupFails
<1>5. ASSUME NEW r \in Runners,
             ReleaseLoad(r) \/ ReleaseUnlink(r) \/ ChildExits(r) \/ Crash(r) PROVE
        /\ ~ RunnerAlive(q) => ~ RunnerAlive(q)'
        /\ ~ RunnerAlive(q) /\ ~ ChildAlive(q) => ~ ChildAlive(q)'
  BY <1>5 DEF ReleaseLoad, ReleaseUnlink, ChildExits, Crash
<1>6. ASSUME NEW a \in Actors, InspectStep(a) PROVE
        /\ ~ RunnerAlive(q) => ~ RunnerAlive(q)'
        /\ ~ RunnerAlive(q) /\ ~ ChildAlive(q) => ~ ChildAlive(q)'
  BY <1>6 DEF InspectStep, Load, Probe, UnlinkStale
<1>7. ASSUME NEW s \in Operators, StopChild(s) \/ StopRunner(s) PROVE
        /\ ~ RunnerAlive(q) => ~ RunnerAlive(q)'
        /\ ~ RunnerAlive(q) /\ ~ ChildAlive(q) => ~ ChildAlive(q)'
  BY <1>7, LockAssumption DEF StopChild, StopRunner
<1>8. QED
  BY <1>1, <1>2, <1>3, <1>4, <1>5, <1>6, <1>7
     DEF Next, RunnerStep, OperatorStep, Done, Actors

(* Only a probe decides to unlink, and nobody reads again in between.      *)
LEMMA JudgedByProbe ==
    ASSUME TypeOK, [Next]_vars, NEW a \in Actors, pc[a]' = "unlinkStale"
    PROVE  \/ Probe(a) /\ IsStale(seen[a])
           \/ pc[a] = "unlinkStale" /\ seen'[a] = seen[a]
<1> DEFINE Goal == \/ Probe(a) /\ IsStale(seen[a])
                   \/ pc[a] = "unlinkStale" /\ seen'[a] = seen[a]
<1> USE DEF Goto, TypeOK, Actors
<1>1. CASE UNCHANGED vars
  BY <1>1 DEF vars
<1>2. ASSUME NEW r \in Runners, AcquireStep(r) PROVE Goal
  BY <1>2 DEF AcquireStep, CreateLock, LockExists, WriteNewLock, WriteNewLockFails,
     PrelaunchFails
<1>3. ASSUME NEW r \in Runners, MarkChildPending(r) \/ UpdateChild(r) PROVE Goal
  BY <1>3 DEF MarkChildPending, UpdateChild, UpdateLoad, UpdateOpen, UpdateWrite,
     UpdateFails
<1>4. ASSUME NEW r \in Runners, CommandStep(r) PROVE Goal
  BY <1>4 DEF CommandStep, LaunchChild, LaunchFails, CommandReturns,
     CommandInterrupted, CleanupChild, CleanupFails
<1>5. ASSUME NEW r \in Runners,
             ReleaseLoad(r) \/ ReleaseUnlink(r) \/ ChildExits(r) \/ Crash(r)
      PROVE  Goal
  BY <1>5 DEF ReleaseLoad, ReleaseUnlink, ChildExits, Crash
<1>6. ASSUME NEW b \in Actors, InspectStep(b) PROVE Goal
  BY <1>6 DEF InspectStep, Load, Probe, UnlinkStale
<1>7. ASSUME NEW s \in Operators, StopChild(s) \/ StopRunner(s) PROVE Goal
  BY <1>7, LockAssumption DEF StopChild, StopRunner
<1>8. QED
  BY <1>1, <1>2, <1>3, <1>4, <1>5, <1>6, <1>7
     DEF Next, RunnerStep, OperatorStep, Done

LEMMA NextStaleJudged == TypeOK /\ StaleJudged /\ [Next]_vars => StaleJudged'
<1> SUFFICES ASSUME TypeOK, StaleJudged, [Next]_vars,
                    NEW a \in Actors, pc[a]' = "unlinkStale"
             PROVE  (/\ seen[a].owner \in Runners
                     /\ ~ RunnerAlive(seen[a].owner)
                     /\ seen[a].child # "pending"
                     /\ seen[a].child = "registered" => ~ ChildAlive(seen[a].owner))'
  BY DEF StaleJudged, Actors
<1>1. seen[a].owner \in Runners \cup {NoOne}
  BY DEF TypeOK, Payload
<1>2. /\ seen'[a] = seen[a]
      /\ seen[a].owner \in Runners
      /\ ~ RunnerAlive(seen[a].owner)
      /\ seen[a].child # "pending"
      /\ seen[a].child = "registered" => ~ ChildAlive(seen[a].owner)
  BY <1>1, JudgedByProbe DEF StaleJudged, Probe, IsStale, ActiveRunner, ActiveChild
<1> DEFINE q == seen[a].owner
<1>3. ~ (pc[q]' \notin Exited) /\ (seen[a].child = "registered" =>
                                    ~ (child[q]' \in {"running", "lingering"}))
  BY <1>2, DeadStayDead DEF RunnerAlive, ChildAlive, Exited
<1>4. QED
  BY <1>2, <1>3 DEF RunnerAlive, ChildAlive, Exited

LEMMA NextChildAttended == TypeOK /\ ChildAttended /\ [Next]_vars => ChildAttended'
<1> SUFFICES ASSUME TypeOK, ChildAttended, [Next]_vars,
                    NEW q \in Runners, child[q]' = "running"
             PROVE  pc[q]' \in Covering \cup {"retained", "crashed"}
  BY DEF ChildAttended, Covering
<1> DEFINE Goal == pc[q]' \in Covering \cup {"retained", "crashed"}
<1> USE DEF Goto, TypeOK, Actors, Covering, ChildAttended
<1>1. CASE UNCHANGED vars
  BY <1>1 DEF vars
<1>2. ASSUME NEW r \in Runners, AcquireStep(r) PROVE Goal
  BY <1>2 DEF AcquireStep, CreateLock, LockExists, WriteNewLock, WriteNewLockFails,
     PrelaunchFails
<1>3. ASSUME NEW r \in Runners, MarkChildPending(r) \/ UpdateChild(r) PROVE Goal
  BY <1>3 DEF MarkChildPending, UpdateChild, UpdateLoad, UpdateOpen, UpdateWrite,
     UpdateFails
<1>4. ASSUME NEW r \in Runners, CommandStep(r) PROVE Goal
  BY <1>4 DEF CommandStep, LaunchChild, LaunchFails, CommandReturns,
     CommandInterrupted, CleanupChild, CleanupFails
<1>5. ASSUME NEW r \in Runners,
             ReleaseLoad(r) \/ ReleaseUnlink(r) \/ ChildExits(r) \/ Crash(r)
      PROVE  Goal
  BY <1>5 DEF ReleaseLoad, ReleaseUnlink, ChildExits, Crash
<1>6. ASSUME NEW b \in Actors, InspectStep(b) PROVE Goal
  BY <1>6 DEF InspectStep, Load, Probe, UnlinkStale
<1>7. ASSUME NEW s \in Operators, StopChild(s) \/ StopRunner(s) PROVE Goal
  BY <1>7, LockAssumption DEF StopChild, StopRunner, Payload
<1>8. QED
  BY <1>1, <1>2, <1>3, <1>4, <1>5, <1>6, <1>7
     DEF Next, RunnerStep, OperatorStep, Done

-----------------------------------------------------------------------------
(* The lock file while no unlink has raced, one group of actions at a time. *)

LEMMA InodeExists == \A r \in Runners : <<r, "acquire">> # NoInode
BY LockAssumption DEF Inode, Stages

LEMMA InspectOwned ==
    ASSUME IInv, NEW a \in Actors, InspectStep(a), ~ raced'
    PROVE  (OwnFile /\ Covered)'
<1> USE DEF IInv, TypeOK, OwnFile, Covered, Goto, Actors, Holding, Stages,
        Inode
<1>1. CASE Load(a)
  BY <1>1 DEF Load
<1>2. CASE Probe(a)
  BY <1>2, LockAssumption DEF Probe
<1>3. CASE UnlinkStale(a)
  <2>1. ~ raced /\ (path = NoInode \/ content[path] = seen[a])
    BY <1>3 DEF UnlinkStale
  <2>2. \A p \in Runners : pc[p] \notin Holding
    <3> SUFFICES ASSUME NEW p \in Runners, pc[p] \in Holding PROVE FALSE
      OBVIOUS
    <3>1. path = <<p, "acquire">> /\ path # NoInode
      BY <2>1, InodeExists
    <3>2. seen[a].owner \in {p, NoOne} /\ seen[a].owner \in Runners
      BY <1>3, <2>1, <3>1 DEF StaleJudged, UnlinkStale
    <3>3. seen[a].owner = p
      BY <3>2, LockAssumption
    <3>4. QED
      BY <1>3, <3>3 DEF StaleJudged, UnlinkStale, RunnerAlive, Exited
  <2>3. \A r \in Runners : child[r] # "running"
    <3> SUFFICES ASSUME NEW r \in Runners, child[r] = "running" PROVE FALSE
      OBVIOUS
    <3>1. /\ path = <<r, "acquire">> /\ path # NoInode
          /\ content[path] # [owner |-> r, child |-> "none"]
      BY <2>1, InodeExists
    <3>2. seen[a].owner \in {r, NoOne} /\ seen[a].owner \in Runners
      BY <1>3, <2>1, <3>1 DEF StaleJudged, UnlinkStale
    <3>3. seen[a].owner = r
      BY <3>2, LockAssumption
    <3>4. /\ seen[a] \in Payload
          /\ seen[a].child \notin {"pending", "registered"}
      BY <1>3, <3>3 DEF StaleJudged, UnlinkStale, ChildAlive
    <3>5. seen[a] = [owner |-> r, child |-> "none"]
      BY <3>3, <3>4 DEF Payload, Registration
    <3>6. QED
      BY <2>1, <3>1, <3>5
  <2>4. \A r \in Runners : pc[r]' \notin Holding /\ child'[r] # "running"
    BY <1>3, <2>2, <2>3 DEF UnlinkStale, Exited
  <2>5. path' = NoInode
    BY <1>3 DEF UnlinkStale
  <2>6. OwnFile'
    BY <2>4, <2>5, LockAssumption
  <2>7. Covered'
    BY <2>4
  <2>8. QED
    BY <2>6, <2>7
<1>4. QED
  BY <1>1, <1>2, <1>3 DEF InspectStep

LEMMA AcquireOwned ==
    ASSUME IInv, NEW r \in Runners, AcquireStep(r), ~ raced'
    PROVE  (OwnFile /\ Covered)'
<1> USE DEF IInv, TypeOK, Goto, Actors, Holding, Stages, Inode
<1>1. CASE CreateLock(r)
  <2>1. /\ ~ raced /\ path = NoInode /\ path' = <<r, "acquire">>
        /\ content' = [content EXCEPT ![<<r, "acquire">>] = Empty]
        /\ fd' = [fd EXCEPT ![r] = <<r, "acquire">>]
        /\ pc' = [pc EXCEPT ![r] = "created"]
        /\ child' = child
    BY <1>1 DEF CreateLock
  <2>2. \A p \in Runners : pc[p] \notin Holding /\ child[p] # "running"
    BY <2>1, InodeExists DEF OwnFile, Covered
  <2>3. OwnFile'
    BY <2>1, <2>2 DEF OwnFile, Empty
  <2>4. Covered'
    BY <2>1, <2>2 DEF Covered
  <2>5. QED
    BY <2>3, <2>4
<1>2. CASE LockExists(r)
  BY <1>2 DEF LockExists, OwnFile, Covered
<1>3. CASE WriteNewLock(r)
  <2>1. /\ ~ raced /\ path' = path /\ path = <<r, "acquire">> /\ child[r] # "running"
        /\ content' = [content EXCEPT ![<<r, "acquire">>] =
                          [owner |-> r, child |-> "none"]]
        /\ fd' = fd
        /\ pc' = [pc EXCEPT ![r] = "holding"]
        /\ child' = child
    BY <1>3 DEF WriteNewLock, OwnFile, ChildAttended, Covering
  <2>2. OwnFile'
    BY <2>1 DEF OwnFile
  <2>3. Covered'
    BY <2>1 DEF Covered
  <2>4. QED
    BY <2>2, <2>3
<1>4. CASE WriteNewLockFails(r)
  BY <1>4 DEF WriteNewLockFails, OwnFile, Covered
<1>5. CASE PrelaunchFails(r)
  BY <1>5 DEF PrelaunchFails, OwnFile, Covered
<1>6. QED
  BY <1>1, <1>2, <1>3, <1>4, <1>5 DEF AcquireStep

LEMMA UpdateOwned ==
    ASSUME IInv, NEW r \in Runners, MarkChildPending(r) \/ UpdateChild(r), ~ raced'
    PROVE  (OwnFile /\ Covered)'
<1> USE DEF IInv, TypeOK, Goto, Actors, Holding, Stages, Inode
<1>1. ASSUME NEW at \in Holding, NEW opening \in Holding, NEW failing \in Holding,
             {opening, failing} \cap {"created", "markWrite", "regWrite", "launch"} = {},
             UpdateLoad(r, at, opening, failing)
      PROVE  (OwnFile /\ Covered)'
  BY <1>1 DEF UpdateLoad, OwnFile, Covered
<1>2. ASSUME NEW opening \in Holding \ {"launch"}, NEW stage \in Stages,
             NEW writing \in Holding \ {"launch"},
             UpdateOpen(r, opening, stage, writing)
      PROVE  (OwnFile /\ Covered)'
  <2>0. ~ raced /\ path = <<r, "acquire">> /\ path # NoInode
    BY <1>2, InodeExists DEF UpdateOpen, OwnFile
  <2>1. /\ path' = path
        /\ content' = [content EXCEPT ![<<r, "acquire">>] = Empty]
        /\ fd' = [fd EXCEPT ![r] = <<r, "acquire">>]
        /\ pc' = [pc EXCEPT ![r] = writing]
        /\ child' = child
    BY <1>2, <2>0 DEF UpdateOpen
  <2>2. OwnFile'
    BY <1>2, <2>0, <2>1 DEF OwnFile, Empty
  <2>3. Empty # [owner |-> r, child |-> "none"]
    BY LockAssumption DEF Empty
  <2>4. Covered'
    BY <1>2, <2>0, <2>1, <2>3 DEF Covered
  <2>5. QED
    BY <2>2, <2>4
<1>3. ASSUME NEW writing \in {"markWrite", "regWrite"},
             NEW registration \in {"pending", "registered"}, NEW done \in Holding,
             done \notin {"created", "markWrite", "regWrite"},
             done = "launch" => registration = "pending",
             UpdateWrite(r, writing, registration, done)
      PROVE  (OwnFile /\ Covered)'
  <2>1. /\ ~ raced /\ path = <<r, "acquire">> /\ path' = path
        /\ content' = [content EXCEPT ![<<r, "acquire">>] =
                          [owner |-> r, child |-> registration]]
        /\ fd' = fd
        /\ pc' = [pc EXCEPT ![r] = done]
        /\ child' = child
    BY <1>3 DEF UpdateWrite, OwnFile
  <2>2. OwnFile'
    BY <1>3, <2>1 DEF OwnFile
  <2>3. Covered'
    BY <1>3, <2>1 DEF Covered
  <2>4. QED
    BY <2>2, <2>3
<1>4. ASSUME NEW at \in Holding, NEW failing \in Holding,
             failing \notin {"created", "markWrite", "regWrite", "launch"},
             UpdateFails(r, at, failing)
      PROVE  (OwnFile /\ Covered)'
  BY <1>4 DEF UpdateFails, OwnFile, Covered
<1>5. QED
  BY <1>1, <1>2, <1>3, <1>4 DEF MarkChildPending, UpdateChild

LEMMA CommandOwned ==
    ASSUME IInv, NEW r \in Runners, ~ raced',
           CommandStep(r) \/ ReleaseLoad(r) \/ ChildExits(r) \/ Crash(r)
    PROVE  (OwnFile /\ Covered)'
<1> USE DEF IInv, TypeOK, Goto, Actors, Holding, Stages, Inode, OwnFile,
        Covered
<1>1. CASE LaunchChild(r)
  BY <1>1 DEF LaunchChild
<1>2. CASE LaunchFails(r)
  BY <1>2 DEF LaunchFails
<1>3. CASE CommandReturns(r)
  BY <1>3 DEF CommandReturns
<1>4. CASE CommandInterrupted(r)
  BY <1>4 DEF CommandInterrupted
<1>5. CASE CleanupChild(r)
  BY <1>5 DEF CleanupChild
<1>6. CASE CleanupFails(r)
  BY <1>6 DEF CleanupFails
<1>7. CASE ReleaseLoad(r)
  BY <1>7 DEF ReleaseLoad
<1>8. CASE ChildExits(r)
  BY <1>8 DEF ChildExits
<1>9. CASE Crash(r)
  BY <1>9 DEF Crash
<1>10. QED
  BY <1>1, <1>2, <1>3, <1>4, <1>5, <1>6, <1>7, <1>8, <1>9 DEF CommandStep

LEMMA ReleaseOwned ==
    ASSUME IInv, NEW r \in Runners, ReleaseUnlink(r), ~ raced'
    PROVE  (OwnFile /\ Covered)'
<1> USE DEF IInv, TypeOK, Goto, Actors, Holding, Stages, Inode
<1>1. /\ ~ raced /\ pc[r] = "unlink" /\ path' = NoInode /\ path = <<r, "acquire">>
      /\ pc' = [pc EXCEPT ![r] = "exited"]
      /\ child' = child /\ content' = content /\ fd' = fd
  BY DEF ReleaseUnlink, OwnFile
<1>2. \A p \in Runners : pc[p]' \notin Holding
  BY <1>1 DEF OwnFile
<1>3. \A p \in Runners : child[p] # "running"
  BY <1>1 DEF Covered, ChildAttended, Covering
<1>4. OwnFile'
  BY <1>1, <1>2, LockAssumption DEF OwnFile
<1>5. Covered'
  BY <1>1, <1>2, <1>3 DEF Covered
<1>6. QED
  BY <1>4, <1>5

LEMMA StopOwned ==
    ASSUME IInv, NEW s \in Operators, StopChild(s) \/ StopRunner(s), ~ raced'
    PROVE  (OwnFile /\ Covered)'
<1> USE LockAssumption
        DEF IInv, TypeOK, Goto, Actors, Holding, Stages, Inode, OwnFile,
            Covered
<1>1. CASE StopChild(s)
  BY <1>1 DEF StopChild
<1>2. CASE StopRunner(s)
  BY <1>2 DEF StopRunner, Exited
<1>3. QED
  BY <1>1, <1>2

-----------------------------------------------------------------------------
LEMMA InitInv == Init => IInv
<1> SUFFICES ASSUME Init PROVE IInv
  OBVIOUS
<1>1. TypeOK
  BY InitType
<1>2. StaleJudged /\ ChildAttended
  BY DEF Init, StaleJudged, ChildAttended, Covering
<1>3. OwnFile /\ Covered
  BY InodeExists, LockAssumption
     DEF Init, OwnFile, Covered, Holding, Actors, Inode, Stages
<1>4. QED
  BY <1>1, <1>2, <1>3 DEF IInv

LEMMA NextInv == IInv /\ [Next]_vars => IInv'
<1> SUFFICES ASSUME IInv, [Next]_vars PROVE IInv'
  OBVIOUS
<1>1. TypeOK' /\ StaleJudged' /\ ChildAttended'
  BY NextType, NextStaleJudged, NextChildAttended DEF IInv
<1>2. ASSUME ~ raced' PROVE (OwnFile /\ Covered)'
  <2>1. CASE UNCHANGED vars
    BY <1>2, <2>1 DEF vars, IInv, OwnFile, Covered
  <2>2. ASSUME NEW r \in Runners, RunnerStep(r) \/ ChildExits(r) \/ Crash(r)
        PROVE  (OwnFile /\ Covered)'
    <3>1. r \in Actors
      BY DEF Actors
    <3>2. QED
      BY <1>2, <2>2, <3>1, InspectOwned, AcquireOwned, UpdateOwned, CommandOwned,
         ReleaseOwned DEF RunnerStep
  <2>3. ASSUME NEW a \in Operators, OperatorStep(a) PROVE (OwnFile /\ Covered)'
    <3>1. a \in Actors
      BY DEF Actors
    <3>2. QED
      BY <1>2, <2>3, <3>1, InspectOwned, StopOwned DEF OperatorStep
  <2>4. QED
    BY <2>1, <2>2, <2>3 DEF Next, Done
<1>3. QED
  BY <1>1, <1>2 DEF IInv

LEMMA Invariance == Spec => []IInv
BY InitInv, NextInv, PTL DEF Spec

(* No two runners hold the workspace, unless a stale unlink hit a lock     *)
(* that had been replaced since it was judged: crashes, failing writes and *)
(* signals alone never break exclusion.                                    *)
THEOREM Exclusion == Spec => []ExclusionUnlessRaced
<1>1. IInv => ExclusionUnlessRaced
  BY DEF IInv, OwnFile, ExclusionUnlessRaced
<1>2. QED
  BY <1>1, Invariance, PTL

(* A live command is always covered by its runner's lock file, so no other *)
(* runner can take the workspace from it, even when the runner is dead.    *)
THEOREM Coverage == Spec => []ChildCovered
<1>1. IInv => ChildCovered
  BY DEF IInv, Covered, ChildCovered
<1>2. QED
  BY <1>1, Invariance, PTL

(* A takeover that removes the lock it judged takes it from a dead runner  *)
(* without a live command.                                                 *)
THEOREM Takeover == Spec => TakeoverOnlyFromTheDead
<1> DEFINE Step ==
      \A a \in Actors :
          UnlinkStale(a) /\ ~ raced' /\ path # NoInode =>
              LET q == content[path].owner
              IN  q \in Runners /\ ~ RunnerAlive(q) /\ child[q] # "running"
<1>1. IInv /\ [Next]_vars => [Step]_vars
  <2> SUFFICES ASSUME IInv, NEW a \in Actors, UnlinkStale(a), ~ raced', path # NoInode
               PROVE  LET q == content[path].owner
                      IN  q \in Runners /\ ~ RunnerAlive(q) /\ child[q] # "running"
    OBVIOUS
  <2> DEFINE q == content[path].owner
  <2>1. ~ raced /\ content[path] = seen[a] /\ pc[a] = "unlinkStale"
    BY DEF UnlinkStale
  <2>2. q \in Runners /\ ~ RunnerAlive(q)
    BY <2>1 DEF IInv, StaleJudged
  <2>3. ASSUME child[q] = "running" PROVE FALSE
    <3>1. /\ content[path] # [owner |-> q, child |-> "none"]
          /\ content[path] \in Payload
      BY <2>1, <2>2, <2>3 DEF IInv, Covered, TypeOK
    <3>2. content[path].child \notin {"pending", "registered"}
      BY <2>1, <2>2, <2>3 DEF IInv, StaleJudged, ChildAlive
    <3>3. QED
      BY <3>1, <3>2 DEF Payload, Registration
  <2>4. QED
    BY <2>2, <2>3
<1>2. QED
  BY <1>1, Invariance, PTL DEF Spec, TakeoverOnlyFromTheDead
-----------------------------------------------------------------------------
(* What a release leaves: a file without an owner is an empty one, and a   *)
(* runner that has released finds no other file under its own name.        *)
EmptiedInv ==
    /\ \A i \in Inode : content[i].owner = NoOne => content[i] = Empty
    /\ ReleaseLeavesOnlyEmptied

LEMMA EmptiedStep == IInv /\ EmptiedInv /\ [Next]_vars => EmptiedInv'
<1> SUFFICES ASSUME IInv, EmptiedInv, [Next]_vars PROVE EmptiedInv'
  OBVIOUS
<1> USE LockAssumption DEF EmptiedInv, ReleaseLeavesOnlyEmptied, Goto, Actors, Holding, Stages, Inode
<1>0. TypeOK /\ (~ raced => OwnFile)
  BY DEF IInv
<1>1. CASE UNCHANGED vars
  BY <1>1 DEF vars
<1>2. ASSUME NEW r \in Runners, AcquireStep(r) PROVE EmptiedInv'
  BY <1>0, <1>2 DEF AcquireStep, CreateLock, LockExists, WriteNewLock, WriteNewLockFails,
     PrelaunchFails, TypeOK, OwnFile, Empty
<1>3. ASSUME NEW r \in Runners, MarkChildPending(r) \/ UpdateChild(r) PROVE EmptiedInv'
  <2>1. ASSUME NEW at, NEW opening \in Holding, NEW failing \in Holding,
               UpdateLoad(r, at, opening, failing)
        PROVE  EmptiedInv'
    BY <1>0, <2>1 DEF UpdateLoad, TypeOK
  <2>2. ASSUME NEW opening \in Holding, NEW stage \in Stages, NEW writing \in Holding,
               UpdateOpen(r, opening, stage, writing)
        PROVE  EmptiedInv'
    BY <1>0, <2>2, InodeExists DEF UpdateOpen, TypeOK, OwnFile, Empty
  <2>3. ASSUME NEW writing \in {"markWrite", "regWrite"}, NEW registration, NEW done \in Holding,
               UpdateWrite(r, writing, registration, done)
        PROVE  EmptiedInv'
    BY <1>0, <2>3 DEF UpdateWrite, TypeOK, OwnFile
  <2>4. ASSUME NEW at, NEW failing \in Holding, UpdateFails(r, at, failing)
        PROVE  EmptiedInv'
    BY <1>0, <2>4 DEF UpdateFails, TypeOK
  <2>5. QED
    BY <1>3, <2>1, <2>2, <2>3, <2>4 DEF MarkChildPending, UpdateChild
<1>4. ASSUME NEW r \in Runners, CommandStep(r) \/ ChildExits(r) \/ Crash(r) PROVE EmptiedInv'
  BY <1>0, <1>4 DEF CommandStep, LaunchChild, LaunchFails, CommandReturns, CommandInterrupted,
     CleanupChild, CleanupFails, ChildExits, Crash, TypeOK
<1>5. ASSUME NEW r \in Runners, ReleaseLoad(r) PROVE EmptiedInv'
  <2>1. ASSUME ~ raced, LoadPayload.owner # r PROVE content[path] = Empty
    <3>1. path = <<r, "acquire">> /\ path # NoInode
      BY <1>0, <1>5, <2>1, InodeExists DEF ReleaseLoad, OwnFile
    <3>2. content[path].owner = NoOne
      BY <1>0, <2>1, <3>1 DEF LoadPayload, OwnFile
    <3>3. QED
      BY <3>1, <3>2
  <2>2. QED
    BY <1>0, <1>5, <2>1 DEF ReleaseLoad, TypeOK
<1>6. ASSUME NEW r \in Runners, ReleaseUnlink(r) PROVE EmptiedInv'
  BY <1>6, InodeExists DEF ReleaseUnlink
<1>7. ASSUME NEW a \in Actors, InspectStep(a) PROVE EmptiedInv'
  BY <1>0, <1>7, InodeExists DEF InspectStep, Load, Probe, UnlinkStale, TypeOK
<1>8. ASSUME NEW s \in Operators, StopChild(s) \/ StopRunner(s) PROVE EmptiedInv'
  BY <1>0, <1>8 DEF StopChild, StopRunner, TypeOK
<1>9. QED
  BY <1>1, <1>2, <1>3, <1>4, <1>5, <1>6, <1>7, <1>8 DEF Next, RunnerStep, OperatorStep, Done

(* A lock a runner leaves behind its release is an empty one, never one    *)
(* that still names the runner (release_workspace_lock).                   *)
THEOREM OnlyEmptiedLeft == Spec => []ReleaseLeavesOnlyEmptied
<1>1. Init => EmptiedInv
  BY DEF Init, EmptiedInv, ReleaseLeavesOnlyEmptied, Actors
<1>2. EmptiedInv => ReleaseLeavesOnlyEmptied
  BY DEF EmptiedInv
<1>3. QED
  BY <1>1, <1>2, EmptiedStep, Invariance, PTL DEF Spec

-----------------------------------------------------------------------------
(***************************************************************************)
(* The lock file is the lock of WorkspaceLock until an unlink races.  What *)
(* WorkspaceLock sees of a step of one process: who holds the file, which  *)
(* commands run, which runners are dead.                                   *)
(***************************************************************************)
Holder == IF path = NoInode THEN NoOne ELSE path[1]
Running == {r \in Runners : child[r] = "running"}
Dead == {r \in Runners : pc[r] \in Exited}

LEMMA KeptSees == Kept!vars = <<Holder, Running, Dead, raced>>
BY DEF Kept!vars, Holder, Running, Dead

\* The other runners are left as they are.
Alone(r) ==
    /\ \A q \in Runners \ {r} : pc'[q] = pc[q] /\ child'[q] = child[q]
    /\ raced' = raced

LEMMA AloneSees ==
    ASSUME NEW r \in Runners, Alone(r)
    PROVE  /\ Running' = IF child'[r] = "running" THEN Running \cup {r} ELSE Running \ {r}
           /\ Dead' = IF pc'[r] \in Exited THEN Dead \cup {r} ELSE Dead \ {r}
BY DEF Alone, Running, Dead

\* A step that lets neither the file nor a command go nor anyone die.
LEMMA QuietStep ==
    ASSUME NEW r \in Runners, Alone(r), child'[r] = child[r],
           pc[r] \notin Exited, pc'[r] \notin Exited, path' = path
    PROVE  UNCHANGED Kept!vars
<1>1. Holder' = Holder
  BY DEF Holder
<1>2. Running' = Running /\ Dead' = Dead
  BY AloneSees DEF Running, Dead
<1>3. QED
  BY <1>1, <1>2, KeptSees DEF Alone, Kept!vars, Holder, Running, Dead

LEMMA DyingStep ==
    ASSUME NEW r \in Runners, Alone(r), child'[r] \in {child[r], "gone"},
           pc'[r] \in Exited, path' = path
    PROVE  Kept!Next
<1>1. Holder' = Holder /\ Dead' = Dead \cup {r}
  BY AloneSees DEF Holder
<1>2. Running' \in {Running, Running \ {r}}
  BY AloneSees DEF Running
<1>3. Kept!Die(r)
  BY <1>1, <1>2 DEF Alone, Kept!Die, Holder, Running, Dead
<1>4. QED
  BY <1>3 DEF Kept!Next

LEMMA EndingStep ==
    ASSUME NEW r \in Runners, Alone(r), child'[r] # "running",
           pc'[r] \in Exited <=> pc[r] \in Exited, path' = path
    PROVE  Kept!Next
<1>1. Holder' = Holder /\ Dead' = Dead /\ Running' = Running \ {r}
  BY AloneSees DEF Holder, Dead
<1>2. Kept!EndCommand(r)
  BY <1>1 DEF Alone, Kept!EndCommand, Holder, Running, Dead
<1>3. QED
  BY <1>2 DEF Kept!Next

\* What a holder has: the file, no other runner's command, and its own life.
LEMMA HolderFacts ==
    ASSUME IInv, ~ raced, NEW r \in Runners, pc[r] \in Holding
    PROVE  Holder = r /\ r \notin Dead
BY InodeExists DEF IInv, OwnFile, Holder, Dead, Holding, Exited

LEMMA AcquireKeeps ==
    ASSUME IInv, ~ raced, NEW r \in Runners, AcquireStep(r)
    PROVE  Kept!Next \/ UNCHANGED Kept!vars
<1> USE DEF IInv, TypeOK, Goto, Actors
<1>1. CASE CreateLock(r)
  <2>1. Alone(r) /\ child' = child /\ pc[r] \notin Exited /\ pc'[r] \notin Exited
    BY <1>1 DEF CreateLock, Alone, Exited
  <2>2. Holder = NoOne /\ Holder' = r
    BY <1>1, InodeExists DEF CreateLock, Holder
  <2>3. Running' = Running /\ Dead' = Dead /\ r \notin Dead
    BY <2>1, AloneSees DEF Running, Dead
  <2>4. Kept!Take(r)
    BY <2>1, <2>2, <2>3 DEF Alone, Kept!Take, Kept!Free, Holder, Running, Dead
  <2>5. QED
    BY <2>4 DEF Kept!Next
<1>2. CASE LockExists(r) \/ WriteNewLock(r) \/ PrelaunchFails(r)
  BY <1>2, QuietStep DEF LockExists, WriteNewLock, PrelaunchFails, Alone, Exited
<1>3. CASE WriteNewLockFails(r)
  BY <1>3, DyingStep DEF WriteNewLockFails, Alone, Exited
<1>4. QED
  BY <1>1, <1>2, <1>3 DEF AcquireStep

LEMMA UpdateKeeps ==
    ASSUME IInv, ~ raced, NEW r \in Runners, MarkChildPending(r) \/ UpdateChild(r)
    PROVE  UNCHANGED Kept!vars
<1> USE DEF IInv, TypeOK, Goto, Actors
<1>1. ASSUME NEW at \in Holding, NEW opening \in Holding, NEW failing \in Holding,
             UpdateLoad(r, at, opening, failing)
      PROVE  UNCHANGED Kept!vars
  BY <1>1, QuietStep DEF UpdateLoad, Alone, Exited, Holding
<1>2. ASSUME NEW opening \in Holding, NEW stage, NEW writing \in Holding,
             UpdateOpen(r, opening, stage, writing)
      PROVE  UNCHANGED Kept!vars
  <2>1. path' = path
    BY <1>2, InodeExists DEF UpdateOpen, OwnFile
  <2>2. QED
    BY <1>2, <2>1, QuietStep DEF UpdateOpen, Alone, Exited, Holding
<1>3. ASSUME NEW writing \in Holding, NEW registration, NEW done \in Holding,
             UpdateWrite(r, writing, registration, done)
      PROVE  UNCHANGED Kept!vars
  BY <1>3, QuietStep DEF UpdateWrite, Alone, Exited, Holding
<1>4. ASSUME NEW at \in Holding, NEW failing \in Holding, UpdateFails(r, at, failing)
      PROVE  UNCHANGED Kept!vars
  BY <1>4, QuietStep DEF UpdateFails, Alone, Exited, Holding
<1>5. QED
  BY <1>1, <1>2, <1>3, <1>4 DEF MarkChildPending, UpdateChild, Holding

LEMMA CommandKeeps ==
    ASSUME IInv, ~ raced, NEW r \in Runners,
           CommandStep(r) \/ ChildExits(r) \/ Crash(r)
    PROVE  Kept!Next \/ UNCHANGED Kept!vars
<1> USE DEF IInv, TypeOK, Goto, Actors
<1>1. CASE LaunchChild(r)
  <2>1. Alone(r) /\ child'[r] = "running" /\ pc[r] \in Holding /\ pc'[r] \notin Exited
        /\ path' = path
    BY <1>1 DEF LaunchChild, Alone, Exited, Holding
  <2>2. Holder' = Holder /\ Holder = r /\ r \notin Dead
    BY <2>1, HolderFacts DEF Holder
  <2>3. Running' = Running \cup {r} /\ Dead' = Dead
    BY <2>1, <2>2, AloneSees DEF Dead
  <2>4. Kept!Launch(r)
    BY <2>1, <2>2, <2>3 DEF Alone, Kept!Launch, Holder, Running, Dead
  <2>5. QED
    BY <2>4 DEF Kept!Next
<1>2. CASE LaunchFails(r) \/ CommandInterrupted(r)
  BY <1>2, QuietStep DEF LaunchFails, CommandInterrupted, Alone, Exited
<1>3. CASE CommandReturns(r) \/ CleanupChild(r) \/ ChildExits(r)
  BY <1>3, EndingStep DEF CommandReturns, CleanupChild, ChildExits, Alone, Exited
<1>4. CASE CleanupFails(r) \/ Crash(r)
  BY <1>4, DyingStep DEF CleanupFails, Crash, Alone, Exited
<1>5. QED
  BY <1>1, <1>2, <1>3, <1>4 DEF CommandStep

LEMMA ReleaseKeeps ==
    ASSUME IInv, ~ raced, NEW r \in Runners, ReleaseLoad(r) \/ ReleaseUnlink(r)
    PROVE  Kept!Next \/ UNCHANGED Kept!vars
<1> USE DEF IInv, TypeOK, Goto, Actors
<1>1. CASE ReleaseLoad(r)
  BY <1>1, QuietStep, DyingStep DEF ReleaseLoad, Alone, Exited
<1>2. CASE ReleaseUnlink(r)
  <2>1. Alone(r) /\ child' = child /\ pc[r] = "unlink" /\ pc'[r] \in Exited
        /\ path' = NoInode
    BY <1>2 DEF ReleaseUnlink, Alone, Exited
  <2>2. Holder = r /\ Holder' = NoOne
    BY <2>1, HolderFacts DEF Holding, Holder
  <2>3. r \notin Running
    BY <2>1 DEF ChildAttended, Covering, Running
  <2>4. Running' = Running /\ Dead' = Dead \cup {r}
    BY <2>1, <2>3, AloneSees DEF Running
  <2>5. Kept!Release(r)
    BY <2>1, <2>2, <2>3, <2>4 DEF Alone, Kept!Release, Holder, Running, Dead
  <2>6. QED
    BY <2>5 DEF Kept!Next
<1>3. QED
  BY <1>1, <1>2

\* A stale unlink takes the file of a dead runner without a command.
LEMMA UnlinkedIsFree ==
    ASSUME IInv, NEW a \in Actors, UnlinkStale(a), ~ raced', path # NoInode
    PROVE  Holder \in Dead \ Running
<1>1. ~ raced /\ content[path] = seen[a] /\ pc[a] = "unlinkStale"
  BY DEF UnlinkStale
<1>2. PICK q \in Runners, s \in Stages : path = <<q, s>>
  BY DEF IInv, TypeOK, Inode
<1>3. Holder = q /\ content[path].owner \in {q, NoOne} /\ path = <<q, "acquire">>
  BY <1>1, <1>2 DEF IInv, OwnFile, Holder
<1>4. content[path].owner = q /\ pc[q] \in Exited
  BY <1>1, <1>3, LockAssumption DEF IInv, StaleJudged, RunnerAlive
<1>5. ASSUME child[q] = "running" PROVE FALSE
  <2>1. content[path] # [owner |-> q, child |-> "none"] /\ content[path] \in Payload
    BY <1>1, <1>5 DEF IInv, Covered, TypeOK
  <2>2. content[path].child \notin {"pending", "registered"}
    BY <1>1, <1>4, <1>5 DEF IInv, StaleJudged, ChildAlive
  <2>3. QED
    BY <1>4, <2>1, <2>2 DEF Payload, Registration
<1>6. QED
  BY <1>3, <1>4, <1>5 DEF Dead, Running

LEMMA InspectKeeps ==
    ASSUME IInv, NEW a \in Actors, InspectStep(a), ~ raced'
    PROVE  Kept!Next \/ UNCHANGED Kept!vars
<1> USE DEF IInv, TypeOK, Goto, Actors
<1>1. CASE a \in Runners /\ (Load(a) \/ Probe(a))
  <2>1. Alone(a) /\ child' = child /\ path' = path /\ pc[a] \notin Exited
    BY <1>1, LockAssumption DEF Load, Probe, Alone, Exited
  <2>2. CASE pc'[a] \in Exited
    BY <1>1, <2>1, <2>2, DyingStep
  <2>3. CASE pc'[a] \notin Exited
    BY <1>1, <2>1, <2>3, QuietStep
  <2>4. QED
    BY <2>2, <2>3
<1>2. CASE a \in Operators /\ (Load(a) \/ Probe(a))
  <2>1. UNCHANGED <<path, child, raced>> /\ \A r \in Runners : pc'[r] = pc[r]
    BY <1>2, LockAssumption DEF Load, Probe
  <2>2. Holder' = Holder /\ Running' = Running /\ Dead' = Dead
    BY <2>1 DEF Holder, Running, Dead
  <2>3. QED
    BY <2>1, <2>2 DEF Kept!vars, Holder, Running, Dead
<1>3. CASE UnlinkStale(a)
  <2>1. /\ raced' = raced /\ path' = NoInode
        /\ \A r \in Runners : pc'[r] \in Exited <=> pc[r] \in Exited
        /\ child' = child
    BY <1>3, LockAssumption DEF UnlinkStale, Exited
  <2>2. Holder' = NoOne /\ Running' = Running /\ Dead' = Dead
    BY <2>1 DEF Holder, Running, Dead
  <2>3. Holder = NoOne \/ Holder \in Dead \ Running
    BY <1>3, UnlinkedIsFree DEF Holder
  <2>4. Kept!Clear
    BY <2>1, <2>2, <2>3 DEF Kept!Clear, Kept!Free, Holder, Running, Dead
  <2>5. QED
    BY <2>4 DEF Kept!Next
<1>4. QED
  BY <1>1, <1>2, <1>3 DEF InspectStep

LEMMA StopKeeps ==
    ASSUME IInv, NEW s \in Operators, StopChild(s) \/ StopRunner(s), ~ raced
    PROVE  Kept!Next \/ UNCHANGED Kept!vars
<1> DEFINE q == seen[s].owner
<1> USE LockAssumption DEF IInv, TypeOK, Goto, Actors
<1>1. CASE q \in Runners /\ StopChild(s)
  <2>1. Alone(q) /\ path' = path /\ pc'[q] = pc[q] /\ child'[q] \in {child[q], "gone"}
    BY <1>1 DEF StopChild, Alone
  <2>2. CASE child'[q] # "running"
    BY <1>1, <2>1, <2>2, EndingStep
  <2>3. CASE child'[q] = "running"
    <3>1. Holder' = Holder /\ Running' = Running /\ Dead' = Dead /\ raced' = raced
      BY <1>1, <2>1, <2>3, AloneSees DEF Holder, Running, Dead, Alone
    <3>2. QED
      BY <3>1 DEF Kept!vars, Holder, Running, Dead
  <2>4. QED
    BY <2>2, <2>3
<1>2. CASE q \in Runners /\ StopRunner(s)
  <2>1. Alone(q) /\ path' = path /\ child' = child
    BY <1>2 DEF StopRunner, Alone
  <2>2. CASE pc'[q] \in Exited
    BY <1>2, <2>1, <2>2, DyingStep
  <2>3. CASE pc'[q] \notin Exited
    <3>1. pc[q] \notin Exited
      BY <1>2, <2>3 DEF StopRunner, Exited
    <3>2. QED
      BY <1>2, <2>1, <2>3, <3>1, QuietStep
  <2>4. QED
    BY <2>2, <2>3
<1>3. CASE q \notin Runners
  <2>1. UNCHANGED <<path, raced>>
        /\ \A r \in Runners : pc'[r] = pc[r] /\ child'[r] = child[r]
    BY <1>3 DEF StopChild, StopRunner
  <2>2. Holder' = Holder /\ Running' = Running /\ Dead' = Dead
    BY <2>1 DEF Holder, Running, Dead
  <2>3. QED
    BY <2>1, <2>2 DEF Kept!vars, Holder, Running, Dead
<1>4. QED
  BY <1>1, <1>2, <1>3

LEMMA NextKeeps == IInv /\ [Next]_vars => [Kept!Next]_(Kept!vars)
<1> SUFFICES ASSUME IInv, [Next]_vars PROVE Kept!Next \/ UNCHANGED Kept!vars
  OBVIOUS
<1>1. CASE raced'
  BY <1>1, NextType DEF Kept!Next, Kept!Lose, IInv, TypeOK
<1>2. CASE UNCHANGED vars
  BY <1>2 DEF vars, Kept!vars
<1>3. ASSUME ~ raced', NEW r \in Runners, RunnerStep(r) \/ ChildExits(r) \/ Crash(r)
      PROVE  Kept!Next \/ UNCHANGED Kept!vars
  <2>1. r \in Actors
    BY DEF Actors
  <2>2. CASE InspectStep(r)
    BY <1>3, <2>1, <2>2, InspectKeeps
  <2>3. CASE AcquireStep(r)
    <3>1. ~ raced
      BY <1>3, <2>3 DEF AcquireStep, CreateLock, LockExists, WriteNewLock,
                        WriteNewLockFails, PrelaunchFails
    <3>2. QED
      BY <2>3, <3>1, AcquireKeeps
  <2>4. CASE MarkChildPending(r) \/ UpdateChild(r)
    <3>1. ~ raced
      BY <1>3, <2>4 DEF MarkChildPending, UpdateChild, UpdateLoad, UpdateOpen,
                        UpdateWrite, UpdateFails
    <3>2. QED
      BY <2>4, <3>1, UpdateKeeps
  <2>5. CASE CommandStep(r) \/ ChildExits(r) \/ Crash(r)
    <3>1. ~ raced
      BY <1>3, <2>5 DEF CommandStep, LaunchChild, LaunchFails, CommandReturns,
                        CommandInterrupted, CleanupChild, CleanupFails, ChildExits, Crash
    <3>2. QED
      BY <2>5, <3>1, CommandKeeps
  <2>6. CASE ReleaseLoad(r) \/ ReleaseUnlink(r)
    <3>1. ~ raced
      BY <1>3, <2>6 DEF ReleaseLoad, ReleaseUnlink
    <3>2. QED
      BY <2>6, <3>1, ReleaseKeeps
  <2>7. QED
    BY <1>3, <2>2, <2>3, <2>4, <2>5, <2>6 DEF RunnerStep
<1>4. ASSUME ~ raced', NEW a \in Operators, OperatorStep(a)
      PROVE  Kept!Next \/ UNCHANGED Kept!vars
  <2>1. CASE InspectStep(a)
    BY <1>4, <2>1, InspectKeeps DEF Actors
  <2>2. CASE StopChild(a) \/ StopRunner(a)
    <3>1. ~ raced
      BY <1>4, <2>2 DEF StopChild, StopRunner
    <3>2. QED
      BY <2>2, <3>1, StopKeeps
  <2>3. QED
    BY <1>4, <2>1, <2>2 DEF OperatorStep
<1>5. QED
  BY <1>1, <1>2, <1>3, <1>4 DEF Next, Done

(* For any number of runners and of check and stop commands, with crashes  *)
(* and failing writes: until a stale unlink removes a lock other than the  *)
(* one it judged, the lock file is the lock the launches of a goal run     *)
(* count on (goal_runtime_lock.py).                                        *)
THEOREM LockKept == Spec => KeepsLock
<1>1. Init => Kept!Init
  BY LockAssumption DEF Init, Kept!Init, Actors, Exited
<1>2. QED
  BY <1>1, NextKeeps, Invariance, PTL DEF Spec, KeepsLock, Kept!Spec

-----------------------------------------------------------------------------
(***************************************************************************)
(* What a runner has left to do.  A lock that is there sends it through an *)
(* inspection, and a stale one back to the start, where it must find the   *)
(* path free or a new file: the files that can still be created, of which  *)
(* each runner has one for each stage, are what it can wait for.           *)
(***************************************************************************)
Position ==
    [load |-> 23, probe |-> 22, unlinkStale |-> 21, created |-> 19, holding |-> 18,
     marking |-> 17, markWrite |-> 16, launch |-> 15, launched |-> 14, registering |-> 13,
     regWrite |-> 12, abort |-> 11, running |-> 11, cleanup |-> 10, release |-> 9,
     unlink |-> 8]

Left(r) ==
    CASE pc[r] = "idle" -> IF path = NoInode THEN 20 ELSE 24
      [] pc[r] \in Exited \cup Signalling -> 0
      [] OTHER -> Position[pc[r]]

Unmarked == Inspecting \cup {"created", "holding", "marking"}
Unregistered == Unmarked \cup {"markWrite", "launch", "launched", "registering"}

Creatable ==
    {i \in Inode : pc[i[1]] \in CASE i[2] = "acquire" -> Inspecting
                                  [] i[2] = "mark" -> Unmarked
                                  [] OTHER -> Unregistered}

\* A step of a runner uses some of that up, and of no other's, and a file it
\* creates is one that cannot be created again.
Wanes(r) ==
    /\ \A q \in Runners \ {r} : pc'[q] = pc[q]
    /\ \A stages \in {Inspecting, Unmarked, Unregistered} :
          pc'[r] \in stages => pc[r] \in stages

Onward(r) ==
    /\ Left(r)' < Left(r)
    /\ Wanes(r)
    /\ path = NoInode /\ path' # NoInode =>
          \E i \in Inode : i \in Creatable /\ i \notin Creatable'

LEMMA CreatableShrinks ==
    ASSUME NEW r \in Runners, Wanes(r)
    PROVE  Creatable' \subseteq Creatable
<1>1. SUFFICES ASSUME NEW i \in Inode, i \in Creatable' PROVE i \in Creatable
  BY DEF Creatable
<1>2. i[1] \in Runners
  BY DEF Inode
<1>3. CASE i[1] = r
  BY <1>1, <1>3 DEF Creatable, Wanes
<1>4. CASE i[1] # r
  BY <1>1, <1>2, <1>4 DEF Creatable, Wanes
<1>5. QED
  BY <1>3, <1>4

LEMMA AcquireOnward ==
    ASSUME TypeOK, NEW r \in Runners, AcquireStep(r)
    PROVE  Onward(r)
<1> USE DEF TypeOK, Actors, Goto, Left, Position, Wanes, Inspecting, Unmarked, Unregistered,
            Exited, Signalling
<1>1. CASE CreateLock(r)
  <2>1. Left(r)' < Left(r) /\ Wanes(r)
    BY <1>1, InodeExists DEF CreateLock
  <2>2. <<r, "acquire">> \in Inode
    BY DEF Inode, Stages
  <2>3. <<r, "acquire">> \in Creatable /\ <<r, "acquire">> \notin Creatable'
    BY <1>1, <2>2 DEF CreateLock, Creatable
  <2>4. QED
    BY <2>1, <2>2, <2>3 DEF Onward
<1>2. CASE LockExists(r)
  BY <1>2 DEF LockExists, Onward
<1>3. CASE WriteNewLock(r)
  BY <1>3 DEF WriteNewLock, Onward
<1>4. CASE WriteNewLockFails(r)
  BY <1>4 DEF WriteNewLockFails, Onward
<1>5. CASE PrelaunchFails(r)
  BY <1>5 DEF PrelaunchFails, Onward
<1>6. QED
  BY <1>1, <1>2, <1>3, <1>4, <1>5 DEF AcquireStep

LEMMA InspectOnward ==
    ASSUME TypeOK, NEW r \in Runners, InspectStep(r)
    PROVE  Onward(r)
<1> USE DEF TypeOK, Actors, Goto, Left, Position, Wanes, Inspecting, Unmarked, Unregistered,
            Exited, Signalling, Onward
<1>1. CASE Load(r)
  BY <1>1 DEF Load
<1>2. CASE Probe(r)
  BY <1>2, LockAssumption DEF Probe
<1>3. CASE UnlinkStale(r)
  BY <1>3 DEF UnlinkStale
<1>4. QED
  BY <1>1, <1>2, <1>3 DEF InspectStep

\* The runner's file for a stage it has come to, and leaves for the write.
LEMMA UpdateOnward ==
    ASSUME TypeOK, NEW r \in Runners, MarkChildPending(r) \/ UpdateChild(r)
    PROVE  Onward(r)
<1> USE DEF TypeOK, Actors, Goto, Left, Position, Wanes, Inspecting, Unmarked, Unregistered,
            Exited, Signalling
<1>1. CASE \/ UpdateLoad(r, "holding", "marking", "release")
           \/ UpdateLoad(r, "launched", "registering", "abort")
  BY <1>1 DEF UpdateLoad, Onward
<1>2. CASE UpdateOpen(r, "marking", "mark", "markWrite")
  <2>1. Left(r)' < Left(r) /\ Wanes(r)
    BY <1>2 DEF UpdateOpen
  <2>2. <<r, "mark">> \in Inode
    BY DEF Inode, Stages
  <2>3. <<r, "mark">> \in Creatable /\ <<r, "mark">> \notin Creatable'
    BY <1>2, <2>2 DEF UpdateOpen, Creatable
  <2>4. QED
    BY <2>1, <2>2, <2>3 DEF Onward
<1>3. CASE UpdateOpen(r, "registering", "register", "regWrite")
  <2>1. Left(r)' < Left(r) /\ Wanes(r)
    BY <1>3 DEF UpdateOpen
  <2>2. <<r, "register">> \in Inode
    BY DEF Inode, Stages
  <2>3. <<r, "register">> \in Creatable /\ <<r, "register">> \notin Creatable'
    BY <1>3, <2>2 DEF UpdateOpen, Creatable
  <2>4. QED
    BY <2>1, <2>2, <2>3 DEF Onward
<1>4. CASE \/ UpdateWrite(r, "markWrite", "pending", "launch")
           \/ UpdateWrite(r, "regWrite", "registered", "running")
  BY <1>4 DEF UpdateWrite, Onward
<1>5. CASE \/ UpdateFails(r, "marking", "release")
           \/ UpdateFails(r, "markWrite", "release")
           \/ UpdateFails(r, "registering", "abort")
           \/ UpdateFails(r, "regWrite", "abort")
  BY <1>5 DEF UpdateFails, Onward
<1>6. QED
  BY <1>1, <1>2, <1>3, <1>4, <1>5 DEF MarkChildPending, UpdateChild

LEMMA CommandOnward ==
    ASSUME TypeOK, NEW r \in Runners, CommandStep(r) \/ ReleaseLoad(r) \/ ReleaseUnlink(r)
    PROVE  Onward(r)
<1> USE DEF TypeOK, Actors, Goto, Left, Position, Wanes, Inspecting, Unmarked, Unregistered,
            Exited, Signalling, Onward
<1>1. CASE LaunchChild(r) \/ LaunchFails(r)
  BY <1>1 DEF LaunchChild, LaunchFails
<1>2. CASE CommandReturns(r) \/ CommandInterrupted(r)
  BY <1>2 DEF CommandReturns, CommandInterrupted
<1>3. CASE CleanupChild(r) \/ CleanupFails(r)
  BY <1>3 DEF CleanupChild, CleanupFails
<1>4. CASE ReleaseLoad(r) \/ ReleaseUnlink(r)
  BY <1>4 DEF ReleaseLoad, ReleaseUnlink
<1>5. QED
  BY <1>1, <1>2, <1>3, <1>4 DEF CommandStep

LeftCount == \A r \in Runners : Left(r) \in 0 .. 24

LEMMA LeftCounts == TypeOK => LeftCount
<1>1. SUFFICES ASSUME TypeOK, NEW r \in Runners PROVE Left(r) \in 0 .. 24
  BY DEF LeftCount
<1>2. pc[r] \in Inspecting \cup Holding \cup Exited \cup Signalling
  BY <1>1 DEF TypeOK, Actors
<1>3. QED
  BY <1>2 DEF Left, Position, Exited, Signalling, Inspecting, Holding

LEMMA RunnerOnward ==
    ASSUME TypeOK, NEW r \in Runners, RunnerStep(r)
    PROVE  Onward(r)
BY AcquireOnward, InspectOnward, UpdateOnward, CommandOnward DEF RunnerStep

\* What happens to a runner without its doing: it is killed, or sent to the
\* cleanup of its command.
Yields ==
    /\ \A r \in Runners :
          \/ pc'[r] = pc[r]
          \/ pc'[r] = "crashed"
          \/ pc[r] \in {"running", "cleanup"} /\ pc'[r] = "cleanup"
    /\ path' = path \/ path' = NoInode

LEMMA YieldingLosesNothing ==
    ASSUME TypeOK, Yields
    PROVE  Creatable' \subseteq Creatable /\ \A r \in Runners : ~ Left(r)' > Left(r)
<1>1. ASSUME NEW i \in Creatable' PROVE i \in Creatable
  BY <1>1 DEF Creatable, Inode, Yields, Inspecting, Unmarked, Unregistered
<1>2. ASSUME NEW r \in Runners PROVE ~ Left(r)' > Left(r)
  <2>1. pc[r] \in Inspecting \cup Holding \cup Exited \cup Signalling
    BY DEF TypeOK, Actors
  <2>2. CASE pc'[r] = pc[r]
    BY <2>1, <2>2 DEF Yields, Left, Position, Exited, Signalling, Inspecting, Holding
  <2>3. CASE pc'[r] = "crashed"
    BY <2>1, <2>3 DEF Yields, Left, Position, Exited, Signalling, Inspecting, Holding
  <2>4. CASE pc[r] \in {"running", "cleanup"} /\ pc'[r] = "cleanup"
    BY <2>4 DEF Left, Position, Exited, Signalling
  <2>5. QED
    BY <2>2, <2>3, <2>4 DEF Yields
<1>3. QED
  BY <1>1, <1>2

LEMMA OthersYield ==
    ASSUME TypeOK, [\/ \E r \in Runners : ChildExits(r) \/ Crash(r)
                    \/ \E a \in Operators : OperatorStep(a)]_vars
    PROVE  Yields
<1> USE DEF Yields, TypeOK, Actors, Goto
<1>1. CASE \E r \in Runners : ChildExits(r) \/ Crash(r)
  BY <1>1 DEF ChildExits, Crash
<1>2. ASSUME NEW a \in Operators, OperatorStep(a) PROVE Yields
  <2>1. a \notin Runners
    BY LockAssumption
  <2>2. CASE InspectStep(a)
    BY <2>1, <2>2 DEF InspectStep, Load, Probe, UnlinkStale
  <2>3. CASE StopChild(a)
    BY <2>1, <2>3 DEF StopChild
  <2>4. CASE StopRunner(a)
    BY <2>1, <2>4 DEF StopRunner
  <2>5. QED
    BY <1>2, <2>2, <2>3, <2>4 DEF OperatorStep
<1>3. CASE UNCHANGED vars
  BY <1>3 DEF vars
<1>4. QED
  BY <1>1, <1>2, <1>3

LEMMA NextBounded ==
    ASSUME TypeOK, [Next]_vars
    PROVE  /\ Creatable' \subseteq Creatable
           /\ \A r \in Runners :
                 /\ RunnerStep(r) => Left(r)' < Left(r)
                 /\ Left(r)' > Left(r) => Creatable' # Creatable
<1>1. \A r \in Runners : RunnerStep(r) => Left(r)' < Left(r)
  BY RunnerOnward DEF Onward
<1>2. ASSUME NEW r \in Runners, RunnerStep(r)
      PROVE  /\ Creatable' \subseteq Creatable
             /\ \A q \in Runners : Left(q)' > Left(q) => Creatable' # Creatable
  <2>1. Onward(r)
    BY <1>2, RunnerOnward
  <2>2. Creatable' \subseteq Creatable
    BY <2>1, CreatableShrinks DEF Onward
  <2>3. ASSUME NEW q \in Runners, Creatable' = Creatable PROVE ~ Left(q)' > Left(q)
    <3>1. ~ (path = NoInode /\ path' # NoInode)
      BY <2>1, <2>3 DEF Onward
    <3>2. CASE q = r
      <4>1. LeftCount'
        BY NextType, LeftCounts, PTL
      <4>2. Left(r) \in 0 .. 24 /\ Left(r)' \in 0 .. 24
        BY <4>1, LeftCounts DEF LeftCount
      <4>3. QED
        BY <2>1, <3>2, <4>2 DEF Onward
    <3>3. CASE q # r
      <4>1. pc'[q] = pc[q]
        BY <2>1, <3>3 DEF Onward, Wanes
      <4>2. pc[q] \in Inspecting \cup Holding \cup Exited \cup Signalling
        BY DEF TypeOK, Actors
      <4>3. QED
        BY <3>1, <4>1, <4>2 DEF Left, Position, Exited, Signalling, Inspecting, Holding
    <3>4. QED
      BY <3>2, <3>3
  <2>4. QED
    BY <2>2, <2>3
<1>3. CASE [\/ \E r \in Runners : ChildExits(r) \/ Crash(r)
            \/ \E a \in Operators : OperatorStep(a)]_vars
  BY <1>1, <1>3, OthersYield, YieldingLosesNothing
<1>4. QED
  BY <1>1, <1>2, <1>3 DEF Next, Done

(* The core of AttemptTerminates, for any number of processes: a runner's  *)
(* step leaves it less to do, and nothing gives it more but a lock file    *)
(* created for the first time, of which there are three for each runner.   *)
(* So clearing stale locks does not go round for ever                      *)
(* (acquire_workspace_lock); that a runner keeps stepping is fairness.     *)
THEOREM AttemptsBounded ==
    Spec => /\ []LeftCount
            /\ [][ /\ Creatable' \subseteq Creatable
                  /\ \A r \in Runners :
                        /\ RunnerStep(r) => Left(r)' < Left(r)
                        /\ Left(r)' > Left(r) => Creatable' # Creatable ]_vars
<1>1. TypeOK /\ [Next]_vars =>
         [ /\ Creatable' \subseteq Creatable
           /\ \A r \in Runners :
                 /\ RunnerStep(r) => Left(r)' < Left(r)
                 /\ Left(r)' > Left(r) => Creatable' # Creatable ]_vars
  BY NextBounded
<1>2. QED
  BY <1>1, LeftCounts, TypeCorrect, PTL DEF Spec
=============================================================================
