--------------------- MODULE MechanismExperimentProofs ---------------------
(* Proofs about MechanismExperiment, for any number of calls.              *)
EXTENDS MechanismExperiment, TLAPS

(***************************************************************************)
(* What holds at each step of a call.  The files of the run directory that *)
(* the step relies on are about the candidate of the attempt in progress,  *)
(* the assessments as it was before the check and the others as it was     *)
(* after it, and the live tree is as the call found it until the apply is  *)
(* over.                                                                   *)
(***************************************************************************)
Captured == {"check", "judge", "repair", "gate", "apply", "applying", "applied",
             "record", "finalize"}
Judged == {"apply", "applying", "applied", "record", "finalize"}

OpenInv == pc # "idle" => ledger.status # "complete" /\ calls >= 1

FilesInv ==
    /\ pc \in Captured => captured = Candidate
    /\ pc \in Captured \ {"check"} => manifest \in {Candidate, Overwritten}
    /\ pc \in Judged \cup {"gate"} => health = "passed"
    /\ pc \in Judged => report.judged = manifest /\ report.evidence = Candidate

AppliedInv ==
    /\ pc \in {"applying", "applied"} => LiveApplied
    /\ pc = "applying" => "rehearsed" \in ledger.events
    /\ pc \in {"applied", "record", "finalize"} /\ LiveApplied => live = manifest

FoundInv ==
    /\ pc \in Steps \ {"applied", "record", "finalize"} => live = found
    /\ pc \in {"record", "finalize"} /\ ~LiveApplied => live = found

\* What is live is an earlier call's until this one's apply.
AgeInv ==
    /\ live[1] <= calls
    /\ pc \in Steps \ {"applied", "record", "finalize"} => live[1] < calls

IInv ==
    /\ TypeOK
    /\ OpenInv
    /\ FilesInv
    /\ AppliedInv
    /\ FoundInv
    /\ AgeInv
    /\ LiveChangeAnnounced
    /\ BlockedLeavesLive

-----------------------------------------------------------------------------
LEMMA Constants ==
    /\ Original \in Contents /\ Torn \in Contents /\ Missing \in Contents
    /\ TypeOK => Candidate \in Contents /\ Overwritten \in Contents
BY ExperimentAssumption
   DEF Original, Torn, Missing, Contents, TypeOK, Candidate, Overwritten, MaxRepairs

LEMMA ApplyLeaves ==
    /\ Installed!Leaves("applied", live, manifest) = {manifest}
    /\ Installed!Leaves("broken", live, manifest) = {live, manifest, Torn}
BY DEF Installed!Leaves

LEMMA Initially == Init => IInv
BY Constants, ExperimentAssumption
   DEF Init, IInv, TypeOK, OpenInv, FilesInv, AppliedInv, FoundInv, LiveChangeAnnounced,
       AgeInv, BlockedLeavesLive, NotPromoted, Captured, Judged, Steps, Decisions, Statuses,
       Events, Results, MaxRepairs, Original

\* The call a content comes from is a number.
LEMMA Ages == TypeOK => live[1] \in Nat /\ calls \in Nat
BY ExperimentAssumption DEF TypeOK, Contents

\* Every step keeps the types.
LEMMA TypeStep == TypeOK /\ [Next]_vars => TypeOK'
<1> SUFFICES ASSUME TypeOK, [Next]_vars PROVE TypeOK'
  OBVIOUS
<1> USE Constants, ExperimentAssumption
    DEF TypeOK, Log, Return, Proceed, rundir, call, Steps, Decisions, Statuses, Events, Results
<1>1. ASSUME NEW mode \in {"live", "canary_only"}, NEW finalize \in BOOLEAN, Call(mode, finalize)
      PROVE TypeOK'
  BY <1>1 DEF Call, MaxRepairs
<1>2. CASE Mutate \/ Capture
  BY <1>2 DEF Mutate, Capture
<1>3. CASE Check \/ Judge
  BY <1>3 DEF Check, Judge
<1>4. CASE Repair \/ Block
  BY <1>4 DEF Repair, Block, MaxRepairs
<1>5. CASE Gate
  BY <1>5 DEF Gate
<1>6. CASE Discard \/ PlanCanary \/ Rehearse
  BY <1>6 DEF Discard, PlanCanary, Rehearse
<1>7. CASE Apply
  BY <1>7, ApplyLeaves DEF Apply
<1>8. CASE RecordApplied \/ Record
  BY <1>8 DEF RecordApplied, Record
<1>9. CASE Finalize
  BY <1>9 DEF Finalize, Outcome
<1>10. CASE RaiseError \/ RaiseOther \/ Crash
  BY <1>10, ApplyLeaves DEF RaiseError, RaiseOther, Crash
<1>11. CASE OperatorFinalize
  BY <1>11 DEF OperatorFinalize
<1>12. CASE UNCHANGED vars
  BY <1>12 DEF vars
<1>13. QED
  BY <1>1, <1>2, <1>3, <1>4, <1>5, <1>6, <1>7, <1>8, <1>9, <1>10, <1>11, <1>12
     DEF Next, Step


-----------------------------------------------------------------------------
\* What a step leaves of the invariant, action by action.
LEMMA CallStep ==
    ASSUME IInv, TypeOK', NEW mode \in {"live", "canary_only"}, NEW finalize \in BOOLEAN,
           Call(mode, finalize)
    PROVE  IInv'
<1> USE DEF Call, Return, Proceed, IInv, TypeOK
<1>1. OpenInv'
  BY DEF OpenInv
<1>2. FilesInv' /\ AppliedInv' /\ FoundInv'
  BY DEF FilesInv, AppliedInv, FoundInv, Captured, Judged, Steps
<1>3. LiveChangeAnnounced' /\ BlockedLeavesLive'
  BY DEF LiveChangeAnnounced, BlockedLeavesLive
<1>4. AgeInv'
  BY Ages DEF AgeInv, Steps
<1>5. QED
  BY <1>1, <1>2, <1>3, <1>4

LEMMA AttemptStep ==
    ASSUME IInv, TypeOK',
           Mutate \/ Capture \/ Check \/ Judge \/ Repair \/ Block \/ Gate
    PROVE  IInv'
<1> USE DEF IInv, TypeOK, Log, Return, Proceed, call, rundir,
            Mutate, Capture, Check, Judge, Repair, Block, Gate
<1>1. OpenInv'
  BY DEF OpenInv
<1>2. FilesInv'
  BY DEF FilesInv, Captured, Judged, Candidate, Overwritten
<1>3. AppliedInv'
  BY DEF AppliedInv, Captured
<1>4. FoundInv'
  BY DEF FoundInv, Steps
<1>5. LiveChangeAnnounced'
  BY DEF LiveChangeAnnounced
<1>6. BlockedLeavesLive'
  BY DEF BlockedLeavesLive, FoundInv, Steps
<1>7. AgeInv'
  BY Ages DEF AgeInv, Steps
<1>8. QED
  BY <1>1, <1>2, <1>3, <1>4, <1>5, <1>6, <1>7

LEMMA PromotionStep ==
    ASSUME IInv, TypeOK',
           Discard \/ PlanCanary \/ Rehearse \/ Apply \/ RecordApplied \/ Record \/ Finalize
    PROVE  IInv'
<1> USE DEF IInv, TypeOK, Log, Return, Proceed, call, rundir,
            Discard, PlanCanary, Rehearse, Apply, RecordApplied, Record, Finalize
<1>1. OpenInv'
  BY DEF OpenInv, Statuses
<1>2. FilesInv'
  BY DEF FilesInv, Captured, Judged, Candidate, Overwritten
<1>3. AppliedInv'
  BY ApplyLeaves DEF AppliedInv, FilesInv, Captured, LiveApplied
<1>4. FoundInv'
  BY DEF FoundInv, AppliedInv, Steps, LiveApplied
<1>5. LiveChangeAnnounced'
  BY DEF LiveChangeAnnounced, AppliedInv
<1>6. BlockedLeavesLive'
  BY DEF BlockedLeavesLive, NotPromoted, FoundInv, Steps, LiveApplied, Outcome, Decisions
<1>7. AgeInv'
  <2>1. CASE Apply
    BY <2>1, Ages, ApplyLeaves DEF AgeInv, Steps, FilesInv, Captured, Candidate, Overwritten, Torn
  <2>2. CASE Discard \/ PlanCanary \/ Rehearse \/ RecordApplied \/ Record \/ Finalize
    BY <2>2, Ages DEF AgeInv, Steps
  <2>3. QED
    BY <2>1, <2>2
<1>8. QED
  BY <1>1, <1>2, <1>3, <1>4, <1>5, <1>6, <1>7

LEMMA EndStep ==
    ASSUME IInv, TypeOK', RaiseError \/ RaiseOther \/ Crash \/ OperatorFinalize
    PROVE  IInv'
<1> USE DEF IInv, TypeOK, Log, Return, call, rundir,
            RaiseError, RaiseOther, Crash, OperatorFinalize
<1>1. OpenInv' /\ FilesInv' /\ AppliedInv' /\ FoundInv'
  BY DEF OpenInv, FilesInv, AppliedInv, FoundInv, Captured, Judged, Steps
<1>2. LiveChangeAnnounced'
  BY DEF LiveChangeAnnounced, AppliedInv
<1>3. BlockedLeavesLive'
  BY DEF BlockedLeavesLive, NotPromoted, FoundInv, LiveApplied, Steps
<1>4. AgeInv'
  BY Ages, ApplyLeaves DEF AgeInv, Steps, FilesInv, Captured, Candidate, Overwritten, Torn
<1>5. QED
  BY <1>1, <1>2, <1>3, <1>4

LEMMA Inductive == IInv /\ [Next]_vars => IInv'
<1> SUFFICES ASSUME IInv, [Next]_vars PROVE IInv'
  OBVIOUS
<1>1. TypeOK'
  BY TypeStep DEF IInv
<1>2. CASE UNCHANGED vars
  BY <1>2 DEF vars, call, rundir, IInv, TypeOK, OpenInv, FilesInv, AppliedInv, FoundInv,
              AgeInv, LiveChangeAnnounced, BlockedLeavesLive, Candidate, Overwritten,
              LiveApplied
<1>3. CASE Next
  BY <1>1, <1>3, CallStep, AttemptStep, PromotionStep, EndStep DEF Next, Step
<1>4. QED
  BY <1>2, <1>3

LEMMA Invariance == Spec => []IInv
BY Initially, Inductive, PTL DEF Spec

-----------------------------------------------------------------------------
(* Type correctness.                                                       *)
THEOREM TypeCorrect == Spec => []TypeOK
<1>1. IInv => TypeOK
  BY DEF IInv
<1>2. QED
  BY <1>1, Invariance, PTL

(* A live tree a run touched is announced in its ledger.                   *)
THEOREM ChangesAnnounced == Spec => []LiveChangeAnnounced
<1>1. IInv => LiveChangeAnnounced
  BY DEF IInv
<1>2. QED
  BY <1>1, Invariance, PTL

(* A call recorded as not promoted left the live tree as it found it.      *)
THEOREM BlockedIsHarmless == Spec => []BlockedLeavesLive
<1>1. IInv => BlockedLeavesLive
  BY DEF IInv
<1>2. QED
  BY <1>1, Invariance, PTL

-----------------------------------------------------------------------------
\* Only the apply and a kill during it change the live tree.
LEMMA LiveStep ==
    ASSUME IInv, [Next]_vars, live' # live
    PROVE  Apply \/ (Crash /\ pc = "applying")
BY DEF Next, Step, vars, call, rundir, Call, Mutate, Capture, Check, Judge, Repair, Block,
       Gate, Discard, PlanCanary, Rehearse, RecordApplied, Record, Finalize, RaiseError,
       RaiseOther, Crash, OperatorFinalize

(* The live tree changes to a candidate only when the gate promoted it, in *)
(* a live run, on its own check and on its own assessments from before it. *)
THEOREM OnlyThePromoted == Spec => LiveIsPromoted
<1> DEFINE Good ==
      /\ live' \in {Candidate, Overwritten}
      /\ report = [decision |-> "PROMOTE", judged |-> live', evidence |-> Candidate,
                   approved |-> report.approved]
      /\ request.mode = "live" /\ health = "passed"
<1>1. IInv /\ [Next]_vars => [live' \notin {live, Torn} => Good]_vars
  <2> SUFFICES ASSUME IInv, [Next]_vars, live' \notin {live, Torn} PROVE Good
    OBVIOUS
  <2>1. pc = "applying" /\ live' = manifest
    BY LiveStep, ApplyLeaves DEF Apply, Crash
  <2>2. manifest \in {Candidate, Overwritten} /\ health = "passed"
        /\ report.judged = manifest /\ report.evidence = Candidate
    BY <2>1 DEF IInv, FilesInv, Captured, Judged
  <2>3. request.mode = "live" /\ report.decision = "PROMOTE"
    BY <2>1 DEF IInv, AppliedInv, LiveApplied
  <2>4. report = [decision |-> report.decision, judged |-> report.judged,
                  evidence |-> report.evidence, approved |-> report.approved]
    BY DEF IInv, TypeOK
  <2>5. QED
    BY <2>1, <2>2, <2>3, <2>4
<1>2. QED
  BY <1>1, Invariance, PTL DEF Spec, LiveIsPromoted

-----------------------------------------------------------------------------
(* A run the experiment completes is promoted, its candidate is the live   *)
(* tree, and its files are about it, the assessments before the check.     *)
THEOREM FinalizedLive == Spec => FinalizedIsLive
<1> DEFINE Good ==
      /\ report.decision = "PROMOTE"
      /\ {report.judged, manifest} = {live}
      /\ {report.evidence, captured} = {Assessed(live)}
<1>1. IInv /\ [Next]_vars
      => [pc = "finalize" /\ ledger'.status = "complete" => Good]_vars
  <2> SUFFICES ASSUME IInv, [Next]_vars, pc = "finalize", ledger'.status = "complete"
               PROVE  Good
    OBVIOUS
  <2>1. Finalize /\ LiveApplied
    BY DEF Next, Step, vars, call, rundir, Call, Mutate, Capture, Check, Judge, Repair,
       Block, Gate, Discard, PlanCanary, Rehearse, Apply, RecordApplied, Record, Finalize,
       RaiseError, RaiseOther, Crash, OperatorFinalize, IInv, OpenInv
  <2>2. live = manifest /\ live \in {Candidate, Overwritten} /\ captured = Candidate
        /\ report.judged = manifest /\ report.evidence = Candidate
    BY <2>1 DEF IInv, AppliedInv, FilesInv, Captured, Judged
  <2>3. Assessed(live) = Candidate
    BY <2>2 DEF Assessed, Candidate, Overwritten
  <2>4. QED
    BY <2>1, <2>2, <2>3 DEF LiveApplied
<1>2. QED
  BY <1>1, Invariance, PTL DEF Spec, FinalizedIsLive

-----------------------------------------------------------------------------
\* The status of the steps a call ends at.
StatusInv ==
    /\ pc = "repair" => ledger.status = "blocked"
    /\ pc = "finalize" => ledger.status = "ready"

LEMMA StatusStep == StatusInv /\ [Next]_vars => StatusInv'
BY DEF StatusInv, Next, Step, vars, call, rundir, Return, Proceed, Log, Call, Mutate, Capture,
   Check, Judge, Repair, Block, Gate, Discard, PlanCanary, Rehearse, Apply, RecordApplied,
   Record, Finalize, RaiseError, RaiseOther, Crash, OperatorFinalize

(* The ledger a call leaves says how the call ended, also where the events *)
(* it would log are there from an earlier attempt (append_ledger_event).   *)
THEOREM LedgerSaysResult == Spec => StatusOfResult
<1>1. Init => StatusInv
  BY DEF Init, StatusInv
<1>2. Spec => []StatusInv
  BY <1>1, StatusStep, PTL DEF Spec
<1>3. ASSUME IInv, IInv', StatusInv, [Next]_vars, pc # "idle", pc' = "idle"
      PROVE  ledger'.status \in Says(result')
  <2>1. ledger'.status \in Statuses
    BY <1>3 DEF IInv, TypeOK
  <2>2. CASE result' \in {"error", "exception", "crashed"}
    BY <2>1, <2>2 DEF Says
  <2>3. CASE result' \notin {"error", "exception", "crashed"}
    <3>1. Mutate \/ Block \/ Finalize
      BY <1>3, <2>3 DEF Next, Step, vars, Return, Proceed, Call, Capture, Check, Judge, Repair,
         Gate, Discard, PlanCanary, Rehearse, Apply, RecordApplied, Record, RaiseError,
         RaiseOther, Crash, OperatorFinalize
    <3>2. CASE Mutate
      BY <1>3, <3>2 DEF Mutate, Log, Return, Proceed, Says
    <3>3. CASE Block
      BY <1>3, <3>3 DEF Block, Return, StatusInv, rundir, Says
    <3>4. CASE Finalize
      <4>1. pc = "finalize" /\ result' = Outcome[report.decision]
            /\ report.decision \in Decisions
        BY <1>3, <3>4 DEF Finalize, Return, IInv, TypeOK
      <4>2. ledger'.status = "ready" \/ (ledger'.status = "complete" /\ report.decision = "PROMOTE")
        BY <1>3, <3>4, <4>1 DEF Finalize, Log, StatusInv, LiveApplied
      <4>3. QED
        BY <4>1, <4>2 DEF Outcome, Decisions, Says
    <3>5. QED
      BY <3>1, <3>2, <3>3, <3>4
  <2>4. QED
    BY <2>2, <2>3
<1>4. QED
  BY <1>2, <1>3, Invariance, PTL DEF Spec, StatusOfResult

-----------------------------------------------------------------------------
(* The calls of a run implement Promotion.  One lemma for each part of a   *)
(* call: what a step is to the owner of the live tree.                     *)
Offered == IF Stage \in {"offered", "installed"} THEN report.judged ELSE Original

\* What Stage and Offered say at each step.
StageFacts ==
    /\ pc = "idle" => Stage = "none" /\ Offered = Original
    /\ pc \in {"mutate", "capture", "check", "judge", "repair", "gate"}
          => Stage = "open" /\ Offered = Original
    /\ pc \in {"apply", "applying", "applied", "record", "finalize"} /\ ~ LiveApplied
          => Stage = "open" /\ Offered = Original
    /\ pc \in {"apply", "applying"} /\ LiveApplied => Stage = "offered" /\ Offered = manifest
    /\ pc \in {"applied", "record", "finalize"} /\ LiveApplied
          => Stage = "installed" /\ Offered = manifest

LEMMA Stages == (IInv => StageFacts) /\ (IInv' => StageFacts')
BY DEF IInv, FilesInv, Judged, Stage, Offered, StageFacts

\* A call that starts or is refused; the attempts before the gate; the end of a call.
LEMMA CallPromise ==
    ASSUME IInv, IInv', NEW mode \in {"live", "canary_only"}, NEW finalize \in BOOLEAN,
           Call(mode, finalize)
    PROVE  Promised!Open \/ UNCHANGED Promised!vars
<1>1. StageFacts /\ StageFacts'
  BY Stages
<1>2. CASE ledger.status = "complete"
  BY <1>1, <1>2 DEF Call, Return, Proceed, StageFacts, Promised!vars, Offered
<1>3. CASE ledger.status # "complete"
  <2>1. ledger'.status # "complete"
    BY <1>3 DEF Call, Return, Proceed, IInv, TypeOK
  <2>2. QED
    BY <1>1, <1>3, <2>1 DEF Call, Return, Proceed, StageFacts, Promised!Open, Offered
<1>4. QED
  BY <1>2, <1>3

LEMMA AttemptPromise ==
    ASSUME IInv, IInv', Mutate \/ Capture \/ Check \/ Judge \/ Repair \/ Block
    PROVE  Promised!End \/ UNCHANGED Promised!vars
<1>1. StageFacts /\ StageFacts'
  BY Stages
<1>2. pc \in {"mutate", "capture", "check", "judge", "repair"} /\ UNCHANGED live
  BY DEF Mutate, Capture, Check, Judge, Repair, Block
<1>3. ledger.status # "complete" /\ ledger'.status # "complete"
  BY <1>2 DEF Mutate, Capture, Check, Judge, Repair, Block, Log, rundir, IInv, TypeOK, OpenInv
<1>4. pc' \in {"mutate", "capture", "check", "judge", "repair", "gate", "idle"}
  BY DEF Mutate, Capture, Check, Judge, Repair, Block, Return, Proceed
<1>5. QED
  BY <1>1, <1>2, <1>3, <1>4 DEF StageFacts, Promised!End, Promised!vars, Offered

\* The candidate the gate promotes is this call's, so it is not what is live.
LEMMA GatePromise ==
    ASSUME IInv, IInv', Gate
    PROVE  Promised!Offer \/ UNCHANGED Promised!vars
<1>1. StageFacts /\ StageFacts'
  BY Stages
<1>2. pc = "gate" /\ pc' = "apply" /\ UNCHANGED <<live, manifest, ledger>>
  BY DEF Gate, Proceed, call
<1>3. manifest \in Promised!Candidates \ {live}
  <2>1. manifest \in Contents
    BY DEF IInv, TypeOK
  <2>2. live[1] < manifest[1] /\ manifest[1] >= 1 /\ live[1] \in Nat
    BY <1>2, Ages DEF IInv, AgeInv, OpenInv, FilesInv, Captured, Steps, Candidate, Overwritten
  <2>3. manifest # Original /\ manifest # Torn
    BY <2>2 DEF Original, Torn
  <2>4. manifest # live
    BY <2>2
  <2>5. QED
    BY <2>1, <2>3, <2>4 DEF Promised!Candidates
<1>4. CASE LiveApplied'
  BY <1>1, <1>2, <1>3, <1>4 DEF StageFacts, Promised!Offer, Offered
<1>5. CASE ~ LiveApplied'
  BY <1>1, <1>2, <1>5 DEF StageFacts, Promised!vars, Offered
<1>6. QED
  BY <1>4, <1>5

LEMMA ApplyPromise ==
    ASSUME IInv, IInv', Apply \/ (Crash /\ pc = "applying")
    PROVE  Promised!Install \/ Promised!Break \/ Promised!End
<1>1. StageFacts /\ StageFacts'
  BY Stages
<1>2. pc = "applying" /\ LiveApplied
  BY DEF Apply, IInv, AppliedInv
<1>3. UNCHANGED <<manifest, ledger>> /\ LiveApplied'
  BY <1>2 DEF Apply, Crash, call, rundir, LiveApplied
<1>4. CASE live' = manifest /\ pc' = "applied"
  BY <1>1, <1>2, <1>3, <1>4 DEF StageFacts, Promised!Install, Offered
<1>5. CASE live' \in {live, manifest, Torn} /\ pc' = "idle"
  BY <1>1, <1>2, <1>3, <1>5 DEF StageFacts, Promised!Break, Promised!End, Offered
<1>6. QED
  BY <1>2, <1>4, <1>5, ApplyLeaves DEF Apply, Crash, Return, Proceed

LEMMA RecordPromise ==
    ASSUME IInv, IInv', Discard \/ PlanCanary \/ Rehearse \/ RecordApplied \/ Record
    PROVE  UNCHANGED Promised!vars
<1>1. StageFacts /\ StageFacts'
  BY Stages
<1>2. UNCHANGED <<live, manifest, request, report>>
  BY DEF Discard, PlanCanary, Rehearse, RecordApplied, Record, call, rundir
<1>3. LiveApplied' = LiveApplied
  BY <1>2 DEF LiveApplied
<1>4. ledger.status # "complete" /\ ledger'.status # "complete"
  BY DEF Discard, PlanCanary, Rehearse, RecordApplied, Record, Log, rundir, IInv, TypeOK, OpenInv
<1>5. \/ pc = "apply" /\ pc' = "record" /\ ~ LiveApplied
      \/ pc = "apply" /\ pc' = "applying" /\ LiveApplied
      \/ pc = "applied" /\ pc' = "record" /\ LiveApplied
      \/ pc = "record" /\ pc' = "finalize"
  BY DEF Discard, PlanCanary, Rehearse, RecordApplied, Record, Proceed, IInv, AppliedInv, LiveApplied
<1>6. QED
  BY <1>1, <1>2, <1>3, <1>4, <1>5 DEF StageFacts, Promised!vars, Offered

LEMMA FinalizePromise ==
    ASSUME IInv, IInv', Finalize
    PROVE  Promised!Close \/ Promised!End
<1>1. StageFacts /\ StageFacts'
  BY Stages
<1>2. pc = "finalize" /\ pc' = "idle" /\ UNCHANGED live
  BY DEF Finalize, Return
<1>3. CASE request.finalize /\ LiveApplied /\ Finalizable
  BY <1>1, <1>2, <1>3 DEF Finalize, Log, StageFacts, Promised!Close, Offered
<1>4. CASE ~ (request.finalize /\ LiveApplied /\ Finalizable)
  BY <1>1, <1>2, <1>4 DEF Finalize, StageFacts, Promised!End, Offered
<1>5. QED
  BY <1>3, <1>4

LEMMA EndPromise ==
    ASSUME IInv, IInv', RaiseError \/ RaiseOther \/ (Crash /\ pc # "applying")
    PROVE  Promised!End
<1>1. StageFacts /\ StageFacts'
  BY Stages
<1>2. pc \in Steps /\ pc' = "idle" /\ UNCHANGED <<live, ledger>>
  BY DEF RaiseError, RaiseOther, Crash, Return, rundir, IInv, TypeOK, Steps
<1>3. QED
  BY <1>1, <1>2 DEF Steps, StageFacts, Promised!End, Offered

LEMMA OperatorPromise ==
    ASSUME IInv, IInv', OperatorFinalize
    PROVE  Promised!Close
<1>1. StageFacts /\ StageFacts'
  BY Stages
<1>2. QED
  BY <1>1 DEF OperatorFinalize, Log, StageFacts, Promised!Close, Offered

(* Every step of a call is a step of Promotion or none: a complete run is  *)
(* closed, and nothing but the one candidate a call offers is installed.   *)
THEOREM PromiseKept == Spec => KeepsPromise
<1>1. Init => Promised!Init
  BY DEF Init, Promised!Init, Stage
<1>2. IInv /\ IInv' /\ [Next]_vars => [Promised!Next]_Promised!vars
  <2> SUFFICES ASSUME IInv, IInv', [Next]_vars PROVE [Promised!Next]_Promised!vars
    OBVIOUS
  <2>1. CASE UNCHANGED vars
    BY <2>1 DEF vars, call, rundir, Promised!vars, Stage, LiveApplied
  <2>2. ASSUME NEW mode \in {"live", "canary_only"}, NEW finalize \in BOOLEAN, Call(mode, finalize)
        PROVE  [Promised!Next]_Promised!vars
    BY <2>2, CallPromise DEF Promised!Next
  <2>3. CASE Step
    BY <2>3, AttemptPromise, GatePromise, ApplyPromise, RecordPromise, FinalizePromise
       DEF Step, Promised!Next
  <2>4. CASE RaiseError \/ RaiseOther \/ Crash
    BY <2>4, ApplyPromise, EndPromise DEF Promised!Next
  <2>5. CASE OperatorFinalize
    BY <2>5, OperatorPromise DEF Promised!Next
  <2>6. QED
    BY <2>1, <2>2, <2>3, <2>4, <2>5 DEF Next
<1>3. QED
  BY <1>1, <1>2, Invariance, PTL DEF Spec, KeepsPromise, Promised!Spec

-----------------------------------------------------------------------------
(***************************************************************************)
(* What is left of a call: the steps of this attempt, and those of the     *)
(* attempts that may still follow it.                                      *)
(***************************************************************************)
Position ==
    [mutate |-> 11, capture |-> 10, check |-> 9, judge |-> 8, repair |-> 7, gate |-> 6,
     apply |-> 5, applying |-> 4, applied |-> 3, record |-> 2, finalize |-> 1, idle |-> 0]

Left == IF pc = "idle" THEN 0 ELSE 11 * (MaxRepairs - repairs) + Position[pc]

(* A call that was taken up ends: every step of it, a repair, an error, an *)
(* exception and a kill included, leaves less of it than there was, and at *)
(* no time is there more than two attempts' worth.  The next step is for   *)
(* the fairness of CallEnds (_run_workspace_experiment_phase).             *)
THEOREM CallsBounded ==
    Spec => [](Left \in 0 .. 22) /\ [][pc # "idle" => Left' < Left]_vars
<1> USE DEF MaxRepairs
<1>1. IInv => Left \in 0 .. 22
  BY DEF IInv, TypeOK, Steps, Left, Position
<1>2. IInv /\ IInv' /\ [Next]_vars => [pc # "idle" => Left' < Left]_vars
  <2> SUFFICES ASSUME IInv, IInv', Next, pc # "idle" PROVE Left' < Left
    OBVIOUS
  <2> USE DEF IInv, TypeOK, Steps, Left, Position, Return, Proceed
  <2>1. CASE Mutate \/ Capture \/ Check \/ Judge
    BY <2>1 DEF Mutate, Capture, Check, Judge
  <2>2. CASE Repair \/ Block
    BY <2>2 DEF Repair, Block, call
  <2>3. CASE Gate \/ Discard \/ PlanCanary \/ Rehearse \/ Apply
    BY <2>3 DEF Gate, Discard, PlanCanary, Rehearse, Apply
  <2>4. CASE RecordApplied \/ Record \/ Finalize
    BY <2>4 DEF RecordApplied, Record, Finalize
  <2>5. CASE RaiseError \/ RaiseOther \/ Crash
    BY <2>5 DEF RaiseError, RaiseOther, Crash
  <2>6. QED
    BY <2>1, <2>2, <2>3, <2>4, <2>5 DEF Next, Step, Call, OperatorFinalize
<1>3. QED
  BY <1>1, <1>2, Invariance, PTL DEF Spec
=============================================================================
