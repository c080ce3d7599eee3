------------------------ MODULE MechanismExperiment ------------------------
(***************************************************************************)
(* run_mechanism_experiment for one run identifier, called any number of   *)
(* times: a call mutates a disposable copy of the live tree, captures and  *)
(* checks the candidate, repairs it once if only its structure regressed,  *)
(* has the promotion gate judge it, and applies and finalizes what the     *)
(* gate promotes.  Between calls the operator may run finalize_run.        *)
(*                                                                         *)
(* The run directory survives a call, and so does what an earlier call     *)
(* left in it: a call rewrites its files one after the other.  The steps   *)
(* of the apply are those of ManifestApply, those of the finalization      *)
(* those of FinalizeRun; here each has its outcomes only, and the apply    *)
(* those of Installation.                                                  *)
(***************************************************************************)
EXTENDS Naturals

CONSTANT MaxCalls        \* bound on the calls

ASSUME ExperimentAssumption == MaxCalls \in Nat

MaxRepairs == 1          \* SAME_SESSION_REPAIR_MAX_ATTEMPTS

\* The contents of a tree: a candidate is named by its call, its attempt and
\* whether the check command wrote to it after it was assessed.
Original == <<0, 0, "assessed">>
Torn == <<0, 1, "assessed">>      \* some files of a candidate, some of what was there
Missing == <<0, 2, "assessed">>   \* a file of the run directory that is not there
Contents == (0 .. MaxCalls) \X (0 .. MaxRepairs + 1) \X {"assessed", "overwritten"}

Decisions == {"PROMOTE", "HOLD", "DISCARD"}
Outcome == [PROMOTE |-> "promoted", HOLD |-> "held", DISCARD |-> "discarded"]
Statuses == {"draft", "running", "blocked", "ready", "complete"}
Events == {"mutation_failed", "mutation_applied", "health_passed", "health_structural",
           "health_failed", "repair_scheduled", "rehearsed", "canary_ready",
           "applied", "evaluated", "finalized"}
Steps == {"mutate", "capture", "check", "judge", "repair", "gate", "apply",
          "applying", "applied", "record", "finalize"}
Results == {"none", "mutation_failed", "blocked", "error", "exception", "crashed",
            "promoted", "held", "discarded"}

VARIABLES
    live,       \* the content of the live tree
    captured,   \* the candidate the run directory's assessments are of
    manifest,   \* the candidate the changed-files manifest lists
    report,     \* the promotion report
    ledger,     \* the run ledger: its status and the events it holds
    calls,
    request,    \* what the call in progress was asked
    pc,
    repairs,    \* repair_attempts_used
    health,     \* what repo_health_step found last
    result,     \* how the last call ended
    found       \* the live tree as that call found it

rundir == <<captured, manifest, report, ledger>>
call == <<calls, request, found>>
vars == <<live, rundir, call, pc, repairs, health, result>>

TypeOK ==
    /\ {live, captured, manifest, found} \subseteq Contents
    /\ report \in [decision : Decisions, judged : Contents, evidence : Contents,
                   approved : BOOLEAN]
    /\ ledger \in [status : Statuses, events : SUBSET Events]
    /\ calls \in 0 .. MaxCalls
    /\ request \in [mode : {"live", "canary_only"}, finalize : BOOLEAN]
    /\ pc \in Steps \cup {"idle"}
    /\ repairs \in 0 .. MaxRepairs
    /\ health \in {"passed", "structural", "failed"}
    /\ result \in Results

Init ==
    /\ live = Original /\ found = Original
    /\ captured = Missing /\ manifest = Missing
    /\ report = [decision |-> "HOLD", judged |-> Missing, evidence |-> Missing,
                 approved |-> FALSE]
    /\ ledger = [status |-> "draft", events |-> {}]
    /\ calls = 0
    /\ request = [mode |-> "live", finalize |-> FALSE]
    /\ pc = "idle" /\ repairs = 0 /\ health = "failed" /\ result = "none"

-----------------------------------------------------------------------------
Candidate == <<calls, repairs, "assessed">>
Overwritten == <<calls, repairs, "overwritten">>
Finalizable == report.decision # "HOLD" /\ report.approved
LiveApplied == request.mode = "live" /\ report.decision = "PROMOTE"

\* Mutant of Log: the status goes with the event, and is lost with a duplicate.
LogNew(event, status) ==
    ledger' = IF event \in ledger.events THEN ledger
              ELSE [status |-> status, events |-> ledger.events \cup {event}]

\* append_ledger_event: an event the ledger holds is not added again
Log(event, status) ==
    ledger' = [status |-> status, events |-> ledger.events \cup {event}]

Return(r) == pc' = "idle" /\ result' = r
Proceed(step) == pc' = step /\ UNCHANGED result

-----------------------------------------------------------------------------
\* Mutant of Call: a complete run is run again.
CallAgain(mode, finalize) ==
    /\ pc = "idle" /\ calls < MaxCalls
    /\ calls' = calls + 1 /\ found' = live
    /\ request' = [mode |-> mode, finalize |-> finalize]
    /\ repairs' = 0
    /\ Proceed("mutate") /\ ledger' = [ledger EXCEPT !.status = "running"]
    /\ UNCHANGED <<live, captured, manifest, report, health>>

\* Scaffold the run or load it; refuse a complete one; freeze the scope and
\* capture the baseline.
Call(mode, finalize) ==
    /\ pc = "idle" /\ calls < MaxCalls
    /\ calls' = calls + 1 /\ found' = live
    /\ request' = [mode |-> mode, finalize |-> finalize]
    /\ repairs' = 0
    /\ \/ /\ ledger.status = "complete"
          /\ Return("error") /\ UNCHANGED ledger
       \/ /\ ledger.status # "complete"
          /\ Proceed("mutate") /\ ledger' = [ledger EXCEPT !.status = "running"]
    /\ UNCHANGED <<live, captured, manifest, report, health>>

\* A fresh workspace and the mutation command.
Mutate ==
    /\ pc = "mutate"
    /\ \/ Log("mutation_failed", "blocked") /\ Return("mutation_failed")
       \/ Log("mutation_applied", "running") /\ Proceed("capture")
    /\ UNCHANGED <<live, captured, manifest, report, call, repairs, health>>

Capture ==
    /\ pc = "capture"
    /\ captured' = Candidate
    /\ ledger' = [ledger EXCEPT !.status = "running"]
    /\ Proceed("check")
    /\ UNCHANGED <<live, manifest, report, call, repairs, health>>

\* repo_health_step runs the check command in the workspace the assessments
\* were captured from, and lists what is there after it, whatever it returned
Check ==
    /\ pc = "check"
    /\ manifest' \in {Candidate, Overwritten}
    /\ health' \in {"passed", "structural", "failed"}
    /\ Proceed("judge")
    /\ UNCHANGED <<live, captured, report, ledger, call, repairs>>

\* ... and only then its ledger event.
Judge ==
    /\ pc = "judge"
    /\ \/ health = "passed" /\ Log("health_passed", "running") /\ Proceed("gate")
       \/ health = "structural" /\ Log("health_structural", "blocked") /\ Proceed("repair")
       \/ health = "failed" /\ Log("health_failed", "blocked") /\ Proceed("repair")
    /\ UNCHANGED <<live, captured, manifest, report, call, repairs, health>>

\* Mutants of Repair: only the check is repeated; the attempt is not counted.
RepairChecksAgain ==
    /\ pc = "repair"
    /\ health = "structural" /\ repairs < MaxRepairs
    /\ repairs' = repairs + 1
    /\ Log("repair_scheduled", "running") /\ Proceed("check")
    /\ UNCHANGED <<live, captured, manifest, report, call, health>>
RepairUncounted ==
    /\ pc = "repair"
    /\ health = "structural" /\ repairs < MaxRepairs
    /\ Log("repair_scheduled", "running") /\ Proceed("mutate")
    /\ UNCHANGED <<live, captured, manifest, report, call, repairs, health>>

\* _same_session_repair_allowed.  The repair context it writes reaches the
\* executor's prompt only.
Repair ==
    /\ pc = "repair"
    /\ health = "structural" /\ repairs < MaxRepairs
    /\ repairs' = repairs + 1
    /\ Log("repair_scheduled", "running") /\ Proceed("mutate")
    /\ UNCHANGED <<live, captured, manifest, report, call, health>>

Block ==
    /\ pc = "repair"
    /\ health # "structural" \/ repairs = MaxRepairs
    /\ Return("blocked")
    /\ UNCHANGED <<live, rundir, call, repairs, health>>

\* The gate reads the manifest and the assessments from the run directory.
Gate ==
    /\ pc = "gate"
    /\ \E d \in Decisions, approved \in BOOLEAN :
          report' = [decision |-> d, judged |-> manifest, evidence |-> captured,
                     approved |-> approved]
    /\ Proceed("apply")
    /\ UNCHANGED <<live, captured, manifest, ledger, call, repairs, health>>

Discard ==
    /\ pc = "apply"
    /\ report.decision # "PROMOTE"
    /\ Proceed("record")
    /\ UNCHANGED <<live, rundir, call, repairs, health>>

\* canary_only plans the apply and leaves the live tree alone
PlanCanary ==
    /\ pc = "apply"
    /\ report.decision = "PROMOTE" /\ request.mode = "canary_only"
    /\ Log("canary_ready", "running") /\ Proceed("record")
    /\ UNCHANGED <<live, captured, manifest, report, call, repairs, health>>

\* Mutant of Rehearse: the ledger hears of the rehearsal with the apply.
RehearseUnlogged ==
    /\ pc = "apply" /\ LiveApplied
    /\ Proceed("applying")
    /\ UNCHANGED <<live, rundir, call, repairs, health>>

Rehearse ==
    /\ pc = "apply" /\ LiveApplied
    /\ Log("rehearsed", ledger.status) /\ Proceed("applying")
    /\ UNCHANGED <<live, captured, manifest, report, call, repairs, health>>

\* What apply_manifest_transaction leaves: ManifestApply implements Installation.
Installed == INSTANCE Installation WITH
    before <- found, after <- manifest, tree <- live, outcome <- result

\* Done; or an exception, whatever was replaced and put back by then: an
\* interrupt after the last replacement leaves the whole candidate.
Apply ==
    /\ pc = "applying"
    /\ \/ live' \in Installed!Leaves("applied", live, manifest) /\ Proceed("applied")
       \/ live' \in Installed!Leaves("broken", live, manifest) /\ Return("exception")
    /\ UNCHANGED <<rundir, call, repairs, health>>

RecordApplied ==
    /\ pc = "applied"
    /\ Log("applied", "running") /\ Proceed("record")
    /\ UNCHANGED <<live, captured, manifest, report, call, repairs, health>>

Record ==
    /\ pc = "record"
    /\ Log("evaluated", "ready") /\ Proceed("finalize")
    /\ UNCHANGED <<live, captured, manifest, report, call, repairs, health>>

\* Mutant of Finalize: a canary is finalized like a live apply.
FinalizeCanary ==
    /\ pc = "finalize"
    /\ IF request.finalize /\ Finalizable THEN Log("finalized", "complete")
                                          ELSE UNCHANGED ledger
    /\ Return(Outcome[report.decision])
    /\ UNCHANGED <<live, captured, manifest, report, call, repairs, health>>

\* _finalize_step, and the result the session classifies by its decision
Finalize ==
    /\ pc = "finalize"
    /\ IF request.finalize /\ LiveApplied /\ Finalizable
       THEN Log("finalized", "complete") ELSE UNCHANGED ledger
    /\ Return(Outcome[report.decision])
    /\ UNCHANGED <<live, captured, manifest, report, call, repairs, health>>

-----------------------------------------------------------------------------
\* Mutant of RaiseError: a failing ledger write after the apply is such an error.
RaiseErrorLate ==
    /\ \/ pc \in {"mutate", "capture", "check", "repair", "gate", "apply", "applied"}
       \/ pc = "record" /\ report.decision # "PROMOTE"
    /\ Return("error")
    /\ UNCHANGED <<live, rundir, call, repairs, health>>

\* A RunMechanismExperimentError, which the session records as a blocked run:
\* write_json or load_json fails.  After the apply, only the snapshot of what
\* was not promoted is written with them.
RaiseError ==
    /\ \/ pc \in {"mutate", "capture", "check", "repair", "gate", "apply"}
       \/ pc = "record" /\ report.decision # "PROMOTE"
    /\ Return("error")
    /\ UNCHANGED <<live, rundir, call, repairs, health>>

\* Any other exception: a ledger write, a failed rehearsal, a failing
\* finalization.  It ends the session's call too.
RaiseOther ==
    /\ pc \in Steps \ {"applying"}
    /\ Return("exception")
    /\ UNCHANGED <<live, rundir, call, repairs, health>>

Crash ==
    /\ pc # "idle"
    /\ live' \in IF pc = "applying" THEN Installed!Leaves("broken", live, manifest)
                 ELSE {live}
    /\ Return("crashed")
    /\ UNCHANGED <<rundir, call, repairs, health>>

\* finalize_run from the command line: the report decides, whatever the ledger says
OperatorFinalize ==
    /\ pc = "idle"
    /\ Finalizable
    /\ Log("finalized", "complete")
    /\ UNCHANGED <<live, captured, manifest, report, call, pc, repairs, health, result>>

Step ==
    \/ Mutate \/ Capture \/ Check \/ Judge \/ Repair \/ Block \/ Gate
    \/ Discard \/ PlanCanary \/ Rehearse \/ Apply \/ RecordApplied \/ Record \/ Finalize

Next ==
    \/ \E mode \in {"live", "canary_only"}, finalize \in BOOLEAN : Call(mode, finalize)
    \/ Step
    \/ RaiseError \/ RaiseOther \/ Crash
    \/ OperatorFinalize

Spec == Init /\ [][Next]_vars
FairSpec == Spec /\ WF_vars(Step)

-----------------------------------------------------------------------------
(* The live tree changes to a candidate only when the gate, in a live run, *)
(* promoted that very candidate, with its own check passed, and on         *)
(* assessments captured from it before that check: nothing an earlier      *)
(* attempt or an earlier call left in the run directory gets there, and    *)
(* nothing the gate has not judged but what this attempt's own check wrote *)
(* is unassessed (_promotion_workspace_phase_result after the repair loop).*)
LiveIsPromoted ==
    [][live' \notin {live, Torn} =>
          /\ live' \in {Candidate, Overwritten}
          /\ report = [decision |-> "PROMOTE", judged |-> live', evidence |-> Candidate,
                       approved |-> report.approved]
          /\ request.mode = "live" /\ health = "passed"]_vars

(* Wherever a call dies, a live tree a run has touched is announced in its *)
(* ledger: the rehearsal is logged before the first file is replaced       *)
(* (_apply_workspace_changes).                                             *)
LiveChangeAnnounced == live # Original => "rehearsed" \in ledger.events

(* A call the session records as blocked, failed, held or discarded left   *)
(* the live tree as it found it: an experiment error is never raised once  *)
(* files were replaced (evaluate_execution_outcome).                       *)
NotPromoted == {"mutation_failed", "blocked", "error", "held", "discarded"}
BlockedLeavesLive == pc = "idle" /\ result \in NotPromoted => live = found

(* The ledger a call leaves says how it ended, also when the events it     *)
(* would log are in it already from an earlier attempt or call             *)
(* (append_ledger_event).                                                  *)
Says(r) ==
    IF r \in {"mutation_failed", "blocked"} THEN {"blocked"}
    ELSE IF r \in {"held", "discarded"} THEN {"ready"}
    ELSE IF r = "promoted" THEN {"ready", "complete"} ELSE Statuses
StatusOfResult ==
    [][pc # "idle" /\ pc' = "idle" => ledger'.status \in Says(result')]_vars

(* The calls of a run keep the promise of Promotion: a complete run is     *)
(* closed (_scaffold_or_load_run's refusal), a call offers the live tree   *)
(* one candidate at most, never what is live already, and installs nothing *)
(* else, wherever it fails (_promotion_workspace_phase_result).            *)
Stage ==
    CASE pc = "idle" -> "none"
      [] pc \in {"apply", "applying"} /\ LiveApplied -> "offered"
      [] pc \in {"applied", "record", "finalize"} /\ LiveApplied -> "installed"
      [] OTHER -> "open"

Promised == INSTANCE Promotion WITH
    stage <- Stage,
    candidate <- IF Stage \in {"offered", "installed"} THEN report.judged ELSE Original,
    closed <- ledger.status = "complete"

KeepsPromise == Promised!Spec

(* A run the experiment itself completes is a promoted one whose candidate *)
(* is the live tree, and the files of its directory are about that         *)
(* candidate, its assessments as it was before the check command           *)
(* (_finalize_step after live_applied).                                    *)
Assessed(content) == <<content[1], content[2], "assessed">>
FinalizedIsLive ==
    [][pc = "finalize" /\ ledger'.status = "complete" =>
          /\ report.decision = "PROMOTE"
          /\ {report.judged, manifest} = {live}
          /\ {report.evidence, captured} = {Assessed(live)}]_vars

(* A call ends, its one repair included.                                   *)
CallEnds == pc # "idle" ~> pc = "idle"
=============================================================================
