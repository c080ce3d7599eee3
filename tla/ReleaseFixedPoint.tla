--------------------------- MODULE ReleaseFixedPoint ---------------------------
(***************************************************************************)
(* The release closeout's single topological pass over the writers of the  *)
(* tracked reports, the report of that pass (the authority), the finality  *)
(* attestation over it, and the two checks that write nothing: the dry run *)
(* and the finality verification.  (release_closeout_fixed_point.py,       *)
(* release_closeout_finality_attestation.py.)                              *)
(*                                                                         *)
(* Each writer produces one report, as in the policy, and is named like    *)
(* it.  A report is the version of its binding digest together with what   *)
(* it was derived from: the source tree, the revision and the versions of  *)
(* the reports it depends on.  A writer that derives the same again leaves *)
(* the version alone (promote_schema_validated_json), whatever its clock.  *)
(***************************************************************************)
EXTENDS Naturals, Sequences

CONSTANTS
    Writers,        \* the writer targets of the policy
    Order,          \* their order there, a sequence
    Deps,           \* depends_on
    Revisioned,     \* the writers of binding mode "revision", the others have "content"
    Costly,         \* the writers with expensive prerequisites
    Manifest,       \* release-closeout-batch-manifest-promote
    Initials,       \* the initial targets that the Make targets ask for
    MaxPasses,      \* bound on the passes
    MaxOutside      \* bound on edits, commits and writes from outside the pass

N == Len(Order)

Closed(S) == \A w \in Writers : Deps[w] \cap S # {} => w \in S

\* _downstream_closed_writer_targets: the targets and all that depends on them.
Downstream(S) == {w \in Writers : \A T \in SUBSET Writers : S \subseteq T /\ Closed(T) => w \in T}

(* _writer_specs refuses any other policy.  The initial targets in use     *)
(* (all, or OPERATOR_EVIDENCE_FINALITY_INITIAL_TARGETS) leave out no       *)
(* writer that depends on another.                                         *)
ASSUME PolicyAssumption ==
    /\ Order \in Seq(Writers)
    /\ \A w \in Writers : \E i \in 1 .. N : Order[i] = w
    /\ \A i, j \in 1 .. N : Order[i] = Order[j] => i = j
    /\ Deps \in [Writers -> SUBSET Writers]
    /\ \A i, j \in 1 .. N : Order[j] \in Deps[Order[i]] => j < i
    /\ Revisioned \subseteq Writers /\ Costly \subseteq Writers
    /\ Manifest \in Writers

ASSUME InitialsAssumption ==
    /\ Initials \subseteq SUBSET Writers
    /\ \A S \in Initials : \A w \in Writers : Deps[w] # {} => w \in Downstream(S)

ASSUME BoundsAssumption == MaxPasses \in Nat /\ MaxOutside \in Nat

VARIABLES
    tree,           \* the release source tree, as its fingerprint tells it
    rev,            \* the source revision (HEAD)
    version,        \* of each report's binding digest, 0 while it is missing
    basis,          \* what each report was derived from
    pc,
    at,             \* the position of the pass in Order
    selected,       \* selected_targets
    read,           \* what the running writer has read
    touched,        \* the tracked paths that changed under the running command
    candidate,      \* << >> or << the report of the pass, not yet promoted >>
    authority,      \* << >> or << the promoted fixed-point report >>
    attestation,    \* << >> or << the finality attestation >>
    outside,        \* history: what others did during the pass
    passes,
    meddled         \* edits, commits and outside writes so far

reports == <<version, basis>>
source == <<tree, rev>>
pass == <<pc, at, selected, read, touched>>
evidence == <<candidate, authority, attestation>>
vars == <<reports, source, pass, evidence, outside, passes, meddled>>

Basis == [tree : Nat, rev : Nat, deps : [Writers -> Nat]]
Report == [version : [Writers -> Nat], rev : Nat, selected : SUBSET Writers, id : Nat,
           leaked : BOOLEAN]
Attestation == [version : [Writers -> Nat], rev : Nat, id : Nat, ok : BOOLEAN]

InCommand == {"prerequisite", "running", "writing", "checking"}
Between == {"next", "prepared"}

TypeOK ==
    /\ tree \in Nat /\ rev \in Nat
    /\ version \in [Writers -> Nat]
    /\ basis \in [Writers -> Basis]
    /\ pc \in {"idle", "promote", "attest"} \cup InCommand \cup Between
    /\ at \in 1 .. N + 1
    /\ pc \in InCommand \cup {"prepared"} => at <= N
    /\ selected \subseteq Writers
    /\ read \in Basis
    /\ touched \subseteq Writers
    /\ candidate = << >> \/ (Len(candidate) = 1 /\ candidate[1] \in Report)
    /\ authority = << >> \/ (Len(authority) = 1 /\ authority[1] \in Report)
    /\ attestation = << >> \/ (Len(attestation) = 1 /\ attestation[1] \in Attestation)
    /\ pc = "promote" => candidate # << >>
    /\ pc = "attest" => authority # << >>
    /\ outside \in {"none", "seen", "leaked"}
    /\ passes \in Nat /\ meddled \in Nat

Nothing == [tree |-> 0, rev |-> 0, deps |-> [w \in Writers |-> 0]]

Init ==
    /\ tree = 1 /\ rev = 1
    /\ version = [w \in Writers |-> 0]
    /\ basis = [w \in Writers |-> Nothing]
    /\ pc = "idle" /\ at = 1 /\ selected = {} /\ read = Nothing /\ touched = {}
    /\ candidate = << >> /\ authority = << >> /\ attestation = << >>
    /\ outside = "none" /\ passes = 0 /\ meddled = 0

-----------------------------------------------------------------------------
(* The checks, which write nothing.                                        *)

Consistent(w) == \A d \in Deps[w] : basis[w].deps[d] = version[d]
Stale(w) == version[w] = 0 \/ basis[w].tree # tree \/ ~ Consistent(w)

\* _dry_run_tracked_artifact_record, without the freshness report's own objections, which
\* can only add writers.
RefreshNeeded(w) ==
    \/ version[w] = 0
    \/ version[w] # authority[1].version[w]
    \/ basis[w].tree # tree

\* Mutant of Recommended: the affected writers alone.
RecommendedAffected ==
    IF authority = << >> THEN Writers ELSE {w \in Writers : RefreshNeeded(w)}

\* _dry_run_recommended_targets
Recommended ==
    IF authority = << >> THEN Writers ELSE Downstream({w \in Writers : RefreshNeeded(w)})

\* _dry_run_diagnostic_status, without what only disturbances leave: missing evidence, and
\* raw digests that changed where the binding digest did not.
Settled == Recommended = {}

RevisionsCurrent == \A w \in Revisioned : version[w] # 0 /\ basis[w].rev = rev

\* _fixed_point_authority_maps: the report is of this revision and so are the reports
\* bound to one.
AuthorityCurrent == authority # << >> /\ authority[1].rev = rev /\ RevisionsCurrent

Attested ==
    [version |-> version, rev |-> rev, id |-> authority[1].id,
     ok |-> AuthorityCurrent /\ authority[1].version = version]

\* _verify_attestation_diagnostics
Verified ==
    /\ attestation # << >>
    /\ attestation[1].ok
    /\ attestation[1].rev = rev
    /\ AuthorityCurrent
    /\ attestation[1].id = authority[1].id
    /\ attestation[1].version = version /\ authority[1].version = version
    /\ Consistent(Manifest)

-----------------------------------------------------------------------------
(* The pass.                                                               *)

Ends == pc' = "idle" /\ at' = 1 /\ selected' = {} /\ read' = Nothing /\ touched' = {}

Begin(initial) ==
    /\ pc = "idle" /\ passes < MaxPasses
    /\ pc' = "next" /\ at' = 1
    /\ selected' = Downstream(initial)
    /\ read' = Nothing /\ touched' = {}
    /\ candidate' = << >>
    /\ outside' = "none" /\ passes' = passes + 1
    /\ UNCHANGED <<reports, source, authority, attestation, meddled>>

Skip ==
    /\ pc = "next" /\ at <= N /\ Order[at] \notin selected
    /\ at' = at + 1
    /\ UNCHANGED <<reports, source, pc, selected, read, touched, evidence, outside, passes, meddled>>

\* The output states are taken before each command.
Launch(from, to) ==
    /\ pc = from
    /\ pc' = to /\ touched' = {}
    /\ UNCHANGED <<reports, source, at, selected, read, evidence, outside, passes, meddled>>

LaunchPrerequisite ==
    at <= N /\ Order[at] \in selected \cap Costly /\ Launch("next", "prerequisite")

LaunchWriter ==
    \/ at <= N /\ Order[at] \in selected \ Costly /\ Launch("next", "running")
    \/ Launch("prepared", "running")

\* A prerequisite produces nothing that is tracked.
PrerequisiteReturns ==
    /\ pc = "prerequisite"
    /\ touched = {}
    /\ pc' = "prepared"
    /\ UNCHANGED <<reports, source, at, selected, read, touched, evidence, outside, passes, meddled>>

Current(w) ==
    [tree |-> tree, rev |-> rev,
     deps |-> [d \in Writers |-> IF d \in Deps[w] THEN version[d] ELSE 0]]

ReadInputs ==
    /\ pc = "running"
    /\ read' = Current(Order[at])
    /\ pc' = "writing"
    /\ UNCHANGED <<reports, source, at, selected, touched, evidence, outside, passes, meddled>>

\* Mutant of SameBinding: a report of another revision is the same report.
SameContent(w, new) == version[w] # 0 /\ new.tree = basis[w].tree /\ new.deps = basis[w].deps

\* Mutant of SameBinding: bytes are compared, and each run has its own clock.
SameBytes(w, new) == FALSE

\* binding_file_digest: "content" leaves the source revision out.
SameBinding(w, new) ==
    /\ version[w] # 0
    /\ new.tree = basis[w].tree /\ new.deps = basis[w].deps
    /\ w \in Revisioned => new.rev = basis[w].rev

Publish(w, new) ==
    IF SameBinding(w, new) THEN UNCHANGED reports
    ELSE /\ version' = [version EXCEPT ![w] = @ + 1]
         /\ basis' = [basis EXCEPT ![w] = new]

WriteReport ==
    /\ pc = "writing"
    /\ Publish(Order[at], read)
    /\ pc' = "checking"
    /\ UNCHANGED <<source, at, selected, read, touched, evidence, outside, passes, meddled>>

\* Mutant of Declared: the paths a command changed are not compared with its produces.
AnyPath(w) == touched
Declared(w) == {w}

\* _run_execution, after the command
Check ==
    /\ pc = "checking"
    /\ touched \subseteq Declared(Order[at])
    /\ pc' = "next" /\ at' = at + 1
    /\ UNCHANGED <<reports, source, selected, read, touched, evidence, outside, passes, meddled>>

\* A command fails or times out, before or after its write, or an undeclared write is
\* seen: the pass stops with status "fail", and Make does not promote its report.
CommandFails ==
    /\ pc \in InCommand
    /\ Ends
    /\ candidate' = << >>
    /\ UNCHANGED <<reports, source, authority, attestation, outside, passes, meddled>>

Outcome ==
    [version |-> version, rev |-> rev, selected |-> selected, id |-> passes,
     leaked |-> outside = "leaked"]

\* The digest maps are taken when every command has passed.
Finish ==
    /\ pc = "next" /\ at = N + 1
    /\ candidate' = <<Outcome>>
    /\ pc' = "promote"
    /\ UNCHANGED <<reports, source, at, selected, read, touched, authority, attestation,
                   outside, passes, meddled>>

\* canonical_artifact_promote
Promote ==
    /\ pc = "promote"
    /\ authority' = candidate
    /\ pc' = "attest"
    /\ UNCHANGED <<reports, source, at, selected, read, touched, candidate, attestation,
                   outside, passes, meddled>>

\* The make target promotes an attestation that passes and leaves the candidate of one
\* that does not; here both are in place, Verified refuses the second by its ok, and
\* PassSettles must show that an undisturbed pass makes none.
Attest ==
    /\ pc = "attest"
    /\ attestation' = <<Attested>>
    /\ Ends
    /\ UNCHANGED <<reports, source, candidate, authority, outside, passes, meddled>>

Killed ==
    /\ pc # "idle"
    /\ Ends
    /\ UNCHANGED <<reports, source, evidence, outside, passes, meddled>>

-----------------------------------------------------------------------------
(* What others do meanwhile: nothing holds the repository during a pass.   *)

Meddle == meddled < MaxOutside /\ meddled' = meddled + 1
Noticed == outside' = IF outside = "leaked" THEN "leaked" ELSE "seen"

Edit == Meddle /\ Noticed /\ tree' = tree + 1 /\ UNCHANGED <<reports, rev, pass, evidence, passes>>
Commit == Meddle /\ Noticed /\ rev' = rev + 1 /\ UNCHANGED <<reports, tree, pass, evidence, passes>>

\* The output states show a write while a command runs, but not a write to the path the
\* command declares, and none between two commands.
Unseen(w) == pc \in Between \/ (pc \in InCommand \ {"prerequisite"} /\ w = Order[at])

\* Another Make target, another process or the running command writes the report, from
\* what there is now or from what it had read before.
OutsideWrite(w) ==
    /\ Meddle
    /\ version' = [version EXCEPT ![w] = @ + 1]
    /\ UNCHANGED basis \/ basis' = [basis EXCEPT ![w] = Current(w)]
    /\ touched' = IF pc \in InCommand THEN touched \cup {w} ELSE touched
    /\ IF Unseen(w) THEN outside' = "leaked" ELSE Noticed
    /\ UNCHANGED <<source, pc, at, selected, read, evidence, passes>>

-----------------------------------------------------------------------------
Step ==
    \/ Skip \/ LaunchPrerequisite \/ LaunchWriter \/ PrerequisiteReturns
    \/ ReadInputs \/ WriteReport \/ Check \/ CommandFails
    \/ Finish \/ Promote \/ Attest

Next ==
    \/ \E initial \in Initials : Begin(initial)
    \/ Step \/ Killed
    \/ Edit \/ Commit \/ \E w \in Writers : OutsideWrite(w)

Spec == Init /\ [][Next]_vars

-----------------------------------------------------------------------------
(* Properties                                                              *)

(* The dry run recommends every writer whose report is missing, was        *)
(* derived from another source tree, or from other reports than those      *)
(* there are now: whatever failed, was killed, edited, committed or        *)
(* written in between, "settled" is true.  The authority must not come     *)
(* from a pass during which a write went unseen.                           *)
RecommendationCovers ==
    (authority # << >> => ~ authority[1].leaked) =>
        \A w \in Writers : Stale(w) => w \in Recommended

(* Finality that verifies, although the verification compares digests      *)
(* only: each report was derived from the reports there are now.           *)
VerifiedIsConsistent ==
    Verified /\ ~ authority[1].leaked => \A w \in Writers : Consistent(w)

(* One pass over all writers is enough: if it ends, and nobody else        *)
(* touched anything since it began, the dry run is settled and the         *)
(* finality verifies (docs/release.md: the wrapper repeats the check once  *)
(* to prove the refreshed evidence is current).                            *)
PassSettles ==
    (/\ pc = "idle" /\ outside = "none"
     /\ attestation # << >> /\ attestation[1].id = passes
     /\ authority[1].selected = Writers) => Settled /\ Verified

(* A pass over consistent reports of the current tree and revision changes *)
(* none of them: what "fixed point" says.                                  *)
FixedPoint ==
    [][pc = "writing" /\ pc' = "checking" /\ Settled /\ Verified /\ ~ authority[1].leaked
         /\ outside = "none" => UNCHANGED reports]_vars
=============================================================================
