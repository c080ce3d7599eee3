--------------------------- MODULE ManifestApply ---------------------------
(***************************************************************************)
(* Applying a promoted workspace to the live repository: the changed-files *)
(* manifest is planned, its apply and rollback are rehearsed in a copy,    *)
(* and apply_manifest_transaction then backs up and stages every file,     *)
(* replaces the live files one by one and, on an OSError, puts back the    *)
(* ones it had replaced.  (_apply_workspace_changes of                     *)
(* mechanism_run_workspace_runtime.py over filesystem_runtime.py.)         *)
(***************************************************************************)
EXTENDS Naturals

CONSTANTS
    N,           \* number of files in the manifest, in manifest order
    Faults,      \* TRUE: a file operation may raise an OSError
    Crashes,     \* TRUE: the process may be killed between two operations
    Interrupts   \* TRUE: a KeyboardInterrupt may be raised between two operations

ASSUME ManifestAssumption ==
    /\ N \in Nat \ {0}
    /\ Faults \in BOOLEAN /\ Crashes \in BOOLEAN /\ Interrupts \in BOOLEAN

Items == 1 .. N
Changes == {"added", "modified", "deleted"}
Versions == {"old", "new", "none", "edited"}
Phases == {"plan", "rehearse", "prepare", "apply", "rollback", "cleanup", "done",
           "crashed"}
Results == {"none", "applied", "failed", "interrupted"}

VARIABLES
    change,      \* change_type of each manifest entry
    inRoots,     \* whether each path lies under allowed_apply_roots
    original,    \* the live files as the transaction finds them
    live,        \* the live files
    backup,      \* the items whose original is saved in the temporary directory
    staged,      \* the items whose candidate is staged there
    phase,
    item,        \* the item an operation is at
    errors,      \* the rollback issues reported
    result

vars == <<change, inRoots, original, live, backup, staged, phase, item, errors,
          result>>
manifest == <<change, inRoots, original>>

TypeOK ==
    /\ change \in [Items -> Changes]
    /\ inRoots \in [Items -> BOOLEAN]
    /\ original \in [Items -> {"old", "none"}]
    /\ live \in [Items -> Versions]
    /\ backup \subseteq Items
    /\ staged \subseteq Items
    /\ phase \in Phases
    /\ item \in 0 .. N + 1
    /\ errors \subseteq Items
    /\ result \in Results

(* The live tree may have moved since the manifest was made: a file to be  *)
(* added may exist, one to be modified or deleted may be gone.             *)
Init ==
    /\ change \in [Items -> Changes]
    /\ inRoots \in [Items -> BOOLEAN]
    /\ original \in [Items -> {"old", "none"}]
    /\ live = original
    /\ backup = {} /\ staged = {}
    /\ phase = "plan"
    /\ item = 1
    /\ errors = {}
    /\ result = "none"

-----------------------------------------------------------------------------
\* What the manifest asks of an item.
Target(i) == IF change[i] = "deleted" THEN "none" ELSE "new"

Existed == {i \in Items : original[i] = "old"}

\* What is as asked or as it was, but for what others have written since.
Changed(i) == live[i] \in {Target(i), "edited"}
Unchanged(i) == live[i] \in {original[i], "edited"}

\* manifest_apply_guard_state, validate_manifest_apply_guard
GuardPasses == \A i \in Items : inRoots[i]

Finish(outcome) ==
    /\ phase' = "done"
    /\ result' = outcome
    /\ UNCHANGED <<manifest, live, backup, staged, item, errors>>

Abandon(outcome) ==
    /\ phase' = "cleanup"
    /\ result' = outcome

\* plan_manifest_apply_transaction: checks the guard and tries the copies.
Plan ==
    /\ phase = "plan"
    /\ GuardPasses
    /\ phase' = "rehearse"
    /\ UNCHANGED <<manifest, live, backup, staged, item, errors, result>>

PlanFails ==
    /\ phase = "plan"
    /\ Faults \/ ~ GuardPasses
    /\ Finish("failed")

\* rehearse_manifest_apply_rollback, in a copy of the files: it passes unless
\* a file operation on the copy fails.
Rehearse ==
    /\ phase = "rehearse"
    /\ phase' = "prepare"
    /\ UNCHANGED <<manifest, live, backup, staged, item, errors, result>>

RehearseFails ==
    /\ phase = "rehearse"
    /\ Faults
    /\ Finish("failed")

-----------------------------------------------------------------------------
\* _prepare_manifest_apply_items, one entry: back up, then stage.
Prepare ==
    /\ phase = "prepare"
    /\ item <= N
    /\ backup' = IF live[item] = "none" THEN backup ELSE backup \cup {item}
    /\ staged' = IF change[item] = "deleted" THEN staged ELSE staged \cup {item}
    /\ item' = item + 1
    /\ UNCHANGED <<manifest, live, phase, errors, result>>

PrepareFails ==
    /\ phase = "prepare"
    /\ item <= N
    /\ Faults
    /\ Abandon("failed")
    /\ UNCHANGED <<manifest, live, backup, staged, item, errors>>

PrepareDone ==
    /\ phase = "prepare"
    /\ item = N + 1
    /\ phase' = "apply"
    /\ item' = 1
    /\ UNCHANGED <<manifest, live, backup, staged, errors, result>>

\* _apply_prepared_manifest_items_in_place, one item: unlink, or os.replace of
\* the staged file.
ApplyItem ==
    /\ phase = "apply"
    /\ item <= N
    /\ live' = [live EXCEPT ![item] = Target(item)]
    /\ staged' = staged \ {item}
    /\ item' = item + 1
    /\ UNCHANGED <<manifest, backup, phase, errors, result>>

\* Mutant of ApplyFails: the temporary directory goes before the rollback.
ApplyFailsAndCleansUp ==
    /\ phase = "apply"
    /\ item <= N
    /\ Faults
    /\ phase' = "rollback"
    /\ item' = item - 1
    /\ backup' = {}
    /\ UNCHANGED <<manifest, live, staged, errors, result>>

\* The items before this one are rolled back, the last applied first.
ApplyFails ==
    /\ phase = "apply"
    /\ item <= N
    /\ Faults
    /\ phase' = "rollback"
    /\ item' = item - 1
    /\ UNCHANGED <<manifest, live, backup, staged, errors, result>>

ApplyDone ==
    /\ phase = "apply"
    /\ item = N + 1
    /\ Abandon("applied")
    /\ UNCHANGED <<manifest, live, backup, staged, item, errors>>

-----------------------------------------------------------------------------
\* _rollback_manifest_items, one item: move the backup back, or remove a file
\* that was not there.
RollBackItem ==
    /\ phase = "rollback"
    /\ item >= 1
    /\ live' = [live EXCEPT ![item] = IF item \in backup THEN "old" ELSE "none"]
    /\ backup' = backup \ {item}
    /\ item' = item - 1
    /\ UNCHANGED <<manifest, staged, phase, errors, result>>

\* Mutant of RollBackFails: the rollback stops at the first failure.
RollBackStops ==
    /\ phase = "rollback"
    /\ item >= 1
    /\ Faults
    /\ item \in backup \/ live[item] # "none"
    /\ errors' = errors \cup {item}
    /\ item' = 0
    /\ UNCHANGED <<manifest, live, backup, staged, phase, result>>

\* Mutant of RollBackFails: the failure is suppressed, not noted.
RollBackUnnoted ==
    /\ phase = "rollback"
    /\ item >= 1
    /\ Faults
    /\ item \in backup \/ live[item] # "none"
    /\ item' = item - 1
    /\ UNCHANGED <<manifest, live, backup, staged, phase, errors, result>>

\* A file that is not there can always be "removed"; otherwise the failure is
\* noted and the rollback goes on.
RollBackFails ==
    /\ phase = "rollback"
    /\ item >= 1
    /\ Faults
    /\ item \in backup \/ live[item] # "none"
    /\ errors' = errors \cup {item}
    /\ item' = item - 1
    /\ UNCHANGED <<manifest, live, backup, staged, phase, result>>

RollBackDone ==
    /\ phase = "rollback"
    /\ item = 0
    /\ Abandon("failed")
    /\ UNCHANGED <<manifest, live, backup, staged, item, errors>>

\* The finally clause: the temporary directory goes, with what is left in it.
RemoveTemporaries ==
    /\ phase = "cleanup"
    /\ phase' = "done"
    /\ backup' = {} /\ staged' = {}
    /\ UNCHANGED <<manifest, live, item, errors, result>>

\* Not an OSError: no rollback, only the finally clause.
Interrupt ==
    /\ Interrupts
    /\ phase \in {"prepare", "apply", "rollback"}
    /\ Abandon("interrupted")
    /\ UNCHANGED <<manifest, live, backup, staged, item, errors>>

Crash ==
    /\ Crashes
    /\ phase \notin {"done", "crashed"}
    /\ phase' = "crashed"
    /\ UNCHANGED <<manifest, live, backup, staged, item, errors, result>>

-----------------------------------------------------------------------------
(* Others write the same files meanwhile: nothing here locks them.  What   *)
(* they write to a file before it is backed up is what the transaction     *)
(* finds; what they write after that it overwrites unseen.                 *)
Prepared(i) ==
    /\ phase \notin {"plan", "rehearse"}
    /\ phase = "prepare" => i < item

EditBefore(i) ==
    /\ phase \in {"plan", "rehearse", "prepare"} /\ ~ Prepared(i)
    /\ \E version \in {"old", "none"} :
          /\ original' = [original EXCEPT ![i] = version]
          /\ live' = [live EXCEPT ![i] = version]
    /\ UNCHANGED <<change, inRoots, backup, staged, phase, item, errors, result>>

EditAfter(i) ==
    /\ phase \notin {"done", "crashed"} /\ Prepared(i)
    /\ live' = [live EXCEPT ![i] = "edited"]
    /\ UNCHANGED <<manifest, backup, staged, phase, item, errors, result>>

Edit == \E i \in Items : EditBefore(i) \/ EditAfter(i)

-----------------------------------------------------------------------------
Planning == Plan \/ PlanFails \/ Rehearse \/ RehearseFails
Preparing == Prepare \/ PrepareFails \/ PrepareDone
Applying == ApplyItem \/ ApplyFails \/ ApplyDone
RollingBack == RollBackItem \/ RollBackFails \/ RollBackDone

Step == Planning \/ Preparing \/ Applying \/ RollingBack \/ RemoveTemporaries

Ended == phase \in {"done", "crashed"} /\ UNCHANGED vars

Next == Step \/ Interrupt \/ Crash \/ Edit \/ Ended

Spec == Init /\ [][Next]_vars

-----------------------------------------------------------------------------
(* Properties                                                              *)

(* A promotion that ends as applied has made every change of the manifest, *)
(* and one that ends with an error has left every file as it was, except   *)
(* exactly those it names as rollback issues, and in both cases but for    *)
(* what others wrote to a file since it was backed up.                     *)
AllOrNothing ==
    phase = "done" =>
        /\ result = "applied" => \A i \in Items : Changed(i)
        /\ result = "failed" =>
              \A i \in Items : IF i \in errors THEN live[i] # original[i] ELSE Unchanged(i)

(* Until the temporary directory is removed, and after a kill at any       *)
(* moment, what was in a file when it was backed up, edits made until then *)
(* included, is in the live tree or in a backup, unless somebody else has  *)
(* written over it since.                                                  *)
OriginalsKept ==
    phase # "done" =>
        \A i \in Existed : live[i] \in {"old", "edited"} \/ i \in backup \/ result = "applied"

(* The transaction changes a file only when all paths are allowed, and     *)
(* every file still to be changed is staged or deleted, and what there was *)
(* is backed up.                                                           *)
ChangesArePrepared ==
    [][ApplyItem \/ RollBackItem =>
          /\ GuardPasses
          /\ phase = "apply" =>
                \A i \in item .. N :
                    /\ change[i] # "deleted" => i \in staged
                    /\ original[i] = "old" => i \in backup]_vars

(* The tree and the outcome a caller sees, of the files nobody else has    *)
(* written since: each is as it was or as the manifest asks.               *)
Applied == \A i \in Items : Changed(i)
Undone == \A i \in Items : Unchanged(i)
Mixed == \A i \in Items : Changed(i) \/ Unchanged(i)
Tree ==
    CASE Undone /\ result # "applied" -> "before"
      [] Applied /\ (Undone => result = "applied") -> "after"
      [] Mixed /\ ~ Applied /\ ~ Undone -> "torn"
      [] OTHER -> "lost"
Outcome ==
    CASE phase \notin {"done", "crashed"} -> "none"
      [] phase = "done" /\ result = "applied" -> "applied"
      [] phase = "done" /\ result = "failed" /\ errors = {} -> "undone"
      [] OTHER -> "broken"

(* A transaction is one installation: an apply that returns has installed  *)
(* the candidate, an error without rollback issues has undone everything,  *)
(* and whatever else happens, a kill included, no file is anything but     *)
(* what it was, what it should become or what somebody wrote over either   *)
(* (apply_manifest_transaction).                                           *)
Installed == INSTANCE Installation WITH
    before <- "before", after <- "after", Torn <- "torn", tree <- Tree, outcome <- Outcome

ImplementsInstallation == Installed!Spec
=============================================================================
