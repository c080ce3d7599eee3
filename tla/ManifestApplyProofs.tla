------------------------ MODULE ManifestApplyProofs ------------------------
(* Proofs about ManifestApply, for a manifest of any length.               *)
EXTENDS ManifestApply, TLAPS

(***************************************************************************)
(* What the transaction has done when it is at an item, one conjunct per   *)
(* phase, but for what others write meanwhile.  An edit of a file that is  *)
(* not backed up yet is what the transaction finds there.  The rollback    *)
(* goes down through the items the apply had reached: those still ahead of *)
(* it are applied, those behind it are as they were or are named in errors.*)
(***************************************************************************)
PlanInv ==
    phase \in {"plan", "rehearse"} =>
        /\ live = original
        /\ backup = {}
        /\ errors = {}
        /\ item = 1
        /\ result = "none"

PrepareInv ==
    phase = "prepare" =>
        /\ errors = {}
        /\ item >= 1
        /\ result = "none"
        /\ \A i \in Items :
              /\ i < item => /\ Unchanged(i)
                             /\ original[i] = "old" => i \in backup
                             /\ change[i] # "deleted" => i \in staged
              /\ i >= item => live[i] = original[i] /\ i \notin backup

\* Only what was there is ever backed up.
BackupInv == phase # "done" => backup \subseteq Existed

ApplyInv ==
    phase = "apply" =>
        /\ item >= 1
        /\ errors = {}
        /\ result = "none"
        /\ Existed \subseteq backup
        /\ \A i \in Items :
              /\ i < item => Changed(i)
              /\ i >= item => /\ Unchanged(i)
                              /\ change[i] # "deleted" => i \in staged

RolledBack(i) == IF i \in errors THEN live[i] # original[i] ELSE Unchanged(i)

RollBackInv ==
    phase = "rollback" =>
        /\ item <= N
        /\ result = "none"
        /\ \A i \in Items :
              /\ i <= item => /\ Changed(i)
                              /\ i \notin errors
                              /\ original[i] = "old" => i \in backup
              /\ i > item => RolledBack(i)

\* No original is gone while the temporary directory is there.
KeptInv ==
    phase # "done" =>
        \A i \in Existed : live[i] \in {"old", "edited"} \/ i \in backup \/ result = "applied"

OutcomeInv ==
    phase \in {"cleanup", "done"} =>
        /\ result # "none"
        /\ result = "applied" => \A i \in Items : Changed(i)
        /\ result = "failed" => \A i \in Items : RolledBack(i)

GuardInv == phase \in {"rehearse", "prepare", "apply", "rollback"} => GuardPasses

IInv ==
    /\ TypeOK
    /\ PlanInv
    /\ PrepareInv
    /\ BackupInv
    /\ ApplyInv
    /\ RollBackInv
    /\ KeptInv
    /\ OutcomeInv
    /\ GuardInv


-----------------------------------------------------------------------------
LEMMA InitIInv == Init => IInv
BY ManifestAssumption
   DEF Init, IInv, TypeOK, PlanInv, PrepareInv, BackupInv, ApplyInv, RollBackInv,
       KeptInv, OutcomeInv, GuardInv, Items, Changes, Versions, Phases, Results, Existed

LEMMA NextType == IInv /\ [Next]_vars => TypeOK'
<1> SUFFICES ASSUME IInv, [Next]_vars PROVE TypeOK'
  OBVIOUS
<1>1. TypeOK /\ N \in Nat \ {0}
  BY ManifestAssumption DEF IInv
<1> USE <1>1 DEF TypeOK, manifest, Items
<1>2. CASE Planning \/ RemoveTemporaries \/ Interrupt \/ Crash
  BY <1>2 DEF Planning, Plan, PlanFails, Rehearse, RehearseFails, RemoveTemporaries,
              Interrupt, Crash, Finish, Abandon, Phases, Results
<1>3. CASE Prepare
  <2>1. item \in Items
    BY <1>3 DEF Prepare, IInv, PrepareInv
  <2>2. backup' \subseteq Items /\ staged' \subseteq Items
    BY <1>3, <2>1 DEF Prepare
  <2>3. QED
    BY <1>3, <2>1, <2>2 DEF Prepare
<1>4. CASE PrepareFails \/ PrepareDone \/ ApplyDone
  <2>1. phase' \in Phases /\ result' \in Results /\ item' \in 0 .. N + 1
    BY <1>4 DEF PrepareFails, PrepareDone, ApplyDone, Abandon, Phases, Results
  <2>2. QED
    BY <1>4, <2>1 DEF PrepareFails, PrepareDone, ApplyDone
<1>5. CASE ApplyItem
  <2>1. live' \in [Items -> Versions]
    BY <1>5 DEF ApplyItem, Target, Versions
  <2>2. item' \in 0 .. N + 1 /\ staged' \subseteq Items
    BY <1>5 DEF ApplyItem
  <2>3. QED
    BY <1>5, <2>1, <2>2 DEF ApplyItem
<1>6. CASE ApplyFails
  <2>1. item' \in 0 .. N + 1 /\ phase' \in Phases
    BY <1>6 DEF ApplyFails, IInv, ApplyInv, Phases
  <2>2. QED
    BY <1>6, <2>1 DEF ApplyFails
<1>7. CASE RollBackItem
  <2>1. live' \in [Items -> Versions]
    BY <1>7 DEF RollBackItem, Versions
  <2>2. item' \in 0 .. N + 1 /\ backup' \subseteq Items
    BY <1>7 DEF RollBackItem
  <2>3. QED
    BY <1>7, <2>1, <2>2 DEF RollBackItem
<1>8. CASE RollBackFails
  <2>1. item \in Items /\ item' \in 0 .. N + 1
    BY <1>8 DEF RollBackFails, IInv, RollBackInv
  <2>2. QED
    BY <1>8, <2>1 DEF RollBackFails
<1>9. CASE RollBackDone
  BY <1>9 DEF RollBackDone, Abandon, Phases, Results
<1>10. CASE Edit
  BY <1>10 DEF Edit, EditBefore, EditAfter, Versions
<1>11. CASE UNCHANGED vars
  BY <1>11 DEF vars
<1>12. QED
  BY <1>2, <1>3, <1>4, <1>5, <1>6, <1>7, <1>8, <1>9, <1>10, <1>11
     DEF Next, Step, Preparing, Applying, RollingBack, Ended

\* Steps that leave the files and the phase's own bookkeeping alone.
LEMMA NextPlanning == IInv /\ Planning => IInv'
<1> SUFFICES ASSUME IInv, Planning PROVE IInv'
  OBVIOUS
<1>1. TypeOK'
  BY NextType DEF IInv, Next, Step
<1> USE DEF manifest
<1>2. CASE Plan
  BY <1>1, <1>2 DEF Plan, IInv, PlanInv, PrepareInv, BackupInv, ApplyInv, RollBackInv,
                    KeptInv, OutcomeInv, GuardInv, GuardPasses, Existed
<1>3. CASE Rehearse
  BY <1>1, <1>3, ManifestAssumption
     DEF Rehearse, IInv, TypeOK, PlanInv, PrepareInv, BackupInv, ApplyInv, RollBackInv,
         KeptInv, OutcomeInv, GuardInv, Existed, Items, GuardPasses
<1>4. CASE PlanFails \/ RehearseFails
  BY <1>1, <1>4
     DEF PlanFails, RehearseFails, Finish, IInv, TypeOK, PlanInv, PrepareInv, BackupInv,
         ApplyInv, RollBackInv, KeptInv, OutcomeInv, GuardInv, RolledBack, Unchanged
<1>5. QED
  BY <1>2, <1>3, <1>4 DEF Planning

LEMMA NextPreparing == IInv /\ Preparing => IInv'
<1> SUFFICES ASSUME IInv, Preparing PROVE IInv'
  OBVIOUS
<1>1. TypeOK'
  BY NextType DEF Next, Step
<1> USE ManifestAssumption DEF manifest, IInv, TypeOK, Items
<1>2. CASE Prepare
  <2>1. PrepareInv' /\ BackupInv'
    <3>1. item \in Items /\ live[item] = original[item]
      BY <1>2 DEF Prepare, PrepareInv
    <3>2. QED
      BY <1>1, <1>2, <3>1
         DEF Prepare, PrepareInv, BackupInv, Unchanged, Existed
  <2>2. QED
    BY <1>1, <1>2, <2>1
       DEF Prepare, PlanInv, ApplyInv, RollBackInv, KeptInv, OutcomeInv, GuardInv,
           GuardPasses, PrepareInv, Existed
<1>3. CASE PrepareFails
  <2>1. phase' = "cleanup" /\ result' = "failed" /\ errors' = {} /\ result = "none"
        /\ UNCHANGED <<manifest, live, backup, staged, item>>
    BY <1>3 DEF PrepareFails, Abandon, PrepareInv
  <2>2. \A i \in Items : Unchanged(i)
    BY <1>3 DEF PrepareFails, PrepareInv, Unchanged
  <2>3. OutcomeInv'
    BY <2>1, <2>2 DEF OutcomeInv, RolledBack, Unchanged
  <2>4. BackupInv' /\ KeptInv'
    BY <1>3, <2>1 DEF PrepareFails, BackupInv, KeptInv, Existed
  <2>5. QED
    BY <1>1, <2>1, <2>3, <2>4
       DEF PlanInv, PrepareInv, ApplyInv, RollBackInv, GuardInv
<1>4. CASE PrepareDone
  <2>1. ApplyInv'
    BY <1>1, <1>4 DEF PrepareDone, PrepareInv, ApplyInv, Unchanged, Existed
  <2>2. QED
    BY <1>1, <1>4, <2>1
       DEF PrepareDone, PlanInv, PrepareInv, BackupInv, RollBackInv, KeptInv,
           OutcomeInv, GuardInv, GuardPasses, Existed
<1>5. QED
  BY <1>2, <1>3, <1>4 DEF Preparing

LEMMA NextApplying == IInv /\ Applying => IInv'
<1> SUFFICES ASSUME IInv, Applying PROVE IInv'
  OBVIOUS
<1>1. TypeOK'
  BY NextType DEF Next, Step
<1> USE ManifestAssumption DEF manifest, IInv, TypeOK, Items
<1>2. CASE ApplyItem
  <2>1. item \in Items /\ phase' = "apply" /\ item' = item + 1 /\ backup' = backup
    BY <1>2 DEF ApplyItem, ApplyInv
  <2>2. ApplyInv'
    BY <1>1, <1>2, <2>1 DEF ApplyItem, ApplyInv, Target, Changed, Unchanged, Existed
  <2>3. KeptInv'
    BY <1>2, <2>1, <2>2 DEF ApplyItem, ApplyInv, KeptInv, Existed
  <2>4. QED
    BY <1>1, <1>2, <2>1, <2>2, <2>3
       DEF ApplyItem, PlanInv, PrepareInv, BackupInv, RollBackInv, OutcomeInv,
           GuardInv, GuardPasses, Existed
<1>3. CASE ApplyFails
  <2>1. RollBackInv'
    <3>1. item' = item - 1 /\ item' <= N /\ result' = "none" /\ errors' = {}
          /\ UNCHANGED <<manifest, live, backup>>
      BY <1>3 DEF ApplyFails, ApplyInv
    <3>2. ASSUME NEW i \in Items, i <= item'
          PROVE  Changed(i) /\ (original[i] = "old" => i \in backup)
      BY <1>3, <3>1, <3>2 DEF ApplyFails, ApplyInv, Existed
    <3>3. ASSUME NEW i \in Items, i > item' PROVE Unchanged(i)
      BY <1>3, <3>1, <3>3 DEF ApplyFails, ApplyInv
    <3>4. QED
      BY <3>1, <3>2, <3>3 DEF RollBackInv, RolledBack, Changed, Unchanged, Target
  <2>2. QED
    BY <1>1, <1>3, <2>1
       DEF ApplyFails, ApplyInv, PlanInv, PrepareInv, BackupInv, KeptInv, OutcomeInv,
           GuardInv, GuardPasses, Existed
<1>4. CASE ApplyDone
  BY <1>1, <1>4
     DEF ApplyDone, Abandon, ApplyInv, PlanInv, PrepareInv, BackupInv, RollBackInv,
         KeptInv, OutcomeInv, GuardInv, Changed, Target, Existed
<1>5. QED
  BY <1>2, <1>3, <1>4 DEF Applying

LEMMA NextRollingBack == IInv /\ RollingBack => IInv'
<1> SUFFICES ASSUME IInv, RollingBack PROVE IInv'
  OBVIOUS
<1>1. TypeOK'
  BY NextType DEF Next, Step
<1> USE ManifestAssumption DEF manifest, IInv, TypeOK, Items
<1>2. CASE RollBackItem
  <2>1. item \in Items /\ phase' = phase /\ item' = item - 1 /\ result' = result
    BY <1>2 DEF RollBackItem, RollBackInv
  <2>2. item \in backup <=> original[item] = "old"
    BY <1>2, <2>1 DEF RollBackItem, RollBackInv, BackupInv, Existed
  <2>3. live'[item] = original[item] /\ \A i \in Items \ {item} : live'[i] = live[i]
    BY <1>2, <2>1, <2>2 DEF RollBackItem
  <2>4. RollBackInv'
    BY <1>1, <1>2, <2>1, <2>3
       DEF RollBackItem, RollBackInv, RolledBack, Changed, Unchanged, Target
  <2>5. KeptInv'
    BY <1>2, <2>1, <2>3 DEF RollBackItem, KeptInv, Existed
  <2>6. QED
    BY <1>1, <1>2, <2>4, <2>5
       DEF RollBackItem, PlanInv, PrepareInv, BackupInv, ApplyInv, OutcomeInv,
           GuardInv, GuardPasses, Existed
<1>3. CASE RollBackFails
  <2>1. item \in Items /\ Changed(item)
    BY <1>3 DEF RollBackFails, RollBackInv
  <2>2. live[item] # original[item]
    BY <1>3, <2>1 DEF RollBackFails, RollBackInv, BackupInv, Existed, Changed, Target
  <2>3. RollBackInv'
    BY <1>1, <1>3, <2>1, <2>2
       DEF RollBackFails, RollBackInv, RolledBack, Changed, Unchanged, Target
  <2>4. QED
    BY <1>1, <1>3, <2>3
       DEF RollBackFails, PlanInv, PrepareInv, BackupInv, ApplyInv, KeptInv,
           OutcomeInv, GuardInv, GuardPasses, Existed
<1>4. CASE RollBackDone
  BY <1>1, <1>4
     DEF RollBackDone, Abandon, RollBackInv, PlanInv, PrepareInv, BackupInv, ApplyInv,
         KeptInv, OutcomeInv, GuardInv, RolledBack, Unchanged, Existed
<1>5. QED
  BY <1>2, <1>3, <1>4 DEF RollingBack

LEMMA NextEnding ==
  IInv /\ (RemoveTemporaries \/ Interrupt \/ Crash \/ UNCHANGED vars) => IInv'
<1> SUFFICES ASSUME IInv, RemoveTemporaries \/ Interrupt \/ Crash \/ UNCHANGED vars
             PROVE  IInv'
  OBVIOUS
<1>1. TypeOK'
  BY NextType DEF Next, Step
<1> USE DEF manifest, IInv, TypeOK, Existed, PlanInv, PrepareInv, BackupInv, ApplyInv,
            RollBackInv, KeptInv, OutcomeInv, GuardInv, RolledBack, Changed, Unchanged,
            Target
<1>2. CASE RemoveTemporaries
  BY <1>1, <1>2 DEF RemoveTemporaries
<1>3. CASE Interrupt \/ Crash
  BY <1>1, <1>3 DEF Interrupt, Crash, Abandon
<1>4. CASE UNCHANGED vars
  BY <1>1, <1>4 DEF vars, GuardPasses
<1>5. QED
  BY <1>2, <1>3, <1>4

\* An edit of a file not yet backed up makes it another original; a later one
\* is a change of the live file alone.
LEMMA NextEdit == IInv /\ Edit => IInv'
<1> SUFFICES ASSUME IInv, NEW j \in Items, EditBefore(j) \/ EditAfter(j) PROVE IInv'
  BY DEF Edit
<1>1. TypeOK'
  BY NextType DEF Next, Edit
<1> USE ManifestAssumption DEF manifest, IInv, TypeOK, Items
<1>2. CASE EditBefore(j)
  <2>1. phase \in {"plan", "rehearse", "prepare"} /\ j \notin backup
        /\ (phase = "prepare" => j >= item)
    BY <1>2 DEF EditBefore, Prepared, PlanInv, PrepareInv
  <2>2. live'[j] = original'[j]
        /\ \A i \in Items \ {j} : live'[i] = live[i] /\ original'[i] = original[i]
    BY <1>2 DEF EditBefore
  <2>3. PlanInv' /\ PrepareInv'
    <3>1. PlanInv'
      BY <1>1, <1>2 DEF EditBefore, PlanInv
    <3>2. PrepareInv'
      BY <1>2, <2>1, <2>2 DEF EditBefore, PrepareInv, Unchanged
    <3>3. QED
      BY <3>1, <3>2
  <2>4. BackupInv' /\ KeptInv'
    BY <1>1, <1>2, <2>1, <2>2 DEF EditBefore, BackupInv, KeptInv, Existed
  <2>5. QED
    BY <1>1, <1>2, <2>1, <2>3, <2>4
       DEF EditBefore, ApplyInv, RollBackInv, OutcomeInv, GuardInv, GuardPasses
<1>3. CASE EditAfter(j)
  <2>1. /\ phase \notin {"plan", "rehearse", "done"} /\ (phase = "prepare" => j < item)
        /\ live'[j] = "edited" /\ \A i \in Items \ {j} : live'[i] = live[i]
    BY <1>3 DEF EditAfter, Prepared
  <2>2. PlanInv' /\ PrepareInv' /\ ApplyInv'
    BY <1>1, <1>3, <2>1
       DEF EditAfter, PlanInv, PrepareInv, ApplyInv, Changed, Unchanged, Target, Existed
  <2>3. RollBackInv' /\ OutcomeInv'
    BY <1>1, <1>3, <2>1
       DEF EditAfter, RollBackInv, OutcomeInv, RolledBack, Changed, Unchanged, Target
  <2>4. QED
    BY <1>1, <1>3, <2>1, <2>2, <2>3
       DEF EditAfter, BackupInv, KeptInv, GuardInv, GuardPasses, Existed
<1>4. QED
  BY <1>2, <1>3

THEOREM Invariance == Spec => []IInv
<1>1. IInv /\ [Next]_vars => IInv'
  BY NextPlanning, NextPreparing, NextApplying, NextRollingBack, NextEnding, NextEdit
     DEF Next, Step, Ended
<1>2. QED
  BY InitIInv, <1>1, PTL DEF Spec

-----------------------------------------------------------------------------
(* The variables of the transaction keep their types.                      *)
THEOREM TypeCorrect == Spec => []TypeOK
<1>1. IInv => TypeOK
  BY DEF IInv
<1>2. QED
  BY <1>1, Invariance, PTL

(* For a manifest of any length: an apply that succeeds makes every        *)
(* change, one that fails leaves every file as it was but those it names.  *)
THEOREM AtomicApply == Spec => []AllOrNothing
<1>1. IInv => AllOrNothing
  BY DEF IInv, TypeOK, OutcomeInv, RolledBack, AllOrNothing
<1>2. QED
  BY <1>1, Invariance, PTL

(* Whatever fails, and wherever the process is killed, the original of     *)
(* every file survives until the temporary directory is removed.           *)
THEOREM NothingLost == Spec => []OriginalsKept
<1>1. IInv => OriginalsKept
  BY DEF IInv, KeptInv, OriginalsKept
<1>2. QED
  BY <1>1, Invariance, PTL

(* The transaction changes the live tree only inside the allowed roots and *)
(* with everything still to be changed saved and staged.                   *)
THEOREM PreparedChanges == Spec => ChangesArePrepared
<1>1. ASSUME IInv, ApplyItem \/ RollBackItem
      PROVE  /\ GuardPasses
             /\ phase = "apply" =>
                   \A i \in item .. N :
                       /\ change[i] # "deleted" => i \in staged
                       /\ original[i] = "old" => i \in backup
  <2>1. phase \in {"apply", "rollback"}
    BY <1>1 DEF ApplyItem, RollBackItem
  <2>2. GuardPasses
    BY <1>1, <2>1 DEF IInv, GuardInv
  <2>3. ASSUME phase = "apply", NEW i \in item .. N
        PROVE  (change[i] # "deleted" => i \in staged)
               /\ (original[i] = "old" => i \in backup)
    <3>1. i \in Items /\ i >= item
      BY <1>1, <2>3, ManifestAssumption DEF IInv, TypeOK, ApplyInv, Items
    <3>2. QED
      BY <1>1, <2>3, <3>1 DEF IInv, ApplyInv, Existed
  <2>4. QED
    BY <2>2, <2>3
<1>2. QED
  BY <1>1, Invariance, PTL DEF Spec, ChangesArePrepared

-----------------------------------------------------------------------------
(***************************************************************************)
(* A transaction is one installation.  Whatever has happened, a kill       *)
(* included, every file is as it was, as the manifest asks or as somebody  *)
(* wrote it, and the caller is told that the changes are made only when    *)
(* they are.                                                               *)
(***************************************************************************)
TreeInv == Mixed /\ (result = "applied" => Applied)

LEMMA InitTree == Init => TreeInv
BY DEF Init, TreeInv, Mixed, Unchanged, Items

LEMMA NextTree == IInv /\ TreeInv /\ [Next]_vars => TreeInv'
<1> SUFFICES ASSUME IInv, TreeInv, [Next]_vars PROVE TreeInv'
  OBVIOUS
<1> USE ManifestAssumption DEF manifest, IInv, TypeOK, Items, TreeInv, Mixed, Applied,
                               Changed, Unchanged, Target
<1>1. CASE ApplyItem
  BY <1>1 DEF ApplyItem, ApplyInv
<1>2. CASE RollBackItem
  <2>1. item \in Items /\ result # "applied" /\ UNCHANGED <<manifest, result>>
    BY <1>2 DEF RollBackItem, RollBackInv
  <2>2. item \in backup <=> original[item] = "old"
    BY <1>2, <2>1 DEF RollBackItem, RollBackInv, BackupInv, Existed
  <2>3. live'[item] = original[item] /\ \A i \in Items \ {item} : live'[i] = live[i]
    BY <1>2, <2>1, <2>2 DEF RollBackItem
  <2>4. QED
    BY <2>1, <2>3
<1>3. CASE ApplyDone
  BY <1>3 DEF ApplyDone, Abandon, ApplyInv
<1>4. CASE Planning \/ Preparing \/ ApplyFails \/ RollBackFails \/ RollBackDone
             \/ RemoveTemporaries \/ Interrupt \/ Crash \/ UNCHANGED vars
  <2>1. UNCHANGED <<manifest, live>> /\ (result' = "applied" => result = "applied")
    BY <1>4 DEF Planning, Plan, PlanFails, Rehearse, RehearseFails, Preparing, Prepare,
                PrepareFails, PrepareDone, ApplyFails, RollBackFails, RollBackDone,
                RemoveTemporaries, Interrupt, Crash, Finish, Abandon, vars
  <2>2. QED
    BY <2>1
<1>5. CASE Edit
  <2>1. PICK j \in Items : EditBefore(j) \/ EditAfter(j)
    BY <1>5 DEF Edit
  <2>2. CASE EditBefore(j)
    <3>1. result' # "applied" /\ change' = change /\ live'[j] = original'[j]
          /\ \A i \in Items \ {j} : live'[i] = live[i] /\ original'[i] = original[i]
      BY <2>2 DEF EditBefore, PlanInv, PrepareInv
    <3>2. QED
      BY <3>1
  <2>3. CASE EditAfter(j)
    <3>1. UNCHANGED <<manifest, result>> /\ live'[j] = "edited"
          /\ \A i \in Items \ {j} : live'[i] = live[i]
      BY <2>3 DEF EditAfter
    <3>2. QED
      BY <3>1
  <2>4. QED
    BY <2>1, <2>2, <2>3
<1>6. QED
  BY <1>1, <1>2, <1>3, <1>4, <1>5 DEF Next, Step, Applying, RollingBack, Ended

LEMMA TreeIsKnown == TreeInv => Tree \in {"before", "after", "torn"}
BY DEF TreeInv, Tree

\* A step by which the transaction ends touches no file, and what it leaves is
\* what it says.
LEMMA EndsAsSaid ==
  ASSUME IInv, IInv', TreeInv', [Next]_vars, Outcome = "none", Outcome' # "none"
  PROVE  Tree' = Tree /\ Outcome' \in Installed!Outcomes
         /\ Tree' \in Installed!Leaves(Outcome', "before", "after")
<1>1. phase \notin {"done", "crashed"} /\ phase' \in {"done", "crashed"}
  BY DEF Outcome
<1>2. PlanFails \/ RehearseFails \/ RemoveTemporaries \/ Crash
  BY <1>1 DEF Next, Step, Planning, Plan, Rehearse, Preparing, Prepare, PrepareFails,
              PrepareDone, Applying, ApplyItem, ApplyFails, ApplyDone, RollingBack,
              RollBackItem, RollBackFails, RollBackDone, Interrupt, Ended, Abandon, vars,
              Edit, EditBefore, EditAfter
<1>3. UNCHANGED <<manifest, live>> /\ (result' = "applied" <=> result = "applied")
  BY <1>2 DEF PlanFails, RehearseFails, RemoveTemporaries, Crash, Finish, manifest,
              IInv, PlanInv
<1>4. Tree' = Tree
  BY <1>3 DEF Tree, Applied, Undone, Mixed, Changed, Unchanged, Target, manifest
<1>5. CASE Outcome' = "applied"
  BY <1>5, <1>4 DEF Outcome, Tree, TreeInv, Installed!Outcomes, Installed!Leaves
<1>6. CASE Outcome' = "undone"
  <2>1. phase' = "done" /\ result' = "failed" /\ errors' = {}
    BY <1>6 DEF Outcome
  <2>2. Undone'
    BY <2>1 DEF IInv, OutcomeInv, RolledBack, Undone
  <2>3. QED
    BY <1>6, <1>4, <2>1, <2>2 DEF Tree, Installed!Outcomes, Installed!Leaves
<1>7. CASE Outcome' = "broken"
  BY <1>7, <1>4, TreeIsKnown DEF TreeInv, Tree, Installed!Outcomes, Installed!Leaves
<1>8. QED
  BY <1>5, <1>6, <1>7 DEF Outcome

LEMMA NextInstallation ==
  IInv /\ TreeInv /\ [Next]_vars /\ IInv' /\ TreeInv'
    => [Installed!Next]_(Installed!vars)
<1> SUFFICES ASSUME IInv, TreeInv, [Next]_vars, IInv', TreeInv'
             PROVE  [Installed!Next]_(Installed!vars)
  OBVIOUS
<1>1. CASE phase \in {"done", "crashed"}
  <2>1. UNCHANGED vars
    BY <1>1 DEF Next, Step, Planning, Plan, PlanFails, Rehearse, RehearseFails,
                Preparing, Prepare, PrepareFails, PrepareDone, Applying, ApplyItem,
                ApplyFails, ApplyDone, RollingBack, RollBackItem, RollBackFails,
                RollBackDone, RemoveTemporaries, Interrupt, Crash, Ended, Edit,
                EditBefore, EditAfter
  <2>2. QED
    BY <2>1 DEF vars, Installed!vars, Tree, Outcome, Applied, Undone, Mixed, Changed,
                Unchanged, Target
<1>2. CASE phase \notin {"done", "crashed"} /\ Outcome' = "none"
  <2>1. Outcome = "none" /\ Tree' \in {"before", "after", "torn"}
    BY <1>2, TreeIsKnown DEF Outcome, TreeInv, Tree
  <2>2. QED
    BY <1>2, <2>1 DEF Installed!Next, Installed!Work, Installed!vars
<1>3. CASE phase \notin {"done", "crashed"} /\ Outcome' # "none"
  <2>1. Outcome = "none"
    BY <1>3 DEF Outcome
  <2>2. QED
    BY <1>3, <2>1, EndsAsSaid DEF Installed!Next, Installed!End
<1>4. QED
  BY <1>1, <1>2, <1>3

(* For a manifest of any length, and wherever it fails or is killed, an    *)
(* apply is one installation of the promoted files: this is what the       *)
(* experiment that calls it may rely on.                                   *)
THEOREM TransactionInstalls == Spec => ImplementsInstallation
<1>1. Init => Installed!Init
  BY DEF Init, Installed!Init, Tree, Undone, Unchanged, Outcome
<1>2. Spec => []TreeInv
  BY InitTree, NextTree, Invariance, PTL DEF Spec
<1>3. QED
  BY <1>1, <1>2, NextInstallation, Invariance, PTL
     DEF Spec, ImplementsInstallation, Installed!Spec
=============================================================================
