------------------------ MODULE ReleaseFixedPointProofs ------------------------
(* Proofs about ReleaseFixedPoint, for any policy that _writer_specs takes, *)
(* any number of passes and any amount of work from outside.                *)
EXTENDS ReleaseFixedPoint, TLAPS

InPass == InCommand \cup Between

\* Nothing the output states cannot show has happened, nor anything they show under the
\* running command but its own report.
Undisturbed == outside # "leaked" /\ (pc \in InCommand => touched \subseteq {Order[at]})

SelectedInv == pc \in InPass => \A w \in Writers : Deps[w] # {} => w \in selected

(* The reports behind the pass are consistent, since a writer comes after  *)
(* all it depends on.                                                      *)
PrefixInv ==
    Undisturbed =>
        /\ pc \in InPass => \A i \in 1 .. at - 1 : Consistent(Order[i])
        /\ pc = "writing" => \A d \in Deps[Order[at]] : read.deps[d] = version[d]
        /\ pc = "checking" => Consistent(Order[at])

(* A report that still has the version a record gives it was derived from  *)
(* the versions the record gives the others.                               *)
Faithful(record, versions, bases) ==
    \A w \in Writers :
        /\ record.version[w] <= versions[w]
        /\ ~ record.leaked /\ record.version[w] = versions[w] =>
            \A d \in Deps[w] : bases[w].deps[d] = record.version[d]

RecordInv ==
    /\ candidate # << >> => Faithful(candidate[1], version, basis)
    /\ authority # << >> => Faithful(authority[1], version, basis)

SafeInv == TypeOK /\ SelectedInv /\ PrefixInv /\ RecordInv

-----------------------------------------------------------------------------
LEMMA Positions ==
    /\ N \in Nat
    /\ \A i \in 1 .. N : Order[i] \in Writers
    /\ \A i, j \in 1 .. N : Order[i] = Order[j] => i = j
    /\ \A w \in Writers : \E i \in 1 .. N : Order[i] = w
BY PolicyAssumption DEF N

LEMMA DepsAreWriters == \A w \in Writers : Deps[w] \subseteq Writers
BY PolicyAssumption

\* A writer does not depend on itself or on a later one.
LEMMA DepsComeBefore ==
    ASSUME NEW i \in 1 .. N, NEW d \in Deps[Order[i]]
    PROVE  \E j \in 1 .. i - 1 : Order[j] = d
<1>1. d \in Writers
  BY Positions, DepsAreWriters
<1>2. PICK j \in 1 .. N : Order[j] = d
  BY <1>1, Positions
<1>3. j < i
  BY <1>2, PolicyAssumption
<1>4. j \in 1 .. i - 1
  BY <1>3, Positions
<1> QED
  BY <1>2, <1>4

LEMMA DepsNotAtOrAfter ==
    ASSUME NEW i \in 1 .. N, NEW k \in 1 .. N, k >= i
    PROVE  Order[k] \notin Deps[Order[i]]
BY Positions, PolicyAssumption

\* Downstream(S) holds S and is closed under depends_on.
LEMMA DownstreamHolds ==
    ASSUME NEW S \in SUBSET Writers
    PROVE  /\ Downstream(S) \subseteq Writers
           /\ S \subseteq Downstream(S)
           /\ Closed(Downstream(S))
<1>1. Downstream(S) \subseteq Writers /\ S \subseteq Downstream(S)
  BY DEF Downstream
<1>2. ASSUME NEW w \in Writers, Deps[w] \cap Downstream(S) # {}
      PROVE  w \in Downstream(S)
  <2>1. PICK d \in Deps[w] : d \in Downstream(S)
    BY <1>2
  <2>2. ASSUME NEW T \in SUBSET Writers, S \subseteq T, Closed(T)
        PROVE  w \in T
    <3>1. d \in T
      BY <2>1, <2>2 DEF Downstream
    <3>2. QED
      BY <2>1, <2>2, <3>1 DEF Closed
  <2>3. QED
    BY <2>2 DEF Downstream
<1>3. QED
  BY <1>1, <1>2 DEF Closed

LEMMA DownstreamOfNothing == Downstream({}) = {}
<1>1. Closed({})
  BY DEF Closed
<1>2. QED
  BY <1>1 DEF Downstream

-----------------------------------------------------------------------------
LEMMA CurrentType ==
    ASSUME TypeOK, NEW w \in Writers PROVE Current(w) \in Basis
BY DEF TypeOK, Current, Basis

LEMMA PublishType ==
    ASSUME TypeOK, NEW w \in Writers, NEW new \in Basis, Publish(w, new)
    PROVE  version' \in [Writers -> Nat] /\ basis' \in [Writers -> Basis]
BY DEF TypeOK, Publish, reports

LEMMA OutcomeType ==
    ASSUME TypeOK PROVE Outcome \in Report
BY DEF TypeOK, Outcome, Report

LEMMA AttestedType ==
    ASSUME TypeOK, authority # << >> PROVE Attested \in Attestation
BY DEF TypeOK, Attested, Attestation, Report

LEMMA Initially == Init => SafeInv
<1> SUFFICES ASSUME Init PROVE SafeInv
  OBVIOUS
<1>1. Nothing \in Basis
  BY DEF Nothing, Basis
<1>2. TypeOK
  BY <1>1, Positions DEF Init, TypeOK, InCommand, Between
<1>3. QED
  BY <1>2 DEF Init, SafeInv, SelectedInv, PrefixInv, RecordInv, InPass, InCommand, Between

\* Every step keeps the types.
LEMMA TypeStep == TypeOK /\ [Next]_vars => TypeOK'
<1> SUFFICES ASSUME TypeOK, [Next]_vars PROVE TypeOK'
  OBVIOUS
<1> USE Positions DEF TypeOK, reports, source, pass, evidence, InCommand, Between
<1>0. Nothing \in Basis
  BY DEF Nothing, Basis
<1>1. ASSUME NEW initial \in Initials, Begin(initial) PROVE TypeOK'
  <2>1. Downstream(initial) \subseteq Writers
    BY InitialsAssumption, DownstreamHolds
  <2>2. QED
    BY <1>0, <1>1, <2>1 DEF Begin
<1>2. CASE Skip \/ LaunchPrerequisite \/ LaunchWriter \/ PrerequisiteReturns
  BY <1>2 DEF Skip, LaunchPrerequisite, LaunchWriter, Launch, PrerequisiteReturns
<1>3. CASE ReadInputs
  BY <1>3, CurrentType DEF ReadInputs
<1>4. CASE WriteReport
  BY <1>4, PublishType DEF WriteReport
<1>5. CASE Check \/ CommandFails
  BY <1>0, <1>5 DEF Check, CommandFails, Ends
<1>6. CASE Finish
  BY <1>6, OutcomeType DEF Finish
<1>7. CASE Promote
  BY <1>7 DEF Promote
<1>8. CASE Attest
  BY <1>0, <1>8, AttestedType DEF Attest, Ends
<1>9. CASE Killed
  BY <1>0, <1>9 DEF Killed, Ends
<1>10. CASE Edit \/ Commit
  BY <1>10 DEF Edit, Commit, Meddle, Noticed
<1>11. ASSUME NEW w \in Writers, OutsideWrite(w) PROVE TypeOK'
  BY <1>11, CurrentType DEF OutsideWrite, Meddle, Noticed
<1>12. CASE UNCHANGED vars
  BY <1>12 DEF vars
<1>13. QED
  BY <1>1, <1>2, <1>3, <1>4, <1>5, <1>6, <1>7, <1>8, <1>9, <1>10, <1>11, <1>12
     DEF Next, Step

-----------------------------------------------------------------------------
(* A version counts every change of a report, whoever makes it.            *)
LEMMA VersionsCount ==
    ASSUME TypeOK, [Next]_vars, NEW w \in Writers
    PROVE  /\ version'[w] >= version[w]
           /\ version'[w] = version[w] => basis'[w] = basis[w]
<1> USE DEF TypeOK, reports, source, pass, evidence
<1>1. CASE UNCHANGED reports
  BY <1>1
<1>2. CASE WriteReport
  BY <1>2, Positions DEF WriteReport, Publish, InCommand, Between
<1>3. ASSUME NEW v \in Writers, OutsideWrite(v)
      PROVE  /\ version'[w] >= version[w]
             /\ version'[w] = version[w] => basis'[w] = basis[w]
  BY <1>3 DEF OutsideWrite
<1>4. QED
  BY <1>1, <1>2, <1>3
     DEF Next, Step, vars, Begin, Skip, LaunchPrerequisite, LaunchWriter, Launch,
         PrerequisiteReturns, ReadInputs, Check, CommandFails, Finish, Promote, Attest, Killed,
         Edit, Commit

LEMMA FaithfulStays ==
    ASSUME TypeOK, [Next]_vars
    PROVE  \A record \in Report :
             Faithful(record, version, basis) => Faithful(record, version', basis')
<1> SUFFICES ASSUME NEW record \in Report, Faithful(record, version, basis), NEW w \in Writers
             PROVE  /\ record.version[w] <= version'[w]
                    /\ ~ record.leaked /\ record.version[w] = version'[w] =>
                         \A d \in Deps[w] : basis'[w].deps[d] = record.version[d]
  BY DEF Faithful
<1>1. version[w] \in Nat /\ version'[w] \in Nat /\ record.version[w] \in Nat
  BY TypeStep DEF TypeOK, Report
<1>2. /\ record.version[w] <= version[w]
      /\ ~ record.leaked /\ record.version[w] = version[w] =>
           \A d \in Deps[w] : basis[w].deps[d] = record.version[d]
  BY DEF Faithful
<1>3. version'[w] >= version[w] /\ (version'[w] = version[w] => basis'[w] = basis[w])
  BY VersionsCount
<1>4. record.version[w] = version'[w] => record.version[w] = version[w] /\ basis'[w] = basis[w]
  BY <1>1, <1>2, <1>3
<1>5. record.version[w] <= version'[w]
  BY <1>1, <1>2, <1>3
<1>6. QED
  BY <1>2, <1>4, <1>5, Zenon

LEMMA SelectedStep == TypeOK /\ SelectedInv /\ [Next]_vars => SelectedInv'
<1> SUFFICES ASSUME TypeOK, SelectedInv, [Next]_vars PROVE SelectedInv'
  OBVIOUS
<1> USE DEF SelectedInv, InPass, InCommand, Between, pass
<1>1. ASSUME NEW initial \in Initials, Begin(initial) PROVE SelectedInv'
  BY <1>1, InitialsAssumption DEF Begin
<1>2. CASE UNCHANGED <<pc, selected>>
  BY <1>2
<1>3. CASE Step
  BY <1>3 DEF Step, Skip, LaunchPrerequisite, LaunchWriter, Launch, PrerequisiteReturns,
              ReadInputs, WriteReport, Check, CommandFails, Ends, Finish, Promote, Attest
<1>4. CASE Killed
  BY <1>4 DEF Killed, Ends
<1>5. QED
  BY <1>1, <1>2, <1>3, <1>4 DEF Next, Edit, Commit, OutsideWrite, vars

LEMMA PrefixStep ==
    TypeOK /\ SelectedInv /\ PrefixInv /\ [Next]_vars => PrefixInv'
<1> SUFFICES ASSUME TypeOK, SelectedInv, PrefixInv, [Next]_vars, Undisturbed'
             PROVE  /\ (pc \in InPass)' => \A i \in 1 .. at' - 1 : Consistent(Order[i])'
                    /\ pc' = "writing" =>
                         \A d \in Deps[Order[at']] : read'.deps[d] = version'[d]
                    /\ pc' = "checking" => Consistent(Order[at])'
  BY DEF PrefixInv
<1> DEFINE Goal ==
      /\ (pc \in InPass)' => \A i \in 1 .. at' - 1 : Consistent(Order[i])'
      /\ pc' = "writing" => \A d \in Deps[Order[at']] : read'.deps[d] = version'[d]
      /\ pc' = "checking" => Consistent(Order[at])'
<1> USE DEF InPass, InCommand, Between, pass, reports
<1>1. CASE \/ UNCHANGED vars \/ Edit \/ Commit
           \/ LaunchPrerequisite \/ LaunchWriter \/ PrerequisiteReturns
  BY <1>1 DEF vars, Edit, Commit, Noticed, LaunchPrerequisite, LaunchWriter, Launch,
              PrerequisiteReturns, PrefixInv, Undisturbed, Consistent
<1>2. ASSUME NEW initial \in Initials, Begin(initial) PROVE Goal
  BY <1>2 DEF Begin
<1>3. CASE Skip
  <2>1. Undisturbed
    BY <1>3 DEF Skip, Undisturbed
  <2>2. Consistent(Order[at])
    BY <1>3, Positions DEF Skip, SelectedInv, Consistent, TypeOK
  <2>3. \A i \in 1 .. at' - 1 : Consistent(Order[i])
    BY <1>3, <2>1, <2>2 DEF Skip, PrefixInv, TypeOK
  <2>4. QED
    BY <1>3, <2>3 DEF Skip, Consistent
<1>4. CASE ReadInputs
  <2>1. Undisturbed
    BY <1>4 DEF ReadInputs, Undisturbed
  <2>2. \A d \in Deps[Order[at]] : read'.deps[d] = version[d]
    BY <1>4, Positions, DepsAreWriters DEF ReadInputs, Current, TypeOK
  <2>3. QED
    BY <1>4, <2>1, <2>2 DEF ReadInputs, PrefixInv, Consistent
<1>5. CASE WriteReport
  <2>1. Undisturbed
    BY <1>5 DEF WriteReport, Undisturbed
  <2>2. at \in 1 .. N /\ at' = at /\ Order[at] \in Writers
    BY <1>5, Positions DEF WriteReport, TypeOK
  <2>3. \A w \in Writers : w # Order[at] => version'[w] = version[w] /\ basis'[w] = basis[w]
    BY <1>5, <2>2 DEF WriteReport, Publish, TypeOK
  <2>4. \A i \in 1 .. at : \A d \in Deps[Order[i]] : version'[d] = version[d]
    <3> SUFFICES ASSUME NEW i \in 1 .. at, NEW d \in Deps[Order[i]] PROVE d # Order[at] /\ d \in Writers
      BY <2>3
    <3>1. i \in 1 .. N /\ at >= i
      BY <2>2, Positions
    <3>2. QED
      BY <2>2, <3>1, Positions, DepsAreWriters, DepsNotAtOrAfter
  <2>5. \A i \in 1 .. at - 1 : Consistent(Order[i])'
    <3> SUFFICES ASSUME NEW i \in 1 .. at - 1 PROVE Consistent(Order[i])'
      OBVIOUS
    <3>1. i \in 1 .. N /\ i \in 1 .. at /\ i # at
      BY <2>2, Positions
    <3>2. Order[i] \in Writers /\ Order[i] # Order[at]
      BY <2>2, <3>1, Positions
    <3>3. Consistent(Order[i])
      BY <1>5, <2>1 DEF WriteReport, PrefixInv
    <3>4. QED
      BY <2>3, <2>4, <3>1, <3>2, <3>3 DEF Consistent
  <2>6. Consistent(Order[at])'
    <3>1. \A d \in Deps[Order[at]] : read.deps[d] = version[d]
      BY <1>5, <2>1 DEF WriteReport, PrefixInv
    <3>2. basis'[Order[at]].deps = read.deps
      BY <1>5, <2>2 DEF WriteReport, Publish, SameBinding, TypeOK
    <3>3. at \in 1 .. at
      BY <2>2, Positions
    <3>4. QED
      BY <2>2, <2>4, <3>1, <3>2, <3>3 DEF Consistent
  <2>7. QED
    BY <1>5, <2>2, <2>5, <2>6 DEF WriteReport
<1>6. CASE Check
  <2>1. Undisturbed
    BY <1>6 DEF Check, Declared, Undisturbed
  <2>2. \A i \in 1 .. at' - 1 : Consistent(Order[i])
    BY <1>6, <2>1 DEF Check, PrefixInv, TypeOK
  <2>3. QED
    BY <1>6, <2>2 DEF Check, Consistent
<1>7. CASE CommandFails \/ Finish \/ Promote \/ Attest \/ Killed
  BY <1>7 DEF CommandFails, Finish, Promote, Attest, Killed, Ends
<1>8. ASSUME NEW w \in Writers, OutsideWrite(w) PROVE Goal
  \* What leaves the pass undisturbed is a write outside a pass, or to the path of a
  \* prerequisite's writer, which nobody behind the pass depends on.
  <2>1. outside' # "leaked" /\ at' = at /\ pc' = pc
    BY <1>8 DEF OutsideWrite, Undisturbed
  <2>2. CASE pc \notin InPass
    BY <2>1, <2>2
  <2>3. CASE pc \in InPass
    <3>1. pc \in InCommand /\ ~ Unseen(w)
      BY <1>8, <2>1, <2>3 DEF OutsideWrite, Unseen
    <3>2. w = Order[at]
      BY <1>8, <2>1, <3>1 DEF OutsideWrite, Undisturbed
    <3>3. pc = "prerequisite"
      BY <3>1, <3>2 DEF Unseen
    <3>4. Undisturbed
      BY <1>8, <2>1, <3>1 DEF OutsideWrite, Noticed, Undisturbed
    <3>5. at \in 1 .. N
      BY <3>1, Positions DEF TypeOK
    <3>6. ASSUME NEW i \in 1 .. at - 1 PROVE Consistent(Order[i])'
      <4>1. i \in 1 .. N /\ at >= i /\ i # at
        BY <3>5, Positions
      <4>2. Consistent(Order[i]) /\ Order[i] # w /\ Order[i] \in Writers
        BY <2>3, <3>2, <3>4, <3>5, <4>1, Positions DEF PrefixInv
      <4>3. w \notin Deps[Order[i]] /\ Deps[Order[i]] \subseteq Writers
        BY <3>2, <3>5, <4>1, <4>2, DepsNotAtOrAfter, DepsAreWriters
      <4>4. basis'[Order[i]] = basis[Order[i]] /\ \A d \in Deps[Order[i]] : version'[d] = version[d]
        BY <1>8, <4>2, <4>3 DEF OutsideWrite, TypeOK
      <4>5. QED
        BY <4>2, <4>4 DEF Consistent
    <3>7. QED
      BY <2>1, <3>3, <3>6
  <2>4. QED
    BY <2>2, <2>3
<1>9. QED
  BY <1>1, <1>2, <1>3, <1>4, <1>5, <1>6, <1>7, <1>8 DEF Next, Step

LEMMA RecordStep == SafeInv /\ [Next]_vars => RecordInv'
<1> SUFFICES ASSUME SafeInv, [Next]_vars PROVE RecordInv'
  OBVIOUS
<1>1. TypeOK /\ RecordInv
  BY DEF SafeInv
<1>2. candidate # << >> => Faithful(candidate[1], version', basis')
  BY <1>1, FaithfulStays DEF RecordInv, TypeOK
<1>3. authority # << >> => Faithful(authority[1], version', basis')
  BY <1>1, FaithfulStays DEF RecordInv, TypeOK
<1>4. CASE UNCHANGED <<candidate, authority>>
  BY <1>2, <1>3, <1>4 DEF RecordInv
<1>5. CASE candidate' = << >> /\ authority' = authority
  BY <1>3, <1>5 DEF RecordInv
<1>6. CASE Promote
  BY <1>1, <1>2, <1>6 DEF Promote, RecordInv, TypeOK
<1>7. CASE Finish
  <2>1. outside # "leaked" => \A w \in Writers : Consistent(w)
    BY <1>7, Positions DEF Finish, SafeInv, PrefixInv, Undisturbed, InPass, InCommand, Between
  <2>2. Outcome.version = version /\ (Outcome.leaked <=> outside = "leaked")
    BY Zenon DEF Outcome
  <2>3. \A w \in Writers : version[w] <= version[w]
    BY <1>1 DEF TypeOK
  <2>4. \A w \in Writers : ~ Outcome.leaked =>
          \A d \in Deps[w] : basis[w].deps[d] = Outcome.version[d]
    BY <2>1, <2>2, Zenon DEF Consistent
  <2>5. Faithful(Outcome, version, basis)
    BY <2>2, <2>3, <2>4, Zenon DEF Faithful
  <2>6. candidate'[1] = Outcome /\ authority' = authority /\ version' = version /\ basis' = basis
    BY <1>7 DEF Finish, reports
  <2>7. QED
    BY <1>3, <2>5, <2>6 DEF RecordInv
<1>8. QED
  BY <1>4, <1>5, <1>6, <1>7
     DEF Next, Step, vars, evidence, Begin, Skip, LaunchPrerequisite, LaunchWriter, Launch,
         PrerequisiteReturns, ReadInputs, WriteReport, Check, CommandFails, Attest, Killed,
         Edit, Commit, OutsideWrite

LEMMA Invariance == Spec => []SafeInv
<1>1. SafeInv /\ [Next]_vars => SafeInv'
  BY TypeStep, SelectedStep, PrefixStep, RecordStep DEF SafeInv
<1>2. QED
  BY Initially, <1>1, PTL DEF Spec

-----------------------------------------------------------------------------
(* The variables of the passes keep their types, for any policy.           *)
THEOREM TypeCorrect == Spec => []TypeOK
<1>1. SafeInv => TypeOK
  BY DEF SafeInv
<1>2. QED
  BY <1>1, Invariance, PTL

LEMMA StaleIsRecommended ==
    SafeInv => RecommendationCovers
<1> SUFFICES ASSUME SafeInv, authority # << >> => ~ authority[1].leaked,
                    NEW w \in Writers, Stale(w)
             PROVE  w \in Recommended
  BY DEF RecommendationCovers
<1>1. CASE authority = << >>
  BY <1>1 DEF Recommended
<1>2. CASE authority # << >>
  <2> DEFINE Affected == {v \in Writers : RefreshNeeded(v)}
  <2>1. /\ Recommended = Downstream(Affected)
        /\ Affected \subseteq Downstream(Affected)
        /\ Closed(Downstream(Affected))
    BY <1>2, DownstreamHolds DEF Recommended
  <2>2. CASE RefreshNeeded(w)
    BY <2>1, <2>2
  <2>3. CASE ~ RefreshNeeded(w)
    <3>1. ~ Consistent(w) /\ version[w] = authority[1].version[w]
      BY <2>3 DEF Stale, RefreshNeeded
    <3>2. PICK d \in Deps[w] : basis[w].deps[d] # version[d]
      BY <3>1 DEF Consistent
    <3>3. basis[w].deps[d] = authority[1].version[d]
      BY <1>2, <3>1 DEF SafeInv, RecordInv, Faithful
    <3>4. d \in Affected
      BY <3>2, <3>3, DepsAreWriters DEF RefreshNeeded
    <3>5. Deps[w] \cap Downstream(Affected) # {}
      BY <2>1, <3>2, <3>4
    <3>6. QED
      BY <2>1, <3>5 DEF Closed
  <2>4. QED
    BY <2>2, <2>3
<1>3. QED
  BY <1>1, <1>2

(* Whatever failed, was killed, edited, committed or written in between,   *)
(* the dry run recommends every stale writer, as long as the authority's   *)
(* pass let no write go unseen.                                            *)
THEOREM StaleWritersRecommended == Spec => []RecommendationCovers
BY StaleIsRecommended, Invariance, PTL

LEMMA SameVersionsConsistent ==
    SafeInv => VerifiedIsConsistent
<1> SUFFICES ASSUME SafeInv, Verified, ~ authority[1].leaked, NEW w \in Writers
             PROVE  Consistent(w)
  BY DEF VerifiedIsConsistent
<1>1. authority # << >> /\ authority[1].version = version
  BY DEF Verified, AuthorityCurrent
<1>2. Faithful(authority[1], version, basis)
  BY <1>1 DEF SafeInv, RecordInv
<1>3. QED
  BY <1>1, <1>2, DepsAreWriters DEF Faithful, Consistent

(* Digests that agree are enough: reports of a verified finality were      *)
(* derived from one another as they are.                                   *)
THEOREM VerifiedFinality == Spec => []VerifiedIsConsistent
BY SameVersionsConsistent, Invariance, PTL

-----------------------------------------------------------------------------
(* A pass during which nobody else does anything.                          *)

Fresh(w) ==
    version[w] # 0 /\ basis[w].tree = tree /\ (w \in Revisioned => basis[w].rev = rev)

\* What a record says is what there is.
Closes(record) ==
    /\ record.version = version /\ record.rev = rev /\ record.id = passes
    /\ \A w \in Writers : Consistent(w)
    /\ record.selected = Writers => \A w \in Writers : Fresh(w)

QuietInv ==
    outside = "none" =>
        /\ pc \in InPass => touched = {} /\ \A i \in 1 .. at - 1 :
                                Order[i] \in selected => Fresh(Order[i])
        /\ pc = "writing" => read = Current(Order[at])
        /\ pc = "checking" => Fresh(Order[at])
        /\ pc = "promote" => Closes(candidate[1])
        /\ pc = "attest" => Closes(authority[1])
        /\ pc = "idle" /\ attestation # << >> /\ attestation[1].id = passes =>
            authority # << >> /\ Closes(authority[1]) /\ attestation[1] = Attested

\* The evidence of an earlier pass has an earlier number.
NumberInv ==
    /\ candidate # << >> /\ pc = "promote" => candidate[1].id <= passes
    /\ authority # << >> => authority[1].id <= passes
    /\ attestation # << >> =>
        attestation[1].id <= passes /\ (pc # "idle" => attestation[1].id < passes)

\* A report holds nothing of what its writer does not depend on.
ShapeInv ==
    /\ \A w \in Writers : \A d \in Writers \ Deps[w] : basis[w].deps[d] = 0
    /\ pc = "writing" => \A d \in Writers \ Deps[Order[at]] : read.deps[d] = 0

LEMMA NumberStep == TypeOK /\ NumberInv /\ [Next]_vars => NumberInv'
<1> SUFFICES ASSUME TypeOK, NumberInv, [Next]_vars PROVE NumberInv'
  OBVIOUS
<1> USE DEF NumberInv, TypeOK, Report, Attestation, pass, evidence
<1>1. ASSUME NEW initial \in Initials, Begin(initial) PROVE NumberInv'
  BY <1>1 DEF Begin
<1>2. CASE Skip \/ LaunchPrerequisite \/ LaunchWriter \/ PrerequisiteReturns
           \/ ReadInputs \/ WriteReport \/ Check \/ CommandFails \/ Killed
  BY <1>2 DEF Skip, LaunchPrerequisite, LaunchWriter, Launch, PrerequisiteReturns, ReadInputs,
              WriteReport, Check, CommandFails, Killed, Ends
<1>3. CASE Finish
  <2>1. candidate'[1].id = passes
    BY <1>3 DEF Finish, Outcome
  <2>2. QED
    BY <1>3, <2>1 DEF Finish
<1>4. CASE Promote
  BY <1>4 DEF Promote
<1>5. CASE Attest
  <2>1. attestation'[1].id = authority[1].id
    BY <1>5 DEF Attest, Attested
  <2>2. QED
    BY <1>5, <2>1 DEF Attest, Ends
<1>6. CASE Edit \/ Commit \/ \E w \in Writers : OutsideWrite(w)
  BY <1>6 DEF Edit, Commit, OutsideWrite
<1>7. CASE UNCHANGED vars
  BY <1>7 DEF vars
<1>8. QED
  BY <1>1, <1>2, <1>3, <1>4, <1>5, <1>6, <1>7 DEF Next, Step

LEMMA CurrentShape ==
    \A w \in Writers : \A d \in Writers \ Deps[w] : Current(w).deps[d] = 0
BY DEF Current

LEMMA ShapeStep == TypeOK /\ ShapeInv /\ [Next]_vars => ShapeInv'
<1> SUFFICES ASSUME TypeOK, ShapeInv, [Next]_vars PROVE ShapeInv'
  OBVIOUS
<1> USE DEF ShapeInv, pass, reports, TypeOK
<1>1. CASE UNCHANGED basis /\ pc' # "writing"
  BY <1>1
<1>2. CASE UNCHANGED <<basis, pc, at, read>>
  BY <1>2
<1>3. CASE ReadInputs
  BY <1>3, CurrentShape, Positions DEF ReadInputs, InCommand
<1>4. CASE WriteReport
  BY <1>4, Positions DEF WriteReport, Publish, InCommand
<1>5. ASSUME NEW w \in Writers, OutsideWrite(w) PROVE ShapeInv'
  BY <1>5, CurrentShape DEF OutsideWrite
<1>6. QED
  BY <1>1, <1>2, <1>3, <1>4, <1>5
     DEF Next, Step, vars, evidence, Begin, Skip, LaunchPrerequisite, LaunchWriter, Launch,
         PrerequisiteReturns, Check, CommandFails, Ends, Finish, Promote, Attest, Killed,
         Edit, Commit

LEMMA QuietStep ==
    SafeInv /\ NumberInv /\ QuietInv /\ [Next]_vars => QuietInv'
<1> SUFFICES ASSUME SafeInv, NumberInv, QuietInv, [Next]_vars, outside' = "none"
             PROVE  QuietInv'
  BY DEF QuietInv
<1>0. TypeOK
  BY DEF SafeInv
<1> USE DEF QuietInv, InPass, InCommand, Between, pass, reports, source, evidence
<1>1. ASSUME NEW initial \in Initials, Begin(initial) PROVE QuietInv'
  BY <1>1 DEF Begin
<1>2. CASE Skip
  <2>1. \A i \in 1 .. at' - 1 : Order[i] \in selected => Fresh(Order[i])
    BY <1>0, <1>2 DEF Skip, TypeOK
  <2>2. QED
    BY <1>2, <2>1 DEF Skip, Fresh
<1>3. CASE LaunchPrerequisite \/ LaunchWriter \/ PrerequisiteReturns
  BY <1>3 DEF LaunchPrerequisite, LaunchWriter, Launch, PrerequisiteReturns, Fresh
<1>4. CASE ReadInputs
  BY <1>4 DEF ReadInputs, Fresh, Current
<1>5. CASE WriteReport
  <2>1. at \in 1 .. N /\ Order[at] \in Writers /\ at' = at /\ selected' = selected
        /\ outside = "none" /\ touched' = touched
    BY <1>0, <1>5, Positions DEF WriteReport, TypeOK
  <2>2. \A w \in Writers : w # Order[at] => version'[w] = version[w] /\ basis'[w] = basis[w]
    BY <1>0, <1>5, <2>1 DEF WriteReport, Publish, TypeOK
  <2>3. ASSUME NEW i \in 1 .. at - 1, Order[i] \in selected PROVE Fresh(Order[i])'
    <3>1. i \in 1 .. N /\ i # at
      BY <2>1, Positions
    <3>2. Order[i] \in Writers /\ Order[i] # Order[at]
      BY <2>1, <3>1, Positions
    <3>3. Fresh(Order[i])
      BY <1>5, <2>1, <2>3 DEF WriteReport
    <3>4. QED
      BY <1>5, <2>2, <3>2, <3>3 DEF WriteReport, Fresh
  <2>4. read.tree = tree /\ read.rev = rev
    BY <1>5, <2>1 DEF WriteReport, Current
  <2>5. Fresh(Order[at])'
    <3>1. CASE SameBinding(Order[at], read)
      BY <1>5, <2>1, <2>4, <3>1 DEF WriteReport, Publish, SameBinding, Fresh
    <3>2. CASE ~ SameBinding(Order[at], read)
      <4>1. version'[Order[at]] = version[Order[at]] + 1 /\ basis'[Order[at]] = read
        BY <1>0, <1>5, <2>1, <3>2 DEF WriteReport, Publish, TypeOK
      <4>2. version[Order[at]] \in Nat
        BY <1>0, <2>1 DEF TypeOK
      <4>3. QED
        BY <1>5, <2>4, <4>1, <4>2 DEF WriteReport, Fresh
    <3>3. QED
      BY <3>1, <3>2
  <2>6. QED
    BY <1>5, <2>1, <2>3, <2>5 DEF WriteReport
<1>6. CASE Check
  <2>1. \A i \in 1 .. at' - 1 : Order[i] \in selected => Fresh(Order[i])
    BY <1>0, <1>6 DEF Check, TypeOK
  <2>2. QED
    BY <1>6, <2>1 DEF Check, Fresh
<1>7. CASE CommandFails \/ Killed
  BY <1>7, <1>0 DEF CommandFails, Killed, Ends, NumberInv, TypeOK, Attestation
<1>8. CASE Finish
  <2>1. outside = "none"
    BY <1>8 DEF Finish
  <2>2. \A w \in Writers : Consistent(w)
    BY <1>8, <2>1, Positions DEF Finish, SafeInv, PrefixInv, Undisturbed
  <2>3. selected = Writers => \A w \in Writers : Fresh(w)
    BY <1>8, <2>1, Positions DEF Finish
  <2>4. Closes(Outcome)
    <3>1. /\ Outcome.version = version /\ Outcome.rev = rev
          /\ Outcome.id = passes /\ Outcome.selected = selected
      BY Zenon DEF Outcome
    <3>2. QED
      BY <2>2, <2>3, <3>1 DEF Closes
  <2>5. candidate'[1] = Outcome
    BY <1>8 DEF Finish
  <2>6. Closes(candidate[1])'
    BY <1>8, <2>4, <2>5 DEF Finish, Closes, Consistent, Fresh
  <2>7. QED
    BY <1>8, <2>6 DEF Finish
<1>9. CASE Promote
  BY <1>9 DEF Promote, Closes, Consistent, Fresh
<1>10. CASE Attest
  <2>1. Closes(authority[1]) /\ authority # << >>
    BY <1>0, <1>10 DEF Attest, TypeOK
  <2>2. Closes(authority[1])' /\ authority' # << >> /\ attestation'[1] = Attested
    BY <1>10, <2>1 DEF Attest, Closes, Consistent, Fresh
  <2>3. Attested' = Attested
    BY <1>10 DEF Attest, Attested, AuthorityCurrent, RevisionsCurrent
  <2>4. QED
    BY <1>10, <2>2, <2>3 DEF Attest, Ends
<1>11. CASE Edit \/ Commit \/ \E w \in Writers : OutsideWrite(w)
  BY <1>11 DEF Edit, Commit, OutsideWrite, Noticed
<1>12. CASE UNCHANGED vars
  BY <1>12 DEF vars, Closes, Consistent, Fresh, Attested, AuthorityCurrent, RevisionsCurrent, Current
<1>13. QED
  BY <1>1, <1>2, <1>3, <1>4, <1>5, <1>6, <1>7, <1>8, <1>9, <1>10, <1>11, <1>12 DEF Next, Step

LEMMA QuietInvariance == Spec => [](SafeInv /\ NumberInv /\ ShapeInv /\ QuietInv)
<1>1. Init => NumberInv /\ ShapeInv /\ QuietInv
  BY DEF Init, NumberInv, ShapeInv, QuietInv, Nothing, InPass, InCommand, Between
<1>2. SafeInv => TypeOK
  BY DEF SafeInv
<1>3. QED
  BY <1>1, <1>2, NumberStep, ShapeStep, QuietStep, Invariance, PTL DEF Spec

-----------------------------------------------------------------------------
(* One full pass that ends undisturbed settles the dry run and verifies.   *)
THEOREM OnePassSettles == Spec => []PassSettles
<1>1. TypeOK /\ QuietInv => PassSettles
  <2> SUFFICES ASSUME TypeOK, QuietInv, pc = "idle", outside = "none", attestation # << >>,
                      attestation[1].id = passes, authority[1].selected = Writers
               PROVE  Settled /\ Verified
    BY DEF PassSettles
  <2>1. authority # << >> /\ Closes(authority[1]) /\ attestation[1] = Attested
    BY DEF QuietInv
  <2>2. /\ authority[1].version = version /\ authority[1].rev = rev
        /\ \A w \in Writers : Consistent(w) /\ Fresh(w)
    BY <2>1 DEF Closes
  <2>3. {w \in Writers : RefreshNeeded(w)} = {}
    BY <2>2 DEF RefreshNeeded, Fresh
  <2>4. Settled
    BY <2>1, <2>3, DownstreamOfNothing DEF Settled, Recommended
  <2>5. AuthorityCurrent
    BY <2>1, <2>2, PolicyAssumption DEF AuthorityCurrent, RevisionsCurrent, Fresh
  <2>6. Attested.ok /\ Attested.rev = rev /\ Attested.id = authority[1].id
        /\ Attested.version = version
    BY <2>2, <2>5 DEF Attested
  <2>7. Verified
    BY <2>1, <2>2, <2>5, <2>6, PolicyAssumption DEF Verified
  <2>8. QED
    BY <2>4, <2>7
<1>2. SafeInv => TypeOK
  BY DEF SafeInv
<1>3. QED
  BY <1>1, <1>2, QuietInvariance, PTL

(* A writer that derives its report again from the same finds it there.    *)
LEMMA NothingToWrite ==
    ASSUME SafeInv, ShapeInv, QuietInv, WriteReport, Settled, Verified,
           ~ authority[1].leaked, outside = "none"
    PROVE  UNCHANGED reports
<1> DEFINE w == Order[at]
<1>1. TypeOK /\ w \in Writers /\ authority # << >>
  BY Positions DEF WriteReport, SafeInv, TypeOK, InCommand, Verified, AuthorityCurrent
<1>2. read = Current(w)
  BY DEF WriteReport, QuietInv
<1>3. Consistent(w)
  BY <1>1, SameVersionsConsistent DEF VerifiedIsConsistent
<1>4. ~ RefreshNeeded(w)
  BY <1>1, DownstreamHolds DEF Settled, Recommended
<1>5. read.deps = basis[w].deps
  <2>1. basis[w].deps \in [Writers -> Nat] /\ read.deps \in [Writers -> Nat]
    BY <1>1 DEF TypeOK, Basis
  <2>2. \A d \in Writers : read.deps[d] = basis[w].deps[d]
    <3> SUFFICES ASSUME NEW d \in Writers PROVE read.deps[d] = basis[w].deps[d]
      OBVIOUS
    <3>1. read.deps[d] = IF d \in Deps[w] THEN version[d] ELSE 0
      BY <1>2 DEF Current
    <3>2. CASE d \in Deps[w]
      BY <1>3, <3>1, <3>2 DEF Consistent
    <3>3. CASE d \notin Deps[w]
      BY <1>1, <3>1, <3>3 DEF ShapeInv
    <3>4. QED
      BY <3>2, <3>3
  <2>3. QED
    BY <2>1, <2>2
<1>6. read.tree = basis[w].tree /\ version[w] # 0
  BY <1>2, <1>4 DEF RefreshNeeded, Current
<1>7. w \in Revisioned => read.rev = basis[w].rev
  BY <1>2 DEF Verified, AuthorityCurrent, RevisionsCurrent, Current
<1>8. SameBinding(w, read)
  BY <1>5, <1>6, <1>7 DEF SameBinding
<1>9. QED
  BY <1>8 DEF WriteReport, Publish

(* A pass over verified and settled reports changes none of them.          *)
THEOREM SettledIsFixed == Spec => FixedPoint
<1>1. SafeInv /\ ShapeInv /\ QuietInv /\ [Next]_vars =>
        [pc = "writing" /\ pc' = "checking" /\ Settled /\ Verified /\ ~ authority[1].leaked
           /\ outside = "none" => UNCHANGED reports]_vars
  <2> SUFFICES ASSUME SafeInv, ShapeInv, QuietInv, [Next]_vars, pc = "writing",
                      pc' = "checking", Settled, Verified, ~ authority[1].leaked,
                      outside = "none"
               PROVE  UNCHANGED reports
    OBVIOUS
  <2>1. WriteReport
    BY DEF Next, Step, vars, pass, Begin, Skip, LaunchPrerequisite, LaunchWriter, Launch,
           PrerequisiteReturns, ReadInputs, Check, CommandFails, Ends, Finish, Promote, Attest,
           Killed, Edit, Commit, OutsideWrite
  <2>2. QED
    BY <2>1, NothingToWrite
<1>2. QED
  BY <1>1, QuietInvariance, PTL DEF Spec, FixedPoint
=============================================================================
