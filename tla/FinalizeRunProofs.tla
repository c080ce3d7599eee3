--------------------------- MODULE FinalizeRunProofs ---------------------------
(* Proofs about FinalizeRun, for any number of finalizations, splits and   *)
(* runs, in every interleaving of their steps.                             *)
EXTENDS FinalizeRun, SequenceTheorems, TLAPS

AtInv ==
    \A f \in Finalizers :
        /\ pc[f] \in {"idle", "load", "resolve"} => at[f] = 0
        /\ pc[f] = "stage" => at[f] \in 0 .. 3
        /\ pc[f] = "replace" => at[f] \in 1 .. Len(Updates(f))
        /\ pc[f] = "rollback" => at[f] \in 0 .. 3

Typed == TypeOK /\ AtInv

-----------------------------------------------------------------------------
(* The invariant.                                                          *)

\* Two calls that are running have met.
MetInv ==
    /\ \A c \in Calls : pc[c] = "idle" => met[c] = {}
    /\ \A c, d \in Calls : c # d /\ pc[c] \in Active /\ pc[d] \in Active => d \in met[c]

Unmet(f) == met[f] \cap OneRun(f) = {}

Unread == {"idle", "load", "resolve"}
Writing == {"stage", "replace", "rollback"}

(* What a call resolved: no entry is needed, it writes its own, or the     *)
(* report it loaded has one.                                               *)
Resolved(f) ==
    \/ target[f] \notin required /\ ref[f] = NotRequired /\ text[f] = <<>>
    \/ /\ target[f] \in required
       /\ seen[f]["report"] = Pending /\ ref[f] = f /\ text[f] # <<>>
    \/ /\ target[f] \in required
       /\ seen[f]["report"] # Pending /\ ref[f] = seen[f]["report"] /\ text[f] = <<>>

OwnInv ==
    \A f \in Finalizers :
        /\ pc[f] \in Unread => text[f] = <<>>
        /\ pc[f] \in Unread \cup {"stage", "replace"} => issues[f] = {}
        /\ text[f] # <<>> => f \in Entries(text[f])
        /\ pc[f] \in Writing => Resolved(f)

(* While a call replaces, the files up to the one it is at are new, the    *)
(* others as loaded; while it rolls back, those after it are restored or   *)
(* among the issues.  Until then all are as loaded, and so is what it      *)
(* keeps of them.                                                          *)
FilesAsKnown(f) ==
    LET files == file[target[f]]
    IN  /\ pc[f] \in {"load", "resolve", "stage"} => files = seen[f]
        /\ pc[f] = "stage" =>
              \A i \in 1 .. 3 : i <= at[f] => saved[f][RunUpdates[i]] = seen[f][RunUpdates[i]]
        /\ pc[f] \in {"replace", "rollback"} => saved[f] = seen[f]
        /\ pc[f] = "replace" =>
              \A i \in 1 .. 3 : LET n == RunUpdates[i] IN
                  files[n] = IF i < at[f] THEN New(f)[n] ELSE seen[f][n]
        /\ pc[f] = "rollback" =>
              \A i \in 1 .. 3 : LET n == RunUpdates[i] IN
                  i > at[f] => files[n] = seen[f][n] \/ n \in issues[f]
        /\ pc[f] = "rollback" =>
              \A i \in 1 .. 3 : LET n == RunUpdates[i] IN files[n] \in {New(f)[n], seen[f][n]}

CallInv == \A f \in Finalizers : Unmet(f) => FilesAsKnown(f)

(* The entries that are or were in the log: a text that was read holds     *)
(* them too.                                                               *)
Known == Logged \cup UNION {Entries(text[c]) \ {c} : c \in Calls}

FreshInv == \A f \in Finalizers : pc[f] \in Unread \cup Writing => f \notin Known

Records(e, files) ==
    files["report"] = e /\ files["planning"] = e /\ files["ledger"] # Pending

\* Another call for the run has found the entry in the files, and keeps it.
Follows(e, f) ==
    /\ pc[f] \in Active => Records(e, seen[f])
    /\ pc[f] = "stage" => \A i \in 1 .. 3 : LET n == RunUpdates[i] IN
          i <= at[f] => IF n = "ledger" THEN saved[f][n] # Pending ELSE saved[f][n] = e
    /\ pc[f] \in {"replace", "rollback"} => Records(e, saved[f])

(* An entry no other call of the run overlapped is in the run's files, and *)
(* every later call of the run has found and will write nothing else.      *)
RecordedInv ==
    \A e \in Known : Unmet(e) =>
        /\ target[e] \in required
        /\ Records(e, file[target[e]])
        /\ \A f \in OneRun(e) \ {e} : Follows(e, f)

SafeInv == Typed /\ MetInv /\ OwnInv /\ CallInv /\ FreshInv /\ RecordedInv

\* LostTo, for good: the split will not write the entry back.
Gone(f) ==
    \E c \in Calls :
        \/ c \in met[f] /\ WroteLog(c) /\ f \notin Entries(text[c])
        \/ /\ c \in Splitters /\ f \in Entries(Kept(c))
           /\ \/ pc[c] = "crashed"
              \/ pc[c] \in {"write", "done"} /\ met[c] # {}

\* A call that has read the log and is still to write it.
HasRead(c) ==
    \/ c \in Finalizers /\ text[c] # <<>> /\ pc[c] \in {"stage", "replace"}
    \/ c \in Splitters /\ pc[c] \in {"append", "truncate"}

LossInv ==
    /\ LostOnlyToOverlap
    /\ \A f \in Finalizers, c \in Calls :
          Logs(f) /\ HasRead(c) =>
              f \in Entries(text[c]) \/ c \in met[f] \/ f \in Entries(events) \/ Gone(f)
    /\ \A s \in Splitters :
          /\ pc[s] \in {"truncate", "write"} => Entries(Moved(s)) \subseteq Entries(events)
          /\ pc[s] = "write" /\ handle # s => met[s] # {}
    /\ handle # NoHandle => log = <<>>

\* What a report of the run refers to, where it is, is loaded or is kept.
Current(r, g) ==
    \/ file[r]["report"] = g
    \/ \E f \in Finalizers :
          /\ target[f] = r
          /\ \/ pc[f] \in Active /\ seen[f]["report"] = g
             \/ /\ pc[f] \in {"replace", "rollback"} \/ (pc[f] = "stage" /\ at[f] >= 1)
                /\ saved[f]["report"] = g

(* Whoever a report refers to is a call for that run which has logged its  *)
(* entry, is about to, has died, or could not restore the report.          *)
Backed(g) ==
    /\ pc[g] \notin Unread \cup {"stage"}
    /\ \/ Logs(g) \/ pc[g] = "crashed" \/ issues[g] # {} \/ ~ Unmet(g)
       \/ pc[g] \in {"replace", "rollback"} /\ text[g] # <<>>

BackedInv ==
    \A r \in Runs :
        /\ \A g \in Finalizers : Current(r, g) => target[g] = r /\ Backed(g)
        /\ Current(r, NotRequired) => r \notin required

\* What another call of the run did or met, for its entry not to be found.
Excuses(g) ==
    pc[g] = "crashed" \/ issues[g] # {} \/ g \in Entries(events) \/ ~ Unmet(g) \/ Gone(g)

RefusedInv ==
    \A f \in Finalizers :
        pc[f] = "refused" /\ target[f] \in allowed =>
            \E g \in OneRun(f) \ {f} : Excuses(g)

WholeInv == SafeInv /\ LossInv /\ BackedInv /\ RefusedInv

-----------------------------------------------------------------------------
(* The operators of the model.                                             *)
LEMMA UpdatesFacts ==
    ASSUME NEW f
    PROVE  /\ Len(Updates(f)) = IF text[f] = <<>> THEN 3 ELSE 4
           /\ Updates(f)[1] = "report" /\ Updates(f)[2] = "ledger" /\ Updates(f)[3] = "planning"
           /\ text[f] # <<>> => Updates(f)[4] = "log"
<1>1. CASE text[f] = <<>>
  BY <1>1 DEF Updates, RunUpdates
<1>2. CASE text[f] # <<>>
  BY <1>2 DEF Updates, RunUpdates
<1> QED
  BY <1>1, <1>2

LEMMA Bounded ==
    ASSUME NEW i \in 0 .. 4, NEW n, n = 3 \/ n = 4, i \in 1 .. n
    PROVE  /\ i - 1 \in 0 .. 3
           /\ (IF i = n THEN 0 ELSE i + 1) \in 0 .. 4
           /\ i = n \/ i + 1 \in 1 .. n
OBVIOUS

\* An update after the third is the log's.
LEMMA LastUpdate ==
    ASSUME Typed, NEW f \in Finalizers, pc[f] = "replace", at[f] \notin 1 .. 3
    PROVE  at[f] = 4 /\ text[f] # <<>>
<1>1. PICK n : n = Len(Updates(f)) /\ n = IF text[f] = <<>> THEN 3 ELSE 4
  BY UpdatesFacts
<1>2. at[f] \in 1 .. n
  BY <1>1 DEF Typed, AtInv
<1> QED
  BY <1>1, <1>2

LEMMA SplitFacts ==
    ASSUME TypeOK, NEW s \in Splitters
    PROVE  /\ Kept(s) \in Seq(Finalizers) /\ Moved(s) \in Seq(Finalizers)
           /\ Entries(Kept(s)) \subseteq Entries(text[s])
           /\ Entries(Moved(s)) \subseteq Entries(text[s])
           /\ Entries(text[s]) = Entries(Kept(s)) \cup Entries(Moved(s))
<1>1. text[s] \in Seq(Finalizers) /\ Len(text[s]) \in Nat /\ TailEntries \in Nat
  BY FinalizeAssumption DEF TypeOK, Calls
<1>2. /\ Kept(s) \in Seq(Finalizers) /\ Len(Kept(s)) \in Nat
      /\ Entries(Kept(s)) \subseteq Entries(text[s])
  <2>1. CASE TailEntries = 0 \/ TailEntries >= Len(text[s])
    BY <2>1 DEF Kept, Entries
  <2>2. CASE ~ (TailEntries = 0 \/ TailEntries >= Len(text[s]))
    <3> DEFINE n == Len(text[s]) - TailEntries
    <3>1. n \in 1 .. Len(text[s]) /\ Kept(s) = SubSeq(text[s], 1, n)
      BY <1>1, <2>2 DEF Kept
    <3>2. \A i \in 1 .. n : text[s][i] \in Finalizers
      BY <1>1, <3>1
    <3> HIDE DEF n
    <3>3. /\ Kept(s) \in Seq(Finalizers) /\ Len(Kept(s)) = n
          /\ \A i \in 1 .. n : Kept(s)[i] = text[s][i]
      BY <3>1, <3>2, SubSeqProperties
    <3> QED
      BY <1>1, <3>1, <3>3 DEF Entries
  <2> QED
    BY <2>1, <2>2
<1>3. /\ Moved(s) \in Seq(Finalizers)
      /\ Entries(Moved(s)) \subseteq Entries(text[s])
  <2> DEFINE m == Len(Kept(s)) + 1
             n == Len(text[s])
  <2>1. m \in Nat \ {0} /\ n \in Nat
    BY <1>1, <1>2
  <2>2. \A i \in m .. n : text[s][i] \in Finalizers
    BY <1>1, <2>1
  <2>3. Moved(s) = SubSeq(text[s], m, n)
    BY DEF Moved
  <2> HIDE DEF m
  <2>4. /\ Moved(s) \in Seq(Finalizers)
        /\ Len(Moved(s)) = IF m <= n THEN n - m + 1 ELSE 0
        /\ \A i \in 1 .. n - m + 1 : Moved(s)[i] = text[s][m + i - 1]
    BY <2>1, <2>2, <2>3, SubSeqProperties
  <2>5. \A i \in DOMAIN Moved(s) : m + i - 1 \in DOMAIN text[s] /\ Moved(s)[i] = text[s][m + i - 1]
    BY <1>1, <2>1, <2>4
  <2> QED
    BY <2>4, <2>5 DEF Entries
<1>4. Entries(text[s]) \subseteq Entries(Kept(s)) \cup Entries(Moved(s))
  <2> DEFINE k == Len(Kept(s))
             n == Len(text[s])
  <2>1. k \in 0 .. n /\ \A i \in 1 .. k : Kept(s)[i] = text[s][i]
    <3>1. CASE TailEntries = 0 \/ TailEntries >= Len(text[s])
      BY <1>1, <3>1 DEF Kept
    <3>2. CASE ~ (TailEntries = 0 \/ TailEntries >= Len(text[s]))
      <4> DEFINE m == Len(text[s]) - TailEntries
      <4>1. m \in 1 .. n /\ Kept(s) = SubSeq(text[s], 1, m)
        BY <1>1, <3>2 DEF Kept
      <4>2. \A i \in 1 .. m : text[s][i] \in Finalizers
        BY <1>1, <4>1
      <4> HIDE DEF m
      <4> QED
        BY <1>1, <4>1, <4>2, SubSeqProperties
    <3> QED
      BY <3>1, <3>2
  <2>2. \A i \in k + 1 .. n : text[s][i] \in Finalizers
    BY <1>1, <2>1
  <2>3. Moved(s) = SubSeq(text[s], k + 1, n)
    BY DEF Moved
  <2> HIDE DEF k
  <2>4. \A i \in 1 .. n - (k + 1) + 1 :
            i \in DOMAIN Moved(s) /\ Moved(s)[i] = text[s][(k + 1) + i - 1]
    BY <1>1, <2>1, <2>2, <2>3, SubSeqProperties
  <2>5. ASSUME NEW j \in 1 .. n, j > k
        PROVE  j - k \in DOMAIN Moved(s) /\ Moved(s)[j - k] = text[s][j]
    <3>1. j - k \in 1 .. n - (k + 1) + 1 /\ (k + 1) + (j - k) - 1 = j
      BY <1>1, <2>1, <2>5
    <3> QED
      BY <2>4, <3>1
  <2>6. ASSUME NEW j \in 1 .. n, ~ (j > k)
        PROVE  j \in DOMAIN Kept(s) /\ Kept(s)[j] = text[s][j]
    <3>1. j \in 1 .. k
      BY <1>1, <2>1, <2>6
    <3> QED
      BY <1>2, <2>1, <3>1 DEF k
  <2> QED
    BY <1>1, <2>5, <2>6 DEF Entries
<1> QED
  BY <1>2, <1>3, <1>4

LEMMA ConcatEntries ==
    ASSUME NEW p \in Seq(Finalizers), NEW q \in Seq(Finalizers)
    PROVE  Entries(p \o q) = Entries(p) \cup Entries(q)
<1> DEFINE c == p \o q
<1>1. \A i \in DOMAIN p : i \in DOMAIN c /\ c[i] = p[i]
  OBVIOUS
<1>2. \A i \in DOMAIN q : i + Len(p) \in DOMAIN c /\ c[i + Len(p)] = q[i]
  OBVIOUS
<1>3. \A i \in DOMAIN c :
          \/ i \in DOMAIN p /\ c[i] = p[i]
          \/ i - Len(p) \in DOMAIN q /\ c[i] = q[i - Len(p)]
  OBVIOUS
<1> HIDE DEF c
<1>4. Entries(p) \subseteq Entries(c) /\ Entries(q) \subseteq Entries(c)
  BY <1>1, <1>2 DEF Entries
<1>5. Entries(c) \subseteq Entries(p) \cup Entries(q)
  BY <1>3 DEF Entries
<1> QED
  BY <1>4, <1>5 DEF c

LEMMA AppendEntries ==
    ASSUME NEW p \in Seq(Finalizers), NEW e \in Finalizers
    PROVE  /\ Append(p, e) \in Seq(Finalizers) /\ Append(p, e) # <<>>
           /\ Entries(Append(p, e)) = Entries(p) \cup {e}
<1>1. /\ Append(p, e) \in Seq(Finalizers) /\ Append(p, e) # <<>>
      /\ DOMAIN Append(p, e) = 1 .. Len(p) + 1
      /\ \A i \in 1 .. Len(p) : Append(p, e)[i] = p[i]
      /\ Append(p, e)[Len(p) + 1] = e
  OBVIOUS
<1>2. Entries(Append(p, e)) = Entries(p) \cup {e}
  BY <1>1 DEF Entries
<1> QED
  BY <1>1, <1>2

LEMMA NewType ==
    ASSUME TypeOK, NEW f \in Finalizers
    PROVE  New(f) \in RunFiles
BY DEF TypeOK, New, RunFiles, Names

\* The names a call replaces, in their order.
LEMMA Positions ==
    /\ \A n \in Names : \E i \in 1 .. 3 : RunUpdates[i] = n
    /\ \A i \in 1 .. 3 : RunUpdates[i] \in Names /\ RunUpdates[i] # "log"
    /\ \A i, j \in 1 .. 3 : RunUpdates[i] = RunUpdates[j] => i = j
    /\ \A f : \A i \in 1 .. 3 : Updates(f)[i] = RunUpdates[i]
<1>1. RunUpdates[1] = "report" /\ RunUpdates[2] = "ledger" /\ RunUpdates[3] = "planning"
  BY DEF RunUpdates
<1> QED
  BY <1>1, UpdatesFacts DEF Names

-----------------------------------------------------------------------------
(* Types.                                                                  *)
LEMMA InitTyped == Init => Typed
BY FinalizeAssumption
   DEF Init, Typed, TypeOK, AtInv, Calls, RunFiles, Ref, Names, Unfinalized, Active, Ended

LEMMA BeginTyped ==
    ASSUME TypeOK, NEW c \in Calls, Begin(c)
    PROVE  met' \in [Calls -> SUBSET Calls]
BY DEF Begin, Running, TypeOK

LEMMA LoadTyped ==
    ASSUME Typed, NEW f \in Finalizers,
           \/ Load(f) \/ LoadLedger(f) \/ Resolve(f)
           \/ ReadOriginal(f) \/ Stage(f) \/ StageFails(f) \/ Fingerprint(f)
    PROVE  Typed'
<1> USE DEF Typed, setting
<1>1. target[f] \in Runs /\ f \in Calls /\ log \in Seq(Finalizers)
  BY DEF TypeOK, Calls
<1>2. pc' \in [Calls -> {"idle"} \cup Active \cup Ended]
  BY DEF Load, LoadLedger, Resolve, ReadOriginal, Stage, StageFails, Fingerprint, Goto,
         TypeOK, Active, Ended
<1>3. text' \in [Calls -> Seq(Finalizers)]
  <2>1. text \in [Calls -> Seq(Finalizers)]
    BY DEF TypeOK
  <2>2. Append(log, f) \in Seq(Finalizers)
    BY <1>1, AppendEntries
  <2>3. text' = text \/ text' = [text EXCEPT ![f] = Append(log, f)]
    BY DEF Load, LoadLedger, Resolve, ReadOriginal, Stage, StageFails, Fingerprint
  <2> QED
    BY <2>1, <2>2, <2>3
<1>4. seen' \in [Finalizers -> RunFiles] /\ saved' \in [Finalizers -> RunFiles]
  <2>1. file \in [Runs -> [Names -> Ref]] /\ seen \in [Finalizers -> [Names -> Ref]]
        /\ saved \in [Finalizers -> [Names -> Ref]]
    BY DEF TypeOK, RunFiles
  <2>2. CASE LoadLedger(f)
    BY <1>1, <2>1, <2>2 DEF LoadLedger, RunFiles, Names
  <2>3. CASE ReadOriginal(f)
    <3>1. at[f] \in 0 .. 3 /\ at[f] < 3
      BY <2>3 DEF ReadOriginal, AtInv
    <3>2. at[f] + 1 \in 1 .. 3
      BY <3>1
    <3> QED
      BY <1>1, <2>1, <2>3, <3>2, Positions DEF ReadOriginal, RunFiles
  <2>4. CASE Load(f)
    BY <1>1, <2>1, <2>4 DEF Load, RunFiles
  <2>5. CASE Resolve(f) \/ Stage(f) \/ StageFails(f) \/ Fingerprint(f)
    BY <2>1, <2>5 DEF Resolve, Stage, StageFails, Fingerprint, RunFiles
  <2> QED
    BY <2>2, <2>3, <2>4, <2>5
<1>5. ref' \in [Finalizers -> Ref]
  <2>1. seen[f]["report"] \in Ref
    BY DEF TypeOK, RunFiles, Names
  <2> QED
    BY <2>1 DEF Load, LoadLedger, Resolve, ReadOriginal, Stage, StageFails, Fingerprint,
                TypeOK, Ref
<1>6. at' \in [Finalizers -> 0 .. 4]
  <2>1. at \in [Finalizers -> 0 .. 4]
    BY DEF TypeOK
  <2>2. \/ at' = at \/ at' = [at EXCEPT ![f] = 1] \/ at' = [at EXCEPT ![f] = 0]
        \/ at' = [at EXCEPT ![f] = at[f] + 1] /\ at[f] + 1 \in 0 .. 4
    <3>1. CASE ReadOriginal(f)
      <4>1. at[f] \in 0 .. 3
        BY <3>1 DEF ReadOriginal, AtInv
      <4> QED
        BY <3>1, <4>1 DEF ReadOriginal
    <3> QED
      BY <3>1 DEF Load, LoadLedger, Resolve, Stage, StageFails, Fingerprint
  <2> QED
    BY <2>1, <2>2
<1>7. met' \in [Calls -> SUBSET Calls]
  <2>1. CASE Load(f)
    BY <1>1, <2>1, BeginTyped DEF Load
  <2> QED
    BY <2>1 DEF LoadLedger, Resolve, ReadOriginal, Stage, StageFails, Fingerprint, TypeOK
<1>8. TypeOK'
  BY <1>2, <1>3, <1>4, <1>5, <1>6, <1>7
     DEF Load, LoadLedger, Resolve, ReadOriginal, Stage, StageFails, Fingerprint, TypeOK
<1>9. AtInv'
  <2> SUFFICES ASSUME NEW g \in Finalizers
               PROVE  /\ pc'[g] \in {"idle", "load", "resolve"} => at'[g] = 0
                      /\ pc'[g] = "stage" => at'[g] \in 0 .. 3
                      /\ pc'[g] = "replace" => at'[g] \in 1 .. Len(Updates(g)')
                      /\ pc'[g] = "rollback" => at'[g] \in 0 .. 3
    BY DEF AtInv
  <2>1. CASE g # f
    <3>1. pc'[g] = pc[g] /\ at'[g] = at[g] /\ text'[g] = text[g]
      BY <2>1 DEF Load, LoadLedger, Resolve, ReadOriginal, Stage, StageFails, Fingerprint,
                  Begin, Goto, TypeOK, Calls
    <3> QED
      BY <3>1 DEF AtInv, Updates
  <2>2. CASE g = f /\ Stage(f)
    <3>1. pc'[f] = "replace" /\ at'[f] = 1
      BY <1>1, <2>2 DEF Stage, Goto, TypeOK
    <3>2. 1 \in 1 .. Len(Updates(f)')
      BY UpdatesFacts DEF Updates
    <3> QED
      BY <2>2, <3>1, <3>2
  <2>3. CASE g = f /\ ReadOriginal(f)
    <3>1. pc'[f] = "stage" /\ at[f] \in 0 .. 3 /\ at[f] < 3 /\ at'[f] = at[f] + 1
      BY <1>1, <2>3 DEF ReadOriginal, TypeOK, AtInv
    <3> QED
      BY <2>3, <3>1
  <2>4. CASE g = f /\ (Load(f) \/ LoadLedger(f) \/ Resolve(f))
    <3>1. /\ pc[f] \in {"idle", "load", "resolve"} /\ at'[f] = at[f]
          /\ pc'[f] \in {"load", "resolve", "stage", "refused"}
      BY <1>1, <2>4 DEF Load, LoadLedger, Resolve, Begin, Goto, TypeOK
    <3>2. at[f] = 0
      BY <3>1 DEF AtInv
    <3> QED
      BY <2>4, <3>1, <3>2
  <2>5. CASE g = f /\ (StageFails(f) \/ Fingerprint(f))
    <3>1. pc'[f] \in {"failed", "done", "unfingerprinted"}
      BY <1>1, <2>5 DEF StageFails, Fingerprint, Goto, TypeOK
    <3> QED
      BY <2>5, <3>1
  <2> QED
    BY <2>1, <2>2, <2>3, <2>4, <2>5
<1> QED
  BY <1>8, <1>9

LEMMA ReplaceTyped ==
    ASSUME Typed, NEW f \in Finalizers,
           Replace(f) \/ ReplaceFails(f) \/ Restore(f) \/ RestoreFails(f) \/ RollbackDone(f)
    PROVE  Typed'
<1> USE DEF Typed, setting
<1>1. target[f] \in Runs /\ f \in Calls /\ at[f] \in 0 .. 4 /\ text' = text
  BY DEF TypeOK, Calls, Replace, ReplaceFails, Restore, RestoreFails, RollbackDone
<1>2. \A i \in 1 .. 3 : Updates(f)[i] \in Names
  BY Positions
<1>3. New(f) \in RunFiles /\ saved[f] \in RunFiles
  BY NewType DEF TypeOK
<1>4. Len(Updates(f)) = 3 \/ Len(Updates(f)) = 4
  BY UpdatesFacts
<1>5. pc' \in [Calls -> {"idle"} \cup Active \cup Ended]
  BY DEF Replace, ReplaceFails, Restore, RestoreFails, RollbackDone, Goto, TypeOK, Active, Ended
<1>6. at' \in [Finalizers -> 0 .. 4]
  <2>1. at \in [Finalizers -> 0 .. 4]
    BY DEF TypeOK
  <2>2. PICK i \in 0 .. 4 : at' = [at EXCEPT ![f] = i]
    <3>1. CASE Replace(f)
      <4>1. at[f] \in 1 .. Len(Updates(f))
        BY <3>1 DEF Replace, AtInv
      <4>2. (IF at[f] = Len(Updates(f)) THEN 0 ELSE at[f] + 1) \in 0 .. 4
        BY <1>1, <1>4, <4>1, Bounded
      <4>3. at' = [at EXCEPT ![f] = IF at[f] = Len(Updates(f)) THEN 0 ELSE at[f] + 1]
        BY <3>1 DEF Replace
      <4> QED
        BY <4>2, <4>3
    <3>2. CASE ReplaceFails(f)
      <4>1. at[f] \in 1 .. Len(Updates(f))
        BY <3>2 DEF ReplaceFails, AtInv
      <4>2. at[f] - 1 \in 0 .. 4
        BY <1>1, <1>4, <4>1, Bounded
      <4> QED
        BY <3>2, <4>2 DEF ReplaceFails
    <3>3. CASE Restore(f) \/ RestoreFails(f)
      <4>1. at[f] - 1 \in 0 .. 4
        BY <1>1, <3>3 DEF Restore, RestoreFails
      <4> QED
        BY <3>3, <4>1 DEF Restore, RestoreFails
    <3>4. CASE RollbackDone(f)
      <4>1. at' = [at EXCEPT ![f] = at[f]]
        BY <2>1, <3>4 DEF RollbackDone
      <4> QED
        BY <1>1, <4>1
    <3> QED
      BY <3>1, <3>2, <3>3, <3>4
  <2> QED
    BY <2>1, <2>2
<1>7. file' \in [Runs -> RunFiles]
  <2>1. file \in [Runs -> RunFiles]
    BY DEF TypeOK
  <2>2. \/ file' = file
        \/ \E n, v : /\ v \in RunFiles
                     /\ file' = [file EXCEPT ![target[f]] = [@ EXCEPT ![n] = v[n]]]
    BY <1>3 DEF Replace, ReplaceFails, Restore, RestoreFails, RollbackDone
  <2>3. ASSUME NEW n, NEW v \in RunFiles
        PROVE  [file[target[f]] EXCEPT ![n] = v[n]] \in RunFiles
    <3>1. file[target[f]] \in [Names -> Ref] /\ v \in [Names -> Ref]
      BY <1>1, <2>1 DEF RunFiles
    <3> QED
      BY <3>1 DEF RunFiles
  <2>4. CASE \E n, v : /\ v \in RunFiles
                       /\ file' = [file EXCEPT ![target[f]] = [@ EXCEPT ![n] = v[n]]]
    <3>1. PICK n, v : /\ v \in RunFiles
                      /\ file' = [file EXCEPT ![target[f]] = [@ EXCEPT ![n] = v[n]]]
      BY <2>4
    <3>2. [file[target[f]] EXCEPT ![n] = v[n]] \in RunFiles
      BY <2>3, <3>1
    <3> QED
      BY <1>1, <2>1, <3>1, <3>2
  <2> QED
    BY <2>1, <2>2, <2>4
<1>8. log' \in Seq(Finalizers) /\ handle' \in Splitters \cup {NoHandle}
  BY <1>1 DEF Replace, ReplaceFails, Restore, RestoreFails, RollbackDone, TypeOK
<1>9. issues' \in [Finalizers -> SUBSET Names]
  <2>1. CASE RestoreFails(f)
    <3>1. at[f] \in 1 .. 3
      BY <1>1, <2>1 DEF RestoreFails, AtInv
    <3> QED
      BY <1>2, <2>1, <3>1 DEF RestoreFails, TypeOK
  <2> QED
    BY <2>1 DEF Replace, ReplaceFails, Restore, RollbackDone, TypeOK
<1>10. TypeOK'
  BY <1>5, <1>6, <1>7, <1>8, <1>9
     DEF Replace, ReplaceFails, Restore, RestoreFails, RollbackDone, TypeOK
<1>11. AtInv'
  <2> SUFFICES ASSUME NEW g \in Finalizers
               PROVE  /\ pc'[g] \in {"idle", "load", "resolve"} => at'[g] = 0
                      /\ pc'[g] = "stage" => at'[g] \in 0 .. 3
                      /\ pc'[g] = "replace" => at'[g] \in 1 .. Len(Updates(g)')
                      /\ pc'[g] = "rollback" => at'[g] \in 0 .. 3
    BY DEF AtInv
  <2>1. Updates(g)' = Updates(g)
    BY <1>1 DEF Updates
  <2>2. CASE g # f
    <3>1. pc'[g] = pc[g] /\ at'[g] = at[g]
      BY <2>2 DEF Replace, ReplaceFails, Restore, RestoreFails, RollbackDone, Goto, TypeOK, Calls
    <3> QED
      BY <2>1, <3>1 DEF AtInv
  <2>3. CASE g = f
    BY <1>1, <1>4, <2>1, <2>3
       DEF Replace, ReplaceFails, Restore, RestoreFails, RollbackDone, Goto, TypeOK, AtInv
  <2> QED
    BY <2>2, <2>3
<1> QED
  BY <1>10, <1>11

LEMMA OtherTyped ==
    ASSUME Typed,
           \/ \E s \in Splitters : SplitStep(s)
           \/ \E c \in Calls : Crash(c)
           \/ UNCHANGED vars
    PROVE  Typed'
<1> USE DEF Typed, setting
<1>1. ASSUME NEW s \in Splitters, SplitStep(s)
      PROVE  Typed'
  <2> USE DEF SplitStep, SplitLoad, SplitAppend, SplitTruncate, SplitWrite
  <2>1. s \in Calls /\ s \notin Finalizers
    BY FinalizeAssumption DEF Calls
  <2>2. Kept(s) \in Seq(Finalizers) /\ Moved(s) \in Seq(Finalizers)
    BY SplitFacts
  <2>3. pc' \in [Calls -> {"idle"} \cup Active \cup Ended]
    BY <1>1 DEF Goto, TypeOK, Active, Ended
  <2>4. log' \in Seq(Finalizers) /\ text' \in [Calls -> Seq(Finalizers)]
    <3>1. log \in Seq(Finalizers) /\ text \in [Calls -> Seq(Finalizers)]
      BY DEF TypeOK
    <3>2. log' \in {log, <<>>, Kept(s)} /\ text' \in {text, [text EXCEPT ![s] = log]}
      BY <1>1
    <3>3. <<>> \in Seq(Finalizers)
      OBVIOUS
    <3> QED
      BY <2>2, <3>1, <3>2, <3>3
  <2>5. events' \in Seq(Finalizers)
    <3>1. events \in Seq(Finalizers)
      BY DEF TypeOK
    <3>2. events' = events \/ events' = events \o Moved(s)
      BY <1>1
    <3> QED
      BY <2>2, <3>1, <3>2, ConcatProperties
  <2>6. TypeOK'
    <3>1. met' \in [Calls -> SUBSET Calls]
      BY <1>1, <2>1, BeginTyped DEF TypeOK
    <3> QED
      BY <1>1, <2>3, <2>4, <2>5, <3>1 DEF TypeOK
  <2>7. \A g \in Finalizers : pc'[g] = pc[g] /\ text'[g] = text[g] /\ at' = at
    BY <1>1, <2>1 DEF Begin, Goto, TypeOK, Calls
  <2>8. AtInv'
    BY <2>7 DEF AtInv, Updates
  <2> QED
    BY <2>6, <2>8
<1>2. ASSUME NEW c \in Calls, Crash(c)
      PROVE  Typed'
  <2>1. TypeOK'
    BY <1>2 DEF Crash, Goto, TypeOK, Ended
  <2>2. AtInv'
    BY <1>2 DEF Crash, Goto, TypeOK, AtInv, Updates, Calls
  <2> QED
    BY <2>1, <2>2
<1>3. CASE UNCHANGED vars
  BY <1>3 DEF vars, TypeOK, AtInv, Updates
<1> QED
  BY <1>1, <1>2, <1>3

LEMMA TypedStep == Typed /\ [Next]_vars => Typed'
BY LoadTyped, ReplaceTyped, OtherTyped DEF Next, FinalizeStep, AllEnded

(* Every variable keeps its type; at stays within the updates there are    *)
(* (atomic_multi_write).                                                   *)
THEOREM TypeCorrect == Spec => []TypeOK
<1>1. Typed => TypeOK
  BY DEF Typed
<1> QED
  BY <1>1, InitTyped, TypedStep, PTL DEF Spec

-----------------------------------------------------------------------------
(* One call's step.                                                        *)
Step(c) ==
    \/ c \in Finalizers /\ FinalizeStep(c)
    \/ c \in Splitters /\ SplitStep(c)
    \/ Crash(c)

\* What a step of c does to the other calls: nothing but meeting them.
StepOf(c) ==
    /\ setting' = setting
    /\ \A d \in Calls \ {c} : pc'[d] = pc[d] /\ text'[d] = text[d]
    /\ \A g \in Finalizers \ {c} :
          /\ seen'[g] = seen[g] /\ ref'[g] = ref[g] /\ at'[g] = at[g]
          /\ saved'[g] = saved[g] /\ issues'[g] = issues[g]
    /\ Begin(c) \/ (pc[c] \in Active /\ met' = met)

LEMMA OneSteps ==
    ASSUME [Next]_vars
    PROVE  UNCHANGED vars \/ \E c \in Calls : Step(c)
BY DEF Next, AllEnded, Step, Calls

LEMMA OneStep ==
    ASSUME TypeOK, NEW c \in Calls, Step(c)
    PROVE  StepOf(c)
<1> USE DEF Goto, setting, StepOf
<1>1. CASE c \in Finalizers /\ FinalizeStep(c)
  <2>1. CASE Load(c) \/ LoadLedger(c) \/ Resolve(c) \/ ReadOriginal(c) \/ Stage(c)
             \/ StageFails(c) \/ Fingerprint(c)
    BY <1>1, <2>1 DEF Load, LoadLedger, Resolve, ReadOriginal, Stage, StageFails, Fingerprint,
                      TypeOK, Active
  <2>2. CASE Replace(c) \/ ReplaceFails(c) \/ Restore(c) \/ RestoreFails(c) \/ RollbackDone(c)
    BY <1>1, <2>2 DEF Replace, ReplaceFails, Restore, RestoreFails, RollbackDone, TypeOK, Active
  <2> QED
    BY <1>1, <2>1, <2>2 DEF FinalizeStep
<1>2. CASE c \in Splitters /\ SplitStep(c)
  BY <1>2 DEF SplitStep, SplitLoad, SplitAppend, SplitTruncate, SplitWrite, TypeOK, Active
<1>3. CASE Crash(c)
  BY <1>3 DEF Crash, TypeOK
<1> QED
  BY <1>1, <1>2, <1>3 DEF Step

\* What a call has met it keeps, and the call whose step it is meets all that run.
LEMMA Overlaps ==
    ASSUME TypeOK, MetInv, NEW c \in Calls, Step(c)
    PROVE  /\ \A d \in Calls : met[d] \subseteq met'[d]
           /\ \A d \in Calls \ {c} : pc[d] \in Active => c \in met'[d] /\ d \in met'[c]
           /\ \A f \in Finalizers : Unmet(f)' => Unmet(f)
<1>1. StepOf(c) /\ \A d \in Calls : pc[d] \in {"idle"} \cup Active \cup Ended
  BY OneStep DEF TypeOK
<1>2. "idle" \notin Active
  BY DEF Active
<1>3. CASE Begin(c)
  <2>1. /\ pc[c] = "idle" /\ met[c] = {} /\ met'[c] = Running
        /\ \A d \in Calls \ {c} :
              met'[d] = IF pc[d] \in Active THEN met[d] \cup {c} ELSE met[d]
    BY <1>3 DEF Begin, Running, MetInv
  <2>2. /\ \A d \in Calls : met[d] \subseteq met'[d]
        /\ \A d \in Calls \ {c} : pc[d] \in Active => c \in met'[d] /\ d \in met'[c]
    BY <2>1 DEF Running
  <2> QED
    BY <1>1, <2>2 DEF Unmet, OneRun, StepOf, setting, Calls
<1>4. CASE pc[c] \in Active /\ met' = met
  BY <1>1, <1>4 DEF StepOf, setting, MetInv, Unmet, OneRun
<1> QED
  BY <1>1, <1>3, <1>4 DEF StepOf

LEMMA MetStep ==
    ASSUME TypeOK, MetInv, NEW c \in Calls, Step(c)
    PROVE  MetInv'
<1>1. /\ \A d \in Calls : met[d] \subseteq met'[d]
      /\ \A d \in Calls \ {c} : pc[d] \in Active => c \in met'[d] /\ d \in met'[c]
      /\ \A d \in Calls \ {c} : pc'[d] = pc[d]
      /\ Begin(c) \/ (pc[c] \in Active /\ met' = met)
  BY Overlaps, OneStep DEF StepOf
<1>2. "idle" \notin Active
  BY DEF Active
<1>3. pc'[c] # "idle"
  <2>1. CASE c \in Finalizers /\ FinalizeStep(c)
    BY <2>1 DEF FinalizeStep, Load, LoadLedger, Resolve, ReadOriginal, Stage, StageFails, Fingerprint,
                Replace, ReplaceFails, Restore, RestoreFails, RollbackDone, Goto, TypeOK
  <2>2. CASE c \in Splitters /\ SplitStep(c)
    BY <2>2 DEF SplitStep, SplitLoad, SplitAppend, SplitTruncate, SplitWrite, Goto, TypeOK
  <2>3. CASE Crash(c)
    BY <2>3 DEF Crash, Goto, TypeOK
  <2> QED
    BY <2>1, <2>2, <2>3 DEF Step
<1>4. \A d \in Calls : pc'[d] = "idle" => met'[d] = {}
  <2>1. \A d \in Calls \ {c} : pc[d] = "idle" => met'[d] = met[d]
    BY <1>1, <1>2 DEF Begin, Running
  <2> QED
    BY <1>1, <1>3, <2>1 DEF MetInv
<1>5. \A d, e \in Calls : d # e /\ pc'[d] \in Active /\ pc'[e] \in Active => e \in met'[d]
  BY <1>1 DEF MetInv
<1> QED
  BY <1>4, <1>5 DEF MetInv

\* A step of another call leaves what a call holds alone.
LEMMA OtherKeeps ==
    ASSUME TypeOK, NEW c \in Calls, Step(c), NEW f \in Finalizers, f # c
    PROVE  /\ pc'[f] = pc[f] /\ text'[f] = text[f] /\ seen'[f] = seen[f] /\ ref'[f] = ref[f]
           /\ at'[f] = at[f] /\ saved'[f] = saved[f] /\ issues'[f] = issues[f]
           /\ target' = target /\ required' = required /\ allowed' = allowed
           /\ New(f)' = New(f) /\ Updates(f)' = Updates(f)
<1>1. StepOf(c) /\ f \in Calls
  BY OneStep DEF Calls
<1> QED
  BY <1>1 DEF StepOf, setting, New, Updates

LEMMA OwnStep ==
    ASSUME Typed, OwnInv, NEW c \in Calls, Step(c)
    PROVE  OwnInv'
<1> USE DEF Goto, setting, Typed
<1> DEFINE Own(f) == /\ pc[f] \in Unread => text[f] = <<>>
                     /\ pc[f] \in Unread \cup {"stage", "replace"} => issues[f] = {}
                     /\ text[f] # <<>> => f \in Entries(text[f])
                     /\ pc[f] \in Writing => Resolved(f)
<1> SUFFICES ASSUME NEW f \in Finalizers
             PROVE  Own(f)'
  BY DEF OwnInv
<1>1. Own(f) /\ f \in Calls /\ f \notin Splitters
  BY FinalizeAssumption DEF OwnInv, Calls
<1>2. CASE f # c
  BY <1>1, <1>2, OtherKeeps DEF Resolved, Entries
<1>3. CASE f = c /\ Resolve(f)
  <2>1. /\ pc[f] = "resolve" /\ pc'[f] \in {"stage", "refused"} /\ text[f] = <<>>
        /\ UNCHANGED <<seen, issues, target, required>>
    BY <1>1, <1>3 DEF Resolve, TypeOK, Unread
  <2>2. /\ Append(log, f) # <<>>
        /\ Entries(Append(log, f)) = Entries(log) \cup {f}
    BY AppendEntries DEF TypeOK
  <2>3. text'[f] \in {<<>>, Append(log, f)}
    BY <1>1, <1>3, <2>1 DEF Resolve, TypeOK
  <2>4. pc'[f] = "stage" => Resolved(f)'
    BY <1>1, <1>3, <2>1, <2>2 DEF Resolve, Resolved, TypeOK
  <2>5. text'[f] # <<>> => f \in Entries(text'[f])
    BY <2>2, <2>3
  <2> QED
    BY <1>1, <2>1, <2>4, <2>5 DEF Unread, Writing, Entries
<1>4. CASE f = c /\ (Load(f) \/ LoadLedger(f))
  <2>1. /\ pc[f] \in Unread /\ pc'[f] \in Unread \cup {"refused"}
        /\ UNCHANGED <<text, issues>>
    BY <1>1, <1>4 DEF Load, LoadLedger, Begin, TypeOK, Unread
  <2> QED
    BY <1>1, <2>1 DEF Unread, Writing, Entries
<1>5. CASE f = c /\ (ReadOriginal(f) \/ Stage(f) \/ Replace(f))
  <2>1. /\ pc[f] \in {"stage", "replace"} /\ pc'[f] \in {"stage", "replace", "fingerprint"}
        /\ UNCHANGED <<text, issues, seen, ref, target, required>>
    BY <1>1, <1>5 DEF ReadOriginal, Stage, Replace, TypeOK
  <2> QED
    BY <1>1, <2>1 DEF Unread, Writing, Entries, Resolved
<1>6. CASE f = c /\ (ReplaceFails(f) \/ Restore(f) \/ RestoreFails(f) \/ RollbackDone(f))
  <2>1. /\ pc[f] \in {"replace", "rollback"} /\ pc'[f] \in {"rollback", "failed"}
        /\ UNCHANGED <<text, seen, ref, target, required>>
    BY <1>1, <1>6 DEF ReplaceFails, Restore, RestoreFails, RollbackDone, TypeOK
  <2> QED
    BY <1>1, <2>1 DEF Unread, Writing, Entries, Resolved
<1>7. CASE f = c /\ (StageFails(f) \/ Fingerprint(f) \/ Crash(f))
  <2>1. pc'[f] \in Ended /\ text' = text
    BY <1>1, <1>7 DEF StageFails, Fingerprint, Crash, TypeOK, Ended
  <2> QED
    BY <1>1, <2>1 DEF Ended, Unread, Writing, Entries
<1> QED
  BY <1>1, <1>2, <1>3, <1>4, <1>5, <1>6, <1>7 DEF Step, FinalizeStep

-----------------------------------------------------------------------------
(* The entries there are.                                                  *)

\* A replacement of the log is its call's last, and writes the call's text.
LEMMA ReplaceLog ==
    ASSUME Typed, NEW f \in Finalizers, Replace(f)
    PROVE  \/ /\ at[f] = 4 /\ text[f] # <<>>
              /\ log' = text[f] /\ handle' = NoHandle /\ file' = file
              /\ pc'[f] = "fingerprint"
           \/ /\ at[f] \in 1 .. 3
              /\ log' = log /\ handle' = handle
              /\ file' = [file EXCEPT ![target[f]] =
                             [@ EXCEPT ![RunUpdates[at[f]]] = New(f)[RunUpdates[at[f]]]]]
              /\ pc'[f] = "replace" => at'[f] = at[f] + 1
              /\ at[f] # 3 => pc'[f] = "replace"
              /\ text[f] # <<>> => pc'[f] = "replace"
<1>1. /\ pc[f] = "replace" /\ f \in Calls /\ pc \in [Calls -> {"idle"} \cup Active \cup Ended]
      /\ at \in [Finalizers -> 0 .. 4]
  BY DEF Replace, Typed, TypeOK, Calls
<1>2. CASE at[f] \in 1 .. 3
  <2>1. Updates(f)[at[f]] = RunUpdates[at[f]] /\ RunUpdates[at[f]] # "log"
    BY <1>2, Positions
  <2>2. Len(Updates(f)) = IF text[f] = <<>> THEN 3 ELSE 4
    BY UpdatesFacts
  <2>3. /\ log' = log /\ handle' = handle
        /\ file' = [file EXCEPT ![target[f]] =
                       [@ EXCEPT ![RunUpdates[at[f]]] = New(f)[RunUpdates[at[f]]]]]
    BY <2>1 DEF Replace
  <2>4. /\ pc'[f] = IF at[f] = Len(Updates(f)) THEN "fingerprint" ELSE "replace"
        /\ at'[f] = IF at[f] = Len(Updates(f)) THEN 0 ELSE at[f] + 1
    BY <1>1 DEF Replace, Goto
  <2>5. at[f] # 4
    BY <1>2
  <2> QED
    BY <1>2, <2>2, <2>3, <2>4, <2>5
<1>3. CASE at[f] \notin 1 .. 3
  <2>1. at[f] = 4 /\ text[f] # <<>>
    BY <1>1, <1>3, LastUpdate
  <2>2. Updates(f)[at[f]] = "log" /\ at[f] = Len(Updates(f))
    BY <2>1, UpdatesFacts
  <2> QED
    BY <1>1, <2>1, <2>2 DEF Replace, Goto
<1> QED
  BY <1>2, <1>3

\* Only a replacement, or a split, writes the log.
LEMMA LogStep ==
    ASSUME TypeOK, NEW f \in Finalizers, FinalizeStep(f)
    PROVE  /\ events' = events
           /\ ~ Replace(f) => log' = log /\ handle' = handle
           /\ ~ Resolve(f) => text' = text
BY DEF FinalizeStep, Load, LoadLedger, Resolve, ReadOriginal, Stage, StageFails, Fingerprint,
       Replace, ReplaceFails, Restore, RestoreFails, RollbackDone

\* The log gets an entry only from its call's last replacement.
LEMMA KnownStep ==
    ASSUME Typed, NEW c \in Calls, Step(c)
    PROVE  \A e \in Known' \ Known :
              /\ e \in Finalizers /\ e = c /\ Replace(e) /\ at[e] = 4 /\ text[e] # <<>>
<1> USE DEF Typed
<1>1. /\ log \in Seq(Finalizers) /\ events \in Seq(Finalizers)
      /\ \A d \in Calls : text[d] \in Seq(Finalizers)
      /\ text \in [Calls -> Seq(Finalizers)]
  BY DEF TypeOK
<1>2. \A d \in Calls \ {c} : text'[d] = text[d]
  BY OneStep DEF StepOf
<1>3. \A d \in Calls : Entries(text[d]) \subseteq Known \cup {d}
  BY DEF Known
<1>4. Entries(log) \subseteq Known /\ Entries(events) \subseteq Known
  BY DEF Known, Logged
<1>5. ASSUME Entries(text'[c]) \subseteq Known \cup {c}
      PROVE  \A d \in Calls : Entries(text'[d]) \ {d} \subseteq Known
  BY <1>2, <1>3, <1>5 DEF Entries
<1>6. ASSUME Entries(text'[c]) \subseteq Known \cup {c},
             Entries(log') \subseteq Known, Entries(events') \subseteq Known
      PROVE  Known' \subseteq Known
  <2>1. \A d \in Calls : Entries(text'[d]) \ {d} \subseteq Known
    BY <1>5, <1>6
  <2>2. Known' = (Entries(log') \cup Entries(events'))
                     \cup UNION {Entries(text'[d]) \ {d} : d \in Calls}
    BY DEF Known, Logged, Entries
  <2> QED
    BY <1>6, <2>1, <2>2
<1>7. CASE c \in Finalizers /\ FinalizeStep(c) /\ ~ Replace(c)
  <2>1. log' = log /\ events' = events
    BY <1>7, LogStep
  <2>2. Entries(text'[c]) \subseteq Entries(text[c]) \cup Entries(log) \cup {c}
    <3>1. CASE Resolve(c)
      <4>1. Entries(Append(log, c)) = Entries(log) \cup {c}
        BY <1>1, <1>7, AppendEntries
      <4>2. text'[c] \in {text[c], Append(log, c)}
        BY <1>1, <3>1 DEF Resolve
      <4> QED
        BY <4>1, <4>2
    <3>2. CASE ~ Resolve(c)
      BY <1>7, <3>2, LogStep
    <3> QED
      BY <3>1, <3>2
  <2>3. Entries(text'[c]) \subseteq Known \cup {c}
    BY <1>3, <1>4, <2>2
  <2> QED
    BY <1>4, <1>6, <2>1, <2>3
<1>8. CASE c \in Finalizers /\ FinalizeStep(c) /\ Replace(c)
  <2>1. text' = text /\ events' = events
    BY <1>8, LogStep DEF Replace
  <2>2. CASE at[c] = 4 /\ text[c] # <<>> /\ log' = text[c]
    <3>1. Known' = (Entries(log') \cup Entries(events'))
                     \cup UNION {Entries(text'[d]) \ {d} : d \in Calls}
      BY DEF Known, Logged, Entries
    <3>2. Known' \subseteq Known \cup {c}
      BY <1>3, <1>4, <2>1, <2>2, <3>1 DEF Known
    <3> QED
      BY <1>8, <2>2, <3>2
  <2>3. CASE log' = log
    BY <1>3, <1>4, <1>6, <2>1, <2>3
  <2> QED
    BY <1>8, <2>2, <2>3, ReplaceLog
<1>9. CASE c \in Splitters /\ SplitStep(c)
  <2>1. c \notin Finalizers /\ Entries(text[c]) \subseteq Known
    <3>1. c \notin Finalizers
      BY <1>9, FinalizeAssumption
    <3>2. Entries(text[c]) \subseteq Finalizers
      BY <1>1 DEF Entries
    <3> QED
      BY <1>3, <3>1, <3>2
  <2>2. /\ Entries(Moved(c)) \subseteq Known /\ Entries(Kept(c)) \subseteq Known
        /\ Entries(events \o Moved(c)) = Entries(events) \cup Entries(Moved(c))
    BY <1>1, <1>9, <2>1, SplitFacts, ConcatEntries
  <2>3. Entries(<<>>) = {}
    BY DEF Entries
  <2>4. /\ text'[c] \in {text[c], log}
        /\ events' \in {events, events \o Moved(c)}
        /\ log' \in {log, <<>>, Kept(c)}
    BY <1>1, <1>9 DEF SplitStep, SplitLoad, SplitAppend, SplitTruncate, SplitWrite
  <2> QED
    BY <1>4, <1>6, <2>1, <2>2, <2>3, <2>4
<1>10. CASE Crash(c)
  <2>1. UNCHANGED <<text, log, events>>
    BY <1>10 DEF Crash
  <2> QED
    BY <1>3, <1>4, <1>6, <2>1
<1> QED
  BY <1>7, <1>8, <1>9, <1>10 DEF Step

\* A call never goes back to an earlier part.
LEMMA Onwards ==
    ASSUME TypeOK, NEW c \in Calls, Step(c), NEW d \in Calls
    PROVE  /\ pc'[d] \in Unread \cup Writing => pc[d] \in Unread \cup Writing
           /\ pc'[d] \in Unread \cup {"stage"} => pc[d] \in Unread \cup {"stage"}
           /\ pc[d] \in Ended => pc'[d] = pc[d]
<1> USE DEF Goto, Unread, Writing, Ended
<1>1. CASE d # c
  BY <1>1, OneStep DEF StepOf
<1>2. CASE d = c /\ c \in Finalizers /\ FinalizeStep(c)
  BY <1>2 DEF FinalizeStep, Load, LoadLedger, Resolve, ReadOriginal, Stage, StageFails, Fingerprint,
              Replace, ReplaceFails, Restore, RestoreFails, RollbackDone, Begin, TypeOK
<1>3. CASE d = c /\ c \in Splitters /\ SplitStep(c)
  BY <1>3 DEF SplitStep, SplitLoad, SplitAppend, SplitTruncate, SplitWrite, Begin, TypeOK
<1>4. CASE d = c /\ Crash(c)
  BY <1>4 DEF Crash, TypeOK, Active
<1> QED
  BY <1>1, <1>2, <1>3, <1>4 DEF Step

\* A call whose entry is not known yet does not make it known before it is through.
LEMMA FreshStep ==
    ASSUME Typed, FreshInv, NEW c \in Calls, Step(c)
    PROVE  FreshInv'
<1> SUFFICES ASSUME NEW f \in Finalizers, pc'[f] \in Unread \cup Writing, f \in Known'
             PROVE  FALSE
  BY DEF FreshInv
<1>1. f \in Calls /\ TypeOK
  BY DEF Typed, Calls
<1>2. f \notin Known
  BY <1>1, Onwards DEF FreshInv
<1>3. Replace(f) /\ at[f] = 4
  BY <1>2, KnownStep
<1>4. at[f] \notin 1 .. 3
  BY <1>3
<1>5. pc'[f] = "fingerprint"
  BY <1>3, <1>4, ReplaceLog, Zenon
<1> QED
  BY <1>5 DEF Unread, Writing

-----------------------------------------------------------------------------
(* The run's files.                                                        *)

\* A step writes one file of one run: the one its call is at.
Writes(c, i) ==
    /\ c \in Finalizers /\ at[c] = i
    /\ \A r \in Runs \ {target[c]} : file'[r] = file[r]
    /\ \A j \in 1 .. 3 \ {i} :
          file'[target[c]][RunUpdates[j]] = file[target[c]][RunUpdates[j]]
    /\ \/ /\ Replace(c) /\ pc[c] = "replace"
          /\ file'[target[c]][RunUpdates[i]] = New(c)[RunUpdates[i]]
       \/ /\ Restore(c) /\ pc[c] = "rollback"
          /\ file'[target[c]][RunUpdates[i]] = saved[c][RunUpdates[i]]

LEMMA FileStep ==
    ASSUME Typed, NEW c \in Calls, Step(c)
    PROVE  file' = file \/ \E i \in 1 .. 3 : Writes(c, i)
<1> USE DEF Typed
<1>1. ASSUME c \in Finalizers, NEW i \in 1 .. 3, NEW v,
             file' = [file EXCEPT ![target[c]] = [@ EXCEPT ![RunUpdates[i]] = v]]
      PROVE  /\ \A r \in Runs \ {target[c]} : file'[r] = file[r]
             /\ \A j \in 1 .. 3 \ {i} :
                   file'[target[c]][RunUpdates[j]] = file[target[c]][RunUpdates[j]]
             /\ file'[target[c]][RunUpdates[i]] = v
  <2>1. /\ file \in [Runs -> [Names -> Ref]] /\ target[c] \in Runs
        /\ \A j \in 1 .. 3 : RunUpdates[j] \in Names
        /\ \A j \in 1 .. 3 \ {i} : RunUpdates[j] # RunUpdates[i]
    BY <1>1, Positions DEF TypeOK, RunFiles
  <2>2. file'[target[c]] = [file[target[c]] EXCEPT ![RunUpdates[i]] = v]
    BY <1>1, <2>1
  <2>3. \A r \in Runs \ {target[c]} : file'[r] = file[r]
    BY <1>1, <2>1
  <2> QED
    BY <2>1, <2>2, <2>3
<1>2. CASE c \in Finalizers /\ Replace(c)
  <2>1. pc[c] = "replace"
    BY <1>2 DEF Replace
  <2>2. CASE file' # file
    <3>1. PICK i \in 1 .. 3 : /\ at[c] = i
                              /\ file' = [file EXCEPT ![target[c]] =
                                            [@ EXCEPT ![RunUpdates[i]] = New(c)[RunUpdates[i]]]]
      BY <1>2, <2>2, ReplaceLog
    <3> DEFINE v == New(c)[RunUpdates[i]]
    <3>2. file' = [file EXCEPT ![target[c]] = [@ EXCEPT ![RunUpdates[i]] = v]]
      BY <3>1
    <3> HIDE DEF v
    <3>3. /\ \A r \in Runs \ {target[c]} : file'[r] = file[r]
          /\ \A j \in 1 .. 3 \ {i} :
                file'[target[c]][RunUpdates[j]] = file[target[c]][RunUpdates[j]]
          /\ file'[target[c]][RunUpdates[i]] = v
      BY <1>1, <1>2, <3>2
    <3> QED
      BY <1>2, <2>1, <3>1, <3>3 DEF Writes, v
  <2> QED
    BY <2>2
<1>3. CASE c \in Finalizers /\ Restore(c)
  <2>1. pc[c] = "rollback" /\ at[c] \in 1 .. 3
    BY <1>3 DEF Restore, AtInv
  <2>2. Updates(c)[at[c]] = RunUpdates[at[c]]
    BY <2>1, Positions
  <2>3. PICK i \in 1 .. 3 : /\ at[c] = i
                            /\ file' = [file EXCEPT ![target[c]] =
                                          [@ EXCEPT ![RunUpdates[i]] = saved[c][RunUpdates[i]]]]
    BY <1>3, <2>1, <2>2 DEF Restore
  <2> DEFINE v == saved[c][RunUpdates[i]]
  <2>4. file' = [file EXCEPT ![target[c]] = [@ EXCEPT ![RunUpdates[i]] = v]]
    BY <2>3
  <2> HIDE DEF v
  <2>5. /\ \A r \in Runs \ {target[c]} : file'[r] = file[r]
        /\ \A j \in 1 .. 3 \ {i} :
              file'[target[c]][RunUpdates[j]] = file[target[c]][RunUpdates[j]]
        /\ file'[target[c]][RunUpdates[i]] = v
    BY <1>1, <1>3, <2>4
  <2> QED
    BY <1>3, <2>1, <2>3, <2>5 DEF Writes, v
<1>4. CASE c \in Finalizers /\ FinalizeStep(c) /\ ~ Replace(c) /\ ~ Restore(c)
  BY <1>4 DEF FinalizeStep, Load, LoadLedger, Resolve, ReadOriginal, Stage, StageFails, Fingerprint,
              ReplaceFails, RestoreFails, RollbackDone
<1>5. CASE c \in Splitters /\ SplitStep(c)
  BY <1>5 DEF SplitStep, SplitLoad, SplitAppend, SplitTruncate, SplitWrite
<1>6. CASE Crash(c)
  BY <1>6 DEF Crash
<1> QED
  BY <1>2, <1>3, <1>4, <1>5, <1>6 DEF Step

\* Files, loaded or kept, that agree name by name are the same.
LEMMA SameFiles ==
    ASSUME NEW p \in RunFiles, NEW q \in RunFiles,
           \A i \in 1 .. 3 : p[RunUpdates[i]] = q[RunUpdates[i]]
    PROVE  p = q
<1>1. \A n \in Names : p[n] = q[n]
  BY Positions
<1> QED
  BY <1>1 DEF RunFiles

LEMMA LoadCall ==
    ASSUME Typed, NEW f \in Finalizers, FilesAsKnown(f),
           \/ Load(f) \/ LoadLedger(f) \/ Resolve(f) \/ ReadOriginal(f) \/ Stage(f)
    PROVE  FilesAsKnown(f)'
<1> USE DEF Goto, setting
<1>1. /\ f \in Calls /\ target[f] \in Runs /\ file[target[f]] \in RunFiles
      /\ seen[f] \in RunFiles /\ saved[f] \in RunFiles
      /\ pc \in [Calls -> {"idle"} \cup Active \cup Ended] /\ at \in [Finalizers -> 0 .. 4]
      /\ seen \in [Finalizers -> RunFiles] /\ saved \in [Finalizers -> RunFiles]
      /\ text \in [Calls -> Seq(Finalizers)]
  BY DEF Typed, TypeOK, Calls
<1>2. file' = file /\ target' = target
  BY DEF Load, LoadLedger, Resolve, ReadOriginal, Stage
<1>3. CASE Load(f)
  <2>1. pc'[f] = "load" /\ seen'[f] = file[target[f]]
    BY <1>1, <1>3 DEF Load
  <2> QED
    BY <1>2, <2>1 DEF FilesAsKnown
<1>4. CASE LoadLedger(f)
  <2>1. /\ pc[f] = "load" /\ pc'[f] \in {"resolve", "refused"}
        /\ seen'[f] = [seen[f] EXCEPT !["ledger"] = file[target[f]]["ledger"]]
    BY <1>1, <1>4 DEF LoadLedger
  <2>2. file[target[f]] = seen[f]
    BY <2>1 DEF FilesAsKnown
  <2>3. seen'[f] = seen[f]
    BY <1>1, <2>1, <2>2 DEF RunFiles
  <2> QED
    BY <1>2, <2>1, <2>2, <2>3 DEF FilesAsKnown
<1>5. CASE Resolve(f)
  <2>1. /\ pc[f] = "resolve" /\ pc'[f] \in {"stage", "refused"}
        /\ UNCHANGED <<seen, saved, at>>
    BY <1>1, <1>5 DEF Resolve
  <2>2. at[f] = 0 /\ \A i \in 1 .. 3 : ~ (i <= at[f])
    BY <2>1 DEF Typed, AtInv
  <2> QED
    BY <1>2, <2>1, <2>2 DEF FilesAsKnown
<1>6. CASE ReadOriginal(f)
  <2>1. /\ pc[f] = "stage" /\ pc'[f] = "stage" /\ seen' = seen
        /\ at[f] \in 0 .. 3 /\ at[f] < 3 /\ at'[f] = at[f] + 1
    BY <1>1, <1>6 DEF ReadOriginal, Typed, AtInv
  <2>2. at[f] + 1 \in 1 .. 3
    BY <2>1
  <2>3. PICK k \in 1 .. 3 : /\ k = at[f] + 1
                            /\ saved'[f] = [saved[f] EXCEPT ![RunUpdates[k]] =
                                              file[target[f]][RunUpdates[k]]]
    BY <1>1, <1>6, <2>2 DEF ReadOriginal
  <2>4. file[target[f]] = seen[f]
        /\ \A i \in 1 .. 3 : i <= at[f] => saved[f][RunUpdates[i]] = seen[f][RunUpdates[i]]
    BY <2>1 DEF FilesAsKnown
  <2>5. \A i \in 1 .. 3 : i <= at'[f] => i = k \/ i <= at[f]
    BY <2>1, <2>3
  <2>6. \A i \in 1 .. 3 : RunUpdates[i] \in Names
    BY Positions
  <2>7. \A i \in 1 .. 3 : i <= at'[f] => saved'[f][RunUpdates[i]] = seen[f][RunUpdates[i]]
    BY <1>1, <2>3, <2>4, <2>5, <2>6 DEF RunFiles
  <2> QED
    BY <1>2, <2>1, <2>4, <2>7 DEF FilesAsKnown
<1>7. CASE Stage(f)
  <2>1. /\ pc[f] = "stage" /\ at[f] = 3 /\ pc'[f] = "replace" /\ at'[f] = 1
        /\ UNCHANGED <<seen, saved>>
    BY <1>1, <1>7 DEF Stage
  <2>2. file[target[f]] = seen[f]
        /\ \A i \in 1 .. 3 : saved[f][RunUpdates[i]] = seen[f][RunUpdates[i]]
    BY <2>1 DEF FilesAsKnown
  <2>3. saved[f] = seen[f]
    BY <1>1, <2>2, SameFiles
  <2>4. \A i \in 1 .. 3 : ~ (i < at'[f])
    BY <2>1
  <2> QED
    BY <1>2, <2>1, <2>2, <2>3, <2>4 DEF FilesAsKnown
<1> QED
  BY <1>3, <1>4, <1>5, <1>6, <1>7

LEMMA ReplaceCall ==
    ASSUME Typed, OwnInv, NEW f \in Finalizers, FilesAsKnown(f), Step(f),
           Replace(f) \/ ReplaceFails(f)
    PROVE  FilesAsKnown(f)'
<1> USE DEF Goto, setting
<1>1. /\ f \in Calls /\ pc[f] = "replace" /\ target' = target
      /\ UNCHANGED <<seen, saved, issues>>
      /\ pc \in [Calls -> {"idle"} \cup Active \cup Ended] /\ at \in [Finalizers -> 0 .. 4]
      /\ New(f)' = New(f)
  BY DEF Typed, TypeOK, Calls, Replace, ReplaceFails, New
<1>2. /\ saved[f] = seen[f]
      /\ \A i \in 1 .. 3 : LET n == RunUpdates[i] IN
            file[target[f]][n] = IF i < at[f] THEN New(f)[n] ELSE seen[f][n]
  BY <1>1 DEF FilesAsKnown
<1>3. CASE Replace(f) /\ pc'[f] = "replace"
  <2>1. at[f] \in 1 .. 3
    BY <1>3, ReplaceLog
  <2>2. at'[f] = at[f] + 1
    BY <1>3, <2>1, ReplaceLog
  <2>3. PICK k \in 1 .. 3 :
            /\ at[f] = k
            /\ file' = [file EXCEPT ![target[f]] =
                          [@ EXCEPT ![RunUpdates[k]] = New(f)[RunUpdates[k]]]]
    BY <1>3, <2>1, ReplaceLog
  <2>4. /\ file \in [Runs -> [Names -> Ref]] /\ target[f] \in Runs
        /\ \A i \in 1 .. 3 : RunUpdates[i] \in Names
        /\ \A i \in 1 .. 3 \ {k} : RunUpdates[i] # RunUpdates[k]
    BY Positions DEF Typed, TypeOK, RunFiles
  <2>5. \A i \in 1 .. 3 : file'[target[f]][RunUpdates[i]] =
            IF i = k THEN New(f)[RunUpdates[k]] ELSE file[target[f]][RunUpdates[i]]
    BY <2>3, <2>4
  <2>6. \A i \in 1 .. 3 : i < at'[f] <=> (i = k \/ i < at[f])
    BY <2>2, <2>3
  <2>7. \A i \in 1 .. 3 : LET n == RunUpdates[i] IN
            file'[target[f]][n] = IF i < at'[f] THEN New(f)[n] ELSE seen[f][n]
    BY <1>2, <2>5, <2>6
  <2> QED
    BY <1>1, <1>2, <1>3, <2>7 DEF FilesAsKnown
<1>4. CASE Replace(f) /\ pc'[f] # "replace"
  <2>1. pc'[f] = "fingerprint"
    BY <1>1, <1>4 DEF Replace
  <2> QED
    BY <2>1 DEF FilesAsKnown
<1>5. CASE ReplaceFails(f)
  <2>1. pc'[f] = "rollback" /\ at'[f] = at[f] - 1 /\ file' = file
    BY <1>1, <1>5 DEF ReplaceFails
  <2>2. \A i \in 1 .. 3 : i > at'[f] => ~ (i < at[f])
    BY <1>1, <2>1
  <2>3. \A i \in 1 .. 3 : i > at'[f] => file[target[f]][RunUpdates[i]] = seen[f][RunUpdates[i]]
    BY <1>2, <2>2
  <2>4. \A i \in 1 .. 3 :
            file[target[f]][RunUpdates[i]] \in {New(f)[RunUpdates[i]], seen[f][RunUpdates[i]]}
    BY <1>2
  <2> QED
    BY <1>1, <1>2, <2>1, <2>3, <2>4 DEF FilesAsKnown
<1> QED
  BY <1>3, <1>4, <1>5

LEMMA RollbackCall ==
    ASSUME Typed, NEW f \in Finalizers, FilesAsKnown(f), Step(f),
           Restore(f) \/ RestoreFails(f)
    PROVE  FilesAsKnown(f)'
<1> USE DEF Goto, setting
<1>1. /\ f \in Calls /\ pc[f] = "rollback" /\ pc'[f] = "rollback" /\ target' = target
      /\ at[f] \in 1 .. 3 /\ at'[f] = at[f] - 1
      /\ UNCHANGED <<seen, saved>> /\ New(f)' = New(f)
  BY DEF Typed, TypeOK, Calls, Restore, RestoreFails, New, AtInv
<1>2. /\ saved[f] = seen[f]
      /\ \A i \in 1 .. 3 : LET n == RunUpdates[i] IN
            i > at[f] => file[target[f]][n] = seen[f][n] \/ n \in issues[f]
      /\ \A i \in 1 .. 3 : LET n == RunUpdates[i] IN
            file[target[f]][n] \in {New(f)[n], seen[f][n]}
  BY <1>1 DEF FilesAsKnown
<1>3. \A i \in 1 .. 3 : i > at'[f] => i = at[f] \/ i > at[f]
  BY <1>1
<1>4. CASE Restore(f)
  <2>1. issues' = issues
    BY <1>4 DEF Restore
  <2>2. PICK k \in 1 .. 3 :
            /\ at[f] = k
            /\ file' = [file EXCEPT ![target[f]] =
                          [@ EXCEPT ![RunUpdates[k]] = saved[f][RunUpdates[k]]]]
    <3>1. Updates(f)[at[f]] = RunUpdates[at[f]]
      BY <1>1, Positions
    <3> QED
      BY <1>1, <1>4, <3>1 DEF Restore
  <2>3. /\ file \in [Runs -> [Names -> Ref]] /\ target[f] \in Runs
        /\ \A i \in 1 .. 3 : RunUpdates[i] \in Names
        /\ \A i \in 1 .. 3 \ {k} : RunUpdates[i] # RunUpdates[k]
    BY Positions DEF Typed, TypeOK, RunFiles
  <2>4. \A i \in 1 .. 3 : file'[target[f]][RunUpdates[i]] =
            IF i = k THEN seen[f][RunUpdates[k]] ELSE file[target[f]][RunUpdates[i]]
    BY <1>2, <2>2, <2>3
  <2>5. /\ \A i \in 1 .. 3 : LET n == RunUpdates[i] IN
              i > at'[f] => file'[target[f]][n] = seen[f][n] \/ n \in issues[f]
        /\ \A i \in 1 .. 3 : LET n == RunUpdates[i] IN
              file'[target[f]][n] \in {New(f)[n], seen[f][n]}
    BY <1>2, <1>3, <2>2, <2>4
  <2> QED
    BY <1>1, <1>2, <2>1, <2>5 DEF FilesAsKnown
<1>5. CASE RestoreFails(f)
  <2>1. file' = file /\ issues'[f] = issues[f] \cup {Updates(f)[at[f]]}
    BY <1>5 DEF RestoreFails, Typed, TypeOK
  <2>2. Updates(f)[at[f]] = RunUpdates[at[f]]
    BY <1>1, Positions
  <2>3. \A i \in 1 .. 3 : LET n == RunUpdates[i] IN
            i > at'[f] => file[target[f]][n] = seen[f][n] \/ n \in issues'[f]
    BY <1>2, <1>3, <2>1, <2>2
  <2> QED
    BY <1>1, <1>2, <2>1, <2>3 DEF FilesAsKnown
<1> QED
  BY <1>4, <1>5

LEMMA CallStep ==
    ASSUME Typed, MetInv, OwnInv, CallInv, NEW c \in Calls, Step(c)
    PROVE  CallInv'
<1> SUFFICES ASSUME NEW f \in Finalizers, Unmet(f)'
             PROVE  FilesAsKnown(f)'
  BY DEF CallInv
<1>1. TypeOK /\ f \in Calls
  BY DEF Typed, Calls
<1>2. FilesAsKnown(f)
  BY <1>1, Overlaps DEF CallInv
<1>3. CASE f # c /\ pc[f] \in Active
  <2>1. c \notin OneRun(f)
    <3>1. c \in met'[f] /\ target' = target
      BY <1>1, <1>3, Overlaps, OtherKeeps
    <3>2. OneRun(f)' = OneRun(f)
      BY <3>1 DEF OneRun
    <3> QED
      BY <3>1, <3>2 DEF Unmet
  <2>2. file'[target[f]] = file[target[f]]
    <3>1. ASSUME NEW i \in 1 .. 3, Writes(c, i)
          PROVE  file'[target[f]] = file[target[f]]
      BY <1>1, <2>1, <3>1 DEF Writes, OneRun, TypeOK
    <3> QED
      BY <1>1, <3>1, FileStep
  <2>3. /\ pc'[f] = pc[f] /\ seen'[f] = seen[f] /\ at'[f] = at[f] /\ saved'[f] = saved[f]
        /\ issues'[f] = issues[f] /\ target' = target /\ New(f)' = New(f)
    BY <1>1, <1>3, OtherKeeps
  <2> QED
    BY <1>2, <2>2, <2>3 DEF FilesAsKnown
<1>4. CASE pc'[f] \notin Active
  <2>1. pc'[f] \notin {"load", "resolve", "stage", "replace", "rollback"}
    BY <1>4 DEF Active
  <2> QED
    BY <2>1 DEF FilesAsKnown
<1>5. CASE f = c
  <2>1. CASE \/ Load(f) \/ LoadLedger(f) \/ Resolve(f) \/ ReadOriginal(f) \/ Stage(f)
    BY <1>2, <2>1, LoadCall
  <2>2. CASE Replace(f) \/ ReplaceFails(f)
    BY <1>2, <1>5, <2>2, ReplaceCall
  <2>3. CASE Restore(f) \/ RestoreFails(f)
    BY <1>2, <1>5, <2>3, RollbackCall
  <2>4. CASE StageFails(f) \/ RollbackDone(f) \/ Fingerprint(f) \/ Crash(f)
    <3>1. pc'[f] \notin Active
      BY <1>1, <2>4 DEF StageFails, RollbackDone, Fingerprint, Crash, Goto, TypeOK, Active
    <3> QED
      BY <1>4, <3>1
  <2> QED
    BY <1>1, <1>5, <2>1, <2>2, <2>3, <2>4, FinalizeAssumption DEF Step, FinalizeStep
<1>6. CASE f # c /\ pc[f] \notin Active
  <2>1. pc'[f] \notin Active
    BY <1>1, <1>6, OtherKeeps
  <2> QED
    BY <1>4, <2>1
<1> QED
  BY <1>3, <1>5, <1>6

-----------------------------------------------------------------------------
(* The entries and the files.                                              *)

LEMMA FollowsStep ==
    ASSUME Typed, NEW e \in Finalizers, NEW f \in Finalizers, Follows(e, f),
           Records(e, file[target[f]]), Step(f)
    PROVE  Follows(e, f)'
<1> USE DEF Goto, setting
<1>1. /\ f \in Calls /\ target[f] \in Runs /\ file[target[f]] \in [Names -> Ref]
      /\ pc \in [Calls -> {"idle"} \cup Active \cup Ended] /\ at \in [Finalizers -> 0 .. 4]
      /\ seen \in [Finalizers -> [Names -> Ref]] /\ saved \in [Finalizers -> [Names -> Ref]]
      /\ f \notin Splitters
  BY FinalizeAssumption DEF Typed, TypeOK, Calls, RunFiles
<1>2. CASE Load(f)
  <2>1. pc'[f] = "load" /\ seen'[f] = file[target[f]]
    BY <1>1, <1>2 DEF Load
  <2> QED
    BY <2>1 DEF Follows, Records
<1>3. CASE LoadLedger(f)
  <2>1. /\ pc[f] = "load" /\ pc'[f] \in {"resolve", "refused"}
        /\ seen'[f] = [seen[f] EXCEPT !["ledger"] = file[target[f]]["ledger"]]
    BY <1>1, <1>3 DEF LoadLedger
  <2>2. Records(e, seen[f])
    BY <2>1 DEF Follows, Active
  <2>3. Records(e, seen'[f])
    BY <1>1, <2>1, <2>2 DEF Records, Names
  <2> QED
    BY <2>1, <2>3 DEF Follows, Records
<1>4. CASE Resolve(f)
  <2>1. /\ pc[f] = "resolve" /\ pc'[f] \in {"stage", "refused"} /\ seen' = seen /\ at' = at
    BY <1>1, <1>4 DEF Resolve
  <2>2. at[f] = 0 /\ \A i \in 1 .. 3 : ~ (i <= at[f])
    BY <2>1 DEF Typed, AtInv
  <2>3. Records(e, seen[f])
    BY <2>1 DEF Follows, Active
  <2> QED
    BY <2>1, <2>2, <2>3 DEF Follows, Records
<1>5. CASE ReadOriginal(f)
  <2>1. /\ pc[f] = "stage" /\ pc'[f] = "stage" /\ seen' = seen
        /\ at[f] \in 0 .. 3 /\ at[f] < 3 /\ at'[f] = at[f] + 1
    BY <1>1, <1>5 DEF ReadOriginal, Typed, AtInv
  <2>2. at[f] + 1 \in 1 .. 3
    BY <2>1
  <2>3. PICK k \in 1 .. 3 : /\ k = at[f] + 1
                            /\ saved'[f] = [saved[f] EXCEPT ![RunUpdates[k]] =
                                              file[target[f]][RunUpdates[k]]]
    BY <1>1, <1>5, <2>2 DEF ReadOriginal
  <2>4. \A i \in 1 .. 3 : i <= at'[f] => i = k \/ i <= at[f]
    BY <2>1, <2>3
  <2>5. \A i \in 1 .. 3 : RunUpdates[i] \in Names
    BY Positions
  <2>6. \A n \in Names : IF n = "ledger" THEN file[target[f]][n] # Pending
                                         ELSE file[target[f]][n] = e
    BY DEF Records, Names
  <2>7. \A i \in 1 .. 3 : LET n == RunUpdates[i] IN
          i <= at[f] => IF n = "ledger" THEN saved[f][n] # Pending ELSE saved[f][n] = e
    BY <2>1 DEF Follows
  <2>8. \A i \in 1 .. 3 : saved'[f][RunUpdates[i]] \in
            {file[target[f]][RunUpdates[i]], saved[f][RunUpdates[i]]}
    BY <1>1, <2>3, <2>5
  <2>9. saved'[f][RunUpdates[k]] = file[target[f]][RunUpdates[k]]
    BY <1>1, <2>3, <2>5
  <2>10. \A i \in 1 .. 3 : LET n == RunUpdates[i] IN
          i <= at'[f] => IF n = "ledger" THEN saved'[f][n] # Pending ELSE saved'[f][n] = e
    BY <2>4, <2>5, <2>6, <2>7, <2>8, <2>9
  <2>11. Records(e, seen[f])
    BY <2>1 DEF Follows, Active
  <2> QED
    BY <2>1, <2>10, <2>11 DEF Follows, Records
<1>6. CASE Stage(f)
  <2>1. /\ pc[f] = "stage" /\ pc'[f] = "replace" /\ at[f] = 3 /\ UNCHANGED <<seen, saved>>
    BY <1>1, <1>6 DEF Stage
  <2>2. Records(e, seen[f])
    BY <2>1 DEF Follows, Active
  <2>3. \A i \in 1 .. 3 : LET n == RunUpdates[i] IN
          IF n = "ledger" THEN saved[f][n] # Pending ELSE saved[f][n] = e
    BY <2>1 DEF Follows
  <2>4. RunUpdates[1] = "report" /\ RunUpdates[2] = "ledger" /\ RunUpdates[3] = "planning"
    BY DEF RunUpdates
  <2>5. Records(e, saved[f])
    BY <2>3, <2>4 DEF Records
  <2> QED
    BY <2>1, <2>2, <2>5 DEF Follows, Records
<1>7. CASE Replace(f) \/ ReplaceFails(f) \/ Restore(f) \/ RestoreFails(f)
  <2>1. /\ pc[f] \in {"replace", "rollback"} /\ pc'[f] \in {"replace", "rollback", "fingerprint"}
        /\ UNCHANGED <<seen, saved>>
    BY <1>1, <1>7 DEF Replace, ReplaceFails, Restore, RestoreFails
  <2>2. Records(e, seen[f]) /\ Records(e, saved[f])
    BY <2>1 DEF Follows, Active
  <2> QED
    BY <2>1, <2>2 DEF Follows, Records
<1>8. CASE StageFails(f) \/ RollbackDone(f) \/ Fingerprint(f) \/ Crash(f)
  <2>1. pc'[f] \notin Active
    BY <1>1, <1>8 DEF StageFails, RollbackDone, Fingerprint, Crash, Active
  <2> QED
    BY <2>1 DEF Follows, Active
<1> QED
  BY <1>1, <1>2, <1>3, <1>4, <1>5, <1>6, <1>7, <1>8 DEF Step, FinalizeStep

\* A call that found the entry in the run's files writes and restores the entry.
LEMMA StaysRecorded ==
    ASSUME Typed, OwnInv, NEW e \in Finalizers, Records(e, file[target[e]]),
           target[e] \in required, NEW c \in Calls, Step(c),
           pc[e] \notin Writing,
           \A f \in OneRun(e) \ {e} : Follows(e, f)
    PROVE  Records(e, file'[target[e]])
<1>1. TypeOK /\ target[e] \in Runs
  BY DEF Typed, TypeOK
<1>2. ASSUME NEW i \in 1 .. 3, Writes(c, i)
      PROVE  Records(e, file'[target[e]])
  <2>1. CASE target[c] # target[e]
    BY <1>1, <1>2, <2>1 DEF Writes, Records
  <2>2. CASE target[c] = target[e]
    <3>1. c \in Finalizers /\ pc[c] \in {"replace", "rollback"} /\ c # e
      BY <1>2 DEF Writes, Writing
    <3>2. Records(e, seen[c]) /\ Records(e, saved[c]) /\ Resolved(c)
      BY <2>2, <3>1 DEF Follows, OneRun, Active, OwnInv, Writing
    <3>3. e # Pending
      BY FinalizeAssumption
    <3>4. Records(e, New(c))
      BY <2>2, <3>2, <3>3 DEF Records, Resolved, New, Names
    <3>5. \A n \in Names :
              file'[target[e]][n] \in {file[target[e]][n], New(c)[n], saved[c][n]}
      BY <1>2, <2>2, Positions DEF Writes
    <3> QED
      BY <3>2, <3>4, <3>5 DEF Records, Names
  <2> QED
    BY <2>1, <2>2
<1> QED
  BY <1>2, FileStep

LEMMA RecordStep ==
    ASSUME SafeInv, NEW c \in Calls, Step(c)
    PROVE  RecordedInv'
<1> USE DEF SafeInv, Typed
<1>1. /\ StepOf(c) /\ target' = target /\ required' = required
      /\ \A f \in Finalizers : Unmet(f)' => Unmet(f)
  BY OneStep, Overlaps DEF StepOf, setting
<1> SUFFICES ASSUME NEW e \in Known', Unmet(e)'
             PROVE  /\ target[e] \in required
                    /\ Records(e, file'[target[e]])
                    /\ \A f \in OneRun(e) \ {e} : Follows(e, f)'
  BY <1>1 DEF RecordedInv, Records, OneRun
<1>2. CASE e \in Known
  <2>1. e \in Finalizers
    <3>1. \A d \in Calls : text[d] \in Seq(Finalizers)
      BY DEF TypeOK
    <3> QED
      BY <1>2, <3>1 DEF Known, Logged, Entries, TypeOK
  <2>2. /\ target[e] \in required /\ Records(e, file[target[e]])
        /\ \A f \in OneRun(e) \ {e} : Follows(e, f)
    BY <1>1, <1>2, <2>1 DEF RecordedInv
  <2>3. pc[e] \notin Writing
    BY <1>2, <2>1 DEF FreshInv
  <2>4. Records(e, file'[target[e]])
    BY <2>1, <2>2, <2>3, StaysRecorded
  <2>5. ASSUME NEW f \in OneRun(e) \ {e}
        PROVE  Follows(e, f)'
    <3>1. f \in Finalizers /\ target[f] = target[e] /\ Follows(e, f)
      BY <2>2 DEF OneRun
    <3>2. CASE f = c
      BY <2>1, <2>2, <3>1, <3>2, FollowsStep
    <3>3. CASE f # c
      <4>1. pc'[f] = pc[f] /\ seen'[f] = seen[f] /\ at'[f] = at[f] /\ saved'[f] = saved[f]
        BY <3>1, <3>3, OtherKeeps
      <4> QED
        BY <3>1, <4>1 DEF Follows, Records
    <3> QED
      BY <3>2, <3>3
  <2> QED
    BY <2>2, <2>4, <2>5
<1>3. CASE e \notin Known
  <2>1. e \in Finalizers /\ e = c /\ Replace(e) /\ at[e] = 4 /\ text[e] # <<>>
    BY <1>3, KnownStep
  <2>2. pc[e] = "replace" /\ Resolved(e) /\ FilesAsKnown(e)
    BY <1>1, <2>1 DEF Replace, OwnInv, CallInv, Writing
  <2>3. target[e] \in required /\ ref[e] = e /\ e # Pending
    BY <2>1, <2>2, FinalizeAssumption DEF Resolved
  <2>4. \A i \in 1 .. 3 : file[target[e]][RunUpdates[i]] = New(e)[RunUpdates[i]]
    <3>1. \A i \in 1 .. 3 : i < at[e]
      BY <2>1
    <3> QED
      BY <2>2, <3>1 DEF FilesAsKnown
  <2>5. Records(e, file[target[e]])
    <3>1. RunUpdates[1] = "report" /\ RunUpdates[2] = "ledger" /\ RunUpdates[3] = "planning"
      BY DEF RunUpdates
    <3>2. file[target[e]]["report"] = New(e)["report"]
          /\ file[target[e]]["ledger"] = New(e)["ledger"]
          /\ file[target[e]]["planning"] = New(e)["planning"]
      BY <2>4, <3>1
    <3> QED
      BY <2>3, <3>2 DEF Records, New, Names
  <2>6. file' = file
    <3>1. at[e] \notin 1 .. 3
      BY <2>1
    <3> QED
      BY <2>1, <3>1, ReplaceLog, Zenon
  <2>7. ASSUME NEW f \in OneRun(e) \ {e}
        PROVE  Follows(e, f)'
    <3>1. f \in Finalizers /\ f \in Calls /\ e \in Calls
      BY <2>1 DEF OneRun, Calls
    <3>2. pc[f] \notin Active
      <4>1. pc[e] \in Active
        BY <2>2 DEF Active
      <4>2. f \notin met[e]
        BY <1>1, <2>1 DEF Unmet
      <4> QED
        BY <3>1, <4>1, <4>2 DEF MetInv
    <3>3. pc'[f] \notin Active
      BY <2>1, <3>1, <3>2, OtherKeeps
    <3> QED
      BY <3>3 DEF Follows, Active
  <2> QED
    BY <2>3, <2>5, <2>6, <2>7
<1> QED
  BY <1>2, <1>3

LEMMA InitSafe == Init => SafeInv
<1> SUFFICES ASSUME Init PROVE SafeInv
  OBVIOUS
<1>1. Typed
  BY InitTyped
<1>2. MetInv /\ OwnInv
  BY DEF Init, MetInv, OwnInv, Active, Unread, Writing, Calls
<1>3. CallInv
  BY DEF Init, CallInv, FilesAsKnown, Calls
<1>4. Known = {}
  BY DEF Init, Known, Logged, Entries
<1>5. FreshInv /\ RecordedInv
  BY <1>4 DEF FreshInv, RecordedInv
<1> QED
  BY <1>1, <1>2, <1>3, <1>5 DEF SafeInv

LEMMA SafeStep == ASSUME SafeInv, [Next]_vars PROVE SafeInv'
<1>1. ASSUME NEW c \in Calls, Step(c)
      PROVE  SafeInv'
  <2>1. Typed'
    BY TypedStep DEF SafeInv
  <2> QED
    BY <1>1, <2>1, MetStep, OwnStep, CallStep, FreshStep, RecordStep DEF SafeInv, Typed
<1>2. CASE UNCHANGED vars
  <2>1. Typed' /\ MetInv' /\ OwnInv'
    BY <1>2, TypedStep DEF SafeInv, vars, setting, MetInv, OwnInv, Resolved, Entries
  <2>2. Known' = Known
    BY <1>2 DEF vars, Known, Logged, Entries
  <2>3. CallInv'
    BY <1>2 DEF SafeInv, vars, setting, CallInv, FilesAsKnown, New, Unmet, OneRun
  <2>4. FreshInv' /\ RecordedInv'
    BY <1>2, <2>2 DEF SafeInv, vars, setting, FreshInv, RecordedInv, Records, Follows, Unmet, OneRun
  <2> QED
    BY <2>1, <2>3, <2>4 DEF SafeInv
<1> QED
  BY <1>1, <1>2, OneSteps

LEMMA SafeInvariance == Spec => []SafeInv
BY InitSafe, SafeStep, PTL DEF Spec

(* Every log entry is in the files of the run it is about, whatever        *)
(* failures, kills and calls for other runs, unless another call for the   *)
(* run overlapped its own (atomic_multi_write, the log last).              *)
THEOREM EntriesAreRecorded == Spec => []EntryRecorded
<1>1. SafeInv => EntryRecorded
  <2> SUFFICES ASSUME SafeInv, NEW f \in Logged, Unmet(f)
               PROVE  Records(f, file[target[f]])
    BY DEF EntryRecorded, Unmet, Records
  <2> QED
    BY DEF SafeInv, RecordedInv, Known
<1> QED
  BY <1>1, SafeInvariance, PTL

(* A finalization that fails has left the run's files as it found them, but *)
(* those it reports, unless another call for the run overlapped it         *)
(* (_rollback_text_updates in reverse order).                              *)
THEOREM FailureRestores == Spec => FailureRestoresRun
<1> DEFINE Restores ==
      \A f \in Finalizers :
          pc[f] # "failed" /\ pc'[f] = "failed" =>
              \/ \A n \in Names \ issues[f] : file[target[f]][n] = seen[f][n]
              \/ met[f] \cap OneRun(f) # {}
<1>1. ASSUME SafeInv, [Next]_vars
      PROVE  Restores
  <2> SUFFICES ASSUME NEW f \in Finalizers, pc[f] # "failed", pc'[f] = "failed", Unmet(f)
               PROVE  \A n \in Names \ issues[f] : file[target[f]][n] = seen[f][n]
    BY DEF Unmet
  <2>1. TypeOK /\ FilesAsKnown(f) /\ f \in Calls /\ f \notin Splitters
    BY <1>1, FinalizeAssumption DEF SafeInv, Typed, CallInv, Calls
  <2>2. PICK c \in Calls : Step(c)
    BY <1>1, OneSteps DEF vars
  <2>3. c = f
    BY <2>1, <2>2, OtherKeeps
  <2>4. CASE StageFails(f)
    <3>1. file[target[f]] = seen[f]
      BY <2>1, <2>4 DEF StageFails, FilesAsKnown
    <3> QED
      BY <3>1
  <2>5. CASE RollbackDone(f)
    <3>1. pc[f] = "rollback" /\ \A i \in 1 .. 3 : i > at[f]
      BY <2>5 DEF RollbackDone
    <3>2. \A i \in 1 .. 3 : \/ file[target[f]][RunUpdates[i]] = seen[f][RunUpdates[i]]
                            \/ RunUpdates[i] \in issues[f]
      BY <2>1, <3>1 DEF FilesAsKnown
    <3> QED
      BY <3>2, Positions
  <2>6. CASE ~ StageFails(f) /\ ~ RollbackDone(f)
    <3>1. FinalizeStep(f) \/ Crash(f)
      BY <2>1, <2>2, <2>3 DEF Step
    <3>2. pc'[f] # "failed"
      BY <2>1, <2>6, <3>1
         DEF FinalizeStep, Load, LoadLedger, Resolve, ReadOriginal, Stage, Replace, ReplaceFails,
             Restore, RestoreFails, Fingerprint, Crash, Goto, TypeOK
    <3> QED
      BY <3>2
  <2> QED
    BY <2>4, <2>5, <2>6
<1>2. SafeInv /\ [Next]_vars => [Restores]_vars
  BY <1>1
<1> QED
  BY <1>2, SafeInvariance, PTL DEF Spec, FailureRestoresRun

-----------------------------------------------------------------------------
(* The entries that get lost.                                              *)

\* What is gone has been lost.
LEMMA GoneIsLost ==
    ASSUME NEW f, Gone(f)
    PROVE  \E c \in Calls : LostTo(f, c)
BY DEF Gone, LostTo

\* What is lost, but not for good, is with a split that is writing it back.
LEMMA LostOrHeld ==
    ASSUME NEW f, NEW c \in Calls, LostTo(f, c), ~ Gone(f)
    PROVE  c \in Splitters /\ f \in Entries(Kept(c)) /\ pc[c] = "write" /\ met[c] = {}
BY DEF Gone, LostTo

\* A text that was read is not read again.
LEMMA TextStays ==
    ASSUME TypeOK, OwnInv, NEW c \in Calls, Step(c), NEW d \in Calls,
           HasRead(d) \/ WroteLog(d)
    PROVE  text'[d] = text[d]
<1> USE DEF Goto
<1>1. CASE d # c
  BY <1>1, OneStep DEF StepOf
<1>2. CASE d = c /\ c \in Finalizers /\ FinalizeStep(c)
  <2>1. ~ Resolve(c)
    BY <1>2, FinalizeAssumption DEF Resolve, HasRead, WroteLog, Through
  <2> QED
    BY <1>2, <2>1, LogStep
<1>3. CASE d = c /\ c \in Splitters /\ SplitStep(c)
  <2>1. pc[c] # "idle"
    BY <1>3, FinalizeAssumption DEF HasRead, WroteLog
  <2> QED
    BY <1>3, <2>1 DEF SplitStep, SplitLoad, SplitAppend, SplitTruncate, SplitWrite, Begin
<1>4. CASE Crash(c)
  BY <1>4 DEF Crash
<1> QED
  BY <1>1, <1>2, <1>3, <1>4 DEF Step

\* A split that has truncated the log keeps its text.
LEMMA SplitStays ==
    ASSUME TypeOK, NEW c \in Calls, Step(c), NEW d \in Splitters,
           pc[d] \in {"append", "truncate", "write", "done", "crashed"}
    PROVE  /\ text'[d] = text[d] /\ Kept(d)' = Kept(d) /\ Moved(d)' = Moved(d)
           /\ pc[d] = "crashed" => pc'[d] = "crashed"
           /\ pc[d] = "done" => pc'[d] = "done"
           /\ pc[d] = "write" => pc'[d] \in {"write", "done", "crashed"}
           /\ pc'[d] = "done" /\ pc[d] = "write" => c = d /\ SplitWrite(d)
<1> USE DEF Goto
<1>1. d \in Calls /\ d \notin Finalizers
  BY FinalizeAssumption DEF Calls
<1>2. /\ text'[d] = text[d]
      /\ pc[d] = "crashed" => pc'[d] = "crashed"
      /\ pc[d] = "done" => pc'[d] = "done"
      /\ pc[d] = "write" => pc'[d] \in {"write", "done", "crashed"}
      /\ pc'[d] = "done" /\ pc[d] = "write" => c = d /\ SplitWrite(d)
  <2>1. CASE d # c
    BY <1>1, <2>1, OneStep DEF StepOf
  <2>2. CASE d = c /\ SplitStep(c)
    BY <1>1, <2>2 DEF SplitStep, SplitLoad, SplitAppend, SplitTruncate, SplitWrite, Begin, TypeOK
  <2>3. CASE d = c /\ Crash(c)
    BY <1>1, <2>3 DEF Crash, TypeOK, Active
  <2> QED
    BY <1>1, <2>1, <2>2, <2>3 DEF Step
<1>3. Kept(d)' = Kept(d) /\ Moved(d)' = Moved(d)
  BY <1>2 DEF Kept, Moved
<1> QED
  BY <1>2, <1>3

\* Who wrote the log has written it.
LEMMA WroteStays ==
    ASSUME TypeOK, OwnInv, NEW c \in Calls, Step(c), NEW d \in Calls, WroteLog(d)
    PROVE  WroteLog(d)' /\ text'[d] = text[d]
<1>1. text'[d] = text[d]
  BY TextStays
<1>2. CASE d \in Splitters /\ pc[d] \in {"write", "done", "crashed"}
  <2>1. pc'[d] \in {"write", "done", "crashed"}
    BY <1>2, SplitStays
  <2> QED
    BY <1>1, <1>2, <2>1 DEF WroteLog
<1>3. CASE d \in Finalizers /\ text[d] # <<>> /\ pc[d] \in Through \cup {"crashed"}
  <2>1. pc'[d] \in Through \cup {"crashed"}
    <3>1. CASE pc[d] \in Ended
      BY <1>3, <3>1, Onwards
    <3>2. CASE pc[d] = "fingerprint"
      <4>1. CASE d # c
        BY <1>3, <4>1, OneStep DEF StepOf
      <4>2. CASE d = c /\ FinalizeStep(c)
        BY <1>3, <3>2, <4>2
           DEF FinalizeStep, Load, LoadLedger, Resolve, ReadOriginal, Stage, StageFails, Fingerprint,
               Replace, ReplaceFails, Restore, RestoreFails, RollbackDone, Begin, Goto, TypeOK, Through
      <4>3. CASE d = c /\ Crash(c)
        BY <4>3 DEF Crash, Goto, TypeOK
      <4> QED
        BY <1>3, <4>1, <4>2, <4>3, FinalizeAssumption DEF Step
    <3> QED
      BY <1>3, <3>1, <3>2 DEF Through, Ended
  <2> QED
    BY <1>1, <1>3, <2>1 DEF WroteLog
<1> QED
  BY <1>2, <1>3 DEF WroteLog

\* What is gone stays gone.
LEMMA GoneStays ==
    ASSUME TypeOK, MetInv, OwnInv, NEW c \in Calls, Step(c), NEW f \in Finalizers, Gone(f)
    PROVE  Gone(f)'
<1>1. f \in Calls /\ \A d \in Calls : met[d] \subseteq met'[d]
  BY Overlaps DEF Calls
<1>2. PICK d \in Calls :
          \/ d \in met[f] /\ WroteLog(d) /\ f \notin Entries(text[d])
          \/ /\ d \in Splitters /\ f \in Entries(Kept(d))
             /\ \/ pc[d] = "crashed"
                \/ pc[d] \in {"write", "done"} /\ met[d] # {}
  BY DEF Gone
<1>3. CASE d \in met[f] /\ WroteLog(d) /\ f \notin Entries(text[d])
  <2>1. WroteLog(d)' /\ Entries(text[d])' = Entries(text[d])
    BY <1>3, WroteStays DEF Entries
  <2> QED
    BY <1>1, <1>3, <2>1 DEF Gone
<1>4. CASE d \in Splitters /\ f \in Entries(Kept(d)) /\ pc[d] = "crashed"
  <2>1. pc'[d] = "crashed" /\ Entries(Kept(d))' = Entries(Kept(d))
    BY <1>4, SplitStays DEF Entries
  <2> QED
    BY <1>4, <2>1 DEF Gone
<1>5. CASE d \in Splitters /\ f \in Entries(Kept(d)) /\ pc[d] \in {"write", "done"} /\ met[d] # {}
  <2>1. pc'[d] \in {"write", "done", "crashed"} /\ Entries(Kept(d))' = Entries(Kept(d))
    BY <1>5, SplitStays DEF Entries
  <2>2. met'[d] # {}
    BY <1>1, <1>5
  <2> QED
    BY <1>5, <2>1, <2>2 DEF Gone
<1> QED
  BY <1>2, <1>3, <1>4, <1>5

LEMMA EventsStay ==
    ASSUME TypeOK, NEW c \in Calls, Step(c)
    PROVE  Entries(events) \subseteq Entries(events')
<1>1. CASE c \in Splitters /\ SplitAppend(c)
  <2>1. Entries(events \o Moved(c)) = Entries(events) \cup Entries(Moved(c))
    BY <1>1, SplitFacts, ConcatEntries DEF TypeOK
  <2> QED
    BY <1>1, <2>1 DEF SplitAppend
<1>2. CASE c \in Splitters /\ SplitStep(c) /\ ~ SplitAppend(c)
  BY <1>2 DEF SplitStep, SplitLoad, SplitTruncate, SplitWrite
<1>3. CASE c \in Finalizers /\ FinalizeStep(c)
  BY <1>3, LogStep
<1>4. CASE Crash(c)
  BY <1>4 DEF Crash
<1> QED
  BY <1>1, <1>2, <1>3, <1>4 DEF Step

\* A finalization is through with an entry from its last replacement on.
LEMMA BeginsToLog ==
    ASSUME Typed, OwnInv, NEW c \in Calls, Step(c), NEW f \in Finalizers
    PROVE  /\ Logs(f) => Logs(f)' \/ pc'[f] = "crashed"
           /\ Logs(f)' /\ ~ Logs(f) =>
                 /\ f = c /\ Replace(f) /\ pc[f] = "replace" /\ pc'[f] = "fingerprint"
                 /\ log' = text[f] /\ f \in Entries(text[f])
<1> USE DEF Typed, Goto
<1>1. f \in Calls /\ f \notin Splitters
  BY FinalizeAssumption DEF Calls
<1>2. CASE f # c
  BY <1>1, <1>2, OneStep DEF StepOf, Logs
<1>3. CASE f = c /\ Replace(f)
  <2>1. pc[f] = "replace" /\ text' = text
    BY <1>3 DEF Replace
  <2>2. ~ Logs(f)
    BY <2>1 DEF Logs, Through
  <2>3. CASE at[f] \in 1 .. 3
    <3>1. at[f] # 4
      BY <2>3
    <3>2. text[f] # <<>> => pc'[f] = "replace"
      BY <1>3, <3>1, ReplaceLog
    <3>3. ~ Logs(f)'
      BY <2>1, <3>2 DEF Logs, Through
    <3> QED
      BY <2>2, <3>3
  <2>4. CASE at[f] \notin 1 .. 3
    <3>1. text[f] # <<>> /\ log' = text[f] /\ pc'[f] = "fingerprint"
      BY <1>3, <2>4, ReplaceLog
    <3>2. f \in Entries(text[f])
      BY <3>1 DEF OwnInv
    <3> QED
      BY <1>3, <2>1, <2>2, <3>1, <3>2
  <2> QED
    BY <2>3, <2>4
<1>4. CASE f = c /\ FinalizeStep(f) /\ ~ Replace(f)
  <2>1. CASE Resolve(f)
    BY <1>1, <2>1 DEF Resolve, TypeOK, Logs, Through
  <2>2. CASE ~ Resolve(f)
    <3>1. text' = text
      BY <1>4, <2>2, LogStep
    <3>2. /\ pc[f] \in Through => pc'[f] \in Through
          /\ pc'[f] \in Through => pc[f] \in Through
      BY <1>1, <1>4, <2>2
         DEF FinalizeStep, Load, LoadLedger, ReadOriginal, Stage, StageFails, Fingerprint,
             ReplaceFails, Restore, RestoreFails, RollbackDone, Begin, TypeOK, Through
    <3> QED
      BY <3>1, <3>2 DEF Logs
  <2> QED
    BY <2>1, <2>2
<1>5. CASE f = c /\ Crash(f)
  <2>1. pc'[f] = "crashed"
    BY <1>1, <1>5 DEF Crash, TypeOK
  <2> QED
    BY <2>1 DEF Logs, Through
<1> QED
  BY <1>1, <1>2, <1>3, <1>4, <1>5 DEF Step

\* Where an entry that is lost for the moment meets a call that now reads the log.
LEMMA ReadsLate ==
    ASSUME TypeOK, MetInv, OwnInv, NEW c \in Calls, Step(c),
           NEW f \in Finalizers, NEW d \in Calls, d # c, LostTo(f, d)
    PROVE  Gone(f)'
<1>1. CASE Gone(f)
  BY <1>1, GoneStays
<1>2. CASE ~ Gone(f)
  <2>1. d \in Splitters /\ f \in Entries(Kept(d)) /\ pc[d] = "write"
    BY <1>2, LostOrHeld
  <2>2. pc'[d] = "write" /\ Entries(Kept(d))' = Entries(Kept(d))
    BY <2>1, SplitStays, OneStep DEF StepOf, Entries
  <2>3. c \in met'[d]
    BY <2>1, Overlaps DEF Active
  <2> QED
    BY <2>1, <2>2, <2>3 DEF Gone
<1> QED
  BY <1>1, <1>2

LEMMA ReadStep ==
    ASSUME SafeInv, LossInv, NEW c \in Calls, Step(c),
           NEW f \in Finalizers, NEW d \in Calls, Logs(f)', HasRead(d)'
    PROVE  f \in Entries(text'[d]) \/ d \in met'[f] \/ f \in Entries(events') \/ Gone(f)'
<1> USE DEF Goto
<1>1. TypeOK /\ MetInv /\ OwnInv /\ f \in Calls
  BY DEF SafeInv, Typed, Calls
<1>2. Entries(events) \subseteq Entries(events') /\ met[f] \subseteq met'[f]
  BY <1>1, EventsStay, Overlaps
<1>3. CASE Logs(f) /\ HasRead(d)
  <2>1. text'[d] = text[d]
    BY <1>1, <1>3, TextStays
  <2>2. f \in Entries(text[d]) \/ d \in met[f] \/ f \in Entries(events) \/ Gone(f)
    BY <1>3 DEF LossInv
  <2> QED
    BY <1>1, <1>2, <2>1, <2>2, GoneStays
<1>4. CASE Logs(f) /\ ~ HasRead(d)
  <2>1. d = c /\ text'[d] \in {log, Append(log, d)}
        /\ (text'[d] = Append(log, d) => d \in Finalizers)
    <3>1. d = c
      BY <1>1, <1>4, OneStep DEF StepOf, HasRead
    <3>2. CASE c \in Finalizers /\ Resolve(c)
      <4>1. text[c] = <<>> /\ text'[c] \in {text[c], Append(log, c)}
        BY <1>1, <3>2 DEF Resolve, OwnInv, Unread, TypeOK
      <4>2. text'[c] # <<>>
        BY <3>1, <3>2, FinalizeAssumption DEF HasRead
      <4> QED
        BY <3>1, <3>2, <4>1, <4>2
    <3>3. CASE c \in Finalizers /\ FinalizeStep(c) /\ ~ Resolve(c)
      <4>1. text' = text
        BY <1>1, <3>3, LogStep
      <4>2. pc'[c] \in {"stage", "replace"} => pc[c] \in {"stage", "replace"}
        BY <1>1, <3>3
           DEF FinalizeStep, Load, LoadLedger, ReadOriginal, Stage, StageFails, Fingerprint,
               Replace, ReplaceFails, Restore, RestoreFails, RollbackDone, Begin, TypeOK
      <4> QED
        BY <1>4, <3>1, <3>3, <4>1, <4>2, FinalizeAssumption DEF HasRead
    <3>4. CASE c \in Splitters /\ SplitLoad(c)
      BY <1>1, <3>1, <3>4 DEF SplitLoad, TypeOK
    <3>5. CASE c \in Splitters /\ SplitStep(c) /\ ~ SplitLoad(c)
      BY <1>1, <1>4, <3>1, <3>5, FinalizeAssumption
         DEF SplitStep, SplitAppend, SplitTruncate, SplitWrite, HasRead, TypeOK
    <3>6. CASE Crash(c)
      BY <1>1, <1>4, <3>1, <3>6 DEF Crash, HasRead, TypeOK
    <3> QED
      BY <3>2, <3>3, <3>4, <3>5, <3>6 DEF Step
  <2>2. Entries(log) \subseteq Entries(text'[d])
    <3>1. log \in Seq(Finalizers)
      BY <1>1 DEF TypeOK
    <3> QED
      BY <2>1, <3>1, AppendEntries
  <2>3. CASE f \in Logged
    BY <1>2, <2>2, <2>3 DEF Logged
  <2>4. CASE f \notin Logged
    <3>1. PICK e \in Calls : LostTo(f, e)
      BY <1>4, <2>4 DEF LossInv, LostOnlyToOverlap
    <3>2. CASE e # c
      BY <1>1, <3>1, <3>2, ReadsLate
    <3>3. CASE e = c
      <4>1. CASE Gone(f)
        BY <1>1, <4>1, GoneStays
      <4>2. CASE ~ Gone(f)
        <5>1. c \in Splitters /\ pc[c] = "write"
          BY <3>1, <3>3, <4>2, LostOrHeld
        <5>2. pc'[c] \in {"write", "done", "crashed"}
          BY <1>1, <5>1, SplitStays
        <5> QED
          BY <2>1, <5>1, <5>2, FinalizeAssumption DEF HasRead
      <4> QED
        BY <4>1, <4>2
    <3> QED
      BY <3>2, <3>3
  <2> QED
    BY <2>3, <2>4
<1>5. CASE ~ Logs(f)
  <2>1. f = c /\ pc[f] = "replace" /\ pc'[f] = "fingerprint"
    BY <1>5, BeginsToLog DEF SafeInv
  <2>2. d # f
    BY <2>1, FinalizeAssumption DEF HasRead
  <2>3. pc[d] = pc'[d]
    BY <1>1, <2>1, <2>2, OneStep DEF StepOf
  <2>4. pc[d] \in Active /\ pc[f] \in Active
    BY <2>1, <2>3 DEF HasRead, Active
  <2>5. d \in met[f]
    BY <1>1, <2>2, <2>4 DEF MetInv
  <2> QED
    BY <1>2, <2>5
<1> QED
  BY <1>3, <1>4, <1>5

\* An entry of the log is lost by what replaces or truncates the log.
LEMMA LogLoss ==
    ASSUME SafeInv, LossInv, NEW c \in Calls, Step(c),
           NEW f \in Finalizers, Logs(f), f \in Entries(log), f \notin Entries(log'),
           f \notin Entries(events), ~ Gone(f)
    PROVE  LostTo(f, c)'
<1> USE DEF Goto
<1>1. Typed /\ TypeOK /\ OwnInv /\ f \in Calls /\ met[f] \subseteq met'[f]
  BY Overlaps DEF SafeInv, Typed, Calls
<1>2. CASE c \in Finalizers /\ Replace(c)
  <2>1. at[c] \notin 1 .. 3
    <3>1. ASSUME at[c] \in 1 .. 3
          PROVE  log' = log
      <4>1. at[c] # 4
        BY <3>1
      <4> QED
        BY <1>1, <1>2, <4>1, ReplaceLog
    <3> QED
      BY <3>1
  <2>2. text[c] # <<>> /\ log' = text[c] /\ pc'[c] = "fingerprint"
    BY <1>1, <1>2, <2>1, ReplaceLog
  <2>3. pc[c] = "replace" /\ text' = text
    BY <1>2 DEF Replace
  <2>4. HasRead(c)
    BY <1>2, <2>2, <2>3 DEF HasRead
  <2>5. c \in met[f]
    BY <2>2, <2>4 DEF LossInv
  <2> QED
    BY <1>1, <1>2, <2>2, <2>3, <2>5 DEF LostTo, WroteLog, Through
<1>3. CASE c \in Splitters /\ SplitTruncate(c)
  <2>1. pc[c] = "truncate" /\ pc'[c] = "write" /\ text' = text /\ HasRead(c)
    BY <1>1, <1>3 DEF SplitTruncate, TypeOK, HasRead
  <2>2. f \in Entries(text[c]) \/ c \in met[f]
    BY <2>1 DEF LossInv
  <2>3. CASE f \in Entries(text[c])
    <3>1. f \notin Entries(Moved(c))
      BY <1>3, <2>1 DEF LossInv
    <3>2. f \in Entries(Kept(c))
      BY <1>1, <1>3, <2>3, <3>1, SplitFacts
    <3>3. f \in Entries(Kept(c))'
      BY <2>1, <3>2 DEF Entries, Kept
    <3> QED
      BY <1>3, <2>1, <3>3 DEF LostTo
  <2>4. CASE f \notin Entries(text[c])
    BY <1>1, <1>3, <2>1, <2>2, <2>4 DEF LostTo, WroteLog, Entries
  <2> QED
    BY <2>3, <2>4
<1>4. CASE c \in Splitters /\ SplitWrite(c)
  <2>1. handle = c
    BY <1>4 DEF SplitWrite
  <2>2. log = <<>>
    BY <1>4, <2>1, FinalizeAssumption DEF LossInv
  <2> QED
    BY <2>2 DEF Entries
<1>5. CASE c \in Splitters /\ SplitStep(c) /\ ~ SplitTruncate(c) /\ ~ SplitWrite(c)
  BY <1>5 DEF SplitStep, SplitLoad, SplitAppend
<1>6. CASE c \in Finalizers /\ FinalizeStep(c) /\ ~ Replace(c)
  BY <1>1, <1>6, LogStep
<1>7. CASE Crash(c)
  BY <1>7 DEF Crash
<1> QED
  BY <1>2, <1>3, <1>4, <1>5, <1>6, <1>7 DEF Step

LEMMA LossStep ==
    ASSUME SafeInv, LossInv, NEW c \in Calls, Step(c), NEW f \in Finalizers, Logs(f)'
    PROVE  f \in Logged' \/ \E d \in Calls : LostTo(f, d)'
<1> USE DEF Goto
<1>1. Typed /\ TypeOK /\ MetInv /\ OwnInv
  BY DEF SafeInv, Typed
<1>2. Entries(events) \subseteq Entries(events')
  BY <1>1, EventsStay
<1>3. Gone(f)' => \E d \in Calls : LostTo(f, d)'
  BY DEF Gone, LostTo
<1>4. CASE ~ Logs(f)
  <2>1. log' = text[f] /\ f \in Entries(text[f])
    BY <1>1, <1>4, BeginsToLog
  <2> QED
    BY <2>1 DEF Logged
<1>5. CASE Logs(f) /\ Gone(f)
  BY <1>1, <1>3, <1>5, GoneStays
<1>6. CASE Logs(f) /\ ~ Gone(f) /\ f \in Logged
  <2>1. CASE f \in Entries(events)
    BY <1>2, <2>1 DEF Logged
  <2>2. CASE f \notin Entries(events) /\ f \in Entries(log)
    BY <1>6, <2>2, LogLoss DEF Logged
  <2> QED
    BY <1>6, <2>1, <2>2 DEF Logged
<1>7. CASE Logs(f) /\ ~ Gone(f) /\ f \notin Logged
  <2>1. PICK d \in Calls : LostTo(f, d)
    BY <1>7 DEF LossInv, LostOnlyToOverlap
  <2>2. d \in Splitters /\ f \in Entries(Kept(d)) /\ pc[d] = "write" /\ met[d] = {}
    BY <1>7, <2>1, LostOrHeld
  <2>3. f \in Entries(Kept(d))' /\ pc'[d] \in {"write", "done", "crashed"}
    BY <1>1, <2>2, SplitStays DEF Entries
  <2>4. CASE pc'[d] \in {"write", "crashed"}
    BY <2>2, <2>3, <2>4 DEF LostTo
  <2>5. CASE pc'[d] = "done"
    <3>1. SplitWrite(d) /\ handle = d
      BY <1>1, <2>2, <2>5, SplitStays DEF LossInv
    <3>2. log' = Kept(d)
      BY <3>1 DEF SplitWrite
    <3> QED
      BY <2>2, <3>2 DEF Logged
  <2> QED
    BY <2>3, <2>4, <2>5
<1> QED
  BY <1>4, <1>5, <1>6, <1>7

\* The file a split has open is replaced only by a call that it has met.
LEMMA HandleStep ==
    ASSUME SafeInv, LossInv, NEW c \in Calls, Step(c)
    PROVE  /\ \A s \in Splitters :
                 /\ pc'[s] \in {"truncate", "write"} => Entries(Moved(s))' \subseteq Entries(events')
                 /\ pc'[s] = "write" /\ handle' # s => met'[s] # {}
           /\ handle' # NoHandle => log' = <<>>
<1> USE DEF Goto
<1>1. Typed /\ TypeOK /\ MetInv /\ Splitters \subseteq Calls
  BY DEF SafeInv, Typed, Calls
<1>2. Entries(events) \subseteq Entries(events')
  BY <1>1, EventsStay
<1>3. ASSUME NEW s \in Splitters, s # c
      PROVE  /\ pc'[s] \in {"truncate", "write"} => Entries(Moved(s))' \subseteq Entries(events')
             /\ pc'[s] = "write" /\ handle' # s => met'[s] # {}
  <2>1. pc'[s] = pc[s] /\ text'[s] = text[s]
    BY <1>1, <1>3, OneStep DEF StepOf
  <2>2. Entries(Moved(s))' = Entries(Moved(s))
    BY <2>1 DEF Moved, Kept, Entries
  <2>3. pc[s] = "write" => c \in met'[s]
    BY <1>1, <1>3, Overlaps DEF Active
  <2> QED
    BY <1>2, <2>1, <2>2, <2>3 DEF LossInv
<1>4. ASSUME c \in Splitters
      PROVE  /\ pc'[c] \in {"truncate", "write"} => Entries(Moved(c))' \subseteq Entries(events')
             /\ pc'[c] = "write" /\ handle' # c => met'[c] # {}
  <2>1. c \notin Finalizers
    BY <1>4, FinalizeAssumption
  <2>2. CASE SplitAppend(c)
    <3>1. /\ pc'[c] = "truncate" /\ text' = text
          /\ Entries(events \o Moved(c)) = Entries(events) \cup Entries(Moved(c))
      BY <1>1, <1>4, <2>2, SplitFacts, ConcatEntries DEF SplitAppend, TypeOK
    <3>2. Entries(Moved(c))' = Entries(Moved(c)) /\ events' = events \o Moved(c)
      BY <2>2, <3>1 DEF Moved, Kept, Entries, SplitAppend
    <3> QED
      BY <3>1, <3>2
  <2>3. CASE SplitTruncate(c)
    <3>1. /\ pc[c] = "truncate" /\ pc'[c] = "write" /\ handle' = c
          /\ text' = text /\ events' = events
      BY <1>1, <2>3 DEF SplitTruncate, TypeOK
    <3>2. Entries(Moved(c))' = Entries(Moved(c))
      BY <3>1 DEF Moved, Kept, Entries
    <3> QED
      BY <1>2, <1>4, <3>1, <3>2 DEF LossInv
  <2>4. CASE SplitLoad(c) \/ SplitWrite(c) \/ Crash(c)
    <3>1. pc'[c] \notin {"truncate", "write"}
      BY <1>1, <2>4 DEF SplitLoad, SplitWrite, Crash, TypeOK
    <3> QED
      BY <3>1
  <2> QED
    BY <2>1, <2>2, <2>3, <2>4 DEF Step, SplitStep
<1>5. handle' # NoHandle => log' = <<>>
  <2>1. CASE c \in Finalizers /\ Replace(c)
    <3>1. CASE at[c] \in 1 .. 3
      <4>1. at[c] # 4
        BY <3>1
      <4>2. log' = log /\ handle' = handle
        BY <1>1, <2>1, <4>1, ReplaceLog
      <4> QED
        BY <4>2 DEF LossInv
    <3>2. CASE at[c] \notin 1 .. 3
      BY <1>1, <2>1, <3>2, ReplaceLog
    <3> QED
      BY <3>1, <3>2
  <2>2. CASE c \in Finalizers /\ FinalizeStep(c) /\ ~ Replace(c)
    BY <1>1, <2>2, LogStep DEF LossInv
  <2>3. CASE c \in Splitters /\ SplitStep(c)
    BY <2>3 DEF SplitStep, SplitLoad, SplitAppend, SplitTruncate, SplitWrite, LossInv
  <2>4. CASE Crash(c)
    BY <2>4 DEF Crash, LossInv
  <2> QED
    BY <2>1, <2>2, <2>3, <2>4 DEF Step
<1> QED
  BY <1>3, <1>4, <1>5

LEMMA LossInvStep ==
    ASSUME SafeInv, LossInv, [Next]_vars
    PROVE  LossInv'
<1>1. ASSUME NEW c \in Calls, Step(c)
      PROVE  LossInv'
  <2>1. LostOnlyToOverlap'
    BY <1>1, LossStep DEF LostOnlyToOverlap
  <2>2. \A f \in Finalizers, d \in Calls :
          Logs(f)' /\ HasRead(d)' =>
              f \in Entries(text'[d]) \/ d \in met'[f] \/ f \in Entries(events') \/ Gone(f)'
    BY <1>1, ReadStep
  <2> QED
    BY <1>1, <2>1, <2>2, HandleStep DEF LossInv, Entries
<1>2. CASE UNCHANGED vars
  <2>1. /\ log' = log /\ events' = events /\ handle' = handle /\ pc' = pc /\ text' = text
        /\ met' = met
    BY <1>2 DEF vars
  <2>2. /\ \A s \in Splitters : /\ Entries(Kept(s))' = Entries(Kept(s))
                               /\ Entries(Moved(s))' = Entries(Moved(s))
        /\ \A c \in Calls : Entries(text[c])' = Entries(text[c])
        /\ Logged' = Logged /\ Entries(events)' = Entries(events)
    BY <2>1 DEF Kept, Moved, Entries, Logged
  <2>3. /\ \A f \in Finalizers : Logs(f)' <=> Logs(f)
        /\ \A c \in Calls : (WroteLog(c)' <=> WroteLog(c)) /\ (HasRead(c)' <=> HasRead(c))
    BY <2>1 DEF Logs, WroteLog, HasRead
  <2>4. /\ \A f \in Finalizers, c \in Calls : LostTo(f, c)' <=> LostTo(f, c)
        /\ \A f \in Finalizers : Gone(f)' <=> Gone(f)
    BY <2>1, <2>2, <2>3 DEF LostTo, Gone
  <2>5. LostOnlyToOverlap'
    BY <2>2, <2>3, <2>4 DEF LossInv, LostOnlyToOverlap
  <2> QED
    BY <2>1, <2>2, <2>3, <2>4, <2>5 DEF LossInv
<1> QED
  BY <1>1, <1>2, OneSteps

LEMMA LossInvariance == Spec => [](SafeInv /\ LossInv)
<1>1. Init => LossInv
  BY DEF Init, LossInv, LostOnlyToOverlap, Logs, Through, HasRead, Calls
<1>2. SafeInv /\ LossInv /\ [Next]_vars => LossInv'
  BY LossInvStep
<1> QED
  BY <1>1, <1>2, InitSafe, SafeStep, PTL DEF Spec

(* Whatever is interleaved, fails or is killed: the entry of a             *)
(* finalization that wrote the log stays in the log or the events file,    *)
(* unless a call that overlapped it wrote the log from a text without it,  *)
(* or a split that was to write it back died or had the log replaced       *)
(* (finalize_run and system_log_split hold no lock between their read of   *)
(* the log and their write).                                               *)
THEOREM LossesExplained == Spec => []LostOnlyToOverlap
<1>1. LossInv => LostOnlyToOverlap
  BY DEF LossInv
<1> QED
  BY <1>1, LossInvariance, PTL

-----------------------------------------------------------------------------
(* The calls reports refer to.                                             *)

\* A report comes to refer to a call when the call replaces it, and is passed on.
LEMMA CurrentStep ==
    ASSUME Typed, OwnInv, NEW c \in Calls, Step(c), NEW r \in Runs,
           NEW g \in Finalizers \cup {NotRequired}, Current(r, g)'
    PROVE  \/ Current(r, g)
           \/ g = NotRequired /\ r \notin required
           \/ /\ g = c /\ g \in Finalizers /\ Replace(g) /\ pc'[g] = "replace"
              /\ target[g] = r /\ text[g] # <<>>
<1> USE DEF Goto
<1>1. TypeOK /\ target' = target /\ StepOf(c)
  BY OneStep DEF Typed, StepOf, setting
<1>2. /\ pc \in [Calls -> {"idle"} \cup Active \cup Ended] /\ at \in [Finalizers -> 0 .. 4]
      /\ seen \in [Finalizers -> [Names -> Ref]] /\ saved \in [Finalizers -> [Names -> Ref]]
      /\ file \in [Runs -> [Names -> Ref]] /\ target \in [Finalizers -> Runs]
      /\ "report" \in Names /\ Finalizers \subseteq Calls
  BY <1>1 DEF TypeOK, RunFiles, Names, Calls
<1>3. CASE file'[r]["report"] = g
  <2>1. CASE file'[r]["report"] = file[r]["report"]
    BY <1>3, <2>1 DEF Current
  <2>2. CASE file'[r]["report"] # file[r]["report"]
    <3>1. PICK i \in 1 .. 3 : Writes(c, i)
      BY <2>2, FileStep
    <3>2. c \in Finalizers /\ target[c] = r /\ RunUpdates[i] = "report"
      BY <2>2, <3>1, Positions DEF Writes, Names
    <3>3. CASE Restore(c) /\ pc[c] = "rollback"
      <4>1. saved[c]["report"] = g
        <5>1. ~ Replace(c)
          BY <3>3 DEF Replace
        <5> QED
          BY <1>3, <3>1, <3>2, <5>1 DEF Writes
      <4> QED
        BY <3>2, <3>3, <4>1 DEF Current
    <3>4. CASE Replace(c) /\ pc[c] = "replace"
      <4>1. ref[c] = g
        <5>1. ~ Restore(c)
          BY <3>4 DEF Restore
        <5>2. New(c)["report"] = ref[c]
          BY DEF New, Names
        <5> QED
          BY <1>3, <3>1, <3>2, <5>1, <5>2 DEF Writes
      <4>2. Resolved(c)
        BY <3>2, <3>4 DEF OwnInv, Writing
      <4>3. CASE target[c] \notin required /\ ref[c] = NotRequired
        BY <3>2, <4>1, <4>3
      <4>4. CASE ref[c] = seen[c]["report"]
        BY <3>2, <3>4, <4>1, <4>4 DEF Current, Active
      <4>5. CASE ref[c] = c /\ text[c] # <<>>
        <5>1. at[c] = i /\ at[c] # 4
          BY <3>1 DEF Writes
        <5>2. at[c] \in 1 .. 3
          BY <5>1
        <5>3. pc'[c] = "replace"
          BY <3>2, <3>4, <4>5, <5>1, ReplaceLog
        <5> QED
          BY <3>2, <3>4, <4>1, <4>5, <5>3
      <4> QED
        BY <4>2, <4>3, <4>4, <4>5 DEF Resolved
    <3> QED
      BY <3>1, <3>3, <3>4 DEF Writes
  <2> QED
    BY <2>1, <2>2
<1>4. CASE \E f \in Finalizers : target[f] = r /\ pc'[f] \in Active /\ seen'[f]["report"] = g
  <2>1. PICK f \in Finalizers : target[f] = r /\ pc'[f] \in Active /\ seen'[f]["report"] = g
    BY <1>4
  <2>2. CASE f # c
    BY <1>1, <2>1, <2>2, OtherKeeps DEF Current
  <2>3. CASE f = c /\ Load(f)
    <3>1. seen'[f] = file[r]
      BY <1>2, <2>1, <2>3 DEF Load
    <3> QED
      BY <2>1, <3>1 DEF Current
  <2>4. CASE f = c /\ (FinalizeStep(f) \/ Crash(f)) /\ ~ Load(f)
    <3>1. seen'[f]["report"] = seen[f]["report"]
      <4>1. CASE LoadLedger(f)
        BY <1>2, <4>1 DEF LoadLedger, Names
      <4>2. CASE ~ LoadLedger(f)
        BY <2>4, <4>2
           DEF FinalizeStep, Resolve, ReadOriginal, Stage, StageFails, Fingerprint, Replace,
               ReplaceFails, Restore, RestoreFails, RollbackDone, Crash
      <4> QED
        BY <4>1, <4>2
    <3>2. pc[f] \in Active
      BY <2>4 DEF FinalizeStep, LoadLedger, Resolve, ReadOriginal, Stage, StageFails, Fingerprint,
                  Replace, ReplaceFails, Restore, RestoreFails, RollbackDone, Crash, Active
    <3> QED
      BY <2>1, <3>1, <3>2 DEF Current
  <2> QED
    BY <2>2, <2>3, <2>4, FinalizeAssumption DEF Step
<1>5. CASE \E f \in Finalizers :
              /\ target[f] = r
              /\ pc'[f] \in {"replace", "rollback"} \/ (pc'[f] = "stage" /\ at'[f] >= 1)
              /\ saved'[f]["report"] = g
  <2>1. PICK f \in Finalizers :
              /\ target[f] = r
              /\ pc'[f] \in {"replace", "rollback"} \/ (pc'[f] = "stage" /\ at'[f] >= 1)
              /\ saved'[f]["report"] = g
    BY <1>5
  <2>2. CASE f # c
    <3>1. pc'[f] = pc[f] /\ at'[f] = at[f] /\ saved'[f] = saved[f]
      BY <1>1, <2>2, OtherKeeps
    <3> QED
      BY <2>1, <3>1 DEF Current
  <2>3. CASE f = c /\ ReadOriginal(f)
    <3>1. pc[f] = "stage" /\ at[f] \in 0 .. 3 /\ at[f] < 3
      BY <2>3 DEF ReadOriginal, Typed, AtInv
    <3>2. saved'[f] = [saved[f] EXCEPT ![RunUpdates[at[f] + 1]] =
                                           file[r][RunUpdates[at[f] + 1]]]
      BY <1>2, <2>1, <2>3 DEF ReadOriginal
    <3>3. CASE at[f] = 0
      <4>1. RunUpdates[at[f] + 1] = "report"
        BY <3>3 DEF RunUpdates
      <4>2. saved'[f]["report"] = file[r]["report"]
        BY <1>2, <3>2, <4>1
      <4> QED
        BY <2>1, <4>2 DEF Current
    <3>4. CASE at[f] # 0
      <4>1. at[f] >= 1 /\ at[f] + 1 \in 2 .. 3
        BY <3>1, <3>4
      <4>2. RunUpdates[at[f] + 1] # "report"
        BY <4>1 DEF RunUpdates
      <4>3. saved'[f]["report"] = saved[f]["report"]
        BY <1>2, <3>2, <4>2
      <4> QED
        BY <2>1, <3>1, <4>1, <4>3 DEF Current
    <3> QED
      BY <3>3, <3>4
  <2>4. CASE f = c /\ Stage(f)
    <3>1. pc[f] = "stage" /\ at[f] >= 1 /\ saved' = saved
      BY <2>4 DEF Stage
    <3> QED
      BY <2>1, <3>1 DEF Current
  <2>5. CASE f = c /\ (FinalizeStep(f) \/ Crash(f)) /\ ~ ReadOriginal(f) /\ ~ Stage(f)
    <3>1. saved' = saved
      BY <2>5 DEF FinalizeStep, Load, LoadLedger, Resolve, StageFails, Fingerprint, Replace,
                  ReplaceFails, Restore, RestoreFails, RollbackDone, Crash
    <3>2. pc[f] \in {"replace", "rollback"}
      <4>1. CASE Resolve(f)
        <5>1. pc[f] = "resolve" /\ at' = at /\ pc'[f] \in {"stage", "refused"}
          BY <1>2, <4>1 DEF Resolve
        <5>2. at'[f] = 0
          BY <5>1 DEF Typed, AtInv
        <5> QED
          BY <2>1, <5>1, <5>2
      <4>2. CASE ~ Resolve(f)
        BY <1>2, <2>1, <2>5, <4>2
           DEF FinalizeStep, Load, LoadLedger, StageFails, Fingerprint, Replace,
               ReplaceFails, Restore, RestoreFails, RollbackDone, Crash
      <4> QED
        BY <4>1, <4>2
    <3> QED
      BY <2>1, <3>1, <3>2 DEF Current
  <2> QED
    BY <2>2, <2>3, <2>4, <2>5, FinalizeAssumption DEF Step
<1>6. \/ file'[r]["report"] = g
      \/ \E f \in Finalizers : target[f] = r /\ pc'[f] \in Active /\ seen'[f]["report"] = g
      \/ \E f \in Finalizers :
              /\ target[f] = r
              /\ pc'[f] \in {"replace", "rollback"} \/ (pc'[f] = "stage" /\ at'[f] >= 1)
              /\ saved'[f]["report"] = g
  BY <1>1 DEF Current
<1> QED
  BY <1>3, <1>4, <1>5, <1>6

LEMMA IssuesStay ==
    ASSUME TypeOK, NEW c \in Calls, Step(c), NEW g \in Finalizers
    PROVE  issues[g] \subseteq issues'[g]
<1>1. CASE g # c
  BY <1>1, OtherKeeps
<1>2. CASE g = c /\ (FinalizeStep(g) \/ Crash(g))
  BY <1>2 DEF FinalizeStep, Load, LoadLedger, Resolve, ReadOriginal, Stage, StageFails, Fingerprint,
              Replace, ReplaceFails, Restore, RestoreFails, RollbackDone, Crash, TypeOK
<1> QED
  BY <1>1, <1>2, FinalizeAssumption DEF Step

\* A call a report may refer to stays one, unless it is rolled back to the end.
LEMMA BackedStays ==
    ASSUME Typed, MetInv, OwnInv, NEW c \in Calls, Step(c), NEW g \in Finalizers, Backed(g)
    PROVE  \/ Backed(g)'
           \/ RollbackDone(g) /\ text[g] # <<>> /\ issues[g] = {} /\ Unmet(g)
<1> USE DEF Goto
<1>1. TypeOK /\ g \in Calls /\ g \notin Splitters
  BY FinalizeAssumption DEF Typed, Calls
<1>2. pc'[g] \notin Unread \cup {"stage"}
  BY <1>1, Onwards DEF Backed
<1>3. CASE pc[g] = "crashed"
  <2>1. pc'[g] = "crashed"
    BY <1>1, <1>3, Onwards DEF Ended
  <2> QED
    BY <1>2, <2>1 DEF Backed
<1>4. CASE issues[g] # {}
  <2>1. issues'[g] # {}
    BY <1>1, <1>4, IssuesStay
  <2> QED
    BY <1>2, <2>1 DEF Backed
<1>5. CASE ~ Unmet(g)
  <2>1. ~ Unmet(g)'
    BY <1>1, <1>5, Overlaps
  <2> QED
    BY <1>2, <2>1 DEF Backed
<1>6. CASE Logs(g)
  <2>1. Logs(g)' \/ pc'[g] = "crashed"
    BY <1>6, BeginsToLog
  <2> QED
    BY <1>2, <2>1 DEF Backed
<1>7. CASE pc[g] \in {"replace", "rollback"} /\ text[g] # <<>> /\ issues[g] = {} /\ Unmet(g)
  <2>1. CASE g # c
    <3>1. pc'[g] = pc[g] /\ text'[g] = text[g]
      BY <1>1, <2>1, OtherKeeps
    <3> QED
      BY <1>2, <1>7, <3>1 DEF Backed
  <2>2. CASE g = c /\ (FinalizeStep(g) \/ Crash(g)) /\ ~ RollbackDone(g)
    <3>1. text' = text /\ pc'[g] \in {"replace", "rollback", "fingerprint", "crashed"}
      BY <1>1, <1>7, <2>2
         DEF FinalizeStep, Load, LoadLedger, Resolve, ReadOriginal, Stage, StageFails, Fingerprint,
             Replace, ReplaceFails, Restore, RestoreFails, RollbackDone, Crash, Begin, TypeOK
    <3> QED
      BY <1>2, <1>7, <3>1 DEF Backed, Logs, Through
  <2>3. CASE RollbackDone(g)
    BY <1>7, <2>3
  <2> QED
    BY <1>1, <2>1, <2>2, <2>3 DEF Step
<1> QED
  BY <1>3, <1>4, <1>5, <1>6, <1>7 DEF Backed

\* A report does not refer to a call that was rolled back to the end.
LEMMA RolledBack ==
    ASSUME SafeInv, BackedInv, NEW g \in Finalizers, Step(g), RollbackDone(g), text[g] # <<>>,
           issues[g] = {}, Unmet(g), NEW r \in Runs
    PROVE  ~ Current(r, g)'
<1> USE DEF Goto
<1>1. /\ Typed /\ TypeOK /\ MetInv /\ g \in Calls /\ target' = target /\ StepOf(g)
  BY OneStep DEF SafeInv, Typed, Calls, StepOf, setting
<1>2. /\ pc[g] = "rollback" /\ at[g] = 0 /\ pc'[g] = "failed"
      /\ UNCHANGED <<file, seen, saved, at>>
  BY <1>1 DEF RollbackDone, TypeOK
<1>3. seen[g]["report"] # g /\ FilesAsKnown(g)
  BY <1>2, FinalizeAssumption DEF SafeInv, OwnInv, CallInv, Resolved, Writing
<1>4. file[target[g]]["report"] # g
  <2>1. 1 > at[g] /\ RunUpdates[1] = "report"
    BY <1>2 DEF RunUpdates
  <2>2. file[target[g]]["report"] = seen[g]["report"]
    BY <1>2, <1>3, <2>1 DEF FilesAsKnown
  <2> QED
    BY <1>3, <2>2
<1> SUFFICES ASSUME Current(r, g)'
             PROVE  FALSE
  OBVIOUS
<1>5. Current(r, g)
  <2>1. Current(r, g) \/ ~ Replace(g)
    BY <1>2 DEF Replace
  <2>2. ~ Replace(g) /\ g # NotRequired
    BY <1>2, FinalizeAssumption DEF Replace
  <2> QED
    BY <1>1, <2>2, CurrentStep DEF SafeInv
<1>6. target[g] = r
  BY <1>5 DEF BackedInv
<1>7. PICK f \in Finalizers : target[f] = r /\ pc'[f] \in Active
  BY <1>1, <1>2, <1>4, <1>6 DEF Current, Active
<1>8. f # g
  BY <1>2, <1>7 DEF Active
<1>9. pc[f] \in Active /\ pc[g] \in Active /\ f \in Calls
  BY <1>1, <1>2, <1>7, <1>8, OtherKeeps DEF Active, Calls
<1>10. f \in met[g]
  BY <1>1, <1>8, <1>9 DEF MetInv
<1> QED
  BY <1>6, <1>7, <1>10 DEF Unmet, OneRun

LEMMA BackedStep ==
    ASSUME SafeInv, BackedInv, [Next]_vars
    PROVE  BackedInv'
<1>1. ASSUME NEW c \in Calls, Step(c), NEW r \in Runs, NEW g \in Finalizers, Current(r, g)'
      PROVE  target'[g] = r /\ Backed(g)'
  <2>1. Typed /\ TypeOK /\ MetInv /\ OwnInv /\ target' = target
    BY <1>1, OneStep DEF SafeInv, Typed, StepOf, setting
  <2>2. g # NotRequired
    BY FinalizeAssumption
  <2>3. CASE Current(r, g)
    <3>1. target[g] = r /\ Backed(g)
      BY <2>3 DEF BackedInv
    <3>2. CASE RollbackDone(g) /\ text[g] # <<>> /\ issues[g] = {} /\ Unmet(g)
      <4>1. Step(g)
        BY <3>2 DEF Step, FinalizeStep
      <4> QED
        BY <1>1, <3>2, <4>1, RolledBack
    <3> QED
      BY <1>1, <2>1, <3>1, <3>2, BackedStays
  <2>4. CASE Replace(g) /\ pc'[g] = "replace" /\ target[g] = r /\ text[g] # <<>>
    <3>1. text' = text
      BY <2>4 DEF Replace
    <3> QED
      BY <2>1, <2>4, <3>1 DEF Backed, Unread
  <2> QED
    BY <1>1, <2>1, <2>2, <2>3, <2>4, CurrentStep
<1>2. ASSUME NEW c \in Calls, Step(c), NEW r \in Runs, Current(r, NotRequired)'
      PROVE  r \notin required'
  <2>1. Typed /\ OwnInv /\ required' = required
    BY <1>2, OneStep DEF SafeInv, Typed, StepOf, setting
  <2> QED
    BY <1>2, <2>1, CurrentStep, FinalizeAssumption DEF BackedInv
<1>3. CASE UNCHANGED vars
  <2>1. /\ pc' = pc /\ file' = file /\ seen' = seen /\ saved' = saved /\ at' = at /\ text' = text
        /\ target' = target /\ required' = required /\ issues' = issues /\ met' = met
    BY <1>3 DEF vars, setting
  <2>2. \A r \in Runs : \A g : Current(r, g)' <=> Current(r, g)
    BY <2>1 DEF Current
  <2>3. \A g \in Finalizers : Backed(g)' <=> Backed(g)
    BY <2>1 DEF Backed, Logs, Unmet, OneRun
  <2> QED
    BY <2>1, <2>2, <2>3 DEF BackedInv
<1> QED
  BY <1>1, <1>2, <1>3, OneSteps DEF BackedInv

-----------------------------------------------------------------------------
(* Refusals.                                                               *)

LEMMA ExcusesStay ==
    ASSUME Typed, MetInv, OwnInv, NEW c \in Calls, Step(c), NEW g \in Finalizers, Excuses(g)
    PROVE  Excuses(g)'
<1>1. TypeOK /\ g \in Calls
  BY DEF Typed, Calls
<1>2. pc[g] = "crashed" => pc'[g] = "crashed"
  BY <1>1, Onwards DEF Ended
<1>3. issues[g] # {} => issues'[g] # {}
  BY <1>1, IssuesStay
<1>4. Entries(events) \subseteq Entries(events')
  BY <1>1, EventsStay
<1>5. ~ Unmet(g) => ~ Unmet(g)'
  BY <1>1, Overlaps
<1>6. Gone(g) => Gone(g)'
  BY <1>1, GoneStays
<1> QED
  BY <1>2, <1>3, <1>4, <1>5, <1>6 DEF Excuses, Entries

\* The refusal itself.
LEMMA Refuses ==
    ASSUME SafeInv, LossInv, BackedInv, NEW c \in Calls, Step(c), NEW f \in Finalizers,
           pc[f] # "refused", pc'[f] = "refused", target[f] \in allowed
    PROVE  \E g \in OneRun(f) \ {f} : Excuses(g)
<1> USE DEF Goto
<1>1. Typed /\ TypeOK /\ MetInv /\ f \in Calls /\ f \notin Splitters /\ target[f] \in Runs
  BY FinalizeAssumption DEF SafeInv, Typed, TypeOK, Calls
<1>2. Resolve(f)
  <2>1. f = c /\ (FinalizeStep(f) \/ Crash(f))
    BY <1>1, OtherKeeps DEF Step
  <2>2. ASSUME ~ Resolve(f)
        PROVE  FALSE
    BY <1>1, <2>1, <2>2
       DEF FinalizeStep, Load, LoadLedger, ReadOriginal, Stage, StageFails, Fingerprint,
           Replace, ReplaceFails, Restore, RestoreFails, RollbackDone, Crash, TypeOK
  <2> QED
    BY <2>2
<1> DEFINE g == seen[f]["report"]
<1>3. /\ pc[f] = "resolve" /\ target[f] \in required
      /\ g # Pending /\ g \notin Entries(log)
  BY <1>1, <1>2 DEF Resolve, HasAnchor, TypeOK
<1>4. g \in Ref
  BY <1>1 DEF TypeOK, RunFiles, Names
<1>5. Current(target[f], g)
  BY <1>3 DEF Current, Active
<1>6. g # NotRequired
  BY <1>1, <1>3, <1>5 DEF BackedInv
<1>7. g \in Finalizers
  BY <1>3, <1>4, <1>6 DEF Ref
<1> HIDE DEF g
<1>8. target[g] = target[f] /\ Backed(g)
  BY <1>1, <1>5, <1>7 DEF BackedInv
<1>9. g # f /\ g \in OneRun(f) /\ f \in OneRun(g)
  BY <1>3, <1>7, <1>8 DEF Backed, Unread, OneRun
<1>10. CASE pc[g] \in {"replace", "rollback"}
  <2>1. pc[g] \in Active /\ pc[f] \in Active /\ g \in Calls
    BY <1>3, <1>7, <1>10 DEF Active, Calls
  <2>2. f \in met[g]
    BY <1>1, <1>9, <2>1 DEF MetInv
  <2> QED
    BY <1>9, <2>2 DEF Excuses, Unmet
<1>11. CASE Logs(g)
  <2>1. g \in Entries(events) \/ \E d \in Calls : LostTo(g, d)
    BY <1>3, <1>7, <1>11 DEF LossInv, LostOnlyToOverlap, Logged
  <2>2. ASSUME NEW d \in Calls, LostTo(g, d)
        PROVE  Gone(g)
    <3> SUFFICES ASSUME ~ Gone(g) PROVE FALSE
      OBVIOUS
    <3>1. d \in Splitters /\ pc[d] = "write" /\ met[d] = {}
      BY <1>7, <2>2, LostOrHeld
    <3>2. f \in met[d]
      BY <1>1, <1>3, <3>1 DEF MetInv, Active
    <3> QED
      BY <3>1, <3>2
  <2> QED
    BY <1>9, <2>1, <2>2 DEF Excuses
<1> QED
  BY <1>8, <1>9, <1>10, <1>11 DEF Backed, Excuses

LEMMA RefusedStep ==
    ASSUME SafeInv, LossInv, BackedInv, RefusedInv, [Next]_vars
    PROVE  RefusedInv'
<1>1. ASSUME NEW c \in Calls, Step(c), NEW f \in Finalizers,
             pc'[f] = "refused", target'[f] \in allowed'
      PROVE  \E g \in OneRun(f)' \ {f} : Excuses(g)'
  <2>1. Typed /\ TypeOK /\ MetInv /\ OwnInv /\ target' = target /\ allowed' = allowed
    BY <1>1, OneStep DEF SafeInv, Typed, StepOf, setting
  <2>2. PICK g \in OneRun(f) \ {f} : Excuses(g)
    <3>1. CASE pc[f] = "refused"
      BY <1>1, <2>1, <3>1 DEF RefusedInv
    <3>2. CASE pc[f] # "refused"
      BY <1>1, <2>1, <3>2, Refuses
    <3> QED
      BY <3>1, <3>2
  <2>3. g \in Finalizers /\ g \in OneRun(f)' \ {f}
    BY <2>1, <2>2 DEF OneRun
  <2>4. Excuses(g)'
    BY <1>1, <2>1, <2>2, <2>3, ExcusesStay
  <2> QED
    BY <2>3, <2>4
<1>2. CASE UNCHANGED vars
  <2>1. /\ log' = log /\ events' = events /\ pc' = pc /\ text' = text /\ target' = target
        /\ allowed' = allowed /\ issues' = issues /\ met' = met
    BY <1>2 DEF vars, setting
  <2>2. /\ \A s \in Splitters : Entries(Kept(s))' = Entries(Kept(s))
        /\ \A c \in Calls : Entries(text[c])' = Entries(text[c]) /\ (WroteLog(c)' <=> WroteLog(c))
        /\ Entries(events)' = Entries(events)
    BY <2>1 DEF Kept, Entries, WroteLog
  <2>3. \A g \in Finalizers : Gone(g)' <=> Gone(g)
    BY <2>1, <2>2 DEF Gone
  <2>4. \A g \in Finalizers : (Excuses(g)' <=> Excuses(g)) /\ OneRun(g)' = OneRun(g)
    BY <2>1, <2>2, <2>3 DEF Excuses, Unmet, OneRun
  <2>5. \A f \in Finalizers : OneRun(f) \subseteq Finalizers
    BY DEF OneRun
  <2> QED
    BY <2>1, <2>4, <2>5 DEF RefusedInv
<1>3. ASSUME NEW c \in Calls, Step(c)
      PROVE  RefusedInv'
  BY <1>1, <1>3 DEF RefusedInv
<1> QED
  BY <1>2, <1>3, OneSteps

LEMMA WholeInvariance == Spec => []WholeInv
<1>1. Init => WholeInv
  <2> SUFFICES ASSUME Init PROVE WholeInv
    OBVIOUS
  <2>1. LossInv /\ RefusedInv
    BY DEF Init, LossInv, LostOnlyToOverlap, Logs, Through, HasRead, RefusedInv, Calls
  <2>2. BackedInv
    BY FinalizeAssumption
       DEF Init, BackedInv, Current, Unfinalized, Names, Active, Calls
  <2> QED
    BY <2>1, <2>2, InitSafe DEF WholeInv
<1>2. WholeInv /\ [Next]_vars => WholeInv'
  BY SafeStep, LossInvStep, BackedStep, RefusedStep DEF WholeInv
<1> QED
  BY <1>1, <1>2, PTL DEF Spec

(* A finalization is refused for a missing log entry only where an earlier *)
(* one of the run died, could not restore its files or was overlapped by   *)
(* one of the run, or where the entry was moved or lost as                 *)
(* LostOnlyToOverlap says (resolve_finalize_log_state).                    *)
THEOREM RefusalsExplained == Spec => []RefusalExplained
<1>1. WholeInv => RefusalExplained
  <2> SUFFICES ASSUME WholeInv, NEW f \in Finalizers, pc[f] = "refused", target[f] \in allowed
               PROVE  \E g \in OneRun(f) \ {f} :
                          \/ pc[g] = "crashed" \/ issues[g] # {}
                          \/ g \in Entries(events)
                          \/ met[g] \cap OneRun(f) # {}
                          \/ \E c \in Calls : LostTo(g, c)
    BY DEF RefusalExplained
  <2>1. PICK g \in OneRun(f) \ {f} : Excuses(g)
    BY DEF WholeInv, RefusedInv
  <2>2. OneRun(g) = OneRun(f)
    BY <2>1 DEF OneRun
  <2>3. Gone(g) => \E c \in Calls : LostTo(g, c)
    BY GoneIsLost
  <2>4. ~ Unmet(g) => met[g] \cap OneRun(f) # {}
    BY <2>2 DEF Unmet
  <2> QED
    BY <2>1, <2>3, <2>4 DEF Excuses
<1> QED
  BY <1>1, WholeInvariance, PTL

=============================================================================
