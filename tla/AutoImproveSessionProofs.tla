---------------------- MODULE AutoImproveSessionProofs ----------------------
(* Proofs about AutoImproveSession, for any number of proposals, calls and *)
(* crashes and any budgets.  The records of a session carry counters of    *)
(* their own beside the iterations: the proofs rest on both agreeing.      *)
EXTENDS AutoImproveSession, FiniteSetTheorems, SequenceTheorems, TLAPS

-----------------------------------------------------------------------------
(* The operators on iterations.                                            *)

LEMMA IterationFields ==
    ASSUME NEW it \in Iteration
    PROVE  /\ it.outcome \in {"promoted", "discarded", "hold", "executor_usage_limited"}
           /\ it.outcome = "promoted" => it.reason \notin Reasons
           /\ it.outcome # "promoted" => it.reason \in Reasons \ {BacklogItem}
<1>1. PICK p \in Proposals, r \in Results : it = [proposal |-> p, outcome |-> r.outcome, reason |-> r.reason]
  BY DEF Iteration
<1>2. it.outcome = r.outcome /\ it.reason = r.reason
  BY <1>1 DEF Results
<1>3. \/ r.outcome = "promoted" /\ r.reason = "none"
      \/ r.outcome = "discarded" /\ r.reason \in {"discarded", "check"}
      \/ r.outcome = "hold" /\ r.reason = "hold"
      \/ r.outcome = "executor_usage_limited" /\ r.reason = "executor_usage_limited"
  BY DEF Results
<1> QED
  BY <1>2, <1>3 DEF Reasons, BacklogItem, Generic

LEMMA OccurrencesSet ==
    ASSUME NEW its \in Seq(Iteration), NEW r
    PROVE  /\ IsFiniteSet({i \in DOMAIN its : its[i].reason = r})
           /\ Occurrences(r, its) \in Nat
<1>1. IsFiniteSet(DOMAIN its)
  BY FS_Interval, LenProperties
<1>2. IsFiniteSet({i \in DOMAIN its : its[i].reason = r})
  BY <1>1, FS_Subset
<1> QED
  BY <1>2, FS_CardinalityType DEF Occurrences

LEMMA OccurrencesEmpty == ASSUME NEW r PROVE Occurrences(r, <<>>) = 0
<1>1. {i \in DOMAIN <<>> : <<>>[i].reason = r} = {}
  OBVIOUS
<1> QED
  BY <1>1, FS_EmptySet DEF Occurrences

LEMMA OccurrencesAppend ==
    ASSUME NEW its \in Seq(Iteration), NEW it \in Iteration, NEW r
    PROVE  Occurrences(r, Append(its, it)) =
               IF it.reason = r THEN Occurrences(r, its) + 1 ELSE Occurrences(r, its)
<1> DEFINE now == {i \in DOMAIN its : its[i].reason = r}
           next == {i \in DOMAIN Append(its, it) : Append(its, it)[i].reason = r}
<1>1. next = IF it.reason = r THEN now \cup {Len(its) + 1} ELSE now
  BY AppendProperties, LenProperties
<1>2. Len(its) + 1 \notin now
  BY LenProperties
<1>3. IsFiniteSet(now)
  BY OccurrencesSet
<1>4. Cardinality(now \cup {Len(its) + 1}) = Cardinality(now) + 1
  BY <1>2, <1>3, FS_AddElement
<1> QED
  BY <1>1, <1>4 DEF Occurrences

\* No iteration has the backlog's own reason.
LEMMA BacklogNeverOccurs ==
    ASSUME NEW its \in Seq(Iteration) PROVE Occurrences(BacklogItem, its) = 0
<1>1. {i \in DOMAIN its : its[i].reason = BacklogItem} = {}
  BY IterationFields, ElementOfSeq, LenProperties DEF Reasons
<1> QED
  BY <1>1, FS_EmptySet DEF Occurrences

LEMMA TrailingSet ==
    ASSUME NEW its \in Seq(Iteration)
    PROVE  /\ IsFiniteSet({i \in DOMAIN its :
                  /\ its[i].outcome \notin Unbudgeted
                  /\ \A j \in i .. Len(its) : its[j].outcome # "promoted"})
           /\ Trailing(its) \in Nat
<1> DEFINE failures == {i \in DOMAIN its :
               /\ its[i].outcome \notin Unbudgeted
               /\ \A j \in i .. Len(its) : its[j].outcome # "promoted"}
<1>1. IsFiniteSet(DOMAIN its)
  BY FS_Interval, LenProperties
<1>2. IsFiniteSet(failures)
  BY <1>1, FS_Subset
<1> QED
  BY <1>2, FS_CardinalityType DEF Trailing

LEMMA TrailingEmpty == Trailing(<<>>) = 0
<1>1. {i \in DOMAIN <<>> :
         /\ <<>>[i].outcome \notin Unbudgeted
         /\ \A j \in i .. Len(<<>>) : <<>>[j].outcome # "promoted"} = {}
  OBVIOUS
<1> QED
  BY <1>1, FS_EmptySet DEF Trailing

LEMMA TrailingAppend ==
    ASSUME NEW its \in Seq(Iteration), NEW it \in Iteration
    PROVE  Trailing(Append(its, it)) =
               IF it.outcome = "promoted" THEN 0
               ELSE IF it.outcome \in Unbudgeted THEN Trailing(its) ELSE Trailing(its) + 1
<1> DEFINE more == Append(its, it)
           now == {i \in DOMAIN its :
               /\ its[i].outcome \notin Unbudgeted
               /\ \A j \in i .. Len(its) : its[j].outcome # "promoted"}
           next == {i \in DOMAIN more :
               /\ more[i].outcome \notin Unbudgeted
               /\ \A j \in i .. Len(more) : more[j].outcome # "promoted"}
<1>1. /\ Len(its) \in Nat /\ DOMAIN its = 1 .. Len(its)
      /\ Len(more) = Len(its) + 1 /\ DOMAIN more = 1 .. Len(its) + 1
      /\ \A i \in 1 .. Len(its) : more[i] = its[i]
      /\ more[Len(its) + 1] = it
  BY AppendProperties, LenProperties
<1>2. CASE it.outcome = "promoted"
  <2>1. next = {}
    BY <1>1, <1>2
  <2> QED
    BY <1>2, <2>1, FS_EmptySet DEF Trailing
<1>3. CASE it.outcome # "promoted" /\ it.outcome \in Unbudgeted
  <2>1. next = now
    BY <1>1, <1>3
  <2> QED
    BY <1>3, <2>1 DEF Trailing
<1>4. CASE it.outcome # "promoted" /\ it.outcome \notin Unbudgeted
  <2>1. next = now \cup {Len(its) + 1}
    BY <1>1, <1>4
  <2>2. Len(its) + 1 \notin now
    BY <1>1
  <2>3. IsFiniteSet(now)
    BY TrailingSet
  <2>4. Cardinality(next) = Cardinality(now) + 1
    BY <2>1, <2>2, <2>3, FS_AddElement
  <2> QED
    BY <1>4, <2>4 DEF Trailing
<1> QED
  BY <1>2, <1>3, <1>4

LEMMA PrefixSelf == ASSUME NEW its PROVE Len(its) \in Nat => IsPrefix(its, its)
BY DEF IsPrefix

LEMMA PrefixAppend ==
    ASSUME NEW its \in Seq(Iteration), NEW old \in Seq(Iteration), NEW it \in Iteration,
           IsPrefix(old, its)
    PROVE  IsPrefix(old, Append(its, it))
<1> DEFINE more == Append(its, it)
<1>1. /\ Len(old) \in Nat /\ Len(its) \in Nat /\ Len(more) = Len(its) + 1
      /\ \A i \in 1 .. Len(its) : more[i] = its[i] /\ its[i] \in Iteration
      /\ Len(old) <= Len(its)
  BY AppendProperties, LenProperties, ElementOfSeq DEF IsPrefix
<1>2. /\ SubSeq(its, 1, Len(old)) \in Seq(Iteration)
      /\ Len(SubSeq(its, 1, Len(old))) = Len(old)
      /\ \A i \in 1 .. Len(old) : SubSeq(its, 1, Len(old))[i] = its[i]
  BY <1>1, SubSeqProperties
<1>3. /\ SubSeq(more, 1, Len(old)) \in Seq(Iteration)
      /\ Len(SubSeq(more, 1, Len(old))) = Len(old)
      /\ \A i \in 1 .. Len(old) : SubSeq(more, 1, Len(old))[i] = more[i]
  BY <1>1, SubSeqProperties
<1>4. SubSeq(its, 1, Len(old)) = SubSeq(more, 1, Len(old))
  BY <1>1, <1>2, <1>3, SeqEqual
<1> QED
  BY <1>1, <1>4 DEF IsPrefix

-----------------------------------------------------------------------------
(* What is true of the records of a session, in memory and on disk.        *)

\* The counters agree with the iterations, but for the marks an open backlog leaves.
Exact(rec) ==
    /\ rec \in Record
    /\ rec.streak = Trailing(rec.iterations)
    /\ \A r \in Reasons \ {BacklogItem} : rec.counts[r] = Occurrences(r, rec.iterations)
    /\ 1 <= rec.budget /\ rec.budget <= rec.contract

\* Two records that differ in the backlog's mark, the action and the stop reason at most.
Like(a, b) ==
    /\ Exact(b)
    /\ b.iterations = a.iterations /\ b.streak = a.streak
    /\ b.budget = a.budget /\ b.contract = a.contract /\ b.decisions = a.decisions

LEMMA NormalizedLike ==
    ASSUME NEW rec, Exact(rec)
    PROVE  LET n == Normalized(rec) IN
           /\ Like(rec, n) /\ n.stop = rec.stop /\ n.action = rec.action
           /\ n.attempted = rec.attempted
<1>1. rec.iterations \in Seq(Iteration) /\ rec \in Record
  BY DEF Exact, Record
<1>2. CASE Normalized(rec) = rec
  BY <1>2 DEF Like, Exact
<1>3. CASE Normalized(rec) = [rec EXCEPT !.counts = Recount(rec.iterations)]
  <2> DEFINE n == [rec EXCEPT !.counts = Recount(rec.iterations)]
  <2>1. Recount(rec.iterations) \in [Reasons -> Nat]
    BY <1>1, OccurrencesSet DEF Recount
  <2>2. /\ n \in Record
        /\ n.iterations = rec.iterations /\ n.streak = rec.streak /\ n.budget = rec.budget
        /\ n.contract = rec.contract /\ n.decisions = rec.decisions /\ n.stop = rec.stop
        /\ n.action = rec.action /\ n.attempted = rec.attempted
        /\ n.counts = Recount(rec.iterations)
    BY <1>1, <2>1 DEF Record
  <2>3. \A r \in Reasons : n.counts[r] = Occurrences(r, n.iterations)
    BY <2>2 DEF Recount
  <2> HIDE DEF n
  <2>4. Exact(n)
    BY <2>2, <2>3 DEF Exact
  <2>5. Normalized(rec) = n
    BY <1>3 DEF n
  <2> QED
    BY <2>2, <2>4, <2>5 DEF Like
<1> QED
  BY <1>2, <1>3 DEF Normalized

\* A marked reason stays a true one: a count is at the threshold already, or the backlog's.
LEMMA MarkLike ==
    ASSUME session # <<>>, Exact(s), NEW r \in Reasons,
           r = BacklogItem \/ s.counts[r] >= Threshold, Mark(r)
    PROVE  /\ session' = <<s'>> /\ Like(s, s') /\ s'.stop = s.stop
           /\ s'.counts[r] >= Threshold
<1> DEFINE n == Normalized(s)
           m == [n EXCEPT !.counts[r] = IF @ >= Threshold THEN @ ELSE Threshold]
<1>1. Like(s, n) /\ n.stop = s.stop
  BY NormalizedLike
<1>2. n \in Record /\ Exact(n)
  BY <1>1 DEF Like, Exact
<1> HIDE DEF n
<1>3. n.counts \in [Reasons -> Nat]
  BY <1>2 DEF Record
<1>4. /\ m \in Record
      /\ m.iterations = n.iterations /\ m.streak = n.streak /\ m.budget = n.budget
      /\ m.contract = n.contract /\ m.decisions = n.decisions /\ m.stop = n.stop
      /\ \A q \in Reasons \ {r} : m.counts[q] = n.counts[q]
      /\ m.counts[r] = IF n.counts[r] >= Threshold THEN n.counts[r] ELSE Threshold
  BY <1>2, <1>3 DEF Record, Threshold
<1>5. m.counts[r] >= Threshold
  BY <1>3, <1>4 DEF Threshold
<1>6. r # BacklogItem => n.counts[r] = s.counts[r]
  BY <1>1 DEF Like, Exact
<1>7. \A q \in Reasons \ {BacklogItem} : m.counts[q] = n.counts[q]
  BY <1>4, <1>6
<1>8. session' = <<m>>
  BY DEF Mark, n
<1> HIDE DEF m
<1>9. s' = m
  BY <1>8 DEF s
<1>10. Exact(m)
  BY <1>2, <1>4, <1>7 DEF Exact
<1> QED
  BY <1>1, <1>4, <1>5, <1>8, <1>9, <1>10 DEF Like

LEMMA MarkRepeatedLike ==
    ASSUME session # <<>>, Exact(s), Repeated(s), MarkRepeated
    PROVE  /\ session' = <<s'>> /\ Like(s, s') /\ s'.stop = s.stop
           /\ \E r \in Reasons : s'.counts[r] >= Threshold
<1> DEFINE r == CHOOSE q \in Reasons : s.counts[q] >= Threshold
<1>1. r \in Reasons /\ s.counts[r] >= Threshold
  BY DEF Repeated
<1>2. Mark(r)
  BY DEF MarkRepeated
<1> HIDE DEF r
<1> QED
  BY <1>1, <1>2, MarkLike

\* The loop's decision about a repeated blocker is one about the iterations.
LEMMA NotRepeated ==
    ASSUME NEW rec, Exact(rec), ~Repeated(rec)
    PROVE  \A r \in Reasons : Occurrences(r, rec.iterations) < Threshold
<1>1. rec.iterations \in Seq(Iteration) /\ rec.counts \in [Reasons -> Nat]
  BY DEF Exact, Record
<1>2. TAKE r \in Reasons
<1>3. CASE r = BacklogItem
  BY <1>1, <1>3, BacklogNeverOccurs DEF Threshold
<1>4. CASE r # BacklogItem
  BY <1>1, <1>4 DEF Exact, Repeated, Threshold
<1> QED
  BY <1>3, <1>4

LEMMA RecordedExact ==
    ASSUME NEW rec, Exact(rec), NEW it \in Iteration
    PROVE  LET next == Recorded(rec, it) IN
           /\ Exact(next) /\ next.iterations = Append(rec.iterations, it)
           /\ next.decisions >= rec.decisions /\ next.stop = rec.stop
           /\ next.counts[BacklogItem] = rec.counts[BacklogItem]
           /\ next.budget = rec.budget /\ next.contract = rec.contract
           /\ next.streak = NextStreak(rec, it.outcome)
<1> DEFINE next == Recorded(rec, it)
<1>1. /\ rec \in Record /\ rec.iterations \in Seq(Iteration) /\ rec.streak \in Nat
      /\ rec.counts \in [Reasons -> Nat] /\ rec.decisions \in Nat
      /\ rec.budget \in Nat /\ rec.contract \in Nat
  BY DEF Exact, Record
<1>2. Append(rec.iterations, it) \in Seq(Iteration)
  BY <1>1, AppendProperties
<1>3. NextStreak(rec, it.outcome) \in Nat
  BY <1>1 DEF NextStreak
<1>4. /\ NextCounts(rec, it) \in [Reasons -> Nat]
      /\ \A r \in Reasons :
            NextCounts(rec, it)[r] = IF it.reason = r THEN rec.counts[r] + 1 ELSE rec.counts[r]
  BY <1>1, IterationFields DEF NextCounts
<1>5. /\ next \in Record /\ next.iterations = Append(rec.iterations, it)
      /\ next.streak = NextStreak(rec, it.outcome) /\ next.counts = NextCounts(rec, it)
      /\ next.decisions = (IF it.outcome = "promoted" THEN rec.decisions ELSE rec.decisions + 1)
      /\ next.budget = rec.budget /\ next.contract = rec.contract /\ next.stop = rec.stop
  <2> DEFINE its == Append(rec.iterations, it)
             streak == NextStreak(rec, it.outcome)
             counts == NextCounts(rec, it)
             decisions == IF it.outcome = "promoted" THEN rec.decisions ELSE rec.decisions + 1
  <2>1. decisions \in Nat
    BY <1>1
  <2>2. next = [rec EXCEPT !.iterations = its, !.streak = streak, !.counts = counts,
                           !.decisions = decisions]
    BY <1>1 DEF Recorded, Record
  <2>3. its \in Seq(Iteration) /\ streak \in Nat /\ counts \in [Reasons -> Nat]
    BY <1>2, <1>3, <1>4
  <2> HIDE DEF its, streak, counts, decisions, next
  <2>4. /\ next \in Record /\ next.iterations = its /\ next.streak = streak
        /\ next.counts = counts /\ next.decisions = decisions
        /\ next.budget = rec.budget /\ next.contract = rec.contract /\ next.stop = rec.stop
    BY <1>1, <2>1, <2>2, <2>3 DEF Record
  <2> QED
    BY <2>4 DEF its, streak, counts, decisions
<1> HIDE DEF next
<1>6. next.streak = Trailing(next.iterations)
  BY <1>1, <1>5, TrailingAppend DEF NextStreak, Exact
<1>7. \A r \in Reasons \ {BacklogItem} : next.counts[r] = Occurrences(r, next.iterations)
  BY <1>1, <1>4, <1>5, OccurrencesAppend DEF Exact
<1>8. next.counts[BacklogItem] = rec.counts[BacklogItem]
  BY <1>4, <1>5, IterationFields DEF Reasons
<1>9. Exact(next)
  BY <1>5, <1>6, <1>7 DEF Exact
<1>10. next.decisions >= rec.decisions
  BY <1>1, <1>5
<1> QED
  BY <1>5, <1>8, <1>9, <1>10 DEF next

-----------------------------------------------------------------------------
(* What the steps do to the records.                                       *)

RecordsInv ==
    /\ report # <<>> => Exact(report[1])
    /\ session # <<>> => Exact(s)

TypeInv ==
    /\ TypeOK /\ RecordsInv
    /\ pc \in {"execute", "persist"} => pending # <<>>

\* Nothing is written, and the session stays what it was but for a mark.
Kept ==
    /\ report' = report
    /\ session' # <<>> /\ Len(session') = 1
    /\ Like(s, s') /\ s'.stop = s.stop

\* The session is written with the iterations it had.
Written ==
    /\ report' # <<>> /\ Len(report') = 1 /\ Like(s, report'[1])
    /\ session' # <<>> /\ Len(session') = 1 /\ Like(s, s')
    /\ report'[1].stop = s'.stop

\* The call ends, with or without a last write.
Closed ==
    /\ session' = <<>>
    /\ \/ report' = report
       \/ /\ report' # <<>> /\ Len(report') = 1 /\ Like(s, report'[1])
          /\ \/ pc = "preflight" /\ report'[1].stop = "learning_review_required"
             \/ pc = "complete" /\ report'[1].stop = stop

Quiet == BeginPreflight \/ RangeEnds \/ QueueEmpty \/ (\E result \in Results : Execute(result))
         \/ Maintain \/ Sleep
Marking == Begin \/ CheckStops \/ After \/ (\E p \in Proposals : Select(p))
Writing == PreflightPasses \/ MaintenanceStarts \/ Cycle
Closing == PreflightBlocks \/ Complete \/ Crash

LEMMA Calling ==
    ASSUME TypeInv, pc # "idle"
    PROVE  session # <<>> /\ Len(session) = 1 /\ Exact(s) /\ Like(s, s)
BY DEF TypeInv, TypeOK, RecordsInv, Like

LEMMA QuietKeeps == ASSUME TypeInv, Quiet PROVE Kept
<1>1. pc # "idle" /\ session' = session /\ report' = report
  BY DEF Quiet, BeginPreflight, RangeEnds, QueueEmpty, Execute, Maintain, Sleep
<1>2. s' = s
  BY <1>1 DEF s
<1> QED
  BY <1>1, <1>2, Calling DEF Kept

LEMMA MarkingKeeps == ASSUME TypeInv, Marking PROVE Kept
<1>1. pc # "idle" /\ report' = report
  BY DEF Marking, Begin, CheckStops, After, Select
<1>2. session # <<>> /\ Len(session) = 1 /\ Exact(s) /\ Like(s, s)
  BY <1>1, Calling
<1>3. CASE Repeated(s) /\ MarkRepeated
  BY <1>1, <1>2, <1>3, MarkRepeatedLike DEF Kept
<1>4. CASE Mark(BacklogItem)
  <2>1. BacklogItem \in Reasons
    BY DEF Reasons
  <2>2. session' = <<s'>> /\ Like(s, s') /\ s'.stop = s.stop
    BY <1>2, <1>4, <2>1, MarkLike
  <2> QED
    BY <1>1, <2>2 DEF Kept
<1>5. CASE session' = session
  <2>1. s' = s
    BY <1>5 DEF s
  <2> QED
    BY <1>1, <1>2, <1>5, <2>1 DEF Kept
<1>6. CASE \E p \in Proposals : Select(p)
  <2>1. PICK p \in Proposals : Select(p)
    BY <1>6
  <2> DEFINE m == [s EXCEPT !.attempted = @ \cup {p}]
  <2>2. s \in Record
    BY <1>2 DEF Exact
  <2>3. /\ m \in Record /\ m.iterations = s.iterations /\ m.streak = s.streak
        /\ m.budget = s.budget /\ m.contract = s.contract /\ m.decisions = s.decisions
        /\ m.counts = s.counts /\ m.stop = s.stop
    BY <2>2 DEF Record
  <2>4. session' = <<m>>
    BY <2>1 DEF Select
  <2> HIDE DEF m
  <2>5. s' = m
    BY <2>4 DEF s
  <2>6. Exact(m)
    BY <1>2, <2>3 DEF Exact
  <2> QED
    BY <1>1, <2>3, <2>4, <2>5, <2>6 DEF Kept, Like
<1> QED
  BY <1>3, <1>4, <1>5, <1>6 DEF Marking, Begin, CheckStops, After

\* The labels a write may put on the record are not among what Exact is about.
LEMMA RelabelledLike ==
    ASSUME NEW rec, Exact(rec), NEW label \in StopReasons, NEW flag \in BOOLEAN
    PROVE  /\ Like(rec, [rec EXCEPT !.stop = label]) /\ [rec EXCEPT !.stop = label].stop = label
           /\ Like(rec, [rec EXCEPT !.action = flag]) /\ [rec EXCEPT !.action = flag].stop = rec.stop
<1>1. rec \in Record
  BY DEF Exact
<1> DEFINE m == [rec EXCEPT !.stop = label]
           n == [rec EXCEPT !.action = flag]
<1>2. /\ m \in Record /\ m.iterations = rec.iterations /\ m.streak = rec.streak
      /\ m.budget = rec.budget /\ m.contract = rec.contract /\ m.decisions = rec.decisions
      /\ m.counts = rec.counts /\ m.stop = label
  BY <1>1 DEF Record
<1>3. /\ n \in Record /\ n.iterations = rec.iterations /\ n.streak = rec.streak
      /\ n.budget = rec.budget /\ n.contract = rec.contract /\ n.decisions = rec.decisions
      /\ n.counts = rec.counts /\ n.stop = rec.stop
  BY <1>1 DEF Record
<1> HIDE DEF m, n
<1>4. Like(rec, m) /\ m.stop = label
  BY <1>2 DEF Like, Exact
<1>5. Like(rec, n) /\ n.stop = rec.stop
  BY <1>3 DEF Like, Exact
<1> QED
  BY <1>4, <1>5 DEF m, n

LEMMA LikeTransitive ==
    ASSUME NEW a, NEW b, NEW c, Like(a, b), Like(b, c) PROVE Like(a, c)
BY DEF Like

LEMMA WriteLike ==
    ASSUME NEW rec, Exact(rec), Write(rec)
    PROVE  /\ report' # <<>> /\ Len(report') = 1
           /\ Like(rec, report'[1]) /\ report'[1].stop = rec.stop
<1>1. Like(rec, Normalized(rec)) /\ Normalized(rec).stop = rec.stop
  BY NormalizedLike
<1> QED
  BY <1>1 DEF Write

LEMMA WrittenWith ==
    ASSUME NEW rec, session # <<>>, Exact(s), Like(s, rec), session' = <<rec>>, Write(rec)
    PROVE  Written /\ s' = rec
<1>1. Exact(rec)
  BY DEF Like
<1>2. s' = rec
  BY DEF s
<1> QED
  BY <1>1, <1>2, WriteLike, LikeTransitive DEF Written

LEMMA WritingWrites ==
    ASSUME TypeInv, Writing
    PROVE  Written /\ s'.stop = IF pc = "preflight" THEN "running" ELSE s.stop
<1>1. CASE PreflightPasses
  <2>1. pc = "preflight" /\ session # <<>> /\ Exact(s)
    BY <1>1, Calling DEF PreflightPasses
  <2>2. Like(s, PreflightLabel(s)) /\ PreflightLabel(s).stop = "running"
    BY <2>1, RelabelledLike DEF PreflightLabel, StopReasons
  <2> QED
    BY <1>1, <2>1, <2>2, WrittenWith DEF PreflightPasses
<1>2. CASE MaintenanceStarts
  <2>1. pc = "maintenance" /\ session # <<>> /\ Exact(s)
    BY <1>2, Calling DEF MaintenanceStarts
  <2> DEFINE m == [s EXCEPT !.action = FALSE]
  <2>2. Like(s, m) /\ m.stop = s.stop
    BY <2>1, RelabelledLike DEF StopReasons
  <2>3. session' = <<m>> /\ Write(m)
    BY <1>2 DEF MaintenanceStarts
  <2> HIDE DEF m
  <2> QED
    BY <2>1, <2>2, <2>3, WrittenWith
<1>3. CASE Cycle
  <2>1. pc = "cycle" /\ session # <<>> /\ Exact(s)
    BY <1>3, Calling DEF Cycle
  <2>2. PICK queue \in SUBSET Proposals : CycleOn(queue, elapsed')
    BY <1>3 DEF Cycle
  <2> DEFINE n == Normalized(s)
             flag == ActionRequired(queue)
             m == [n EXCEPT !.action = flag]
  <2>3. Like(s, n) /\ n.stop = s.stop
    BY <2>1, NormalizedLike
  <2>4. Like(n, m) /\ m.stop = n.stop
    <3>1. flag \in BOOLEAN /\ "running" \in StopReasons
      BY DEF ActionRequired, StopReasons
    <3>2. Exact(n)
      BY <2>3 DEF Like
    <3> HIDE DEF n, flag
    <3> QED
      BY <3>1, <3>2, RelabelledLike
  <2>5. session' = <<m>> /\ Write(m)
    BY <2>2 DEF CycleOn
  <2> HIDE DEF m
  <2>6. Like(s, m)
    BY <2>3, <2>4, LikeTransitive
  <2> QED
    BY <2>1, <2>3, <2>4, <2>5, <2>6, WrittenWith
<1> QED
  BY <1>1, <1>2, <1>3 DEF Writing

LEMMA ClosingCloses == ASSUME TypeInv, Closing PROVE Closed
<1>1. pc # "idle" /\ session' = <<>>
  BY DEF Closing, PreflightBlocks, Complete, Crash, Ended
<1>2. Exact(s)
  BY <1>1, Calling
<1>3. CASE PreflightBlocks
  <2> DEFINE m == [s EXCEPT !.stop = "learning_review_required"]
  <2>1. Like(s, m) /\ m.stop = "learning_review_required"
    BY <1>2, RelabelledLike DEF StopReasons
  <2>2. Write(m) /\ pc = "preflight"
    BY <1>3 DEF PreflightBlocks
  <2> HIDE DEF m
  <2>3. Exact(m)
    BY <2>1 DEF Like
  <2> QED
    BY <1>1, <2>1, <2>2, <2>3, WriteLike, LikeTransitive DEF Closed
<1>4. CASE Complete
  <2> DEFINE m == [s EXCEPT !.stop = stop]
  <2>1. Like(s, m) /\ m.stop = stop
    BY <1>2, RelabelledLike DEF TypeInv, TypeOK
  <2>2. Write(m) /\ pc = "complete"
    BY <1>4 DEF Complete
  <2> HIDE DEF m
  <2>3. Exact(m)
    BY <2>1 DEF Like
  <2> QED
    BY <1>1, <2>1, <2>2, <2>3, WriteLike, LikeTransitive DEF Closed
<1>5. CASE Crash
  BY <1>1, <1>5 DEF Crash, Closed
<1> QED
  BY <1>3, <1>4, <1>5 DEF Closing

LEMMA PersistAppends ==
    ASSUME TypeInv, Persist
    PROVE  /\ pending[1] \in Iteration /\ s' = Recorded(s, pending[1])
           /\ session # <<>> /\ Exact(s) /\ Exact(s')
           /\ session' # <<>> /\ Len(session') = 1
           /\ report' # <<>> /\ Len(report') = 1
           /\ Like(s', report'[1]) /\ report'[1].stop = s'.stop
<1>1. pc = "persist" /\ session # <<>> /\ Exact(s)
  BY Calling DEF Persist
<1>2. pending[1] \in Iteration
  BY <1>1 DEF TypeInv, TypeOK
<1> DEFINE next == Recorded(s, pending[1])
<1>3. Exact(next)
  BY <1>1, <1>2, RecordedExact
<1>4. session' = <<next>> /\ Write(next)
  BY DEF Persist
<1> HIDE DEF next
<1>5. s' = next
  BY <1>4 DEF s
<1>6. /\ report' # <<>> /\ Len(report') = 1
      /\ Like(next, report'[1]) /\ report'[1].stop = next.stop
  BY <1>3, <1>4, WriteLike
<1> QED
  BY <1>1, <1>2, <1>3, <1>4, <1>5, <1>6 DEF next

\* A call starts afresh, with no iteration, or goes on with those of the report.
Fresh ==
    /\ s'.iterations = <<>> /\ s'.counts = NoCounts /\ s'.stop = "running"
    /\ report # <<>> => s'.decisions = report[1].decisions

Resumed ==
    /\ report # <<>>
    /\ s'.iterations = report[1].iterations /\ s'.decisions = report[1].decisions
    /\ s'.stop = report[1].stop
    /\ \E budget \in 1 .. s'.contract : CompatibleRefresh(report[1], budget, s'.contract)

LEMMA CallStarts ==
    ASSUME TypeInv, Call
    PROVE  /\ session' # <<>> /\ Len(session') = 1 /\ Exact(s')
           /\ begun' = Len(s'.iterations)
           /\ Fresh \/ Resumed
<1> PICK contract \in 1 .. MaxBudget :
        \E budget \in 1 .. contract : Start(budget, contract) \/ Resume(budget, contract)
  BY DEF Call
<1>1. PICK budget \in 1 .. contract : Start(budget, contract) \/ Resume(budget, contract)
  OBVIOUS
<1>2. contract \in Nat /\ budget \in Nat /\ 1 <= budget /\ budget <= contract
  BY <1>1, SessionAssumption
<1>3. CASE Start(budget, contract)
  <2> DEFINE m == [iterations |-> << >>, attempted |-> {}, counts |-> NoCounts, streak |-> 0,
                   budget |-> budget, contract |-> contract,
                   decisions |-> CarriedDecisions, action |-> FALSE, stop |-> "running"]
  <2>1. CarriedDecisions \in Nat /\ (report # <<>> => CarriedDecisions = report[1].decisions)
    BY DEF CarriedDecisions, TypeInv, TypeOK, Record
  <2>2. NoCounts \in [Reasons -> Nat] /\ <<>> \in Seq(Iteration) /\ "running" \in StopReasons
    BY EmptySeq DEF NoCounts, StopReasons
  <2>3. m \in Record
    BY <1>2, <2>1, <2>2 DEF Record
  <2>4. /\ m.iterations = <<>> /\ m.counts = NoCounts /\ m.streak = 0 /\ m.stop = "running"
        /\ m.budget = budget /\ m.contract = contract /\ m.decisions = CarriedDecisions
    OBVIOUS
  <2>5. session' = <<m>> /\ begun' = Len(m.iterations)
    BY <1>3 DEF Start, Called
  <2> HIDE DEF m
  <2>6. Exact(m)
    BY <1>2, <2>3, <2>4, OccurrencesEmpty, TrailingEmpty DEF Exact, NoCounts
  <2>7. s' = m
    BY <2>5 DEF s
  <2>8. Fresh
    BY <2>1, <2>4, <2>7 DEF Fresh
  <2> QED
    BY <2>5, <2>6, <2>7, <2>8
<1>4. CASE Resume(budget, contract)
  <2>1. report # <<>> /\ Exact(report[1]) /\ CompatibleRefresh(report[1], budget, contract)
    BY <1>4 DEF Resume, Resumable, TypeInv, RecordsInv
  <2> DEFINE n == Normalized(report[1])
             m == [[n EXCEPT !.budget = budget] EXCEPT !.contract = contract]
  <2>2. Like(report[1], n) /\ n.stop = report[1].stop
    BY <2>1, NormalizedLike
  <2>3. session' = <<m>> /\ begun' = Len(m.iterations)
    BY <1>4 DEF Resume, Called, Overridden
  <2> HIDE DEF n
  <2>4. n \in Record
    BY <2>2 DEF Like, Exact
  <2>5. /\ m \in Record /\ m.iterations = n.iterations /\ m.streak = n.streak
        /\ m.counts = n.counts /\ m.decisions = n.decisions /\ m.stop = n.stop
        /\ m.budget = budget /\ m.contract = contract
    BY <1>2, <2>4 DEF Record
  <2> HIDE DEF m
  <2>6. Exact(m)
    BY <1>2, <2>2, <2>5 DEF Exact, Like
  <2>7. s' = m
    BY <2>3 DEF s
  <2>8. Resumed
    BY <1>2, <2>1, <2>2, <2>5, <2>7 DEF Resumed, Like
  <2> QED
    BY <2>3, <2>6, <2>7, <2>8
<1> QED
  BY <1>1, <1>3, <1>4

-----------------------------------------------------------------------------
(* Types.                                                                  *)

LEMMA NextCases ==
    Next => Call \/ Quiet \/ Marking \/ Writing \/ Persist \/ Closing \/ BacklogChanges
BY DEF Next, Step, Quiet, Marking, Writing, Closing

LEMMA InitTyped == Init => TypeInv
<1> SUFFICES ASSUME Init PROVE TypeInv
  OBVIOUS
<1>1. "queue_exhausted" \in StopReasons /\ 0 \in 0 .. Target + 1 /\ 0 \in 0 .. MaxCalls
  BY SessionAssumption DEF StopReasons
<1> QED
  BY <1>1 DEF Init, TypeInv, TypeOK, RecordsInv, Modes, NoCycle, Steps

\* The variables other than the records.
Others ==
    /\ pc \in Steps \cup {"idle"}
    /\ stop \in StopReasons
    /\ repair \in BOOLEAN
    /\ pending = << >> \/ (Len(pending) = 1 /\ pending[1] \in Iteration)
    /\ elapsed \in 0 .. Target + 1
    /\ mode \in Modes
    /\ begun \in Nat
    /\ observed \in [cycles : Nat, stable : Nat, queue : SUBSET Proposals]
    /\ open \in BOOLEAN
    /\ calls \in 0 .. MaxCalls
    /\ pc \in {"execute", "persist"} => pending # <<>>

LEMMA TypedFrom ==
    ASSUME TypeInv, Others',
           Kept \/ Written \/ Closed \/ Persist \/ Call,
           (session' = <<>>) <=> (pc' = "idle")
    PROVE  TypeInv'
<1>1. \A a, b : Like(a, b) => Exact(b)
  BY DEF Like
<1>2. \A b : Exact(b) => b \in Record
  BY DEF Exact
<1>3. /\ report' # <<>> => Len(report') = 1 /\ Exact(report'[1])
      /\ session' # <<>> => Len(session') = 1 /\ Exact(s')
  <2>1. report # <<>> => Len(report) = 1 /\ Exact(report[1])
    BY DEF TypeInv, TypeOK, RecordsInv
  <2>2. CASE Kept
    BY <1>1, <2>1, <2>2 DEF Kept
  <2>3. CASE Written
    BY <1>1, <2>3 DEF Written
  <2>4. CASE Closed
    BY <1>1, <2>1, <2>4 DEF Closed
  <2>5. CASE Persist
    BY <1>1, <2>5, PersistAppends
  <2>6. CASE Call
    <3>1. report' = report
      BY <2>6 DEF Call, Start, Resume, Called
    <3> QED
      BY <2>1, <2>6, <3>1, CallStarts
  <2> QED
    BY <2>2, <2>3, <2>4, <2>5, <2>6
<1>4. RecordsInv'
  BY <1>3 DEF RecordsInv
<1>5. TypeOK'
  BY <1>2, <1>3 DEF TypeOK, Others, s
<1> QED
  BY <1>4, <1>5 DEF TypeInv, Others

LEMMA AdvanceTyped ==
    ASSUME elapsed \in 0 .. Target + 1, Advance
    PROVE  elapsed' \in 0 .. Target + 1 /\ elapsed' >= elapsed
BY SessionAssumption DEF Advance

LEMMA OthersNow == ASSUME TypeInv PROVE Others
BY DEF TypeInv, TypeOK, Others

LEMMA QuietTyped == ASSUME TypeInv, Quiet PROVE TypeInv'
<1>1. Others /\ Kept
  BY OthersNow, QuietKeeps
<1> USE DEF loop
<1>2. Others' /\ pc' # "idle"
  <2>1. CASE BeginPreflight
    BY <1>1, <2>1 DEF BeginPreflight, Others, Steps
  <2>2. CASE RangeEnds
    BY <1>1, <2>2 DEF RangeEnds, Others, Steps
  <2>3. CASE QueueEmpty
    BY <1>1, <2>3 DEF QueueEmpty, Others, Steps, StopReasons
  <2>4. CASE \E result \in Results : Execute(result)
    <3>1. PICK result \in Results : Execute(result)
      BY <2>4
    <3>2. pending[1] \in Iteration
      BY <1>1, <3>1 DEF Execute, Others
    <3>3. [proposal |-> pending[1].proposal,
           outcome |-> result.outcome, reason |-> result.reason] \in Iteration
      BY <3>1, <3>2 DEF Iteration
    <3>4. elapsed' \in 0 .. Target + 1
      BY <1>1, <3>1, AdvanceTyped DEF Execute, Others
    <3> QED
      BY <1>1, <3>1, <3>3, <3>4 DEF Execute, Others, Steps
  <2>5. CASE Maintain
    <3>1. elapsed' \in 0 .. Target + 1
      BY <1>1, <2>5, AdvanceTyped DEF Maintain, Others
    <3> QED
      BY <1>1, <2>5, <3>1 DEF Maintain, Others, Steps, StopReasons
  <2>6. CASE Sleep
    <3>1. elapsed' \in 0 .. Target + 1
      BY <1>1, <2>6, SessionAssumption DEF Sleep, Others
    <3> QED
      BY <1>1, <2>6, <3>1 DEF Sleep, Others, Steps
  <2> QED
    BY <2>1, <2>2, <2>3, <2>4, <2>5, <2>6 DEF Quiet
<1> QED
  BY <1>1, <1>2, TypedFrom DEF Kept

LEMMA MarkingTyped == ASSUME TypeInv, Marking PROVE TypeInv'
<1>1. Others /\ Kept
  BY OthersNow, MarkingKeeps
<1>2. Others' /\ pc' # "idle"
  <2>1. CASE Begin
    BY <1>1, <2>1 DEF Begin, Others, Steps, StopReasons
  <2>2. CASE CheckStops
    BY <1>1, <2>2 DEF CheckStops, Others, Steps, StopReasons
  <2>3. CASE After
    BY <1>1, <2>3 DEF After, Others, Steps, StopReasons
  <2>4. CASE \E p \in Proposals : Select(p)
    <3>1. PICK p \in Proposals : Select(p)
      BY <2>4
    <3>2. [proposal |-> p, outcome |-> "hold", reason |-> "hold"] \in Iteration
      BY DEF Iteration, Results
    <3> QED
      BY <1>1, <3>1, <3>2 DEF Select, Others, Steps
  <2> QED
    BY <2>1, <2>2, <2>3, <2>4 DEF Marking
<1> QED
  BY <1>1, <1>2, TypedFrom DEF Kept

LEMMA WritingTyped == ASSUME TypeInv, Writing PROVE TypeInv'
<1>1. Others /\ Written
  BY OthersNow, WritingWrites
<1>2. Others' /\ pc' # "idle"
  <2>1. CASE PreflightPasses
    <3>1. elapsed' \in 0 .. Target + 1
      BY <1>1, <2>1, AdvanceTyped DEF PreflightPasses, Others
    <3> QED
      BY <1>1, <2>1, <3>1 DEF PreflightPasses, Others, Steps
  <2>2. CASE MaintenanceStarts
    BY <1>1, <2>2 DEF MaintenanceStarts, Others, Steps, NoCycle, loop
  <2>3. CASE Cycle
    <3>1. elapsed' \in 0 .. Target + 1
      BY <1>1, <2>3, AdvanceTyped DEF Cycle, Others
    <3>2. PICK queue \in SUBSET Proposals : CycleOn(queue, elapsed')
      BY <2>3 DEF Cycle
    <3>3. queue \in SUBSET Proposals
      BY <3>2
    <3>4. Counted(observed.cycles) \in Nat /\ Stable(queue) \in Nat
      BY <1>1 DEF Others, Counted, Stable
    <3>5. CompletionStop(Stable(queue)) \in StopReasons
      BY <1>1 DEF Others, CompletionStop, StopReasons
    <3>6. observed' \in [cycles : Nat, stable : Nat, queue : SUBSET Proposals]
      BY <3>2, <3>3, <3>4 DEF CycleOn
    <3>7. pc' \in {"complete", "sleep"} /\ stop' \in StopReasons
      BY <1>1, <3>2, <3>5 DEF CycleOn, Others
    <3> QED
      BY <1>1, <2>3, <3>1, <3>6, <3>7 DEF Cycle, Others, Steps
  <2> QED
    BY <2>1, <2>2, <2>3 DEF Writing
<1> QED
  BY <1>1, <1>2, TypedFrom DEF Written

LEMMA PersistTyped == ASSUME TypeInv, Persist PROVE TypeInv'
<1>1. Others
  BY OthersNow
<1>2. pending[1].outcome \in Unbudgeted => pending[1].outcome \in StopReasons
  BY DEF StopReasons
<1>3. Others' /\ pc' # "idle"
  <2>1. stop' \in StopReasons /\ pc' \in {"check", "after"}
    BY <1>1, <1>2 DEF Persist, Others, StopReasons
  <2> QED
    BY <1>1, <2>1 DEF Persist, Others, Steps
<1> QED
  BY <1>3, PersistAppends, TypedFrom

LEMMA ClosingTyped == ASSUME TypeInv, Closing PROVE TypeInv'
<1>1. Others /\ Closed
  BY OthersNow, ClosingCloses
<1>2. Ended /\ open' = open /\ calls' = calls
  BY DEF Closing, PreflightBlocks, Complete, Crash
<1>3. elapsed' \in 0 .. Target + 1
  BY <1>2, SessionAssumption DEF Ended
<1>4. Others'
  BY <1>1, <1>2, <1>3 DEF Ended, Others, StopReasons, Modes, NoCycle
<1> QED
  BY <1>1, <1>2, <1>4, TypedFrom DEF Ended, Closed

LEMMA CallTyped == ASSUME TypeInv, Call PROVE TypeInv'
<1>1. Others
  BY OthersNow
<1>2. /\ pc = "idle" /\ calls < MaxCalls /\ pc' = "begin" /\ stop' = "queue_exhausted"
      /\ repair' = FALSE /\ pending' = << >> /\ elapsed' = 0 /\ mode' = "off"
      /\ observed' = NoCycle /\ calls' = calls + 1 /\ open' = open
  BY DEF Call, Start, Resume, Called
<1>3. begun' \in Nat
  BY CallStarts, LenProperties DEF Exact, Record
<1>4. elapsed' \in 0 .. Target + 1 /\ calls' \in 0 .. MaxCalls
  BY <1>1, <1>2, SessionAssumption DEF Others
<1>5. Others'
  BY <1>1, <1>2, <1>3, <1>4 DEF Others, StopReasons, Modes, NoCycle, Steps
<1> QED
  BY <1>2, <1>5, CallStarts, TypedFrom

LEMMA TypedStep == TypeInv /\ [Next]_vars => TypeInv'
<1> SUFFICES ASSUME TypeInv, [Next]_vars PROVE TypeInv'
  OBVIOUS
<1>1. CASE BacklogChanges
  BY <1>1 DEF BacklogChanges, TypeInv, TypeOK, RecordsInv, s, loop
<1>2. CASE UNCHANGED vars
  BY <1>2 DEF vars, loop, TypeInv, TypeOK, RecordsInv, s
<1> QED
  BY <1>1, <1>2, NextCases, QuietTyped, MarkingTyped, WritingTyped, PersistTyped,
     ClosingTyped, CallTyped

(* The session, the report on disk and the loop's variables keep their     *)
(* types over every call, crash and resume (run_auto_improve_session).     *)
THEOREM TypeCorrect == Spec => []TypeOK
<1>1. TypeInv => TypeOK
  BY DEF TypeInv
<1> QED
  BY <1>1, InitTyped, TypedStep, PTL DEF Spec

LEMMA TypeInvariance == Spec => []TypeInv
BY InitTyped, TypedStep, PTL DEF Spec

-----------------------------------------------------------------------------
(* What is allowed to run.                                                 *)

LEMMA ChecksHold ==
    ASSUME TypeInv, pc = "check", CheckPasses
    PROVE  /\ Trailing(s.iterations) < FailBudget
           /\ \A r \in Reasons : Occurrences(r, s.iterations) < Threshold
<1>1. Exact(s)
  BY Calling
<1> QED
  BY <1>1, NotRepeated DEF CheckPasses, Exact

(* However a session came about, over calls, resumes and crashes, a        *)
(* proposal runs only within its budget, which is within the contract's,   *)
(* with its failures and its blockers below their limits                   *)
(* (_stop_reason_before_iteration).                                        *)
THEOREM RunsWithinBudgets == Spec => RunsAllowed
<1>1. ASSUME TypeInv, [Next]_vars, pc = "check", pc' = "execute"
      PROVE  /\ IterationCount < s.budget /\ s.budget <= s.contract
             /\ Trailing(s.iterations) < FailBudget
             /\ \A r \in Reasons : Occurrences(r, s.iterations) < Threshold
  <2>1. \E p \in Proposals : Select(p)
    <3>1. \/ Quiet \/ Marking \/ Persist
          \/ Call \/ BacklogChanges \/ Writing \/ Closing \/ UNCHANGED vars
      BY <1>1, NextCases
    <3>2. ~(Call \/ BacklogChanges \/ Writing \/ Closing \/ Persist \/ Quiet \/ UNCHANGED vars)
      BY <1>1 DEF Call, Start, Resume, Called, BacklogChanges, Writing, PreflightPasses,
         MaintenanceStarts, Cycle, Closing, PreflightBlocks, Complete, Crash, Ended, Persist,
         Quiet, BeginPreflight, RangeEnds, QueueEmpty, Execute, Maintain, Sleep, vars
    <3> QED
      BY <1>1, <3>1, <3>2 DEF Marking, Begin, CheckStops, After
  <2>2. ~Exhausted /\ CheckPasses
    BY <2>1 DEF Select
  <2>3. Exact(s)
    BY <1>1, Calling
  <2>4. Len(s.iterations) \in Nat /\ s.budget \in Nat
    BY <2>3, LenProperties DEF Exact, Record
  <2> QED
    BY <1>1, <2>2, <2>3, <2>4, ChecksHold DEF Exact, Exhausted, IterationCount
<1> QED
  BY <1>1, TypeInvariance, PTL DEF Spec, RunsAllowed

-----------------------------------------------------------------------------
(* What a write may drop.                                                  *)

\* The session goes on with the report's iterations; before its first write it may have none.
HistoryInv ==
    (session # <<>> /\ report # <<>>) =>
        /\ s.decisions >= report[1].decisions
        /\ \/ IsPrefix(report[1].iterations, s.iterations)
           \/ /\ s.iterations = <<>> /\ s.counts[BacklogItem] = 0
              /\ pc \in {"begin", "preflight"}

\* A session without an iteration, and without a mark, does not stop at the beginning.
LEMMA FreshBegins ==
    ASSUME Exact(s), s.iterations = <<>>, s.counts[BacklogItem] = 0
    PROVE  ~Begin
<1>1. \A r \in Reasons : s.counts[r] = 0
  BY OccurrencesEmpty DEF Exact
<1>2. s.streak = 0 /\ ~Exhausted
  BY TrailingEmpty, EmptySeq DEF Exact, Exhausted, IterationCount, Record
<1> QED
  BY <1>1, <1>2, SessionAssumption DEF Begin, Repeated, Threshold

LEMMA SelfPrefix == ASSUME NEW rec, Exact(rec) PROVE IsPrefix(rec.iterations, rec.iterations)
BY PrefixSelf, LenProperties DEF Exact, Record

LEMMA HistoryStep == TypeInv /\ HistoryInv /\ [Next]_vars => HistoryInv'
<1> SUFFICES ASSUME TypeInv, HistoryInv, [Next]_vars, session' # <<>>, report' # <<>>
             PROVE  /\ s'.decisions >= report'[1].decisions
                    /\ \/ IsPrefix(report'[1].iterations, s'.iterations)
                       \/ /\ s'.iterations = <<>> /\ s'.counts[BacklogItem] = 0
                          /\ pc' \in {"begin", "preflight"}
  BY DEF HistoryInv
<1>1. CASE Call
  <2>1. report' = report /\ pc' = "begin"
    BY <1>1 DEF Call, Start, Resume, Called
  <2>2. Exact(report[1]) /\ (Fresh \/ Resumed)
    BY <1>1, <2>1, CallStarts DEF TypeInv, RecordsInv
  <2>3. report[1].decisions \in Nat
    BY <2>2 DEF Exact, Record
  <2>4. CASE Fresh
    BY <2>1, <2>3, <2>4 DEF Fresh, NoCounts, Reasons
  <2>5. CASE Resumed
    BY <2>1, <2>2, <2>3, <2>5, SelfPrefix DEF Resumed
  <2> QED
    BY <2>2, <2>4, <2>5
<1>2. CASE Quiet
  <2>1. /\ pc # "idle" /\ report' = report /\ session' = session
        /\ pc \in {"begin", "preflight"} => pc' \in {"begin", "preflight"}
    BY <1>2 DEF Quiet, BeginPreflight, RangeEnds, QueueEmpty, Execute, Maintain, Sleep
  <2> QED
    BY <2>1 DEF HistoryInv, s
<1>3. CASE Marking
  <2>1. Kept /\ pc # "idle"
    BY <1>3, MarkingKeeps DEF Marking, Begin, CheckStops, After, Select
  <2>2. session # <<>> /\ Exact(s)
    BY <2>1, Calling
  <2>3. IsPrefix(report[1].iterations, s.iterations)
    BY <1>3, <2>1, <2>2, FreshBegins
       DEF HistoryInv, Kept, Marking, Begin, CheckStops, After, Select
  <2> QED
    BY <2>1, <2>2, <2>3 DEF HistoryInv, Kept, Like
<1>4. CASE Writing
  <2>1. Written
    BY <1>4, WritingWrites
  <2>2. IsPrefix(report'[1].iterations, s'.iterations)
    BY <2>1, SelfPrefix DEF Written, Like
  <2>3. s'.decisions = report'[1].decisions /\ s'.decisions \in Nat
    BY <2>1 DEF Written, Like, Exact, Record
  <2> QED
    BY <2>2, <2>3
<1>5. CASE Persist
  <2>1. Like(s', report'[1]) /\ Exact(s')
    BY <1>5, PersistAppends
  <2>2. s'.decisions \in Nat
    BY <2>1 DEF Exact, Record
  <2> QED
    BY <2>1, <2>2, SelfPrefix DEF Like
<1>6. CASE Closing
  BY <1>6, ClosingCloses DEF Closed
<1>7. CASE BacklogChanges \/ UNCHANGED vars
  BY <1>7 DEF BacklogChanges, vars, HistoryInv, s
<1> QED
  BY <1>1, <1>2, <1>3, <1>4, <1>5, <1>6, <1>7, NextCases

(* No write of the report drops an iteration of its session or a next-run  *)
(* decision; a session that starts afresh drops the iterations only        *)
(* (_carry_forward_next_run_decisions_from_previous_session).              *)
THEOREM HistoryIsKept == Spec => HistoryKept
<1>1. Init => HistoryInv
  BY DEF Init, HistoryInv
<1>2. Spec => []HistoryInv
  BY <1>1, HistoryStep, TypeInvariance, PTL DEF Spec
<1>3. ASSUME TypeInv, HistoryInv, [Next]_vars, report # <<>>
      PROVE  /\ \/ IsPrefix(report[1].iterations, report'[1].iterations)
                \/ report'[1].iterations = << >>
             /\ report'[1].decisions >= report[1].decisions
  <2>1. Exact(report[1])
    BY <1>3 DEF TypeInv, RecordsInv
  <2>2. report[1].decisions \in Nat /\ report[1].iterations \in Seq(Iteration)
    BY <2>1 DEF Exact, Record
  <2>3. CASE report' = report
    BY <2>1, <2>2, <2>3, SelfPrefix
  <2>4. CASE session # <<>> /\ Like(s, report'[1])
    BY <1>3, <2>4 DEF HistoryInv, Like
  <2>5. CASE Persist
    <3>1. /\ session # <<>> /\ Exact(s) /\ pending[1] \in Iteration
          /\ s' = Recorded(s, pending[1]) /\ Like(s', report'[1])
      BY <1>3, <2>5, PersistAppends
    <3>2. IsPrefix(report[1].iterations, s.iterations) /\ s.decisions >= report[1].decisions
      BY <1>3, <2>5, <3>1 DEF HistoryInv, Persist
    <3>3. s.iterations \in Seq(Iteration) /\ s.decisions \in Nat
      BY <3>1 DEF Exact, Record
    <3>4. /\ s'.iterations = Append(s.iterations, pending[1])
          /\ s'.decisions >= s.decisions /\ s'.decisions \in Nat
      BY <3>1, RecordedExact DEF Exact, Record
    <3> QED
      BY <2>2, <3>1, <3>2, <3>3, <3>4, PrefixAppend DEF Like
  <2>6. CASE Writing \/ Closing
    <3>1. pc # "idle"
      BY <2>6 DEF Writing, PreflightPasses, MaintenanceStarts, Cycle,
         Closing, PreflightBlocks, Complete, Crash
    <3> QED
      BY <1>3, <2>3, <2>4, <2>6, <3>1, Calling, WritingWrites, ClosingCloses DEF Written, Closed
  <2>7. CASE Quiet \/ Marking
    BY <1>3, <2>3, <2>7, QuietKeeps, MarkingKeeps DEF Kept
  <2>8. CASE Call \/ BacklogChanges \/ UNCHANGED vars
    BY <2>3, <2>8 DEF Call, Start, Resume, Called, BacklogChanges, vars
  <2> QED
    BY <1>3, <2>5, <2>6, <2>7, <2>8, NextCases
<1> QED
  BY <1>2, <1>3, TypeInvariance, PTL DEF Spec, HistoryKept

-----------------------------------------------------------------------------
(* What a call stops for.                                                  *)

LoopStops == {"queue_exhausted", "proposal_budget_exhausted", "failure_budget_exhausted",
              "time_budget_exhausted", BlockerStop, "executor_usage_limited"}

Blocked == \/ s.counts[BacklogItem] > 0
           \/ \E r \in Reasons : Occurrences(r, s.iterations) >= Threshold

\* A reason other than the queue's end, once the loop has it, is and stays true.
Genuine ==
    /\ stop \in LoopStops
    /\ stop = "proposal_budget_exhausted" => Exhausted
    /\ stop = "failure_budget_exhausted" => Trailing(s.iterations) >= FailBudget
    /\ stop = "time_budget_exhausted" => elapsed >= Target
    /\ stop = BlockerStop => Blocked
    /\ stop = "executor_usage_limited" =>
          IterationCount > 0 /\ s.iterations[IterationCount].outcome = stop

\* Which reasons there can be where; the queue's end is settled after the loop only.
StopAt ==
    /\ pc \in {"begin", "preflight"} => stop = "queue_exhausted"
    /\ pc = "check" => stop \in {"queue_exhausted", "proposal_budget_exhausted",
                                 "failure_budget_exhausted", BlockerStop}
    /\ pc \in {"execute", "persist"} => stop \in {"queue_exhausted", BlockerStop}
    /\ pc \in {"maintain", "complete"} /\ stop = "queue_exhausted" => ~Exhausted
    /\ pc \in {"maintenance", "cycle", "sleep"} => stop = "proposal_budget_exhausted"

StopInv == pc # "idle" => Genuine /\ StopAt

LEMMA MarkBlocks ==
    ASSUME session # <<>>, Exact(s), (Repeated(s) /\ MarkRepeated) \/ Mark(BacklogItem)
    PROVE  Blocked' /\ Repeated(s)' /\ Like(s, s') /\ s'.stop = s.stop
<1>1. PICK r \in Reasons : s'.counts[r] >= Threshold /\ Like(s, s') /\ s'.stop = s.stop
  <2>1. BacklogItem \in Reasons
    BY DEF Reasons
  <2> QED
    BY <2>1, MarkRepeatedLike, MarkLike
<1>2. Exact(s')
  BY <1>1 DEF Like
<1>3. s'.counts[r] \in Nat
  BY <1>2 DEF Exact, Record
<1>4. CASE r = BacklogItem
  BY <1>1, <1>3, <1>4 DEF Blocked, Repeated, Threshold
<1>5. CASE r # BacklogItem
  BY <1>1, <1>2, <1>5 DEF Blocked, Repeated, Exact
<1> QED
  BY <1>1, <1>4, <1>5

LEMMA StopQuiet == ASSUME TypeInv, StopInv, Quiet PROVE Genuine' /\ StopAt'
<1>1. session' = session /\ pc # "idle" /\ Genuine /\ StopAt
  BY DEF Quiet, BeginPreflight, RangeEnds, QueueEmpty, Execute, Maintain, Sleep, StopInv
<1>2. s' = s /\ Exhausted' = Exhausted /\ Blocked' = Blocked /\ IterationCount' = IterationCount
  BY <1>1 DEF s, Exhausted, Blocked, IterationCount
<1>3. elapsed \in 0 .. Target + 1 /\ Target \in Nat
  BY SessionAssumption DEF TypeInv, TypeOK
<1>4. CASE BeginPreflight \/ RangeEnds
  BY <1>1, <1>2, <1>4 DEF BeginPreflight, RangeEnds, loop, Genuine, StopAt
<1>5. CASE QueueEmpty
  BY <1>1, <1>2, <1>5 DEF QueueEmpty, Genuine, StopAt, LoopStops, BlockerStop
<1>6. CASE \E result \in Results : Execute(result)
  <2>1. elapsed' >= elapsed /\ stop' = stop /\ pc = "execute" /\ pc' = "persist"
    BY <1>3, <1>6, AdvanceTyped DEF Execute
  <2> QED
    BY <1>1, <1>2, <2>1 DEF Genuine, StopAt, BlockerStop
<1>7. CASE Maintain
  <2>1. /\ elapsed' \in Nat /\ elapsed' >= elapsed /\ pc = "maintain"
        /\ \/ pc' = "complete" /\ stop' = stop
           \/ pc' = "complete" /\ stop' = "time_budget_exhausted" /\ elapsed >= Target
           \/ /\ pc' = "maintenance" /\ stop' = stop /\ stop = "proposal_budget_exhausted"
    BY <1>3, <1>7, AdvanceTyped DEF Maintain, Eligible
  <2>2. elapsed >= Target => elapsed' >= Target
    BY <1>3, <2>1
  <2> QED
    BY <1>1, <1>2, <2>1, <2>2 DEF Genuine, StopAt, LoopStops, BlockerStop
<1>8. CASE Sleep
  BY <1>1, <1>2, <1>8 DEF Sleep, loop, Genuine, StopAt, BlockerStop
<1> QED
  BY <1>4, <1>5, <1>6, <1>7, <1>8 DEF Quiet

LEMMA StopMarking == ASSUME TypeInv, StopInv, Marking PROVE Genuine' /\ StopAt'
<1>1. Kept /\ pc # "idle" /\ elapsed' = elapsed /\ pc' \in {"check", "after", "maintain", "execute"}
  BY MarkingKeeps DEF Marking, Begin, CheckStops, After, Select
<1>2. session # <<>> /\ Exact(s) /\ Genuine /\ StopAt
  BY <1>1, Calling DEF StopInv
<1>3. CASE /\ (Repeated(s) /\ MarkRepeated) \/ Mark(BacklogItem)
           /\ stop' = BlockerStop /\ pc' # "execute"
  <2>1. Blocked'
    BY <1>2, <1>3, MarkBlocks
  <2> QED
    BY <1>1, <1>3, <2>1 DEF Genuine, StopAt, LoopStops, BlockerStop
<1>4. CASE session' = session /\ ~(\E p \in Proposals : Select(p))
  <2>1. s' = s /\ Exhausted' = Exhausted /\ Blocked' = Blocked /\ IterationCount' = IterationCount
    BY <1>4 DEF s, Exhausted, Blocked, IterationCount
  <2>2. CASE Begin
    <3>1. \/ stop' = BlockerStop /\ Repeated(s)
          \/ stop' = "proposal_budget_exhausted" /\ Exhausted
          \/ stop' = "failure_budget_exhausted" /\ Trailing(s.iterations) >= FailBudget
      BY <1>2, <2>2 DEF Begin, Exact
    <3>2. Repeated(s) => Blocked
      <4>1. s.counts \in [Reasons -> Nat]
        BY <1>2 DEF Exact, Record
      <4> QED
        BY <1>2, <4>1 DEF Repeated, Blocked, Exact, Threshold
    <3>3. pc' = "check"
      BY <2>2 DEF Begin
    <3> QED
      BY <2>1, <3>1, <3>2, <3>3 DEF Genuine, StopAt, LoopStops, BlockerStop
  <2>3. CASE CheckStops
    <3>1. \/ stop' = BlockerStop /\ (Repeated(s) \/ Mark(BacklogItem))
          \/ stop' = "time_budget_exhausted" /\ elapsed > Target
          \/ stop' = "failure_budget_exhausted" /\ Trailing(s.iterations) >= FailBudget
      BY <1>2, <2>3 DEF CheckStops, Exact
    <3>2. Repeated(s) => Blocked
      <4>1. s.counts \in [Reasons -> Nat]
        BY <1>2 DEF Exact, Record
      <4> QED
        BY <1>2, <4>1 DEF Repeated, Blocked, Exact, Threshold
    <3>3. Mark(BacklogItem) => Blocked'
      BY <1>2, MarkBlocks
    <3>4. pc' = "after" /\ (elapsed > Target => elapsed >= Target)
      BY <2>3, SessionAssumption DEF CheckStops, TypeInv, TypeOK
    <3> QED
      BY <1>1, <2>1, <3>1, <3>2, <3>3, <3>4 DEF Genuine, StopAt, LoopStops, BlockerStop
  <2>4. CASE After
    <3>1. \/ ((Repeated(s) /\ MarkRepeated) \/ Mark(BacklogItem)) /\ stop' = BlockerStop
          \/ stop' = IF stop = "queue_exhausted" /\ Exhausted
                     THEN "proposal_budget_exhausted" ELSE stop
      BY <2>4 DEF After
    <3>2. pc' = "maintain"
      BY <2>4 DEF After
    <3> QED
      BY <1>1, <1>2, <1>3, <2>1, <3>1, <3>2 DEF Genuine, StopAt, LoopStops, BlockerStop
  <2> QED
    BY <1>4, <2>2, <2>3, <2>4 DEF Marking
<1>5. CASE \E p \in Proposals : Select(p)
  <2>1. PICK p \in Proposals : Select(p)
    BY <1>5
  <2>2. /\ session' = <<[s EXCEPT !.attempted = @ \cup {p}]>>
        /\ ~Exhausted /\ s.streak < FailBudget /\ stop' = stop /\ pc = "check" /\ pc' = "execute"
    BY <2>1 DEF Select, CheckPasses
  <2>3. s'.counts = s.counts /\ s'.iterations = s.iterations
    BY <1>2, <2>2 DEF s, Exact, Record
  <2>4. stop \in {"queue_exhausted", BlockerStop}
    <3>1. s.streak \in Nat /\ FailBudget \in Nat
      BY <1>2, SessionAssumption DEF Exact, Record
    <3> QED
      BY <1>2, <2>2, <3>1 DEF StopAt, Genuine, Exact
  <2>5. stop = BlockerStop => Blocked'
    BY <1>2, <2>3 DEF Genuine, Blocked
  <2> QED
    BY <2>2, <2>4, <2>5 DEF Genuine, StopAt, LoopStops, BlockerStop
<1> QED
  BY <1>3, <1>4, <1>5 DEF Marking, Begin, CheckStops, After

LEMMA StopWriting == ASSUME TypeInv, StopInv, Writing PROVE Genuine' /\ StopAt'
<1>1. Written /\ pc # "idle" /\ Genuine /\ StopAt
  BY WritingWrites DEF Writing, PreflightPasses, MaintenanceStarts, Cycle, StopInv
<1>2. Exhausted' = Exhausted /\ IterationCount' = IterationCount
  BY <1>1 DEF Written, Like, Exhausted, IterationCount
<1>3. elapsed \in 0 .. Target + 1 /\ Target \in Nat
  BY SessionAssumption DEF TypeInv, TypeOK
<1>4. CASE PreflightPasses
  BY <1>1, <1>4 DEF PreflightPasses, StopAt, Genuine, LoopStops, BlockerStop
<1>5. CASE MaintenanceStarts
  BY <1>1, <1>2, <1>5 DEF MaintenanceStarts, loop, StopAt, Genuine, LoopStops, BlockerStop
<1>6. CASE Cycle
  <2>1. PICK queue \in SUBSET Proposals : CycleOn(queue, elapsed')
    BY <1>6 DEF Cycle
  <2>2. \/ pc' = "complete" /\ stop' = stop
        \/ pc' = "complete" /\ stop' = "time_budget_exhausted" /\ elapsed' >= Target
        \/ pc' = "sleep" /\ stop' = stop
    <3>1. Stable(queue) \in Nat
      BY DEF TypeInv, TypeOK, Stable
    <3>2. CycleIsLast(Stable(queue), elapsed') =>
            \/ CompletionStop(Stable(queue)) = stop
            \/ CompletionStop(Stable(queue)) = "time_budget_exhausted" /\ elapsed' >= Target
      BY <3>1 DEF CycleIsLast, CompletionStop, StableThreshold
    <3> QED
      BY <2>1, <3>2 DEF CycleOn
  <2>3. stop = "proposal_budget_exhausted" /\ Exhausted
    BY <1>1, <1>6 DEF Cycle, StopAt, Genuine
  <2> QED
    BY <1>2, <2>2, <2>3 DEF StopAt, Genuine, LoopStops, BlockerStop
<1> QED
  BY <1>4, <1>5, <1>6 DEF Writing

LEMMA StopPersist == ASSUME TypeInv, StopInv, Persist PROVE Genuine' /\ StopAt'
<1>1. /\ pending[1] \in Iteration /\ s' = Recorded(s, pending[1]) /\ Exact(s) /\ Exact(s')
      /\ pc = "persist" /\ Genuine /\ StopAt
  BY PersistAppends DEF Persist, StopInv
<1>2. /\ s.iterations \in Seq(Iteration) /\ s.counts \in [Reasons -> Nat]
      /\ Occurrences(BacklogItem, s.iterations) = 0
  BY <1>1, BacklogNeverOccurs DEF Exact, Record
<1>3. /\ s'.iterations = Append(s.iterations, pending[1])
      /\ s'.counts[BacklogItem] = s.counts[BacklogItem]
  BY <1>1, RecordedExact
<1>4. Blocked => Blocked'
  <2>1. \A r \in Reasons : /\ Occurrences(r, s.iterations) \in Nat
                           /\ Occurrences(r, s'.iterations) >= Occurrences(r, s.iterations)
                           /\ Occurrences(r, s'.iterations) \in Nat
    <3> TAKE r \in Reasons
    <3>1. Occurrences(r, s.iterations) \in Nat
      BY <1>2, OccurrencesSet
    <3>2. Occurrences(r, s'.iterations) = IF pending[1].reason = r
                                          THEN Occurrences(r, s.iterations) + 1
                                          ELSE Occurrences(r, s.iterations)
      BY <1>1, <1>2, <1>3, OccurrencesAppend
    <3> QED
      BY <3>1, <3>2
  <2> QED
    BY <1>3, <2>1 DEF Blocked, Threshold
<1>5. Len(s'.iterations) > 0 /\ s'.iterations[Len(s'.iterations)] = pending[1]
  BY <1>1, <1>2, <1>3, AppendProperties, LenProperties
<1>6. \/ stop' = pending[1].outcome /\ pc' = "after" /\ pending[1].outcome \in Unbudgeted
      \/ stop' = "failure_budget_exhausted" /\ pc' = "after" /\ s'.streak >= FailBudget
      \/ stop' = stop /\ pc' = "check"
  BY <1>1 DEF Persist
<1>7. CASE stop' = pending[1].outcome /\ pc' = "after" /\ pending[1].outcome \in Unbudgeted
  BY <1>5, <1>7 DEF Genuine, StopAt, LoopStops, BlockerStop, IterationCount, Unbudgeted
<1>8. CASE stop' = "failure_budget_exhausted" /\ pc' = "after" /\ s'.streak >= FailBudget
  BY <1>1, <1>8 DEF Genuine, StopAt, LoopStops, BlockerStop, Exact
<1>9. CASE stop' = stop /\ pc' = "check"
  BY <1>1, <1>4, <1>9 DEF Genuine, StopAt, LoopStops, BlockerStop
<1> QED
  BY <1>6, <1>7, <1>8, <1>9

LEMMA StopStep == TypeInv /\ StopInv /\ [Next]_vars => StopInv'
<1> SUFFICES ASSUME TypeInv, StopInv, [Next]_vars PROVE StopInv'
  OBVIOUS
<1>1. CASE Call
  BY <1>1 DEF Call, Start, Resume, Called, StopInv, Genuine, StopAt, LoopStops, BlockerStop
<1>2. CASE Closing
  BY <1>2 DEF Closing, PreflightBlocks, Complete, Crash, Ended, StopInv
<1>3. CASE BacklogChanges \/ UNCHANGED vars
  BY <1>3 DEF BacklogChanges, vars, loop, StopInv, Genuine, StopAt, Exhausted, IterationCount,
     Blocked, s
<1> QED
  BY <1>1, <1>2, <1>3, NextCases, StopQuiet, StopMarking, StopWriting, StopPersist DEF StopInv

LEMMA StopInvariance == Spec => []StopInv
<1>1. Init => StopInv
  BY DEF Init, StopInv
<1> QED
  BY <1>1, StopStep, TypeInvariance, PTL DEF Spec

(* The reason a completed call records is true of its session: the budget  *)
(* is used, the failures or a blocker are among the iterations, the time   *)
(* is up, or the last run met the usage limit (_stop_reason_after_loop).   *)
THEOREM StopsAreGenuine == Spec => []StopIsGenuine
<1>1. StopInv => StopIsGenuine
  BY DEF StopInv, StopIsGenuine, Genuine, StopAt, LoopStops, Blocked, BlockerStop
<1> QED
  BY <1>1, StopInvariance, PTL

-----------------------------------------------------------------------------
(* When a resume may raise the contract.                                   *)

\* A report that says the budget is used says so of its iterations, and a
\* session whose record still says so from an earlier call runs nothing.
LabelInv ==
    /\ report # <<>> /\ report[1].stop = "proposal_budget_exhausted" =>
          Len(report[1].iterations) >= report[1].budget
    /\ pc = "check" /\ s.stop = "proposal_budget_exhausted" =>
          Exhausted \/ Repeated(s) \/ s.streak >= FailBudget
    /\ pc \in {"execute", "persist"} => s.stop # "proposal_budget_exhausted"

LEMMA LabelStep == TypeInv /\ StopInv /\ LabelInv /\ [Next]_vars => LabelInv'
<1> SUFFICES ASSUME TypeInv, StopInv, LabelInv, [Next]_vars PROVE LabelInv'
  OBVIOUS
<1> DEFINE Used(rec) == rec.stop = "proposal_budget_exhausted" => Len(rec.iterations) >= rec.budget
<1>1. CASE Call
  BY <1>1 DEF Call, Start, Resume, Called, LabelInv
<1>2. CASE Quiet
  <2>1. /\ pc # "idle" /\ report' = report /\ session' = session
        /\ pc' # "check" /\ (pc' \in {"execute", "persist"} => pc = "execute")
    BY <1>2 DEF Quiet, BeginPreflight, RangeEnds, QueueEmpty, Execute, Maintain, Sleep
  <2> QED
    BY <2>1 DEF LabelInv, s
<1>3. CASE Marking
  <2>1. Kept /\ pc # "idle" /\ pc' \in {"check", "after", "maintain", "execute"}
    BY <1>3, MarkingKeeps DEF Marking, Begin, CheckStops, After, Select
  <2>2. session # <<>> /\ Exact(s)
    BY <2>1, Calling
  <2>3. pc' = "check" => Exhausted' \/ Repeated(s)' \/ s'.streak >= FailBudget
    <3> SUFFICES ASSUME pc' = "check" PROVE Exhausted' \/ Repeated(s)' \/ s'.streak >= FailBudget
      OBVIOUS
    <3>1. Begin
      BY <1>3 DEF Marking, Begin, CheckStops, After, Select
    <3>2. Exhausted' = Exhausted /\ s'.streak = s.streak
      BY <2>1 DEF Kept, Like, Exhausted, IterationCount
    <3> QED
      BY <2>2, <3>1, <3>2, MarkBlocks DEF Begin
  <2>4. pc' = "execute" => s'.stop # "proposal_budget_exhausted"
    <3> SUFFICES ASSUME pc' = "execute" PROVE s'.stop # "proposal_budget_exhausted"
      OBVIOUS
    <3>1. pc = "check" /\ ~Exhausted /\ ~Repeated(s) /\ s.streak < FailBudget
      BY <1>3 DEF Marking, Begin, CheckStops, After, Select, CheckPasses
    <3>2. s.streak \in Nat /\ FailBudget \in Nat
      BY <2>2, SessionAssumption DEF Exact, Record
    <3> QED
      BY <2>1, <3>1, <3>2 DEF LabelInv, Kept
  <2> QED
    BY <2>1, <2>3, <2>4 DEF LabelInv, Kept
<1>4. CASE Writing
  <2>1. Written /\ s'.stop = IF pc = "preflight" THEN "running" ELSE s.stop
    BY <1>4, WritingWrites
  <2>2. pc \in {"preflight", "maintenance", "cycle"} /\ pc' \notin {"execute", "persist"}
        /\ (pc' = "check" => pc = "preflight")
    BY <1>4 DEF Writing, PreflightPasses, MaintenanceStarts, Cycle, CycleOn
  <2>3. Used(report'[1])
    <3>1. CASE pc = "preflight"
      BY <2>1, <3>1 DEF Written
    <3>2. CASE pc \in {"maintenance", "cycle"}
      BY <2>1, <3>2 DEF Written, Like, StopInv, Genuine, StopAt, Exhausted, IterationCount
    <3> QED
      BY <2>2, <3>1, <3>2
  <2> QED
    BY <2>1, <2>2, <2>3 DEF LabelInv
<1>5. CASE Persist
  <2>1. /\ pc = "persist" /\ pc' \in {"check", "after"} /\ session # <<>> /\ Exact(s)
        /\ pending[1] \in Iteration /\ s' = Recorded(s, pending[1])
        /\ report'[1].stop = s'.stop
    BY <1>5, PersistAppends DEF Persist
  <2>2. s'.stop = s.stop /\ s.stop # "proposal_budget_exhausted"
    BY <2>1, RecordedExact DEF LabelInv
  <2> QED
    BY <2>1, <2>2 DEF LabelInv
<1>6. CASE Closing
  <2>1. Closed /\ pc' = "idle" /\ pc # "idle"
    BY <1>6, ClosingCloses DEF Closing, PreflightBlocks, Complete, Crash, Ended
  <2>2. CASE report' = report
    BY <2>1, <2>2 DEF LabelInv
  <2>3. CASE Like(s, report'[1]) /\ pc = "preflight" /\ report'[1].stop = "learning_review_required"
    BY <2>1, <2>3 DEF LabelInv
  <2>4. CASE Like(s, report'[1]) /\ pc = "complete" /\ report'[1].stop = stop
    BY <2>1, <2>4 DEF LabelInv, Like, StopInv, Genuine, Exhausted, IterationCount
  <2> QED
    BY <2>1, <2>2, <2>3, <2>4 DEF Closed
<1>7. CASE BacklogChanges \/ UNCHANGED vars
  BY <1>7 DEF BacklogChanges, vars, LabelInv, s, Exhausted, IterationCount, Repeated
<1> QED
  BY <1>1, <1>2, <1>3, <1>4, <1>5, <1>6, <1>7, NextCases

(* A resume raises the contract by one proposal at most, and only after    *)
(* the session used every slot of its budget, whatever crashed in between  *)
(* (_session_allows_maintenance_action_budget_increment).                  *)
THEOREM GrowthIsEarned == Spec => GrowthIsUsed
<1>1. Init => LabelInv
  BY DEF Init, LabelInv
<1>2. Spec => []LabelInv
  BY <1>1, LabelStep, TypeInvariance, StopInvariance, PTL DEF Spec
<1>3. ASSUME TypeInv, LabelInv, [Next]_vars, pc = "idle", pc' = "begin", report # <<>>,
             session'[1].iterations # <<>>, session'[1].contract > report[1].contract
      PROVE  /\ session'[1].contract = report[1].contract + 1
             /\ Len(report[1].iterations) >= report[1].budget
  <2>1. Call
    BY <1>3, NextCases DEF Quiet, Marking, Writing, Closing, BeginPreflight, RangeEnds,
       QueueEmpty, Execute, Maintain, Sleep, Begin, CheckStops, After, Select, PreflightPasses,
       MaintenanceStarts, Cycle, PreflightBlocks, Complete, Crash, Persist, BacklogChanges, vars
  <2>2. Exact(s') /\ Resumed
    BY <1>3, <2>1, CallStarts DEF Fresh, s
  <2>3. PICK budget \in 1 .. s'.contract : CompatibleRefresh(report[1], budget, s'.contract)
    BY <2>2 DEF Resumed
  <2>4. report[1].contract \in Nat /\ s'.contract \in Nat
    BY <1>3, <2>2 DEF TypeInv, RecordsInv, Exact, Record
  <2>5. MayGrow(report[1], budget, s'.contract)
    BY <1>3, <2>3, <2>4 DEF CompatibleRefresh, s
  <2> QED
    BY <1>3, <2>4, <2>5 DEF MayGrow, LabelInv, s
<1> QED
  BY <1>2, <1>3, TypeInvariance, PTL DEF Spec, GrowthIsUsed

-----------------------------------------------------------------------------
(***************************************************************************)
(* What a call has left to do: the proposals that were not attempted, and  *)
(* for as long as it selects none of them the time, and between two        *)
(* readings of the clock the steps.  Each of its sleeps takes time.        *)
(***************************************************************************)
Position ==
    [idle |-> 0, begin |-> 11, preflight |-> 10, execute |-> 11, persist |-> 10, check |-> 9,
     after |-> 8, maintain |-> 7, maintenance |-> 6, cycle |-> 5, sleep |-> 4, complete |-> 1]

Left == 12 * (Target + 1 - elapsed) + Position[pc]

Shorter == Runnable' \subseteq Runnable /\ (Runnable' = Runnable => Left' < Left)

LEMMA LeftCounts == TypeOK => Left \in Nat
<1> SUFFICES ASSUME TypeOK PROVE Left \in Nat
  OBVIOUS
<1>1. Target + 1 - elapsed \in Nat
  BY SessionAssumption DEF TypeOK
<1> QED
  BY <1>1 DEF TypeOK, Left, Position, Steps

\* A queue that is waited on has time left to settle.
SleepInv == pc = "sleep" => elapsed < Target

LEMMA SleepStep == TypeInv /\ SleepInv /\ [Next]_vars => SleepInv'
<1> SUFFICES ASSUME TypeInv, SleepInv, [Next]_vars, pc' = "sleep" PROVE elapsed' < Target
  BY DEF SleepInv
<1>1. elapsed' \in 0 .. Target + 1
  BY TypedStep DEF TypeInv, TypeOK
<1>2. CASE Cycle
  BY <1>1, <1>2, SessionAssumption DEF Cycle, CycleOn, CycleIsLast
<1>3. CASE UNCHANGED <<pc, elapsed>>
  BY <1>3 DEF SleepInv
<1>4. Cycle \/ UNCHANGED <<pc, elapsed>>
  BY DEF Next, Call, Start, Resume, Called, Step, Begin, BeginPreflight, PreflightPasses,
     PreflightBlocks, RangeEnds, CheckStops, QueueEmpty, Select, Execute, Persist, After,
     Maintain, MaintenanceStarts, Sleep, Complete, Crash, Ended, BacklogChanges, vars
<1> QED
  BY <1>2, <1>3, <1>4

LEMMA SleepInvariance == Spec => []SleepInv
<1>1. Init => SleepInv
  BY DEF Init, SleepInv
<1> QED
  BY <1>1, SleepStep, TypeInvariance, PTL DEF Spec

\* Only a selection changes which proposals were attempted.
LEMMA MarkAttempted ==
    ASSUME session # <<>>, Exact(s), NEW r \in Reasons, Mark(r)
    PROVE  s'.attempted = s.attempted
<1> DEFINE n == Normalized(s)
           m == [n EXCEPT !.counts[r] = IF @ >= Threshold THEN @ ELSE Threshold]
<1>1. n \in Record /\ n.attempted = s.attempted
  BY NormalizedLike DEF Like, Exact
<1>2. s' = m
  BY DEF Mark, s
<1> HIDE DEF n
<1>3. m.attempted = n.attempted
  BY <1>1 DEF Record
<1> QED
  BY <1>1, <1>2, <1>3

LEMMA MarkingAttempted ==
    ASSUME TypeInv, Begin \/ CheckStops \/ After
    PROVE  s'.attempted = s.attempted
<1>1. session # <<>> /\ Exact(s)
  BY Calling DEF Begin, CheckStops, After
<1>2. CASE Repeated(s) /\ MarkRepeated
  <2> DEFINE r == CHOOSE q \in Reasons : s.counts[q] >= Threshold
  <2>1. r \in Reasons /\ Mark(r)
    BY <1>2 DEF Repeated, MarkRepeated
  <2> HIDE DEF r
  <2> QED
    BY <1>1, <2>1, MarkAttempted
<1>3. CASE Mark(BacklogItem)
  BY <1>1, <1>3, MarkAttempted DEF Reasons
<1>4. CASE session' = session
  BY <1>4 DEF s
<1> QED
  BY <1>2, <1>3, <1>4 DEF Begin, CheckStops, After

LEMMA WritingAttempted == ASSUME TypeInv, Writing PROVE s'.attempted = s.attempted
<1>1. session # <<>> /\ Exact(s) /\ s \in Record
  BY Calling DEF Writing, PreflightPasses, MaintenanceStarts, Cycle, Exact
<1>2. CASE PreflightPasses
  BY <1>1, <1>2 DEF PreflightPasses, PreflightLabel, s, Record
<1>3. CASE MaintenanceStarts
  BY <1>1, <1>3 DEF MaintenanceStarts, s, Record
<1>4. CASE Cycle
  <2> DEFINE n == Normalized(s)
  <2>1. n \in Record /\ n.attempted = s.attempted
    BY <1>1, NormalizedLike DEF Like, Exact
  <2>2. PICK flag \in BOOLEAN : session' = <<[n EXCEPT !.action = flag]>>
    BY <1>4 DEF Cycle, CycleOn, ActionRequired
  <2> HIDE DEF n
  <2>3. s' = [n EXCEPT !.action = flag]
    BY <2>2 DEF s
  <2> QED
    BY <2>1, <2>3 DEF Record
<1> QED
  BY <1>2, <1>3, <1>4 DEF Writing

LEMMA PersistAttempted == ASSUME TypeInv, Persist PROVE s'.attempted = s.attempted
<1>1. s' = Recorded(s, pending[1]) /\ s \in Record
  BY PersistAppends DEF Exact
<1> QED
  BY <1>1 DEF Recorded, Record

LEMMA SelectAttempts ==
    ASSUME TypeInv, NEW p \in Proposals, Select(p)
    PROVE  Runnable' \subseteq Runnable /\ Runnable' # Runnable
<1>1. s \in Record
  BY Calling DEF Select, Exact
<1>2. s'.attempted = s.attempted \cup {p}
  BY <1>1 DEF Select, s, Record
<1> QED
  BY <1>2 DEF Runnable, Select

\* What the steps do to the place and the clock.
Onward ==
    /\ elapsed' >= elapsed
    /\ elapsed' = elapsed => Position[pc'] < Position[pc]

LEMMA OnwardShortens ==
    ASSUME TypeInv, TypeInv', Onward, s'.attempted = s.attempted
    PROVE  Shorter
<1>1. elapsed \in Int /\ elapsed' \in Int /\ Target \in Int
  BY SessionAssumption DEF TypeInv, TypeOK
<1>2. Position[pc] \in 0 .. 11 /\ Position[pc'] \in 0 .. 11
  <2>1. \A label \in Steps \cup {"idle"} : Position[label] \in 0 .. 11
    BY DEF Steps, Position
  <2> QED
    BY <2>1 DEF TypeInv, TypeOK
<1>3. Left' < Left
  BY <1>1, <1>2 DEF Onward, Left
<1> QED
  BY <1>3 DEF Shorter, Runnable

LEMMA StepsOnward ==
    ASSUME TypeInv, SleepInv, Quiet \/ Begin \/ CheckStops \/ After \/ Writing \/ Persist
    PROVE  Onward
<1> USE DEF Onward, Position
<1>1. elapsed \in 0 .. Target + 1 /\ Target \in Nat /\ Interval \in Nat \ {0}
  BY SessionAssumption DEF TypeInv, TypeOK
<1>2. CASE BeginPreflight \/ RangeEnds \/ QueueEmpty
  BY <1>1, <1>2 DEF BeginPreflight, RangeEnds, QueueEmpty
<1>3. CASE \E result \in Results : Execute(result)
  BY <1>1, <1>3, AdvanceTyped DEF Execute
<1>4. CASE Maintain
  BY <1>1, <1>4, AdvanceTyped DEF Maintain
<1>5. CASE Sleep
  BY <1>1, <1>5 DEF Sleep, SleepInv
<1>6. CASE Begin \/ CheckStops \/ After
  BY <1>1, <1>6 DEF Begin, CheckStops, After
<1>7. CASE PreflightPasses
  BY <1>1, <1>7, AdvanceTyped DEF PreflightPasses
<1>8. CASE MaintenanceStarts
  BY <1>1, <1>8 DEF MaintenanceStarts
<1>9. CASE Cycle
  BY <1>1, <1>9, AdvanceTyped DEF Cycle, CycleOn
<1>10. CASE Persist
  BY <1>1, <1>10 DEF Persist
<1> QED
  BY <1>2, <1>3, <1>4, <1>5, <1>6, <1>7, <1>8, <1>9, <1>10 DEF Quiet, Writing

LEMMA NextShortens ==
    ASSUME TypeInv, SleepInv, [Next]_vars, pc # "idle", pc' # "idle"
    PROVE  IF Step THEN Shorter ELSE UNCHANGED <<Runnable, Left>>
<1>1. TypeInv'
  BY TypedStep
<1>2. ~ (Call \/ Closing)
  BY DEF Call, Start, Resume, Called, Closing, PreflightBlocks, Complete, Crash, Ended
<1>3. ASSUME Step PROVE Shorter
  <2>1. CASE \E p \in Proposals : Select(p)
    BY <2>1, SelectAttempts DEF Shorter
  <2>2. CASE Quiet
    <3>1. s'.attempted = s.attempted
      BY <2>2 DEF Quiet, BeginPreflight, RangeEnds, QueueEmpty, Execute, Maintain, Sleep, s
    <3> QED
      BY <1>1, <2>2, <3>1, StepsOnward, OnwardShortens
  <2>3. CASE Begin \/ CheckStops \/ After \/ Writing \/ Persist
    BY <1>1, <2>3, StepsOnward, OnwardShortens, MarkingAttempted, WritingAttempted,
       PersistAttempted
  <2> QED
    BY <1>2, <1>3, <2>1, <2>2, <2>3 DEF Step, Quiet, Writing, Closing
<1>4. ASSUME ~ Step PROVE UNCHANGED <<Runnable, Left>>
  <2>1. BacklogChanges \/ UNCHANGED vars
    BY <1>2, <1>4 DEF Next, Closing
  <2> QED
    BY <2>1 DEF BacklogChanges, vars, Runnable, s, Left
<1> QED
  BY <1>3, <1>4

(* The core of SessionEnds, for any number of proposals and any times: a   *)
(* step of a call ends it, or leaves fewer proposals, or as many and less  *)
(* time or fewer steps, and a change of the backlog gives it no more.  The *)
(* maintenance loop is no exception: it sleeps only while there is time,   *)
(* and each sleep takes some (_run_proposal_budget_maintenance).  That the *)
(* process keeps running is fairness.                                      *)
THEOREM CallsShorten ==
    Spec => /\ [](Left \in Nat)
            /\ [][pc # "idle" /\ pc' # "idle" =>
                     IF Step THEN Shorter ELSE UNCHANGED <<Runnable, Left>>]_vars
<1>1. TypeInv /\ SleepInv /\ [Next]_vars =>
         [pc # "idle" /\ pc' # "idle" =>
             IF Step THEN Shorter ELSE UNCHANGED <<Runnable, Left>>]_vars
  BY NextShortens
<1> QED
  BY <1>1, LeftCounts, TypeCorrect, TypeInvariance, SleepInvariance, PTL DEF Spec
=============================================================================
