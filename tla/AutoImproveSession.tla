------------------------- MODULE AutoImproveSession -------------------------
(***************************************************************************)
(* run_auto_improve_session: one session identifier, the report kept for   *)
(* it, and the successive calls that start it afresh or resume it.  A call *)
(* passes a preflight gate, then runs one proposal after the other until a *)
(* budget, a repeated blocker, an open repeat backlog or the queue stops   *)
(* it, may observe the queue for a while (maintenance), and completes.     *)
(*                                                                         *)
(* session is the dictionary of the call, report what its last write left  *)
(* on disk: a crash loses the difference.                                  *)
(*                                                                         *)
(* The queue is the environment's: any proposal not yet attempted may be   *)
(* at its head.  Quarantined proposals are attempted ones, so within a     *)
(* session quarantine changes nothing and is left out.                     *)
(***************************************************************************)
EXTENDS Naturals, FiniteSets, Sequences, SequencesExt

CONSTANTS
    Proposals,
    Repairs,        \* the proposals of the next_run_failure_repair family
    FailBudget,     \* max_consecutive_failures
    Target,         \* max_minutes, in ticks of the model's clock
    Interval,       \* the maintenance interval, in the same ticks
    Cycles,         \* --post-promote-maintenance-cycles, when it is given
    MaxBudget,      \* bound on the proposals a caller asks for
    MaxCalls        \* bound on the calls

ASSUME SessionAssumption ==
    /\ IsFiniteSet(Proposals) /\ Repairs \subseteq Proposals
    /\ {FailBudget, Target, Interval, Cycles, MaxBudget, MaxCalls} \subseteq Nat \ {0}

Unbudgeted == {"executor_usage_limited"}
Results ==
    {[outcome |-> "promoted", reason |-> "none"],
     [outcome |-> "discarded", reason |-> "discarded"],
     [outcome |-> "discarded", reason |-> "check"],
     [outcome |-> "hold", reason |-> "hold"],
     [outcome |-> "executor_usage_limited", reason |-> "executor_usage_limited"]}
Generic == "discarded"
BacklogItem == "backlog item"
Reasons == {"check", "hold", "executor_usage_limited", Generic, BacklogItem}
Threshold == 2                                  \* REPEATED_BLOCKER_THRESHOLD
StableThreshold == 2
BlockerStop == "repeated_blocker_backlog_required"
StopReasons == {"running", "queue_exhausted", "proposal_budget_exhausted",
                "time_budget_exhausted", "failure_budget_exhausted", BlockerStop,
                "learning_review_required"} \cup Unbudgeted
Modes == {"off", "default", "explicit", "until"}

VARIABLES
    report,      \* << >> or << the session report on disk >>
    session,     \* << >> or << the session of the call in progress >>
    pc,
    stop,        \* the loop's stop_reason
    repair,      \* repeat_backlog_repair_active
    pending,     \* the iteration under way: << >> or << [proposal, outcome, reason] >>
    elapsed,     \* since the call started, on a clock that ends at Target + 1
    mode,        \* the maintenance the caller asked for, chosen when it matters
    begun,       \* initial_iteration_count
    observed,    \* maintenance: [cycles, stable, queue] of the last cycle
    open,        \* the remediation backlog holds an open repeat item
    calls

loop == <<stop, repair, pending, begun>>
vars == <<report, session, pc, loop, elapsed, mode, observed, open, calls>>

NoCounts == [r \in Reasons |-> 0]
NoCycle == [cycles |-> 0, stable |-> 0, queue |-> {}]
Iteration == {[proposal |-> p, outcome |-> r.outcome, reason |-> r.reason] :
                  p \in Proposals, r \in Results}

Record ==
    [iterations : Seq(Iteration), attempted : SUBSET Proposals, counts : [Reasons -> Nat],
     streak : Nat, budget : Nat, contract : Nat, decisions : Nat,
     action : BOOLEAN, stop : StopReasons]

Steps == {"begin", "preflight", "check", "execute", "persist", "after", "maintain",
          "maintenance", "cycle", "sleep", "complete"}

TypeOK ==
    /\ report = << >> \/ (Len(report) = 1 /\ report[1] \in Record)
    /\ session = << >> \/ (Len(session) = 1 /\ session[1] \in Record)
    /\ (session = << >>) = (pc = "idle")
    /\ pc \in Steps \cup {"idle"}
    /\ stop \in StopReasons
    /\ repair \in BOOLEAN
    /\ pending = << >> \/ (Len(pending) = 1 /\ pending[1] \in Iteration)
    /\ elapsed \in 0 .. Target + 1
    /\ mode \in Modes
    /\ begun \in Nat
    /\ observed \in [cycles : Nat, stable : Nat, queue : SUBSET Proposals]
    /\ open \in BOOLEAN
    /\ calls \in 0 .. MaxCalls

Init ==
    /\ report = << >> /\ session = << >>
    /\ pc = "idle"
    /\ stop = "queue_exhausted" /\ repair = FALSE /\ pending = << >> /\ begun = 0
    /\ elapsed = 0 /\ mode = "off" /\ observed = NoCycle
    /\ open \in BOOLEAN
    /\ calls = 0

-----------------------------------------------------------------------------
(* The session's bookkeeping.                                              *)

s == session[1]
IterationCount == Len(s.iterations)
Exhausted == IterationCount >= s.budget

Occurrences(r, iterations) == Cardinality({i \in DOMAIN iterations : iterations[i].reason = r})
Recount(iterations) == [r \in Reasons |-> Occurrences(r, iterations)]

\* _normalize_loop_state: specific reasons displace the counts that hold a generic one
Normalized(rec) ==
    LET recount == Recount(rec.iterations) IN
    IF \/ rec.counts = NoCounts
       \/ rec.counts[Generic] > 0 /\ \E r \in Reasons \ {Generic} : recount[r] > 0
    THEN [rec EXCEPT !.counts = recount]
    ELSE rec

Write(rec) == report' = <<Normalized(rec)>>

Repeated(rec) == \E r \in Reasons : rec.counts[r] >= Threshold

\* _mark_repeated_blocker_stop
Mark(r) ==
    LET rec == Normalized(s) IN
    session' = <<[rec EXCEPT !.counts[r] = IF @ >= Threshold THEN @ ELSE Threshold]>>
MarkRepeated == Mark(CHOOSE r \in Reasons : s.counts[r] >= Threshold)

BacklogStops == open /\ ~repair

Advance == elapsed' \in {elapsed, IF elapsed > Target THEN elapsed ELSE elapsed + 1}

Runnable == Proposals \ s.attempted

-----------------------------------------------------------------------------
(* Calls.                                                                  *)

Called(rec) ==
    /\ pc = "idle" /\ calls < MaxCalls
    /\ session' = <<rec>>
    /\ pc' = "begin"
    /\ stop' = "queue_exhausted" /\ repair' = FALSE /\ pending' = << >>
    /\ begun' = Len(rec.iterations)
    /\ elapsed' = 0 /\ mode' = "off" /\ observed' = NoCycle
    /\ calls' = calls + 1
    /\ UNCHANGED <<report, open>>

WithinContract(budget, contract) == budget <= contract

StartForgets(budget, contract) ==
    /\ WithinContract(budget, contract)
    /\ Called([iterations |-> << >>, attempted |-> {}, counts |-> NoCounts, streak |-> 0,
               budget |-> budget, contract |-> contract, decisions |-> 0,
               action |-> FALSE, stop |-> "running"])

\* The next-run decisions of an earlier session of this identifier are carried over.
CarriedDecisions == IF report = << >> THEN 0 ELSE report[1].decisions

Start(budget, contract) ==
    /\ WithinContract(budget, contract)
    /\ Called([iterations |-> << >>, attempted |-> {}, counts |-> NoCounts, streak |-> 0,
               budget |-> budget, contract |-> contract,
               decisions |-> CarriedDecisions,
               action |-> FALSE, stop |-> "running"])

\* _session_allows_maintenance_action_budget_increment
MayGrow(rec, budget, contract) ==
    /\ rec.action /\ rec.stop = "proposal_budget_exhausted"
    /\ budget > rec.contract /\ contract = budget
    /\ budget <= rec.contract + 1

\* A resume that raises the contract's proposals is refused unless they may grow.
CompatibleRefresh(rec, budget, contract) ==
    contract <= rec.contract \/ MayGrow(rec, budget, contract)

Overridden(rec, budget) == [rec EXCEPT !.budget = budget]

Resumable(budget, contract) ==
    /\ report # << >>
    /\ WithinContract(budget, contract)
    /\ CompatibleRefresh(report[1], budget, contract)

ResumeWithoutStreak(budget, contract) ==
    /\ Resumable(budget, contract)
    /\ Called([Overridden(Normalized(report[1]), budget) EXCEPT !.contract = contract,
                                                               !.streak = 0])

Resume(budget, contract) ==
    /\ Resumable(budget, contract)
    /\ Called([Overridden(Normalized(report[1]), budget) EXCEPT !.contract = contract])

\* The first _stop_reason_before_iteration, which does not look at the backlog.
Begin ==
    /\ pc = "begin"
    /\ pc' = "check"
    /\ \/ /\ Repeated(s) /\ MarkRepeated /\ stop' = BlockerStop
       \/ /\ ~Repeated(s) /\ Exhausted
          /\ stop' = "proposal_budget_exhausted" /\ UNCHANGED session
       \/ /\ ~Repeated(s) /\ ~Exhausted /\ s.streak >= FailBudget
          /\ stop' = "failure_budget_exhausted" /\ UNCHANGED session
    /\ UNCHANGED <<report, repair, pending, begun, elapsed, mode, observed, open, calls>>

BeginPreflight ==
    /\ pc = "begin"
    /\ ~Repeated(s) /\ ~Exhausted /\ s.streak < FailBudget
    /\ pc' = "preflight"
    /\ UNCHANGED <<report, session, loop, elapsed, mode, observed, open, calls>>

PreflightLabelKept(rec) == rec
PreflightLabel(rec) == [rec EXCEPT !.stop = "running"]

\* The head of the queue decides whether the open backlog is under repair.
PreflightPasses ==
    /\ pc = "preflight"
    /\ repair' \in IF Repairs \cap Runnable = {} THEN {FALSE} ELSE BOOLEAN
    /\ session' = <<PreflightLabel(s)>>
    /\ Write(PreflightLabel(s))
    /\ Advance
    /\ pc' = "check"
    /\ UNCHANGED <<stop, pending, begun, mode, observed, open, calls>>

Ended ==
    /\ pc' = "idle" /\ session' = << >>
    /\ stop' = "queue_exhausted" /\ repair' = FALSE /\ pending' = << >> /\ begun' = 0
    /\ elapsed' = 0 /\ mode' = "off" /\ observed' = NoCycle

PreflightBlocks ==
    /\ pc = "preflight"
    /\ Write([s EXCEPT !.stop = "learning_review_required"])
    /\ Ended
    /\ UNCHANGED <<open, calls>>

-----------------------------------------------------------------------------
(* Iterations.                                                             *)

\* The for loop: as many iterations as the budget leaves.
RangeEnds ==
    /\ pc = "check" /\ Exhausted
    /\ pc' = "after"
    /\ UNCHANGED <<report, session, loop, elapsed, mode, observed, open, calls>>

\* _stop_reason_before_iteration
CheckStops ==
    /\ pc = "check" /\ ~Exhausted
    /\ \/ /\ Repeated(s) /\ MarkRepeated /\ stop' = BlockerStop
       \/ /\ ~Repeated(s) /\ BacklogStops /\ Mark(BacklogItem) /\ stop' = BlockerStop
       \/ /\ ~Repeated(s) /\ ~BacklogStops /\ UNCHANGED session
          /\ \/ elapsed > Target /\ stop' = "time_budget_exhausted"
             \/ elapsed <= Target /\ s.streak >= FailBudget
                /\ stop' = "failure_budget_exhausted"
    /\ pc' = "after"
    /\ UNCHANGED <<report, repair, pending, begun, elapsed, mode, observed, open, calls>>

CheckPasses ==
    /\ ~Repeated(s) /\ ~BacklogStops /\ elapsed <= Target /\ s.streak < FailBudget

\* The backlog is read and the queue built in one step: nothing is written between.
Select(p) ==
    /\ pc = "check" /\ ~Exhausted /\ CheckPasses
    /\ p \in Runnable
    /\ session' = <<[s EXCEPT !.attempted = @ \cup {p}]>>
    /\ pc' = "execute"
    /\ pending' = <<[proposal |-> p, outcome |-> "hold", reason |-> "hold"]>>
    /\ UNCHANGED <<report, stop, repair, begun, elapsed, mode, observed, open, calls>>

QueueEmpty ==
    /\ pc = "check" /\ ~Exhausted /\ CheckPasses
    /\ stop' = "queue_exhausted"
    /\ pc' = "after"
    /\ UNCHANGED <<report, session, repair, pending, begun, elapsed, mode, observed, open, calls>>

Execute(result) ==
    /\ pc = "execute"
    /\ pending' = <<[proposal |-> pending[1].proposal,
                    outcome |-> result.outcome, reason |-> result.reason]>>
    /\ Advance
    /\ pc' = "persist"
    /\ UNCHANGED <<report, session, stop, repair, begun, mode, observed, open, calls>>

NextStreak(rec, outcome) ==
    IF outcome = "promoted" THEN 0
    ELSE IF outcome \in Unbudgeted THEN rec.streak ELSE rec.streak + 1

NextCounts(rec, iteration) ==
    IF iteration.outcome = "promoted" THEN rec.counts
    ELSE [rec.counts EXCEPT ![iteration.reason] = @ + 1]

Recorded(rec, iteration) ==
    [rec EXCEPT !.iterations = Append(@, iteration),
                !.streak = NextStreak(rec, iteration.outcome),
                !.counts = NextCounts(rec, iteration),
                !.decisions = IF iteration.outcome = "promoted" THEN @ ELSE @ + 1]

Persist ==
    /\ pc = "persist"
    /\ LET iteration == pending[1]
           next == Recorded(s, iteration)
       IN  /\ session' = <<next>> /\ Write(next)
           /\ \/ /\ iteration.outcome \in Unbudgeted
                 /\ stop' = iteration.outcome /\ pc' = "after"
              \/ /\ iteration.outcome \notin Unbudgeted \cup {"promoted"}
                 /\ next.streak >= FailBudget
                 /\ stop' = "failure_budget_exhausted" /\ pc' = "after"
              \/ /\ iteration.outcome \notin Unbudgeted
                 /\ iteration.outcome = "promoted" \/ next.streak < FailBudget
                 /\ pc' = "check" /\ UNCHANGED stop
    /\ pending' = << >>
    /\ UNCHANGED <<repair, begun, elapsed, mode, observed, open, calls>>

AfterKeepsStop ==
    /\ pc = "after"
    /\ \/ /\ Repeated(s) /\ MarkRepeated /\ stop' = BlockerStop
       \/ /\ ~Repeated(s) /\ BacklogStops /\ Mark(BacklogItem) /\ stop' = BlockerStop
       \/ /\ ~Repeated(s) /\ ~BacklogStops /\ UNCHANGED <<session, stop>>
    /\ pc' = "maintain"
    /\ UNCHANGED <<report, repair, pending, begun, elapsed, mode, observed, open, calls>>

\* _stop_reason_after_loop
After ==
    /\ pc = "after"
    /\ \/ /\ Repeated(s) /\ MarkRepeated /\ stop' = BlockerStop
       \/ /\ ~Repeated(s) /\ BacklogStops /\ Mark(BacklogItem) /\ stop' = BlockerStop
       \/ /\ ~Repeated(s) /\ ~BacklogStops
          /\ stop' = IF stop = "queue_exhausted" /\ Exhausted
                     THEN "proposal_budget_exhausted" ELSE stop
          /\ UNCHANGED session
    /\ pc' = "maintain"
    /\ UNCHANGED <<report, repair, pending, begun, elapsed, mode, observed, open, calls>>

-----------------------------------------------------------------------------
(* Maintenance after a promotion that used the last slot of the budget.    *)

LastPromoted == IterationCount > 0 /\ s.iterations[IterationCount].outcome = "promoted"

Eligible(m) ==
    /\ m # "off"
    /\ m = "default" => IterationCount > begun
    /\ stop = "proposal_budget_exhausted"
    /\ LastPromoted

\* _maybe_run_proposal_budget_maintenance
Maintain ==
    /\ pc = "maintain"
    /\ \E m \in Modes :
        \/ ~Eligible(m) /\ pc' = "complete" /\ UNCHANGED <<stop, mode>>
        \/ /\ Eligible(m) /\ elapsed >= Target
           /\ pc' = "complete" /\ stop' = "time_budget_exhausted" /\ UNCHANGED mode
        \/ Eligible(m) /\ elapsed < Target /\ pc' = "maintenance" /\ mode' = m /\ UNCHANGED stop
    /\ Advance
    /\ UNCHANGED <<report, session, repair, pending, begun, observed, open, calls>>

\* The clock is read again: no cycle is expected when the time is up by now.
CycleExpected == mode = "until" => elapsed < Target

MaintenanceStarts ==
    /\ pc = "maintenance"
    /\ LET rec == [s EXCEPT !.action = FALSE] IN session' = <<rec>> /\ Write(rec)
    /\ observed' = NoCycle
    /\ pc' = IF CycleExpected THEN "cycle" ELSE "complete"
    /\ UNCHANGED <<loop, elapsed, mode, open, calls>>

\* Beyond Cycles the number of cycles is told apart no more.
Counted(cycles) == IF cycles < Cycles THEN cycles + 1 ELSE cycles
CycleLimit == IF mode = "default" THEN 1 ELSE Cycles

Stable(queue) ==
    IF observed.cycles > 0 /\ queue = observed.queue THEN observed.stable + 1 ELSE 1

ActionRequired(queue) == queue # {}

\* Mutant of CycleIsLast: only a stable queue ends the loop that waits for one.
CycleIsLastUntimed(stable, now) ==
    \/ stable >= StableThreshold
    \/ mode # "until" /\ observed.cycles + 1 >= CycleLimit

CycleIsLast(stable, now) ==
    \/ stable >= StableThreshold
    \/ mode # "until" /\ observed.cycles + 1 >= CycleLimit
    \/ now >= Target

CompletionStop(stable) ==
    IF mode = "until" /\ stable < StableThreshold THEN "time_budget_exhausted" ELSE stop

\* _record_maintenance_cycle and the loop's test
CycleOn(queue, now) ==
    LET stable == Stable(queue)
        rec == [Normalized(s) EXCEPT !.action = ActionRequired(queue)]
    IN  /\ observed' = [cycles |-> Counted(observed.cycles), stable |-> stable, queue |-> queue]
        /\ session' = <<rec>> /\ Write(rec)
        /\ \/ /\ CycleIsLast(stable, now)
              /\ pc' = "complete" /\ stop' = CompletionStop(stable)
           \/ /\ ~CycleIsLast(stable, now)
              /\ pc' = "sleep" /\ UNCHANGED stop

\* The readiness report decides by the latest session it finds whether an attempted
\* proposal is runnable again: any queue (_readiness_queue_snapshot).
Cycle ==
    /\ pc = "cycle"
    /\ Advance
    /\ \E queue \in SUBSET Proposals : CycleOn(queue, elapsed')
    /\ UNCHANGED <<repair, pending, begun, mode, open, calls>>

\* sleep(min(interval, target - elapsed))
Sleep ==
    /\ pc = "sleep"
    /\ elapsed' = IF elapsed + Interval <= Target THEN elapsed + Interval ELSE Target
    /\ pc' = "cycle"
    /\ UNCHANGED <<report, session, loop, mode, observed, open, calls>>

Complete ==
    /\ pc = "complete"
    /\ Write([s EXCEPT !.stop = stop])
    /\ Ended
    /\ UNCHANGED <<open, calls>>

-----------------------------------------------------------------------------
(* The environment: the process dies or raises anywhere, and the backlog   *)
(* is rewritten by its own tool.                                           *)

Crash == pc # "idle" /\ Ended /\ UNCHANGED <<report, open, calls>>

BacklogChanges ==
    open' = ~open /\ UNCHANGED <<report, session, pc, loop, elapsed, mode, observed, calls>>

Call ==
    \E contract \in 1 .. MaxBudget : \E budget \in 1 .. contract :
        Start(budget, contract) \/ Resume(budget, contract)

Step ==
    \/ Begin \/ BeginPreflight \/ PreflightPasses \/ PreflightBlocks
    \/ RangeEnds \/ CheckStops \/ QueueEmpty
    \/ \E p \in Proposals : Select(p)
    \/ \E result \in Results : Execute(result)
    \/ Persist \/ After
    \/ Maintain \/ MaintenanceStarts \/ Cycle \/ Sleep
    \/ Complete

Next == Call \/ Step \/ Crash \/ BacklogChanges

Spec == Init /\ [][Next]_vars

\* The process of a call keeps running: what it waits for has a timeout of its own.
FairSpec == Spec /\ WF_vars(Step)
-----------------------------------------------------------------------------
(* Properties.  They are about the iterations alone: the counters the code *)
(* decides with are rebuilt from them, whatever crashed or was resumed.    *)

\* The failures the budget counts, since the last promotion.
Trailing(iterations) ==
    Cardinality({i \in DOMAIN iterations :
        /\ iterations[i].outcome \notin Unbudgeted
        /\ \A j \in i .. Len(iterations) : iterations[j].outcome # "promoted"})

\* A run starts only within the session's budgets and with no blocker met twice, over
\* all the calls that made the session (_stop_reason_before_iteration).
RunsAllowed ==
    [][pc = "check" /\ pc' = "execute" =>
         /\ IterationCount < s.budget /\ s.budget <= s.contract
         /\ Trailing(s.iterations) < FailBudget
         /\ \A r \in Reasons : Occurrences(r, s.iterations) < Threshold]_vars

\* Writing the report never drops an iteration of the session, and never a next-run
\* decision, not even when a session of the same identifier starts afresh
\* (_carry_forward_next_run_decisions_from_previous_session).
HistoryKept ==
    [][report # << >> =>
         /\ \/ IsPrefix(report[1].iterations, report'[1].iterations)
            \/ report'[1].iterations = << >>
         /\ report'[1].decisions >= report[1].decisions]_vars

\* The stop reason a call records is true of its session (_stop_reason_after_loop).
StopIsGenuine ==
    pc = "complete" =>
        CASE stop = "proposal_budget_exhausted" -> Exhausted
          [] stop = "queue_exhausted" -> ~Exhausted
          [] stop = "failure_budget_exhausted" -> Trailing(s.iterations) >= FailBudget
          [] stop = "time_budget_exhausted" -> elapsed >= Target
          [] stop = BlockerStop ->
                \/ s.counts[BacklogItem] > 0
                \/ \E r \in Reasons : Occurrences(r, s.iterations) >= Threshold
          [] OTHER -> IterationCount > 0 /\ s.iterations[IterationCount].outcome = stop

\* A resume raises the contract's proposals by one at most, and only after the session
\* used every slot of its budget (_session_allows_maintenance_action_budget_increment):
\* neither a crash nor a blocked preflight lets it raise them twice for one slot.
GrowthIsUsed ==
    [][(/\ pc = "idle" /\ pc' = "begin" /\ report # << >>
        /\ session'[1].iterations # << >>
        /\ session'[1].contract > report[1].contract) =>
           /\ session'[1].contract = report[1].contract + 1
           /\ Len(report[1].iterations) >= report[1].budget]_vars

\* Every call ends, the maintenance loop included: a queue that never settles leaves it
\* the cycles, or the time, which the sleeps use up (_run_proposal_budget_maintenance).
SessionEnds == pc # "idle" ~> pc = "idle"
=============================================================================
