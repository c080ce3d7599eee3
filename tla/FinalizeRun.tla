---------------------------- MODULE FinalizeRun ----------------------------
(***************************************************************************)
(* Finalizing mechanism runs: finalize_run reads a run's promotion report, *)
(* ledger and the system log, and atomic_multi_write replaces the report,  *)
(* the ledger, the planning validation and, last, the log, rolling back in *)
(* reverse order when a replacement fails.  system_log_split moves log     *)
(* entries to events.jsonl.  Neither takes a lock, so the steps of any two *)
(* calls may interleave.  (finalize_run_*.py, filesystem_runtime.py,       *)
(* system_log_split.py.)                                                   *)
(***************************************************************************)
EXTENDS Naturals, FiniteSets, Sequences

CONSTANTS
    Finalizers,    \* calls of finalize_run; each names the log entry it writes
    Splitters,     \* calls of system_log_split
    Runs,          \* mechanism runs whose decision is finalizable
    Pending,       \* log.status of a run that was not finalized
    NotRequired,   \* log.status of a run whose policy asks for no log entry
    NoHandle,      \* no splitter has the log open
    TailEntries,   \* --tail-entries; 0 moves every entry
    Crashes,       \* TRUE: a call may be killed at any step
    Faults         \* TRUE: a file operation may raise an OSError

ASSUME FinalizeAssumption ==
    /\ Pending \notin Finalizers /\ NotRequired \notin Finalizers
    /\ Pending # NotRequired
    /\ NoHandle \notin Splitters
    /\ Finalizers \cap Splitters = {}
    /\ TailEntries \in Nat
    /\ Crashes \in BOOLEAN /\ Faults \in BOOLEAN

Calls == Finalizers \cup Splitters
Names == {"report", "ledger", "planning"}
Ref == Finalizers \cup {Pending, NotRequired}
RunFiles == [Names -> Ref]
Unfinalized == [n \in Names |-> Pending]

VARIABLES
    target,     \* the run each call finalizes
    required,   \* the runs whose report says log.required
    allowed,    \* the runs whose signoff permits finalization
    file,       \* per run: the entry_ref its three files were finalized with
    log,        \* the entries of the system log
    events,     \* the entries moved to events.jsonl
    handle,     \* the splitter that has the log file open for writing
    pc,
    seen,       \* the run's files as a finalizer loaded them
    ref,        \* the entry_ref it resolved
    text,       \* the log a finalizer is to write, or a splitter has read
    saved,      \* the originals atomic_multi_write keeps
    at,         \* the update it is at
    issues,     \* the files it could not restore
    met         \* history: the calls a call overlapped, not after it ended

setting == <<target, required, allowed>>
vars == <<setting, file, log, events, handle, pc, seen, ref, text, saved, at, issues, met>>

Active == {"load", "resolve", "stage", "replace", "rollback", "fingerprint",
           "append", "truncate", "write"}
Ended == {"done", "refused", "failed", "unfingerprinted", "crashed"}

TypeOK ==
    /\ target \in [Finalizers -> Runs]
    /\ required \subseteq Runs /\ allowed \subseteq Runs
    /\ file \in [Runs -> RunFiles]
    /\ log \in Seq(Finalizers) /\ events \in Seq(Finalizers)
    /\ handle \in Splitters \cup {NoHandle}
    /\ pc \in [Calls -> {"idle"} \cup Active \cup Ended]
    /\ seen \in [Finalizers -> RunFiles]
    /\ ref \in [Finalizers -> Ref]
    /\ text \in [Calls -> Seq(Finalizers)]
    /\ saved \in [Finalizers -> RunFiles]
    /\ at \in [Finalizers -> 0 .. 4]
    /\ issues \in [Finalizers -> SUBSET Names]
    /\ met \in [Calls -> SUBSET Calls]

Init ==
    /\ target \in [Finalizers -> Runs]
    /\ required \in SUBSET Runs /\ allowed \in SUBSET Runs
    /\ file = [r \in Runs |-> Unfinalized]
    /\ log = <<>> /\ events = <<>>
    /\ handle = NoHandle
    /\ pc = [c \in Calls |-> "idle"]
    /\ seen = [f \in Finalizers |-> Unfinalized]
    /\ ref = [f \in Finalizers |-> Pending]
    /\ text = [c \in Calls |-> <<>>]
    /\ saved = [f \in Finalizers |-> Unfinalized]
    /\ at = [f \in Finalizers |-> 0]
    /\ issues = [f \in Finalizers |-> {}]
    /\ met = [c \in Calls |-> {}]

-----------------------------------------------------------------------------
Entries(s) == {s[i] : i \in DOMAIN s}

\* Mutant of HasAnchor: a heading with no line before it is not found.
HasAnchorNotFirst(e) == \E i \in DOMAIN log : i > 1 /\ e = log[i]

\* system_log_has_anchor
HasAnchor(e) == e \in Entries(log)

Goto(c, label) == pc' = [pc EXCEPT ![c] = label]

Running == {c \in Calls : pc[c] \in Active}

\* A call starts and meets those that are running.
Begin(c) ==
    /\ pc[c] = "idle"
    /\ met' = [d \in Calls |-> IF d = c THEN Running
                               ELSE IF d \in Running THEN met[d] \cup {c} ELSE met[d]]

RunUpdates == <<"report", "ledger", "planning">>

\* Mutant of Updates: the log is written first.
UpdatesLogFirst(f) == (IF text[f] = <<>> THEN <<>> ELSE <<"log">>) \o RunUpdates

\* The three files of the run first, the log last and only when it is written.
Updates(f) == RunUpdates \o (IF text[f] = <<>> THEN <<>> ELSE <<"log">>)

\* What the run's files will say; a "finalized" event is not added twice.
New(f) ==
    [n \in Names |->
        IF n = "ledger" /\ seen[f]["ledger"] # Pending THEN seen[f]["ledger"] ELSE ref[f]]

-----------------------------------------------------------------------------
(* finalize_run.                                                           *)

\* The report is loaded first, the ledger after it.  The planning validation
\* is not read; seen keeps what it was for the properties.
Load(f) ==
    /\ Begin(f)
    /\ seen' = [seen EXCEPT ![f] = file[target[f]]]
    /\ Goto(f, "load")
    /\ UNCHANGED <<setting, file, log, events, handle, ref, text, saved, at, issues>>

\* The ledger, and finalize_allowed.
LoadLedger(f) ==
    /\ pc[f] = "load"
    /\ seen' = [seen EXCEPT ![f] = [@ EXCEPT !["ledger"] = file[target[f]]["ledger"]]]
    /\ Goto(f, IF target[f] \in allowed THEN "resolve" ELSE "refused")
    /\ UNCHANGED <<setting, file, log, events, handle, ref, text, saved, at, issues, met>>

\* resolve_finalize_log_state
Resolve(f) ==
    /\ pc[f] = "resolve"
    /\ LET recorded == seen[f]["report"]
       IN  \/ /\ target[f] \notin required
              /\ ref' = [ref EXCEPT ![f] = NotRequired]
              /\ Goto(f, "stage") /\ UNCHANGED text
           \/ /\ target[f] \in required
              /\ recorded = Pending
              /\ ref' = [ref EXCEPT ![f] = f]
              /\ text' = [text EXCEPT ![f] = Append(log, f)]
              /\ Goto(f, "stage")
           \/ /\ target[f] \in required
              /\ recorded # Pending /\ HasAnchor(recorded)
              /\ ref' = [ref EXCEPT ![f] = recorded]
              /\ Goto(f, "stage") /\ UNCHANGED text
           \/ /\ target[f] \in required
              /\ recorded # Pending /\ ~ HasAnchor(recorded)
              /\ Goto(f, "refused") /\ UNCHANGED <<ref, text>>
    /\ UNCHANGED <<setting, file, log, events, handle, seen, saved, at, issues, met>>

\* atomic_multi_write: read the originals one by one.  The log's is never
\* restored, nothing being replaced after it.
ReadOriginal(f) ==
    /\ pc[f] = "stage"
    /\ at[f] < 3
    /\ LET name == RunUpdates[at[f] + 1]
       IN  saved' = [saved EXCEPT ![f] = [@ EXCEPT ![name] = file[target[f]][name]]]
    /\ at' = [at EXCEPT ![f] = @ + 1]
    /\ UNCHANGED <<setting, file, log, events, handle, pc, seen, ref, text, issues, met>>

\* The new texts are in temporary files; the replacements begin.
Stage(f) ==
    /\ pc[f] = "stage"
    /\ at[f] = 3
    /\ at' = [at EXCEPT ![f] = 1]
    /\ Goto(f, "replace")
    /\ UNCHANGED <<setting, file, log, events, handle, seen, ref, text, saved, issues, met>>

StageFails(f) ==
    /\ Faults
    /\ pc[f] = "stage"
    /\ at' = [at EXCEPT ![f] = 0]
    /\ Goto(f, "failed")
    /\ UNCHANGED <<setting, file, log, events, handle, seen, ref, text, saved, issues, met>>

\* Replacing the log gives its name to another file: what a splitter still
\* writes to the one it opened is lost.
Replace(f) ==
    /\ pc[f] = "replace"
    /\ LET name == Updates(f)[at[f]]
       IN  \/ /\ name = "log"
              /\ log' = text[f] /\ handle' = NoHandle
              /\ UNCHANGED file
           \/ /\ name # "log"
              /\ file' = [file EXCEPT ![target[f]] = [@ EXCEPT ![name] = New(f)[name]]]
              /\ UNCHANGED <<log, handle>>
    /\ at' = [at EXCEPT ![f] = IF at[f] = Len(Updates(f)) THEN 0 ELSE at[f] + 1]
    /\ Goto(f, IF at[f] = Len(Updates(f)) THEN "fingerprint" ELSE "replace")
    /\ UNCHANGED <<setting, events, seen, ref, text, saved, issues, met>>

ReplaceFails(f) ==
    /\ Faults
    /\ pc[f] = "replace"
    /\ at' = [at EXCEPT ![f] = at[f] - 1]
    /\ Goto(f, "rollback")
    /\ UNCHANGED <<setting, file, log, events, handle, seen, ref, text, saved, issues, met>>

\* _restore_text_update of the updates made, the last one first.
Restore(f) ==
    /\ pc[f] = "rollback"
    /\ at[f] >= 1
    /\ LET name == Updates(f)[at[f]]
       IN  file' = [file EXCEPT ![target[f]] = [@ EXCEPT ![name] = saved[f][name]]]
    /\ at' = [at EXCEPT ![f] = at[f] - 1]
    /\ UNCHANGED <<setting, log, events, handle, pc, seen, ref, text, saved, issues, met>>

RestoreFails(f) ==
    /\ Faults
    /\ pc[f] = "rollback"
    /\ at[f] >= 1
    /\ issues' = [issues EXCEPT ![f] = @ \cup {Updates(f)[at[f]]}]
    /\ at' = [at EXCEPT ![f] = at[f] - 1]
    /\ UNCHANGED <<setting, file, log, events, handle, pc, seen, ref, text, saved, met>>

\* Mutant of RollbackDone: it ends an update early.
RollbackDoneEarly(f) ==
    /\ pc[f] = "rollback"
    /\ at[f] <= 1
    /\ Goto(f, "failed")
    /\ UNCHANGED <<setting, file, log, events, handle, seen, ref, text, saved, at, issues, met>>

RollbackDone(f) ==
    /\ pc[f] = "rollback"
    /\ at[f] = 0
    /\ Goto(f, "failed")
    /\ UNCHANGED <<setting, file, log, events, handle, seen, ref, text, saved, at, issues, met>>

\* write_run_artifact_fingerprint, after the files are replaced.
Fingerprint(f) ==
    /\ pc[f] = "fingerprint"
    /\ \/ Goto(f, "done")
       \/ Faults /\ Goto(f, "unfingerprinted")
    /\ UNCHANGED <<setting, file, log, events, handle, seen, ref, text, saved, at, issues, met>>

-----------------------------------------------------------------------------
(* system_log_split.                                                       *)

Kept(s) ==
    IF TailEntries = 0 \/ TailEntries >= Len(text[s])
    THEN <<>> ELSE SubSeq(text[s], 1, Len(text[s]) - TailEntries)

\* Mutant of Moved: the oldest entry to move is left out.
MovedOffByOne(s) == SubSeq(text[s], Len(Kept(s)) + 2, Len(text[s]))

Moved(s) == SubSeq(text[s], Len(Kept(s)) + 1, Len(text[s]))

SplitLoad(s) ==
    /\ Begin(s)
    /\ text' = [text EXCEPT ![s] = log]
    /\ Goto(s, "append")
    /\ UNCHANGED <<setting, file, log, events, handle, seen, ref, saved, at, issues>>

SplitAppend(s) ==
    /\ pc[s] = "append"
    /\ events' = events \o Moved(s)
    /\ Goto(s, "truncate")
    /\ UNCHANGED <<setting, file, log, handle, seen, ref, text, saved, at, issues, met>>

\* write_text truncates the log when it opens it.
SplitTruncate(s) ==
    /\ pc[s] = "truncate"
    /\ log' = <<>> /\ handle' = s
    /\ Goto(s, "write")
    /\ UNCHANGED <<setting, file, events, seen, ref, text, saved, at, issues, met>>

SplitWrite(s) ==
    /\ pc[s] = "write"
    /\ log' = IF handle = s THEN Kept(s) ELSE log
    /\ handle' = IF handle = s THEN NoHandle ELSE handle
    /\ Goto(s, "done")
    /\ UNCHANGED <<setting, file, events, seen, ref, text, saved, at, issues, met>>

Crash(c) ==
    /\ Crashes
    /\ pc[c] \in Active
    /\ Goto(c, "crashed")
    /\ UNCHANGED <<setting, file, log, events, handle, seen, ref, text, saved, at, issues, met>>

-----------------------------------------------------------------------------
FinalizeStep(f) ==
    \/ Load(f) \/ LoadLedger(f) \/ Resolve(f)
    \/ ReadOriginal(f) \/ Stage(f) \/ StageFails(f)
    \/ Replace(f) \/ ReplaceFails(f)
    \/ Restore(f) \/ RestoreFails(f) \/ RollbackDone(f)
    \/ Fingerprint(f)

SplitStep(s) == SplitLoad(s) \/ SplitAppend(s) \/ SplitTruncate(s) \/ SplitWrite(s)

AllEnded == (\A c \in Calls : pc[c] \in Ended) /\ UNCHANGED vars

Next ==
    \/ \E f \in Finalizers : FinalizeStep(f)
    \/ \E s \in Splitters : SplitStep(s)
    \/ \E c \in Calls : Crash(c)
    \/ AllEnded

Spec == Init /\ [][Next]_vars

-----------------------------------------------------------------------------
(* Properties                                                              *)

Logged == Entries(log) \cup Entries(events)

OneRun(f) == {g \in Finalizers : target[g] = target[f]}

(* Every log entry is the one its run's finalized files refer to, so a run *)
(* is logged at most once, whatever crashes, failures, rollbacks, retries  *)
(* and other runs' calls there were: the log is replaced last.  Only calls *)
(* for one run that overlap can spoil it.                                  *)
EntryRecorded ==
    \A f \in Logged :
        LET files == file[target[f]]
        IN  \/ files["report"] = f /\ files["planning"] = f /\ files["ledger"] # Pending
            \/ met[f] \cap OneRun(f) # {}

(* A finalization that fails before it is complete leaves the run's files  *)
(* as it found them, but those it reports as rollback issues: what         *)
(* "rolls_back_artifacts_when_log_commit_fails" tests for one failure.     *)
(* Another call for the run must not have overlapped it.                   *)
FailureRestoresRun ==
    [][\A f \in Finalizers :
          pc[f] # "failed" /\ pc'[f] = "failed" =>
              \/ \A n \in Names \ issues[f] : file[target[f]][n] = seen[f][n]
              \/ met[f] \cap OneRun(f) # {}]_vars

Through == {"fingerprint", "done", "unfingerprinted"}
Logs(f) == text[f] # <<>> /\ pc[f] \in Through

WroteLog(c) ==
    \/ c \in Finalizers /\ text[c] # <<>> /\ pc[c] \in Through \cup {"crashed"}
    \/ c \in Splitters /\ pc[c] \in {"write", "done", "crashed"}

(* How an entry can get lost: to a call that overlapped its own and wrote  *)
(* the log from a text that was read too early, or to a split that had yet *)
(* to write it back and died, or had the log replaced under its handle.    *)
LostTo(f, c) ==
    \/ c \in met[f] /\ WroteLog(c) /\ f \notin Entries(text[c])
    \/ /\ c \in Splitters /\ f \in Entries(Kept(c))
       /\ \/ pc[c] \in {"write", "crashed"}
          \/ pc[c] = "done" /\ met[c] # {}

(* The entry of a finalization that wrote the log is in the log or in the  *)
(* events file from then on, whatever calls overlap, fail or are killed,   *)
(* but for the two ways of LostTo.  So no finalization that begins after   *)
(* it loses it, however it goes, nor does a split that runs alone to its   *)
(* end, or that moves everything, killed or not.                           *)
LostOnlyToOverlap ==
    \A f \in Finalizers :
        Logs(f) => f \in Logged \/ \E c \in Calls : LostTo(f, c)

(* A finalization is refused for a missing log entry only when an earlier  *)
(* one of the run died, could not be rolled back or was overlapped by      *)
(* another of the run, or the entry was moved or lost as LostTo says.      *)
RefusalExplained ==
    \A f \in Finalizers :
        pc[f] = "refused" /\ target[f] \in allowed =>
            \E g \in OneRun(f) \ {f} :
                \/ pc[g] = "crashed" \/ issues[g] # {}
                \/ g \in Entries(events)
                \/ met[g] \cap OneRun(f) # {}
                \/ \E c \in Calls : LostTo(g, c)

(* finalized_only_phase_checks: a complete run whose policy requires a log *)
(* entry has one that can be resolved in the log, at least where nothing   *)
(* overlapped its finalization.  It fails after system_log_split.          *)
CompleteRunResolvable ==
    \A f \in Finalizers :
        pc[f] = "done" /\ target[f] \in required /\ met[f] = {} =>
            file[target[f]]["report"] \in Entries(log)
=============================================================================
