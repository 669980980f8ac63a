----------------------------- MODULE DurableSync -----------------------------
(***************************************************************************)
(* One durable sync job: several collections fetched from the provider,    *)
(* each batch journalled as a stage, committed to SQLite together with its *)
(* receipt, reported as a collection view of the job, and retried on its   *)
(* own; then a crash at any point and the recovery of what was left.       *)
(*                                                                         *)
(* Four durable things are written one after the other and never together: *)
(* the job history (jobs.json), the stage journal, the retry checkpoints   *)
(* and the cache.  Recovery decides from whatever subset of them survived. *)
(*                                                                         *)
(* Abstractions: the wait for the writer lane and its retry budget are     *)
(* WriterLane's, so here a commit succeeds, is refused for good or cannot  *)
(* be recorded; "queued" is not told apart from "running", nor a no-change *)
(* view from success; a failed view with rows is the code's "partial";     *)
(* quarantined and expired stages are left out; a stage is named by its    *)
(* collection and attempt: when an attempt is fetched again after a crash  *)
(* the new batch replaces the older stage, and "g" tells its receipt from  *)
(* that of the batches installed before.  A write that fails leaves the    *)
(* file as it was.                                                         *)
(***************************************************************************)
EXTENDS Naturals, Sequences, FiniteSets

CONSTANTS
  Collections,  \* the selected collections, numbered in workflow order
  Budget,       \* defaultSyncCollectionRetryBudget (4 in the code)
  Cancels,      \* TRUE: the job may be cancelled
  Expiry,       \* TRUE: recovery may find a checkpoint older than 24 hours
  MaxFailures,  \* bound on failed file writes
  MaxCrashes    \* bound on crashes

ASSUME SyncConstants ==
  /\ Collections \subseteq Nat
  /\ IsFiniteSet(Collections)
  /\ Budget \in Nat \ {0}
  /\ {Cancels, Expiry} \subseteq BOOLEAN
  /\ {MaxFailures, MaxCrashes} \subseteq Nat

VARIABLES
  job,        \* m.jobs[id]: Status, SyncCollections, the StageRef of SyncStage
  disk,       \* the job in jobs.json
  journal,    \* the job's stages in the stage journal
  check,      \* the job's retry checkpoints, attempt 0 when there is none
  receipts,   \* the stages whose receipt is in SQLite
  degraded,   \* the collections whose maintenance frontier in SQLite is degraded
  pc,         \* where the worker goroutine is
  pending,    \* the collections of runSyncCollectionSchedule still to settle
  item,       \* the one being attempted
  err,        \* the class of its error
  run,        \* the request the worker executes
  cancelled,  \* the worker's context is cancelled
  rec,        \* progress of the recovery goroutine
  failures,
  crashes

jobVars    == <<job, disk>>
cacheVars  == <<receipts, degraded>>
fileVars   == <<journal, check, cacheVars>>
workerVars == <<pc, pending, item, err, run>>
vars       == <<jobVars, fileVars, workerVars, cancelled, rec, failures, crashes>>

Stages   == Collections \X (1..Budget)
NoStage  == <<0, 0>>
NoView   == [outcome |-> "none", n |-> 0, rows |-> FALSE, seen |-> 0]
NoCheck  == [n |-> 0, sel |-> {}]
NoItem   == [c |-> 0, n |-> 0, rows |-> FALSE, resumed |-> FALSE, later |-> FALSE]
NoRun    == [list |-> {}, sel |-> {}, recovered |-> FALSE, result |-> "ok"]
Terminal == {"succeeded", "failed", "cancelled"}

-----------------------------------------------------------------------------
(* Files.                                                                  *)

WriteFails == failures < MaxFailures /\ failures' = failures + 1
WriteOK    == UNCHANGED failures

\* updateJobPersisted succeeds, or rolls the change back and reports.
Persist(j)   == job' = j /\ disk' = j /\ WriteOK
PersistFails == WriteFails /\ UNCHANGED jobVars

\* updateJob keeps the change in memory whether or not it was saved.
Note(j) == Persist(j) \/ (job' = j /\ WriteFails /\ UNCHANGED disk)

Show(id)       == [job EXCEPT !.shown = id]
WithView(c, v) == [job EXCEPT !.view[c] = v]
WithStatus(s)  == [job EXCEPT !.status = s]

Id(s) == <<s.c, s.n>>

\* The receipt of a stage (its StageID hashes what was fetched).
Receipt(s) == <<s.c, s.n, s.g>>
Generation(c, n) == 1 + Cardinality({r \in receipts : r[1] = c /\ r[2] = n})

\* The position of a stage in its workflow and what the workflow leaves to do.
Cur(s)  == Cardinality({d \in s.list : d < s.c})
Rest(s) == {d \in s.list : d > s.c}

Tick == IF journal = {} THEN 1
        ELSE 1 + (CHOOSE s \in journal : \A t \in journal : t.at <= s.at).at

\* A stage file is written whole and becomes the last one updated.
Put(S, s)  == {t \in S : Id(t) # Id(s)} \cup {[s EXCEPT !.at = Tick]}
Written(s) == Put(journal, s)
InPhase(s, p) == Written([s EXCEPT !.phase = p])

StageOf(id) == CHOOSE s \in journal : Id(s) = id

\* Mutant: every committed stage is garbage.
SweptAll(S) == {s \in S : s.phase # "committed"}

\* GC drops the committed stages behind the furthest stage of the workflow.
Swept(S) == {s \in S : s.phase = "committed" => \A t \in S : Cur(t) <= Cur(s)}

\* laterSyncWorkflowStage.
Later(s, t) == Cur(s) > Cur(t) \/ (Cur(s) = Cur(t) /\ s.at > t.at)
IsLatest(s) == s \in journal /\ \A t \in journal \ {s} : Later(s, t)

Scheduled == {c \in Collections : check[c].n > 0}
Unschedule(c) == check' = [check EXCEPT ![c] = NoCheck]

-----------------------------------------------------------------------------
(* Views and verdicts.                                                     *)

Outcome(e) == CASE e = "none" -> "success" [] e = "cancelled" -> "cancelled" [] OTHER -> "failed"

\* syncCollectionViewForAttempt; "seen" is the batch of the attempt that was
\* committed before the view was written (CommittedAt against UpdatedAt).
CommittedBatches(c, n) == {s.g : s \in {t \in journal : Id(t) = <<c, n>> /\ t.phase = "committed"}}
ViewOf(i, outcome) ==
  [outcome |-> outcome, n |-> i.n, rows |-> i.rows,
   seen |-> IF CommittedBatches(i.c, i.n) = {} THEN 0 ELSE CHOOSE g \in CommittedBatches(i.c, i.n) : TRUE]

\* recoveredSyncCollectionView: of the error only a class is left, so that an
\* interrupted fetch is not shown as cancelled any more.
\* Mutant: what was committed counts as success.
RecoveredViewOptimistic(s) == [outcome |-> "success", n |-> s.n, rows |-> TRUE, seen |-> s.g]
RecoveredView(s) == [outcome |-> IF s.err = "none" THEN "success" ELSE "failed", n |-> s.n, rows |-> TRUE, seen |-> s.g]

\* persistRecoveredSyncCollection keeps a view that is not older.
Unreported(s) == \/ job.view[s.c].n < s.n
                 \/ job.view[s.c].n = s.n /\ job.view[s.c].seen # s.g

Has(j, outcome) == \E c \in Collections : j.view[c].outcome = outcome
Reported(j)     == \E c \in Collections : j.view[c].outcome # "none"

\* aggregateSyncCollectionOutcome.
Health(j) ==
  IF Has(j, "retry") THEN "retrying"
  ELSE IF Has(j, "failed") THEN IF \E c \in Collections : j.view[c].rows THEN "partial" ELSE "failed"
  ELSE IF Has(j, "cancelled") THEN "cancelled"
  ELSE "succeeded"

\* completeInterruptedSyncRetry and completeInterruptedSyncStageFromReceipt.
RecoveredVerdict ==
  IF Health(job) \in {"failed", "cancelled"} THEN Health(job) ELSE "succeeded"

\* The ends of runSyncJob (with and without an error) and of
\* runRecoveredSyncWorkflow.
Verdict ==
  CASE run.recovered -> IF Health(job) = "failed" THEN "failed"
                        ELSE IF cancelled THEN "cancelled" ELSE RecoveredVerdict
    [] ~run.recovered /\ run.result = "error" ->
         IF cancelled THEN "cancelled"
         ELSE IF Reported(job) /\ Health(job) = "partial" THEN "succeeded" ELSE "failed"
    [] OTHER -> IF Health(job) = "failed" THEN "failed" ELSE "succeeded"

-----------------------------------------------------------------------------
\* The schedule of a set of collections, in order: the ones with a retry
\* checkpoint keep their attempt and wait for its time.
Entry(c) == [c |-> c, n |-> check[c].n, rows |-> FALSE,
             resumed |-> check[c].n > 0, later |-> check[c].n > 0]
Schedule(S) == [i \in 1..Cardinality(S) |->
                  Entry(CHOOSE c \in S : Cardinality({d \in S : d < c}) = i - 1)]

Init ==
  /\ job = [status |-> "running", view |-> [c \in Collections |-> NoView], shown |-> NoStage]
  /\ disk = job
  /\ journal = {}
  /\ check = [c \in Collections |-> NoCheck]
  /\ receipts = {}
  /\ degraded = {}
  /\ pc = "open"
  /\ pending = Schedule(Collections)
  /\ item = NoItem
  /\ err = "none"
  /\ run = [NoRun EXCEPT !.list = Collections, !.sel = Collections]
  /\ cancelled = FALSE
  /\ rec = "off"
  /\ failures = 0
  /\ crashes = 0

-----------------------------------------------------------------------------
(* The worker: runSyncCollectionSchedule around runDurableCollection.      *)

\* runDurableSync opens the cache and the provider, or reports an error
\* before any collection is tried.
Open ==
  /\ pc = "open"
  /\ pc' = "pick"
  /\ \/ UNCHANGED <<pending, run>>
     \/ pending' = <<>> /\ run' = [run EXCEPT !.result = "error"]
  /\ UNCHANGED <<jobVars, fileVars, item, err, cancelled, rec, failures, crashes>>

\* The i-th entry is due: nothing before it can start without waiting.
Due(i) == \A k \in 1..(i - 1) : pending[k].later

Without(i) == SubSeq(pending, 1, i - 1) \o SubSeq(pending, i + 1, Len(pending))

\* Mutant: a retry is not counted as an attempt once it has been scheduled.
PickUncounted(i) ==
  /\ pc = "pick"
  /\ Due(i)
  /\ pc' = "fetch"
  /\ item' = [pending[i] EXCEPT !.n = IF pending[i].later THEN @ ELSE @ + 1, !.later = FALSE]
  /\ pending' = Without(i)
  /\ err' = "none"
  /\ Note(Show(NoStage))
  /\ UNCHANGED <<fileVars, run, cancelled, rec, crashes>>

Pick(i) ==
  /\ pc = "pick"
  /\ Due(i)
  /\ pc' = "fetch"
  /\ item' = [pending[i] EXCEPT !.n = @ + 1, !.later = FALSE]
  /\ pending' = Without(i)
  /\ err' = "none"
  /\ Note(Show(NoStage))
  /\ UNCHANGED <<fileVars, run, cancelled, rec, crashes>>

\* Every entry waits for its retry time and the wait is cancelled.
WaitCancelled(i) ==
  /\ pc = "pick"
  /\ cancelled
  /\ \A k \in 1..Len(pending) : pending[k].later
  /\ pc' = "decide"
  /\ item' = pending[i]
  /\ pending' = Without(i)
  /\ err' = "cancelled"
  /\ UNCHANGED <<jobVars, fileVars, run, cancelled, rec, failures, crashes>>

\* The attempt of the current item ends with error e.
Attempted(e, rows) ==
  /\ pc' = "decide"
  /\ err' = e
  /\ item' = [item EXCEPT !.rows = rows]

\* Nothing was fetched, or the stage could not be journalled.
FetchFails ==
  /\ pc = "fetch"
  /\ \/ (\E e \in {"transient", "permanent"} : Attempted(e, item.rows)) /\ WriteOK
     \/ cancelled /\ Attempted("cancelled", item.rows) /\ WriteOK
     \/ Attempted("permanent", item.rows) /\ WriteFails
  /\ UNCHANGED <<jobVars, fileVars, pending, run, cancelled, rec, crashes>>

\* With which error a fetch returns the pages it has got.
FetchErrors == {"none", "transient", "permanent"} \cup (IF cancelled THEN {"cancelled"} ELSE {})

\* A batch, perhaps only part of the collection, becomes a stage; the stage of
\* a retry stands alone, any other one remembers its workflow.  GC runs first.
FetchStages ==
  /\ pc = "fetch"
  /\ \E e \in FetchErrors :
       journal' = Put(Swept(journal),
                      [c |-> item.c, n |-> item.n, g |-> Generation(item.c, item.n),
                       phase |-> "staged", err |-> e, at |-> 0,
                       list |-> IF item.n > 1 THEN {item.c} ELSE run.list])
  /\ pc' = "commit"
  /\ Note(Show(<<item.c, item.n>>))
  /\ UNCHANGED <<check, cacheVars, pending, item, err, run, cancelled, rec, crashes>>

ItemStage == StageOf(<<item.c, item.n>>)

\* stagedMaintenanceFrontier: a batch that came with an error degrades its
\* collection, a complete one makes it whole again.
Frontiers(s) == IF s.err = "none" THEN degraded \ {s.c} ELSE degraded \cup {s.c}

\* One SQLite transaction writes the batch, its receipt and its frontier.
CommitBatch(s) == receipts' = receipts \cup {Receipt(s)} /\ degraded' = Frontiers(s)

\* (A worker that was cancelled during its fetch refuses what it has staged.)
Install ==
  /\ pc \in {"commit", "rcommit"}
  /\ pc = "commit" => ItemStage.err # "cancelled"
  /\ CommitBatch(ItemStage)
  /\ pc' = IF pc = "commit" THEN "mark" ELSE "rmark"
  /\ UNCHANGED <<jobVars, journal, check, pending, item, err, run, cancelled, rec, failures, crashes>>

\* What is left of a stage whose commit was refused, and with which error.
Refused(e) ==
  \/ e = "permanent" /\ journal' = Swept(InPhase(ItemStage, "rejected")) /\ WriteOK
  \/ e = "permanent" /\ journal' = Swept(journal) /\ WriteFails
  \/ /\ e = "cancelled" /\ cancelled /\ WriteOK
     /\ journal' \in {Swept(InPhase(ItemStage, "rejected")), Swept(journal)}

\* The target changed, the transaction failed for good, the job was cancelled,
\* or a file on the way could not be written and the stage stays as it was.
Refuse ==
  /\ pc = "commit"
  /\ \E e \in {"permanent", "cancelled"}, rows \in {item.rows, FALSE} :
       Refused(e) /\ Attempted(e, rows)
  /\ UNCHANGED <<jobVars, check, cacheVars, pending, run, cancelled, rec, crashes>>

\* The journal learns of the commit; when it cannot, the receipt speaks for
\* it, unless that cannot be read either.
Mark ==
  /\ pc = "mark"
  /\ \/ /\ journal' = Swept(InPhase(ItemStage, "committed"))
        /\ Attempted(ItemStage.err, TRUE)
        /\ WriteOK
     \/ /\ journal' = Swept(journal)
        /\ \E e \in {ItemStage.err, "permanent"} : Attempted(e, TRUE)
        /\ WriteFails
  /\ UNCHANGED <<jobVars, check, cacheVars, pending, run, cancelled, rec, crashes>>

\* Mutant: attempts are not bounded by the budget.
RetryableForever == err = "transient" /\ ~cancelled

Retryable == err = "transient" /\ item.n < Budget /\ ~cancelled

\* The Scheduled hook writes the checkpoint before the retry is shown.
Checkpoint ==
  /\ pc = "decide"
  /\ Retryable
  /\ check' = [check EXCEPT ![item.c] = [n |-> item.n, sel |-> run.sel]]
  /\ pc' = "observe"
  /\ UNCHANGED <<jobVars, journal, cacheVars, pending, item, err, run, cancelled, rec, failures, crashes>>

\* Mutant: the retry is scheduled although its checkpoint could not be written.
CheckpointFailsShown ==
  /\ pc = "decide"
  /\ Retryable
  /\ WriteFails
  /\ pc' = "observe"
  /\ UNCHANGED <<jobVars, fileVars, pending, item, err, run, cancelled, rec, crashes>>

\* Without a checkpoint the collection fails (retry_checkpoint_persist_failed);
\* the Settled hook is not called.
CheckpointFails ==
  /\ pc = "decide"
  /\ Retryable
  /\ WriteFails
  /\ job' = WithView(item.c, ViewOf(item, "failed"))
  /\ disk' \in {disk, job'}
  /\ run' = [run EXCEPT !.result = IF @ = "ok" THEN "error" ELSE @]
  /\ pc' = "pick"
  /\ UNCHANGED <<fileVars, pending, item, err, cancelled, rec, crashes>>

Observe ==
  /\ pc = "observe"
  /\ Note(WithView(item.c, ViewOf(item, "retry")))
  /\ pending' = Append(pending, [item EXCEPT !.later = TRUE])
  /\ pc' = "pick"
  /\ UNCHANGED <<fileVars, item, err, run, cancelled, rec, crashes>>

\* A failing step of the Settled hook leaves an evidence error behind.
KeepEvidence == pc' = "pick" /\ run' = [run EXCEPT !.result = "evidence"] /\ WriteFails

\* RemoveCollectionStages.
WithoutStages(c) == {s \in journal : s.c # c}

\* The Settled hook: first the view, then the stages, then the checkpoint.
Settle ==
  /\ pc = "decide"
  /\ ~Retryable
  /\ \/ /\ Persist(WithView(item.c, ViewOf(item, Outcome(err))))
        /\ pc' = IF item.n > 1 \/ item.resumed THEN "retire" ELSE "release"
        /\ run' = [run EXCEPT !.result = IF @ = "ok" /\ err # "none" THEN "error" ELSE @]
     \/ KeepEvidence /\ UNCHANGED jobVars
  /\ UNCHANGED <<fileVars, pending, item, err, cancelled, rec, crashes>>

Retire ==
  /\ pc = "retire"
  /\ \/ /\ journal' = WithoutStages(item.c)
        /\ pc' = "release" /\ UNCHANGED run /\ WriteOK
     \/ KeepEvidence /\ UNCHANGED journal
  /\ UNCHANGED <<jobVars, check, cacheVars, pending, item, err, cancelled, rec, crashes>>

Release ==
  /\ pc = "release"
  /\ \/ Unschedule(item.c) /\ pc' = "pick" /\ UNCHANGED run /\ WriteOK
     \/ item.c \in Scheduled /\ KeepEvidence /\ UNCHANGED check
  /\ UNCHANGED <<jobVars, journal, cacheVars, pending, item, err, cancelled, rec, crashes>>

\* The terminal status.  After an evidence error runSyncJob leaves the job
\* running for the next restart, and so does a status that cannot be saved.
Finish ==
  /\ pc = "pick"
  /\ pending = <<>>
  /\ IF ~run.recovered /\ run.result = "evidence"
       THEN pc' = "idle" /\ UNCHANGED <<jobVars, journal>> /\ WriteOK
       ELSE \/ pc' = "clean" /\ Persist(WithStatus(Verdict)) /\ UNCHANGED journal
            \/ /\ pc' = "idle" /\ PersistFails
               /\ journal' = IF run.recovered THEN Swept(journal) ELSE journal
  /\ UNCHANGED <<check, cacheVars, pending, item, err, run, cancelled, rec, crashes>>

\* A terminal job needs no evidence; a recovered workflow leaves checkpoints.
Clean ==
  /\ pc = "clean"
  /\ pc' = "idle"
  /\ \/ /\ journal' = {}
        /\ check' = IF run.recovered THEN check ELSE [c \in Collections |-> NoCheck]
        /\ WriteOK
     \/ WriteFails /\ UNCHANGED <<journal, check>>
  /\ UNCHANGED <<jobVars, cacheVars, pending, item, err, run, cancelled, rec, crashes>>

\* commitRecoveredSyncStage fails: the rest of the workflow is not attempted
\* and the collection gets no view.
RecoveredRefuse ==
  /\ pc = "rcommit"
  /\ journal' \in {InPhase(ItemStage, "rejected"), journal}
  /\ run' = [run EXCEPT !.result = "error"]
  /\ pc' = "pick"
  /\ UNCHANGED <<jobVars, check, cacheVars, pending, item, err, cancelled, rec, failures, crashes>>

RecoveredMark ==
  /\ pc = "rmark"
  /\ \/ /\ journal' = InPhase(ItemStage, "committed")
        /\ pc' = "rproject" /\ UNCHANGED run /\ WriteOK
     \/ WriteFails /\ pc' = "rproject" /\ UNCHANGED <<journal, run>>
     \/ WriteFails /\ pc' = "pick" /\ run' = [run EXCEPT !.result = "error"] /\ UNCHANGED journal
  /\ UNCHANGED <<jobVars, check, cacheVars, pending, item, err, cancelled, rec, crashes>>

\* The recovered collection is reported, then the rest of the workflow runs.
RecoveredProject ==
  /\ pc = "rproject"
  /\ LET s == ItemStage IN
       \/ /\ IF Unreported(s) THEN Persist(WithView(s.c, RecoveredView(s)))
                              ELSE UNCHANGED jobVars /\ WriteOK
          /\ pending' = Schedule(Rest(s))
          /\ pc' = IF Rest(s) = {} THEN "pick" ELSE "open"
          /\ UNCHANGED journal
       \/ /\ Unreported(s) /\ PersistFails
          /\ journal' = Swept(journal)
          /\ pc' = "idle"
          /\ UNCHANGED pending
  /\ UNCHANGED <<check, cacheVars, item, err, run, cancelled, rec, crashes>>

Cancel ==
  /\ Cancels
  /\ pc # "idle"
  /\ ~cancelled
  /\ cancelled' = TRUE
  /\ UNCHANGED <<jobVars, fileVars, workerVars, rec, failures, crashes>>

-----------------------------------------------------------------------------
(* Crash and recovery.                                                     *)

\* LoadAndMarkInterrupted.
Crash ==
  /\ crashes < MaxCrashes
  /\ crashes' = crashes + 1
  /\ job' = IF disk.status \in Terminal THEN disk ELSE [disk EXCEPT !.status = "interrupted"]
  /\ disk' = job'
  /\ pc' = "idle"
  /\ pending' = <<>>
  /\ item' = NoItem
  /\ err' = "none"
  /\ run' = NoRun
  /\ cancelled' = FALSE
  /\ rec' = "reconcile"
  /\ UNCHANGED <<fileVars, failures>>

\* Mutant: a finished job is recovered from the evidence it left, too.
RecoveringFinished(step) == rec = step

Recovering(step) == rec = step /\ job.status = "interrupted"

\* RecoverSyncStages removes what a terminal job left behind.
DropTerminal ==
  /\ rec = "reconcile"
  /\ job.status \in Terminal
  /\ journal' = {}
  /\ check' = [c \in Collections |-> NoCheck]
  /\ rec' = "off"
  /\ UNCHANGED <<jobVars, cacheVars, workerVars, cancelled, failures, crashes>>

\* syncCollectionProjectionSettlesCheckpoint.
SettledBy(c) == /\ job.view[c].outcome \notin {"none", "retry"}
                /\ job.view[c].n > check[c].n

\* The stages reconcileSyncStagesBeforeRetry has still to bring into the views.
Unreconciled == {s \in journal : /\ s.phase # "rejected"
                                 /\ s.c \in Scheduled => ~SettledBy(s.c)
                                 /\ s.phase = "staged" \/ Unreported(s)}

Reconciling(s) ==
  /\ Recovering("reconcile")
  /\ Scheduled # {}
  /\ s \in Unreconciled
  /\ \A t \in Unreconciled \ {s} : Later(t, s)

\* A stage with no receipt is shown and committed inline; a failure ends the
\* recovery.
ReconcileInstall(s) ==
  /\ Reconciling(s)
  /\ s.phase = "staged"
  /\ Receipt(s) \notin receipts
  /\ \/ Persist(Show(Id(s))) /\ CommitBatch(s) /\ UNCHANGED <<journal, rec>>
     \/ /\ Note(Show(Id(s)))
        /\ journal' = InPhase(s, "rejected")
        /\ rec' = "failed" /\ UNCHANGED cacheVars
     \/ PersistFails /\ rec' = "failed" /\ UNCHANGED <<journal, cacheVars>>
  /\ UNCHANGED <<check, workerVars, cancelled, crashes>>

ReconcileMark(s) ==
  /\ Reconciling(s)
  /\ s.phase = "staged"
  /\ Receipt(s) \in receipts
  /\ \/ journal' = InPhase(s, "committed") /\ UNCHANGED rec /\ WriteOK
     \/ WriteFails /\ rec' = "failed" /\ UNCHANGED journal
  /\ UNCHANGED <<jobVars, check, cacheVars, workerVars, cancelled, crashes>>

ReconcileProject(s) ==
  /\ Reconciling(s)
  /\ s.phase = "committed"
  /\ \/ Persist(WithView(s.c, RecoveredView(s))) /\ UNCHANGED rec
     \/ PersistFails /\ rec' = "failed"
  /\ UNCHANGED <<fileVars, workerVars, cancelled, crashes>>

Reconciled ==
  /\ Recovering("reconcile")
  /\ \/ Scheduled = {} /\ rec' = "stages"
     \/ Scheduled # {} /\ Unreconciled = {} /\ rec' = "checks"
  /\ UNCHANGED <<jobVars, fileVars, workerVars, cancelled, failures, crashes>>

\* A settled checkpoint goes after the stages of its collection.
DropSettled(c) ==
  /\ Recovering("checks")
  /\ c \in Scheduled
  /\ SettledBy(c)
  /\ \/ /\ \E s \in journal : s.c = c
        /\ journal' = WithoutStages(c)
        /\ UNCHANGED <<check, rec>> /\ WriteOK
     \/ /\ \A s \in journal : s.c # c
        /\ Unschedule(c)
        /\ UNCHANGED <<journal, rec>> /\ WriteOK
     \/ WriteFails /\ rec' = "failed" /\ UNCHANGED <<journal, check>>
  /\ UNCHANGED <<jobVars, cacheVars, workerVars, cancelled, crashes>>

\* expireSyncRetryCheckpoint.
DropExpired(c) ==
  /\ Recovering("checks")
  /\ Expiry
  /\ c \in Scheduled
  /\ ~SettledBy(c)
  /\ \/ /\ Persist(WithView(c, ViewOf([NoItem EXCEPT !.c = c, !.n = check[c].n], "failed")))
        /\ Unschedule(c) \/ UNCHANGED check
        /\ rec' = IF check' = check THEN "failed" ELSE rec
     \/ PersistFails /\ rec' = "failed" /\ UNCHANGED check
  /\ UNCHANGED <<journal, cacheVars, workerVars, cancelled, crashes>>

\* The collections a resumed retry runs: those of a checkpoint's request that
\* have no final view, and every one with a checkpoint.
Selection(c) == {d \in check[c].sel : job.view[d].outcome \in {"none", "retry"}} \cup Scheduled

\* A status that cannot be saved leaves a running job with no worker.
ResumeFails == /\ WriteFails
               /\ job' = WithStatus("running")
               /\ rec' = "failed"
               /\ UNCHANGED <<disk, journal, pc, pending, item, run>>

\* RecoverSyncStages returns, with a last GC of the journal.
RecoveryReturns == rec' = "off" /\ journal' = Swept(journal)

ResumeRetry(c) ==
  /\ Recovering("checks")
  /\ c \in Scheduled
  /\ \A d \in Scheduled : ~SettledBy(d)
  /\ \/ /\ Persist(WithStatus("running"))
        /\ run' = [NoRun EXCEPT !.list = Selection(c), !.sel = Selection(c)]
        /\ pending' = Schedule(Selection(c))
        /\ pc' = "open"
        /\ RecoveryReturns
        /\ UNCHANGED item
     \/ ResumeFails
  /\ UNCHANGED <<check, cacheVars, err, cancelled, crashes>>

\* The job ends with the verdict of the views; its stages are then garbage.
Complete == \/ /\ Persist(WithStatus(RecoveredVerdict))
               /\ journal' = {}
               /\ rec' = "off"
            \/ PersistFails /\ rec' = "failed" /\ UNCHANGED journal

CompleteRetry ==
  /\ Recovering("checks")
  /\ Scheduled = {}
  /\ Complete
  /\ UNCHANGED <<check, cacheVars, workerVars, cancelled, crashes>>

\* The rest of RecoverSyncStages looks at the furthest stage only.
Furthest(s, phase) == Recovering("stages") /\ IsLatest(s) /\ s.phase = phase

MarkFurthest(s) ==
  /\ Furthest(s, "staged")
  /\ Receipt(s) \in receipts
  /\ journal' = InPhase(s, "committed")
  /\ UNCHANGED <<jobVars, check, cacheVars, workerVars, cancelled, rec, failures, crashes>>

\* The last collection of the workflow was committed: report it and complete.
CompleteFurthest(s) ==
  /\ Furthest(s, "committed")
  /\ Rest(s) = {}
  /\ IF Unreported(s)
       THEN /\ \/ Persist(WithView(s.c, RecoveredView(s))) /\ UNCHANGED rec
               \/ PersistFails /\ rec' = "failed"
            /\ UNCHANGED journal
       ELSE Complete
  /\ UNCHANGED <<check, cacheVars, workerVars, cancelled, crashes>>

\* resumeInterruptedSyncStage: commit the stage, or only go on after it.
ResumeFurthest(s) ==
  /\ \/ Furthest(s, "committed") /\ Rest(s) # {}
     \/ Furthest(s, "staged") /\ Receipt(s) \notin receipts
  /\ \/ /\ Persist([WithStatus("running") EXCEPT !.shown = Id(s)])
        /\ run' = [list |-> s.list, sel |-> Rest(s), recovered |-> TRUE, result |-> "ok"]
        /\ item' = [NoItem EXCEPT !.c = s.c, !.n = s.n]
        /\ pc' = IF s.phase = "staged" THEN "rcommit" ELSE "rproject"
        /\ RecoveryReturns
        /\ UNCHANGED pending
     \/ ResumeFails
  /\ UNCHANGED <<check, cacheVars, err, cancelled, crashes>>

\* A rejected stage fails the job only when the job still shows it.
RejectFurthest(s) ==
  /\ Furthest(s, "rejected")
  /\ rec' = "settled"
  /\ IF job.shown = Id(s) THEN Note(WithStatus("failed")) ELSE UNCHANGED jobVars /\ WriteOK
  /\ UNCHANGED <<fileVars, workerVars, cancelled, crashes>>

NoStages ==
  /\ Recovering("stages")
  /\ journal = {}
  /\ rec' = "settled"
  /\ UNCHANGED <<jobVars, fileVars, workerVars, cancelled, failures, crashes>>

\* recoverSettledInterruptedSyncJobs completes a job that has views, none of
\* them waiting for a retry, and no evidence left.
AllSettled == journal = {} /\ Scheduled = {} /\ Reported(job) /\ ~Has(job, "retry")

CompleteSettled ==
  /\ rec = "settled"
  /\ IF job.status = "interrupted" /\ AllSettled
       THEN Complete
       ELSE RecoveryReturns /\ UNCHANGED jobVars /\ WriteOK
  /\ UNCHANGED <<check, cacheVars, workerVars, cancelled, crashes>>

\* failInterruptedSyncRecoveries.
FailInterrupted ==
  /\ rec = "failed"
  /\ RecoveryReturns
  /\ IF job.status = "interrupted"
       THEN Persist(WithStatus("failed")) \/ PersistFails
       ELSE UNCHANGED jobVars /\ WriteOK
  /\ UNCHANGED <<check, cacheVars, workerVars, cancelled, crashes>>

-----------------------------------------------------------------------------
AttemptStep == \/ \E i \in 1..Len(pending) : Pick(i) \/ WaitCancelled(i)
               \/ FetchFails \/ FetchStages \/ Install \/ Refuse \/ Mark
               \/ Checkpoint \/ CheckpointFails \/ Observe
               \/ Settle \/ Retire \/ Release

WorkerStep == \/ Open \/ AttemptStep \/ Finish \/ Clean
              \/ RecoveredRefuse \/ RecoveredMark \/ RecoveredProject

RecoveryStep == \/ DropTerminal \/ Reconciled \/ CompleteRetry
                \/ \E s \in journal : \/ ReconcileInstall(s) \/ ReconcileMark(s) \/ ReconcileProject(s)
                                        \/ MarkFurthest(s) \/ CompleteFurthest(s)
                                        \/ ResumeFurthest(s) \/ RejectFurthest(s)
                \/ \E c \in Collections : DropSettled(c) \/ DropExpired(c) \/ ResumeRetry(c)
                \/ NoStages \/ CompleteSettled \/ FailInterrupted

Next == WorkerStep \/ RecoveryStep \/ Cancel \/ Crash

Spec == Init /\ [][Next]_vars

\* The two goroutines are scheduled and every wait in them is bounded.
FairSpec == Spec /\ WF_vars(WorkerStep) /\ WF_vars(RecoveryStep)

-----------------------------------------------------------------------------
(* Properties.                                                             *)

Views == [outcome : {"none", "retry", "success", "failed", "cancelled"},
          n : 0..Budget, rows : BOOLEAN, seen : Nat]
JobRecords == [status : {"running", "interrupted"} \cup Terminal,
               view : [Collections -> Views], shown : Stages \cup {NoStage}]
StageRecords == [c : Collections, n : 1..Budget, g : Nat, phase : {"staged", "committed", "rejected"},
                 err : {"none", "transient", "permanent", "cancelled"}, at : Nat,
                 list : SUBSET Collections]
Items == [c : Collections \cup {0}, n : 0..Budget, rows : BOOLEAN, resumed : BOOLEAN, later : BOOLEAN]

\* Every variable keeps the type of the field it models, and no collection is
\* attempted more often than the budget of runSyncCollectionSchedule allows.
TypeOK ==
  /\ {job, disk} \subseteq JobRecords
  /\ journal \subseteq StageRecords
  /\ check \in [Collections -> [n : 0..Budget, sel : SUBSET Collections]]
  /\ receipts \subseteq Collections \X (1..Budget) \X Nat
  /\ degraded \subseteq Collections
  /\ pc \in {"idle", "open", "pick", "fetch", "commit", "mark", "decide", "observe", "retire",
             "release", "clean", "rcommit", "rmark", "rproject"}
  /\ pending \in Seq(Items)
  /\ item \in Items
  /\ err \in {"none", "transient", "permanent", "cancelled"}
  /\ run \in [list : SUBSET Collections, sel : SUBSET Collections, recovered : BOOLEAN,
              result : {"ok", "error", "evidence"}]
  /\ cancelled \in BOOLEAN
  /\ rec \in {"off", "reconcile", "checks", "stages", "settled", "failed"}
  /\ failures \in 0..MaxFailures
  /\ crashes \in 0..MaxCrashes

Cached(c) == \E r \in receipts : r[1] = c

\* A collection is never reported as successful, or as having brought rows,
\* unless the cache holds a receipt for one of its batches: neither retries
\* nor recovery report what was only fetched or only staged.
AnswersAreBacked ==
  \A c \in Collections, j \in {job, disk} :
    (j.view[c].outcome = "success" \/ j.view[c].rows) => Cached(c)

\* As long as the saved job can still be resumed, a collection it shows as
\* waiting for a retry has the checkpoint the retry will be resumed from.
RetryKeepsItsCheckpoint ==
  \A c \in Collections :
    disk.status \notin Terminal /\ disk.view[c].outcome = "retry" => c \in Scheduled

\* What stages and checkpoints leave to do: a collection in it is fetched again.
LeftToDo == (UNION {Rest(s) : s \in {t \in journal : t.phase # "rejected"}})
            \cup (UNION {check[d].sel : d \in Scheduled})

\* The furthest stage is a rejected one, and recovery stops there.
StopsAtRejected == \E s \in journal : IsLatest(s) /\ s.phase = "rejected"

\* Recovery leaves a job interrupted only when nothing about it can be
\* resumed: no checkpoint, and either no view and no stage, or a furthest
\* stage that was rejected.
RecoveryIsComplete ==
  crashes > 0 /\ rec = "off" /\ failures = 0 /\ job.status = "interrupted" =>
    /\ Scheduled = {}
    /\ IF journal = {} THEN ~Reported(job) ELSE StopsAtRejected

\* However many crashes and failed writes there are: nothing is reported that
\* the cache has not, a retry that is shown can be resumed, and recovery
\* resumes everything it can (sync_jobs.go, recoverSyncCollectionRetries and
\* RecoverSyncStages; the last of the three is about writes that succeed).
EvidenceIsKept == AnswersAreBacked /\ RetryKeepsItsCheckpoint /\ RecoveryIsComplete

\* Every worker and every recovery comes to its end: attempts are counted
\* across restarts of the schedule, so no collection is retried for ever.
Settles == (pc # "idle" \/ rec # "off") ~> (pc = "idle" /\ rec = "off")

Ledger == INSTANCE SyncLedger WITH
  installed <- receipts,
  verdict <- IF disk.status \in Terminal THEN disk.status ELSE "open"
\* The job keeps the promise of SyncLedger to whoever reads jobs.json and the
\* cache: nothing is installed after the published verdict, and the verdict is
\* published once.
LedgerSpec == Ledger!Spec

\* docs/cache-and-sync-model.md: a stage remembers the failures of its workflow
\* so that "a partially fetched but successfully committed prefix cannot become
\* a false success after restart".  Unless a write failed, a job that
\* crashed at most once and is saved as a healthy success leaves no collection
\* of which the cache holds a partial batch.
NoFalseSuccess ==
  failures = 0 /\ crashes < 2 /\ disk.status = "succeeded" /\ Health(disk) = "succeeded" => degraded = {}

\* sync_jobs.go: "every crash boundary retains at least one recovery
\* authority".  As long as no write has failed and the job crashed at most
\* once, a collection with a batch in the cache is known to the saved job, has
\* a stage or a checkpoint, or is left to do by one.  The
\* exception is a rejected stage of a longer request than the one that was
\* resumed: what is committed behind it is swept before it is reported.
CommitLeavesEvidence ==
  failures = 0 /\ crashes < 2 /\ disk.status \notin Terminal =>
    \A c \in Collections :
      Cached(c) => \/ disk.view[c].outcome # "none"
                   \/ c \in Scheduled \/ \E s \in journal : s.c = c
                   \/ c \in LeftToDo
                   \/ Scheduled = {} /\ StopsAtRejected

\* What the first crash of a job may find is not lost and not reported as more
\* than it is (recoveredSyncCollectionView, SyncStageJournal.GC).
OneCrashIsSurvived == NoFalseSuccess /\ CommitLeavesEvidence
=============================================================================
