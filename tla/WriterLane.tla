----------------------------- MODULE WriterLane -----------------------------
(***************************************************************************)
(* Who may write one logical cache (one cache_uuid) inside the daemon.     *)
(*                                                                         *)
(* JobManager (servicectl/jobs.go, sync_jobs.go) keeps every map per cache *)
(* and guards all of them with one mutex, so each locked section is one    *)
(* action here.  Four kinds of actor want the cache:                       *)
(*   - exclusive workers (rag-index and repository-docs-index jobs), which *)
(*     own the lane from admission until their goroutine has unwound;      *)
(*   - durable sync workers, which fetch from the provider with no lane    *)
(*     and own it only for the commit of a staged batch, in FIFO turns;    *)
(*   - a direct writer (Admin binding apply);                              *)
(*   - conflict resolution, which raises the cache mutation fence.         *)
(* After a restart the recovery goroutine resumes interrupted sync jobs    *)
(* behind a recovery fence and may commit a stage itself ("inline").       *)
(*                                                                         *)
(* Abstractions: "cancelling" is an active status and is not told apart    *)
(* from "running" (DocsCancellation models it); "ended" stands for         *)
(* succeeded, cancelled and superseded; a sync job has one batch           *)
(* (DurableSync models its collections); no job is pruned.                 *)
(***************************************************************************)
EXTENDS Naturals, Sequences, FiniteSets

CONSTANTS
  Syncs,         \* sync job ids
  Writers,       \* rag-index and repository-docs-index job ids
  Docs,          \* the repository-docs-index jobs among Writers
  WorkKey,       \* the work key of every job
  NoJob,         \* nobody
  MaxRetries,    \* defaultSyncCommitRetries (6 in the code)
  MaxRestarts,   \* bound on daemon restarts
  PersistFails   \* TRUE: a jobs.json or stage journal write may fail

Jobs == Syncs \cup Writers

ASSUME ConstantsAssumption ==
  /\ Syncs \cap Writers = {}
  /\ Docs \subseteq Writers
  /\ NoJob \notin Jobs
  /\ DOMAIN WorkKey = Jobs
  /\ MaxRetries \in Nat
  /\ MaxRestarts \in Nat
  /\ PersistFails \in BOOLEAN

\* A work key names the kind of work, so a documentation job shares its key
\* with documentation jobs only.
ASSUME WorkKeysAssumption ==
  \A j \in Docs, k \in Jobs : WorkKey[j] = WorkKey[k] => k \in Docs

VARIABLES
  status,     \* m.jobs[j].Status; "absent" before admission
  phase,      \* m.jobs[j].SyncStage.Phase of a sync job
  inflight,   \* m.inflightWorkers
  pc,         \* where the worker goroutine of a job is
  attempt,    \* SyncStageState.Attempt of the job's stage
  checkpoint, \* sync jobs with a scheduled retry in the retry journal
  outcome,    \* what the worker is about to report
  cancelled,  \* jobs whose context is cancelled
  queue,      \* m.syncCommitQueues: the FIFO of commit turns
  direct,     \* m.directCacheWriters holds a writer
  fence,      \* m.cacheMutationFences: down, or raised blocked or clear
  recFence,   \* m.syncRecoveryFences
  boot,       \* progress of the recovery goroutine
  inline,     \* the interrupted job whose stage recovery commits itself
  closing,    \* m.closing
  restarts

workerVars == <<status, phase, inflight, pc, attempt, checkpoint, outcome, cancelled, queue>>
laneVars   == <<direct, fence, closing>>
bootVars   == <<recFence, boot, inline, restarts>>
vars       == <<workerVars, laneVars, bootVars>>

Statuses == {"absent", "queued", "running", "interrupted", "failed", "ended"}
Phases   == {"none", "fetching", "staged", "waiting", "committing", "committed", "rejected"}
PCs      == {"none", "spawned", "fetch", "staged", "queued", "reserved", "commit",
             "after", "backoff", "work", "finish", "unwind"}
Outcomes == {"none", "ok", "contended", "error"}

-----------------------------------------------------------------------------
(* What the locked checks read.                                            *)

Active(j) == status[j] \in {"queued", "running"}

Live(j) == Active(j) \/ j \in inflight

\* Mutant: inflight workers are forgotten once their status is terminal.
ReservesByStatus(j) == Active(j) /\ (j \in Syncs => phase[j] = "committing")

\* activeReservedWriterLocked: a sync job reserves only while committing.
Reserves(j) == Live(j) /\ (j \in Syncs => phase[j] = "committing")

LaneBusy == direct \/ \E j \in Jobs : Reserves(j)

\* Mutant: the reservation ignores a worker that is still unwinding.
ReserveBlockedByStatus(j) == direct \/ \E k \in Jobs \ {j} : ReservesByStatus(k)

\* tryReserveSyncCommit skips the caller's own job.
ReserveBlocked(j) == direct \/ \E k \in Jobs \ {j} : Reserves(k)

\* Mutants: admission ignores the mutation fence, or the recovery fence.
AdmissionIgnoringFence == ~closing /\ ~recFence
AdmissionIgnoringRecovery == ~closing /\ fence = "none"

AdmissionOpen == ~closing /\ ~recFence /\ fence = "none"

\* Mutant: only the head is ever removed, so an abandoned waiter stays.
DequeuedHead(j) == IF Head(queue) = j THEN Tail(queue) ELSE queue

\* The queue without its member j.
Dequeued(j) == LET at == CHOOSE i \in 1..Len(queue) : queue[i] = j
               IN  SubSeq(queue, 1, at - 1) \o SubSeq(queue, at + 1, Len(queue))

\* The phase a stage shows when it is not being committed.
ParkedPhase(j) == IF attempt[j] = 0 THEN "staged" ELSE "waiting"

Goto(j, label) == pc' = [pc EXCEPT ![j] = label]

Report(j, result) == /\ Goto(j, "finish")
                     /\ outcome' = [outcome EXCEPT ![j] = result]

Show(j, p) == phase' = [phase EXCEPT ![j] = p]

-----------------------------------------------------------------------------
Init == /\ status = [j \in Jobs |-> "absent"]
        /\ phase = [j \in Syncs |-> "none"]
        /\ inflight = {}
        /\ pc = [j \in Jobs |-> "none"]
        /\ attempt = [j \in Syncs |-> 0]
        /\ checkpoint = {}
        /\ outcome = [j \in Jobs |-> "none"]
        /\ cancelled = {}
        /\ queue = <<>>
        /\ direct = FALSE
        /\ fence = "none"
        /\ recFence = FALSE
        /\ boot = "done"
        /\ inline = NoJob
        /\ closing = FALSE
        /\ restarts = 0

-----------------------------------------------------------------------------
(* Admission, cancellation and shutdown.                                   *)

\* createCoalescedJobWithIntent: a request whose work key is already active
\* coalesces and changes nothing; a failed snapshot write undoes everything.
\* The worker is reserved in the same locked section.
Admit(j) ==
  /\ status[j] = "absent"
  /\ AdmissionOpen
  /\ \A k \in Jobs : WorkKey[k] = WorkKey[j] => ~Active(k)
  /\ j \in Writers => ~LaneBusy
  /\ status' = [status EXCEPT ![j] = "queued"]
  /\ inflight' = inflight \cup {j}
  /\ Goto(j, "spawned")
  /\ UNCHANGED <<phase, attempt, checkpoint, outcome, cancelled, queue, laneVars, bootVars>>

\* ResumeRepositoryDocsAdmission: the same job id is revived.
ResumeDocs(j) ==
  /\ j \in Docs
  /\ status[j] \in {"interrupted", "failed"}
  /\ AdmissionOpen
  /\ ~LaneBusy
  /\ status' = [status EXCEPT ![j] = "queued"]
  /\ inflight' = inflight \cup {j}
  /\ cancelled' = cancelled \ {j}
  /\ Goto(j, "spawned")
  /\ UNCHANGED <<phase, attempt, checkpoint, outcome, queue, laneVars, bootVars>>

\* Cancel of a sync or RAG job only cancels the context.
Cancel(j) ==
  /\ j \notin Docs
  /\ Active(j)
  /\ j \notin cancelled
  /\ cancelled' = cancelled \cup {j}
  /\ UNCHANGED <<status, phase, inflight, pc, attempt, checkpoint, outcome, queue, laneVars, bootVars>>

\* Cancel and FenceRepositoryDocsSourceGeneration publish the terminal status
\* of a documentation job while its goroutine may not even have started.
EndDocs(j) ==
  /\ j \in Docs
  /\ Active(j)
  /\ status' = [status EXCEPT ![j] = "ended"]
  /\ cancelled' = cancelled \cup {j}
  /\ UNCHANGED <<phase, inflight, pc, attempt, checkpoint, outcome, queue, laneVars, bootVars>>

Shutdown ==
  /\ ~closing
  /\ closing' = TRUE
  /\ cancelled' = Jobs
  /\ UNCHANGED <<status, phase, inflight, pc, attempt, checkpoint, outcome, queue, direct, fence, bootVars>>

-----------------------------------------------------------------------------
(* Direct writer and cache mutation fence.                                 *)

BeginDirect ==
  /\ AdmissionOpen
  /\ ~LaneBusy
  /\ direct' = TRUE
  /\ UNCHANGED <<workerVars, fence, closing, bootVars>>

EndDirect ==
  /\ direct
  /\ direct' = FALSE
  /\ UNCHANGED <<workerVars, fence, closing, bootVars>>

\* BeginCacheMutationFence raises the fence in either case; its caller mutates
\* the cache authority only when nothing was reported as blocking it.
RaiseFence ==
  /\ ~recFence
  /\ fence = "none"
  /\ fence' = IF direct \/ \E j \in Jobs : Live(j) THEN "blocked" ELSE "clear"
  /\ UNCHANGED <<workerVars, direct, closing, bootVars>>

DropFence ==
  /\ fence # "none"
  /\ fence' = "none"
  /\ UNCHANGED <<workerVars, direct, closing, bootVars>>

-----------------------------------------------------------------------------
(* Exclusive workers: rag-index and repository-docs-index.                 *)

\* beginRepositoryDocsJob gives up unless the job is still queued; a RAG
\* worker publishes "running" unconditionally.
BeginWork(j) ==
  /\ j \in Writers
  /\ pc[j] = "spawned"
  /\ IF j \in Docs /\ status[j] # "queued"
       THEN /\ Goto(j, "unwind")
            /\ UNCHANGED status
       ELSE /\ Goto(j, "work")
            /\ status' = [status EXCEPT ![j] = "running"]
  /\ UNCHANGED <<phase, inflight, attempt, checkpoint, outcome, cancelled, queue, laneVars, bootVars>>

\* The terminal status is published before the goroutine has unwound; a
\* documentation job that is already terminal keeps its status.
EndWork(j) ==
  /\ pc[j] = "work"
  /\ Goto(j, "unwind")
  /\ \E s \in {"ended", "failed"} :
       status' = IF Active(j) THEN [status EXCEPT ![j] = s] ELSE status
  /\ UNCHANGED <<phase, inflight, attempt, checkpoint, outcome, cancelled, queue, laneVars, bootVars>>

\* markWorkerFinished, deferred by every worker.
Unwind(j) ==
  /\ pc[j] = "unwind"
  /\ inflight' = inflight \ {j}
  /\ Goto(j, "none")
  /\ UNCHANGED <<status, phase, attempt, checkpoint, outcome, cancelled, queue, laneVars, bootVars>>

-----------------------------------------------------------------------------
(* Durable sync worker: fetch with no lane, then commit in turn.           *)

BeginSync(j) ==
  /\ j \in Syncs
  /\ pc[j] = "spawned"
  /\ status' = [status EXCEPT ![j] = "running"]
  /\ Show(j, "fetching")
  /\ Goto(j, "fetch")
  /\ UNCHANGED <<inflight, attempt, checkpoint, outcome, cancelled, queue, laneVars, bootVars>>

\* The batch is journalled as a new stage; or a retryable failure schedules a
\* retry and the fetch is tried again; or fetching or journalling failed.
Fetched(j) ==
  /\ pc[j] = "fetch"
  /\ \/ /\ Show(j, "staged")
        /\ attempt' = [attempt EXCEPT ![j] = 0]
        /\ Goto(j, "staged")
        /\ UNCHANGED <<checkpoint, outcome>>
     \/ /\ j \notin checkpoint
        /\ checkpoint' = checkpoint \cup {j}
        /\ UNCHANGED <<phase, attempt, pc, outcome>>
     \/ /\ Show(j, "rejected")
        /\ Report(j, "error")
        /\ UNCHANGED <<attempt, checkpoint>>
  /\ UNCHANGED <<status, inflight, cancelled, queue, laneVars, bootVars>>

\* Head of the commit loop: a cancelled or no longer valid target rejects the
\* stage, otherwise acquireSyncCommitTurn joins the FIFO.
JoinQueue(j) ==
  /\ pc[j] = "staged"
  /\ \/ /\ j \notin cancelled
        /\ queue' = Append(queue, j)
        /\ Goto(j, "queued")
        /\ UNCHANGED <<phase, outcome>>
     \/ /\ Show(j, "rejected")
        /\ Report(j, "error")
        /\ UNCHANGED queue
  /\ UNCHANGED <<status, inflight, attempt, checkpoint, cancelled, laneVars, bootVars>>

\* The select on ctx.Done() may win even when the turn is ready.
LeaveQueue(j) ==
  /\ pc[j] = "queued"
  /\ j \in cancelled
  /\ queue' = Dequeued(j)
  /\ Report(j, "error")
  /\ UNCHANGED <<status, phase, inflight, attempt, checkpoint, cancelled, laneVars, bootVars>>

\* A waiter has the turn when it heads the queue.
HasTurn(j) == pc[j] = "queued" /\ queue # <<>> /\ Head(queue) = j

\* nextSyncCommitRetry: back off, or reject the stage once the budget is spent.
Park(j, exhaustedPhase) ==
  /\ attempt' = [attempt EXCEPT ![j] = @ + 1]
  /\ IF attempt[j] < MaxRetries
       THEN Show(j, "waiting") /\ Goto(j, "backoff") /\ outcome' = [outcome EXCEPT ![j] = "none"]
       ELSE Show(j, exhaustedPhase) /\ Report(j, "error")

\* tryReserveSyncCommit finds another writer: the turn is given up first.
ReserveRefused(j) ==
  /\ HasTurn(j)
  /\ ReserveBlocked(j)
  /\ queue' = Dequeued(j)
  /\ \/ Park(j, phase[j])
     \/ PersistFails /\ Report(j, "error") /\ UNCHANGED <<phase, attempt>>
  /\ UNCHANGED <<status, inflight, checkpoint, cancelled, laneVars, bootVars>>

\* tryReserveSyncCommit: the check and the public "committing" are one section.
Reserve(j) ==
  /\ HasTurn(j)
  /\ ~ReserveBlocked(j)
  /\ \/ /\ Show(j, "committing")
        /\ Goto(j, "reserved")
        /\ UNCHANGED <<outcome, queue>>
     \/ /\ PersistFails
        /\ queue' = Dequeued(j)
        /\ Report(j, "error")
        /\ UNCHANGED phase
  /\ UNCHANGED <<status, inflight, attempt, checkpoint, cancelled, laneVars, bootVars>>

\* The stage journal records "committing", or the reservation is rolled back.
JournalCommitting(j) ==
  /\ pc[j] = "reserved"
  /\ \/ Goto(j, "commit") /\ UNCHANGED <<phase, outcome, queue>>
     \/ /\ PersistFails
        /\ Show(j, ParkedPhase(j))
        /\ queue' = Dequeued(j)
        /\ Report(j, "error")
  /\ UNCHANGED <<status, inflight, attempt, checkpoint, cancelled, laneVars, bootVars>>

\* work.commit returns and releaseTurn() runs before the outcome is published.
CommitReturns(j) ==
  /\ pc[j] = "commit"
  /\ queue' = Dequeued(j)
  /\ Goto(j, "after")
  /\ \E r \in {"ok", "contended", "error"} : outcome' = [outcome EXCEPT ![j] = r]
  /\ UNCHANGED <<status, phase, inflight, attempt, checkpoint, cancelled, laneVars, bootVars>>

\* The journal and the job view learn the outcome of the commit.  A journal
\* write that fails leaves the job view at "committing", except after a
\* commit whose receipt is found.
PublishCommit(j) ==
  /\ pc[j] = "after"
  /\ \/ outcome[j] = "ok" /\ Show(j, "committed") /\ Report(j, "ok") /\ UNCHANGED attempt
     \/ outcome[j] = "error" /\ Show(j, "rejected") /\ Report(j, "error") /\ UNCHANGED attempt
     \/ outcome[j] = "contended" /\ Park(j, "rejected")
     \/ /\ PersistFails
        /\ outcome[j] # "error"
        /\ Report(j, "error")
        /\ UNCHANGED <<phase, attempt>>
  /\ UNCHANGED <<status, inflight, checkpoint, cancelled, queue, laneVars, bootVars>>

BackoffEnds(j) ==
  /\ pc[j] = "backoff"
  /\ \/ Goto(j, "staged") /\ UNCHANGED <<phase, outcome>>
     \/ /\ j \in cancelled
        /\ UNCHANGED phase \/ Show(j, "rejected")
        /\ Report(j, "error")
  /\ UNCHANGED <<status, inflight, attempt, checkpoint, cancelled, queue, laneVars, bootVars>>

\* updateJobPersisted publishes the terminal status; when it fails the status
\* is rolled back and the worker unwinds all the same.
Finish(j) ==
  /\ pc[j] = "finish"
  /\ j # inline
  /\ Goto(j, "unwind")
  /\ \/ /\ status' = [status EXCEPT ![j] = IF outcome[j] = "ok" THEN "ended" ELSE "failed"]
        /\ checkpoint' = checkpoint \ {j}
     \/ PersistFails /\ UNCHANGED <<status, checkpoint>>
  /\ outcome' = [outcome EXCEPT ![j] = "none"]
  /\ UNCHANGED <<phase, inflight, attempt, cancelled, queue, laneVars, bootVars>>

-----------------------------------------------------------------------------
(* Crash, restart and recovery of interrupted sync jobs.                   *)

\* LoadAndMarkInterrupted and beginInterruptedSyncRecoveryFences.
Restart ==
  /\ restarts < MaxRestarts
  /\ restarts' = restarts + 1
  /\ status' = [j \in Jobs |-> IF Active(j) THEN "interrupted" ELSE status[j]]
  /\ pc' = [j \in Jobs |-> "none"]
  /\ outcome' = [j \in Jobs |-> "none"]
  /\ inflight' = {}
  /\ cancelled' = {}
  /\ queue' = <<>>
  /\ direct' = FALSE
  /\ fence' = "none"
  /\ closing' = FALSE
  /\ inline' = NoJob
  /\ recFence' = (\E j \in Syncs : status'[j] = "interrupted")
  /\ boot' = "recovering"
  /\ UNCHANGED <<phase, attempt, checkpoint>>

\* Mutant: a stage whose budget is spent is resumed with a new budget.
StagePendingAnyBudget(j) == phase[j] \in {"staged", "waiting", "committing"}

\* The journal still holds a stage to commit: a spent retry budget rejects it
\* in the journal even when the job view kept showing it.
StagePending(j) == /\ phase[j] \in {"staged", "waiting", "committing"}
                   /\ attempt[j] <= MaxRetries

\* What recovery needs to resume a job: a stage or a retry checkpoint.
Evidence(j) == StagePending(j) \/ j \in checkpoint

\* resumeInterruptedSyncRetry restarts the job from its fetch;
\* resumeInterruptedSyncStage restarts it from its stage and shows the phase
\* the journal holds.  A failed snapshot write leaves the job running with a
\* reserved worker that is never started, and recovery gives up.
RecoverResume(j) ==
  /\ boot = "recovering"
  /\ inline = NoJob
  /\ status[j] = "interrupted"
  /\ Evidence(j)
  /\ ~closing
  /\ status' = [status EXCEPT ![j] = "running"]
  /\ inflight' = inflight \cup {j}
  /\ \/ /\ j \in checkpoint
        /\ Goto(j, "spawned")
        /\ UNCHANGED <<phase, boot>>
     \/ /\ j \notin checkpoint
        /\ StagePending(j)
        /\ \/ UNCHANGED phase
           \/ Show(j, ParkedPhase(j))
        /\ Goto(j, "staged")
        /\ UNCHANGED boot
     \/ PersistFails /\ boot' = "failed" /\ UNCHANGED <<pc, phase>>
  /\ UNCHANGED <<attempt, checkpoint, outcome, cancelled, queue, laneVars, recFence, inline, restarts>>

\* Recovery publishes a terminal status from the receipt, the settled
\* projection, a rejected or expired stage, or an unusable checkpoint.
RecoverSettle(j) ==
  /\ boot = "recovering"
  /\ inline = NoJob
  /\ status[j] = "interrupted"
  /\ \E s \in {"ended", "failed"} : status' = [status EXCEPT ![j] = s]
  /\ checkpoint' = checkpoint \ {j}
  /\ UNCHANGED <<phase, inflight, pc, attempt, outcome, cancelled, queue, laneVars, bootVars>>

\* reconcileSyncStagesBeforeRetry and reconcileSyncRetryStage commit a stage in
\* the recovery goroutine while its job is still "interrupted".
RecoverInline(j) ==
  /\ boot = "recovering"
  /\ inline = NoJob
  /\ status[j] = "interrupted"
  /\ j \in checkpoint
  /\ StagePending(j)
  /\ inline' = j
  /\ Goto(j, "staged")
  /\ UNCHANGED <<status, phase, inflight, attempt, checkpoint, outcome, cancelled, queue, laneVars,
                 recFence, boot, restarts>>

\* An inline commit that fails makes RecoverSyncStages return its error.
InlineDone ==
  /\ inline # NoJob
  /\ pc[inline] = "finish"
  /\ inline' = NoJob
  /\ Goto(inline, "none")
  /\ boot' = IF outcome[inline] = "ok" THEN boot ELSE "failed"
  /\ outcome' = [outcome EXCEPT ![inline] = "none"]
  /\ UNCHANGED <<status, phase, inflight, attempt, checkpoint, cancelled, queue, laneVars, recFence, restarts>>

\* Reading the journals or writing one of them failed, or the daemon is closing.
RecoverAbort ==
  /\ boot = "recovering"
  /\ inline = NoJob
  /\ PersistFails \/ closing
  /\ boot' = "failed"
  /\ UNCHANGED <<workerVars, laneVars, recFence, inline, restarts>>

\* Mutant: the recovery fence is never released.
RecoverFinishFenced ==
  /\ boot = "recovering"
  /\ inline = NoJob
  /\ \A j \in Syncs : status[j] = "interrupted" => ~Evidence(j)
  /\ boot' = "done"
  /\ UNCHANGED <<workerVars, laneVars, recFence, inline, restarts>>

\* RecoverSyncStages returned nil; jobs without evidence stay interrupted.
RecoverFinish ==
  /\ boot = "recovering"
  /\ inline = NoJob
  /\ \A j \in Syncs : status[j] = "interrupted" => ~Evidence(j)
  /\ boot' = "done"
  /\ recFence' = FALSE
  /\ UNCHANGED <<workerVars, laneVars, inline, restarts>>

\* failInterruptedSyncRecoveries: the fence drops only when every failure was
\* persisted; a cancelled recovery keeps it.
RecoverGiveUp ==
  /\ boot = "failed"
  /\ ~closing
  /\ boot' = "done"
  /\ \/ /\ status' = [j \in Jobs |-> IF j \in Syncs /\ status[j] = "interrupted"
                                       THEN "failed" ELSE status[j]]
        /\ recFence' = FALSE
     \/ PersistFails /\ UNCHANGED <<status, recFence>>
  /\ UNCHANGED <<phase, inflight, pc, attempt, checkpoint, outcome, cancelled, queue, laneVars, inline, restarts>>

-----------------------------------------------------------------------------
SyncStep(j) == \/ BeginSync(j) \/ Fetched(j) \/ JoinQueue(j) \/ LeaveQueue(j)
               \/ ReserveRefused(j) \/ Reserve(j) \/ JournalCommitting(j)
               \/ CommitReturns(j) \/ PublishCommit(j) \/ BackoffEnds(j) \/ Finish(j)

WorkerStep(j) == \/ BeginWork(j) \/ EndWork(j) \/ Unwind(j)
                 \/ (j \in Syncs /\ SyncStep(j))

RecoveryStep == \/ \E j \in Syncs : RecoverResume(j) \/ RecoverSettle(j) \/ RecoverInline(j)
                \/ InlineDone \/ RecoverAbort \/ RecoverFinish \/ RecoverGiveUp

Request == \/ \E j \in Jobs : Admit(j) \/ ResumeDocs(j) \/ Cancel(j) \/ EndDocs(j)
           \/ Shutdown \/ BeginDirect \/ RaiseFence \/ Restart

Release == EndDirect \/ DropFence

Next == \/ Request
        \/ Release
        \/ \E j \in Jobs : WorkerStep(j)
        \/ RecoveryStep

\* Goroutines are scheduled, deferred releases run, and every wait in a worker
\* is bounded; requests, cancellations and crashes are not promised.
Fairness == /\ \A j \in Jobs : WF_vars(WorkerStep(j))
            /\ WF_vars(RecoveryStep)
            /\ WF_vars(EndDirect)
            /\ WF_vars(DropFence)

Spec == Init /\ [][Next]_vars
FairSpec == Spec /\ Fairness

-----------------------------------------------------------------------------
(* Properties.                                                             *)

\* Every variable keeps the type of the field it models, and no stage is tried
\* more often than its retry budget allows (SyncStageState.Attempt).
TypeOK ==
  /\ status \in [Jobs -> Statuses]
  /\ phase \in [Syncs -> Phases]
  /\ inflight \subseteq Jobs
  /\ pc \in [Jobs -> PCs]
  /\ attempt \in [Syncs -> 0..(MaxRetries + 1)]
  /\ checkpoint \subseteq Syncs
  /\ outcome \in [Jobs -> Outcomes]
  /\ cancelled \subseteq Jobs
  /\ queue \in Seq(Syncs)
  /\ direct \in BOOLEAN
  /\ fence \in {"none", "blocked", "clear"}
  /\ recFence \in BOOLEAN
  /\ boot \in {"recovering", "failed", "done"}
  /\ inline \in Syncs \cup {NoJob}
  /\ closing \in BOOLEAN
  /\ restarts \in 0..MaxRestarts

\* The job is changing the cache file right now.
Mutating(j) == pc[j] \in {"work", "commit"}

\* At most one actor changes the cache at a time: workers, the direct writer,
\* and conflict resolution under a clear fence exclude one another, although
\* no single lock is held while any of them writes.
LaneExclusive ==
  /\ \A j, k \in Jobs : Mutating(j) /\ Mutating(k) => j = k
  /\ direct => \A j \in Jobs : ~Mutating(j)
  /\ fence = "clear" => ~direct /\ \A j \in Jobs : ~Mutating(j)

\* A clear mutation fence means that no worker exists and none can appear until
\* it is dropped, including goroutines that are admitted but not yet scheduled.
ClearFenceQuiet ==
  fence = "clear" => \A j \in Jobs : pc[j] = "none" /\ ~Active(j)

\* Identical work is never active twice, whatever admissions, resumptions and
\* restarts happen.
OneActivePerKey ==
  \A j, k \in Jobs : Active(j) /\ Active(k) /\ WorkKey[j] = WorkKey[k] => j = k

\* The lane is reported busy only while some worker has not fully unwound.
BusyOnlyWhileWorker == \A j \in Jobs : Reserves(j) => pc[j] # "none"

\* Between them: admission never lets work in twice, and never keeps work out
\* for a worker that is gone (jobs.go createCoalescedJobWithIntent).
AdmissionIsExact == OneActivePerKey /\ BusyOnlyWhileWorker

\* Every admitted or resumed worker comes to its end: the FIFO, the budget and
\* the fences never leave one waiting for ever.
WorkersSettle == \A j \in Jobs : Live(j) ~> ~Live(j)

\* The recovery fence is lifted, unless the daemon is asked to stop first.
RecoveryFenceLifts == recFence ~> (~recFence \/ closing)
=============================================================================
