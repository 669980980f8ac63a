-------------------------- MODULE DocsCancellation --------------------------
(***************************************************************************)
(* The durable cancellation of repository-docs-index jobs of one source.   *)
(*                                                                         *)
(* Two files decide what a restarted daemon does with such a job: the job  *)
(* history (jobs.json, JobManager) and the admission registry (the         *)
(* MaintenanceManager's file), each behind its own mutex.  JobManager's    *)
(* Cancel writes "cancelling" to the first, a tombstone to the second and  *)
(* "cancelled" to the first again, with both locks free in between, while  *)
(* these go on:                                                            *)
(*   - the worker goroutine of the job, which publishes its own terminal   *)
(*     status and waits while a cancellation is being decided;             *)
(*   - other Cancel callers, who join the decision in progress;            *)
(*   - start requests, which record a fresh admission, start or join a job *)
(*     and bind the admission to it in three separate critical sections;   *)
(*   - the reconciler, which reads the admission, looks at the jobs, and   *)
(*     resumes or starts the work it read about;                           *)
(*   - a rebind of the source, which drops the admission and then fences   *)
(*     the jobs of the replaced generation;                                *)
(*   - shutdown, crash and restart.                                        *)
(*                                                                         *)
(* Abstractions: one registered source and one revision per generation, so *)
(* a job's work key, revision set and generation are all gen[j]; jobs are  *)
(* numbered in creation order; other writers of the cache appear only as   *)
(* the "busy" answer they cause (WriterLane); no job is pruned; a failed   *)
(* write leaves the file as it was.                                        *)
(***************************************************************************)
EXTENDS Naturals, FiniteSets

CONSTANTS
  Callers,       \* concurrent Cancel calls
  Requesters,    \* concurrent Jobs.StartRepositoryDocsIndex calls
  MaxJobs,       \* bound on jobs ever created
  MaxGen,        \* bound on source generations (rebinds + 1)
  MaxAdmissions, \* bound on fresh admissions
  MaxCancels,    \* bound on Cancel calls
  MaxFailures,   \* bound on failed file writes
  MaxRestarts,   \* bound on daemon restarts
  Shutdowns      \* TRUE: a restart may be preceded by an orderly shutdown

ASSUME DocsConstants ==
  /\ {MaxJobs, MaxGen} \subseteq Nat \ {0}
  /\ {MaxAdmissions, MaxCancels, MaxFailures, MaxRestarts} \subseteq Nat
  /\ Shutdowns \in BOOLEAN

VARIABLES
  status,     \* m.jobs[j].Status
  gen,        \* m.jobs[j].SourceRegistrationGeneration, 0 before creation
  disk,       \* the statuses in jobs.json
  cancelable, \* keys of m.cancel
  signalled,  \* jobs with a live worker whose context is cancelled
  inflight,   \* m.inflightWorkers
  worker,     \* where the goroutine of a job is
  outcome,    \* what the goroutine is about to publish
  admission,  \* the source's entry of m.admissions
  admDisk,    \* the entry in the registry file
  source,     \* SourceRegistrationGeneration of the source
  fencing,    \* generations rebound whose jobs are not fenced yet
  caller,     \* the Cancel calls
  requester,  \* the start requests
  reconciler, \* the reconcile pass
  closing,    \* m.closing
  used,       \* how much of each bound is used up
  ghost       \* what the properties remember of the past

jobVars    == <<status, gen, disk, cancelable, signalled, inflight>>
workerVars == <<worker, outcome>>
admVars    == <<admission, admDisk, source, fencing>>
actorVars  == <<caller, requester, reconciler>>
vars       == <<jobVars, workerVars, admVars, actorVars, closing, used, ghost>>

Jobs == 1..MaxJobs
Gens == 1..MaxGen

Active   == {"queued", "running", "cancelling"}
Terminal == {"succeeded", "failed", "cancelled", "superseded", "interrupted"}
Statuses == {"absent"} \cup Active \cup Terminal

None       == [disp |-> "none", gen |-> 0, job |-> 0]
Admissions == [disp : {"none", "pending", "cancelled"}, gen : 0..MaxGen, job : 0..MaxJobs]

IdleCaller    == [pc |-> "idle", job |-> 0, prev |-> "absent"]
IdleRequester == [pc |-> "idle", gen |-> 0, job |-> 0]
IdlePass      == [pc |-> "idle", adm |-> None, gen |-> 0]

-----------------------------------------------------------------------------
(* What the locked sections read and write.                                *)

ActiveWith(g) == {j \in Jobs : gen[j] = g /\ status[j] \in Active}

\* No docs job is active and no worker is in flight.
AllIdle == inflight = {} /\ \A j \in Jobs : status[j] \notin Active

Unused == {j \in Jobs : status[j] = "absent"}

\* A write of jobs.json stores every job as it is in memory; it may fail, and
\* then the file keeps what it had.
SaveJobs(new) == disk' = new /\ UNCHANGED used
JobsSaveFails ==
  /\ used.failures < MaxFailures
  /\ used' = [used EXCEPT !.failures = @ + 1]
  /\ UNCHANGED disk
TrySaveJobs(new) == SaveJobs(new) \/ JobsSaveFails

SaveAdmission(new) == admission' = new /\ admDisk' = new /\ UNCHANGED used
\* A failed registry write restores the entry.
AdmissionSaveFails ==
  /\ used.failures < MaxFailures
  /\ used' = [used EXCEPT !.failures = @ + 1]
  /\ UNCHANGED <<admission, admDisk>>

\* repositoryDocsAdmissionMatchingLocked with the predicate of
\* cancelRepositoryDocsAdmission.
Matches(a, j) == a.disp # "none" /\ a.gen = gen[j] /\ a.job \in {0, j}

\* repositoryDocsCancellationCommitted.
Committed(a, j) == a.disp = "cancelled" /\ a.gen = gen[j] /\ a.job = j

\* cancelRepositoryDocsAdmission(job): succeeds when the tombstone of j is in
\* the registry file after it.
WriteTombstone(j) ==
  /\ Matches(admission, j)
  /\ IF admission.disp = "cancelled" /\ admission.job = j
       THEN UNCHANGED <<admission, admDisk, used>>
       ELSE SaveAdmission([admission EXCEPT !.disp = "cancelled", !.job = j])
  /\ ghost' = [ghost EXCEPT !.tombstoned = @ \cup {j}]
TombstoneFails(j) ==
  /\ \/ ~Matches(admission, j) /\ UNCHANGED <<admission, admDisk, used>>
     \/ /\ Matches(admission, j)
        /\ ~(admission.disp = "cancelled" /\ admission.job = j)
        /\ AdmissionSaveFails
  /\ UNCHANGED ghost

\* createCoalescedJobWithIntent, the part that makes a job of generation g.
CreateJob(j, g) ==
  /\ j = Cardinality(Jobs \ Unused) + 1
  /\ \A k \in Jobs : k \in Unused <=> k >= j
  /\ status' = [status EXCEPT ![j] = "queued"]
  /\ gen' = [gen EXCEPT ![j] = g]
  /\ cancelable' = cancelable \cup {j}
  /\ inflight' = inflight \cup {j}
  /\ worker' = [worker EXCEPT ![j] = "spawned"]
  /\ SaveJobs(status')
  /\ UNCHANGED <<signalled, outcome>>

-----------------------------------------------------------------------------
Init ==
  /\ status = [j \in Jobs |-> "absent"]
  /\ gen = [j \in Jobs |-> 0]
  /\ disk = status
  /\ cancelable = {} /\ signalled = {} /\ inflight = {}
  /\ worker = [j \in Jobs |-> "none"]
  /\ outcome = [j \in Jobs |-> "none"]
  /\ admission = None /\ admDisk = None
  /\ source = 1 /\ fencing = {}
  /\ caller = [c \in Callers |-> IdleCaller]
  /\ requester = [r \in Requesters |-> IdleRequester]
  /\ reconciler = IdlePass
  /\ closing = FALSE
  /\ used = [admissions |-> 0, cancels |-> 0, failures |-> 0, restarts |-> 0]
  /\ ghost = [tombstoned |-> {}, acked |-> {}, ended |-> {}]

-----------------------------------------------------------------------------
(* Start requests (ipc.go, "Jobs.StartRepositoryDocsIndex").               *)

\* registerAndRecordRepositoryDocsAdmission: a fresh pending admission
\* replaces whatever was recorded, a tombstone included.  (A failed write
\* restores everything and the request ends: no step.)
Register(r) ==
  /\ requester[r].pc = "idle"
  /\ used.admissions < MaxAdmissions
  /\ admission' = [disp |-> "pending", gen |-> source, job |-> 0]
  /\ admDisk' = admission'
  /\ used' = [used EXCEPT !.admissions = @ + 1]
  /\ requester' = [requester EXCEPT ![r] = [pc |-> "start", gen |-> source, job |-> 0]]
  /\ ghost' = [ghost EXCEPT !.ended = {j \in @ : gen[j] # source}]
  /\ UNCHANGED <<jobVars, workerVars, source, fencing, caller, reconciler, closing>>

\* startPreparedRepositoryDocsIndex without a recovery job: join the active
\* job of the same work, or make one if no writer worker is in flight.
StartRequest(r) ==
  /\ requester[r].pc = "start"
  /\ LET g == requester[r].gen
         Refused == /\ requester' = [requester EXCEPT ![r] = IdleRequester]
                    /\ UNCHANGED <<jobVars, workerVars, used>>
         Started(j) == requester' = [requester EXCEPT ![r].pc = "bind", ![r].job = j]
     IN \/ Refused   \* another writer of the cache, a fence, a stopping service, a failed write
        \/ /\ ~closing
           /\ \E j \in ActiveWith(g) : Started(j)
           /\ UNCHANGED <<jobVars, workerVars, used>>
        \/ /\ ~closing
           /\ AllIdle
           /\ \E j \in Jobs : CreateJob(j, g) /\ Started(j)
  /\ UNCHANGED <<admVars, caller, reconciler, closing, ghost>>

\* bindRepositoryDocsAdmissionJob: the entry of the source gets the job,
\* whatever its generation and disposition are by now.
Bind(r) ==
  /\ requester[r].pc = "bind"
  /\ requester' = [requester EXCEPT ![r] = IdleRequester]
  /\ \/ /\ admission.disp # "none" /\ admission.job # requester[r].job
        /\ SaveAdmission([admission EXCEPT !.job = requester[r].job]) \/ AdmissionSaveFails
     \/ /\ admission.disp = "none" \/ admission.job = requester[r].job
        /\ UNCHANGED <<admission, admDisk, used>>
  /\ UNCHANGED <<jobVars, workerVars, source, fencing, caller, reconciler, closing, ghost>>

-----------------------------------------------------------------------------
(* The worker goroutine (runRepositoryDocsIndexJob).                       *)

Goto(j, p) == worker' = [worker EXCEPT ![j] = p] /\ UNCHANGED outcome

\* beginRepositoryDocsJob
Begin(j) ==
  /\ worker[j] = "spawned"
  /\ IF status[j] = "queued"
       THEN /\ status' = [status EXCEPT ![j] = "running"]
            /\ TrySaveJobs(status')
            /\ Goto(j, "index")
       ELSE /\ Goto(j, "unwind")
            /\ UNCHANGED <<status, disk, used>>
  /\ UNCHANGED <<gen, cancelable, signalled, inflight, admVars, actorVars, closing, ghost>>

\* Mutant: an error of no known class has no terminal status.
IndexUnclassified(j) ==
  /\ worker[j] = "index"
  /\ \E o \in {"succeeded", "none"} : outcome' = [outcome EXCEPT ![j] = o]
  /\ worker' = [worker EXCEPT ![j] = "publish"]
  /\ UNCHANGED <<jobVars, admVars, actorVars, closing, used, ghost>>

\* runRepositoryDocsIndex returns: "cancelled" only when the context was.
Index(j) ==
  /\ worker[j] = "index"
  /\ \E o \in {"succeeded", "failed", "superseded", "cancelled"} :
       /\ o = "cancelled" => j \in signalled
       /\ outcome' = [outcome EXCEPT ![j] = o]
  /\ worker' = [worker EXCEPT ![j] = "publish"]
  /\ UNCHANGED <<jobVars, admVars, actorVars, closing, used, ghost>>

\* updateRepositoryDocsTerminalJob: waits while the job is cancelling, gives
\* way to a terminal status, publishes its own otherwise.
Publish(j) ==
  /\ worker[j] = "publish"
  /\ status[j] # "cancelling"
  /\ IF status[j] \in Terminal
       THEN UNCHANGED <<status, cancelable, disk, used>>
       ELSE /\ status' = [status EXCEPT ![j] = outcome[j]]
            /\ cancelable' = cancelable \ {j}
            /\ TrySaveJobs(status')
  /\ Goto(j, IF outcome[j] = "cancelled" THEN "tombstone" ELSE "unwind")
  /\ UNCHANGED <<gen, signalled, inflight, admVars, actorVars, closing, ghost>>

\* persistRepositoryDocsTerminalCancellation
PublishTombstone(j) ==
  /\ worker[j] = "tombstone"
  /\ \/ /\ status[j] # "cancelled"
        /\ Goto(j, "unwind")
        /\ UNCHANGED <<admission, admDisk, used, ghost>>
     \/ /\ status[j] = "cancelled"
        /\ WriteTombstone(j)
        /\ Goto(j, "unwind")
     \/ /\ status[j] = "cancelled"
        /\ TombstoneFails(j)
        /\ Goto(j, "fail")
  /\ UNCHANGED <<jobVars, source, fencing, actorVars, closing>>

PublishFailure(j) ==
  /\ worker[j] = "fail"
  /\ IF status[j] = "cancelled"
       THEN /\ status' = [status EXCEPT ![j] = "failed"]
            /\ ghost' = [ghost EXCEPT !.ended = @ \ {j}]
       ELSE UNCHANGED <<status, ghost>>
  /\ TrySaveJobs(status')
  /\ Goto(j, "unwind")
  /\ UNCHANGED <<gen, cancelable, signalled, inflight, admVars, actorVars, closing>>

\* markWorkerFinished
Unwind(j) ==
  /\ worker[j] = "unwind"
  /\ inflight' = inflight \ {j}
  /\ signalled' = signalled \ {j}
  /\ worker' = [worker EXCEPT ![j] = "none"]
  /\ outcome' = [outcome EXCEPT ![j] = "none"]
  /\ UNCHANGED <<status, gen, disk, cancelable, admVars, actorVars, closing, used, ghost>>

-----------------------------------------------------------------------------
(* JobManager.Cancel, one action per locked section.                       *)

\* Mutant: only the owner of the resolution is answered.
ResolveOwnerOnly(c) == caller' = [caller EXCEPT ![c] = IdleCaller]

\* Closing the resolution answers its owner and everybody who joined it.
Resolve(c) ==
  caller' = [d \in Callers |->
    IF d = c \/ (caller[d].pc = "waiting" /\ caller[d].job = caller[c].job)
      THEN IdleCaller ELSE caller[d]]

\* (A job with no cancel function is reported as it is, and a cancelling
\* status that cannot be written is rolled back at once: no step.)
CancelBegin(c, j) ==
  /\ caller[c].pc = "idle"
  /\ used.cancels < MaxCancels
  /\ j \in cancelable
  /\ used' = [used EXCEPT !.cancels = @ + 1]
  /\ \/ \* join the decision in progress
        /\ status[j] = "cancelling"
        /\ caller' = [caller EXCEPT ![c] = [IdleCaller EXCEPT !.pc = "waiting", !.job = j]]
        /\ UNCHANGED <<status, disk, ghost>>
     \/ \* raise the cancelling fence
        /\ status[j] # "cancelling"
        /\ status' = [status EXCEPT ![j] = "cancelling"]
        /\ disk' = status'
        /\ caller' = [caller EXCEPT ![c] = [pc |-> "tombstone", job |-> j, prev |-> status[j]]]
        /\ ghost' = [ghost EXCEPT !.acked = @ \ {j}]
  /\ UNCHANGED <<gen, cancelable, signalled, inflight, workerVars, admVars, requester, reconciler, closing>>

\* cancelRepositoryDocsAdmission writes the tombstone with no job lock held.
CancelTombstone(c) ==
  /\ caller[c].pc = "tombstone"
  /\ \/ /\ WriteTombstone(caller[c].job)
        /\ caller' = [caller EXCEPT ![c].pc = "final"]
     \/ /\ TombstoneFails(caller[c].job)
        /\ caller' = [caller EXCEPT ![c].pc = "rollback"]
  /\ UNCHANGED <<jobVars, workerVars, source, fencing, requester, reconciler, closing>>

\* Mutant: the previous status is not restored.
CancelRollbackForgotten(c) ==
  /\ caller[c].pc = "rollback"
  /\ Resolve(c)
  /\ UNCHANGED <<jobVars, workerVars, admVars, requester, reconciler, closing, used, ghost>>

\* A tombstone that failed: the status goes back to what it was.
CancelRollback(c) ==
  /\ caller[c].pc = "rollback"
  /\ LET j == caller[c].job IN
       IF status[j] = "cancelling"
         THEN /\ status' = [status EXCEPT ![j] = caller[c].prev]
              /\ TrySaveJobs(status')
         ELSE UNCHANGED <<status, disk, used>>
  /\ Resolve(c)
  /\ UNCHANGED <<gen, cancelable, signalled, inflight, workerVars, admVars, requester, reconciler, closing, ghost>>

\* The decision: the job is cancelled, its context too, and every call that
\* joined is answered.
CancelFinal(c) ==
  /\ caller[c].pc = "final"
  /\ LET j == caller[c].job
         decided == status[j] = "cancelling"
     IN /\ status' = IF decided THEN [status EXCEPT ![j] = "cancelled"] ELSE status
        /\ cancelable' = IF decided THEN cancelable \ {j} ELSE cancelable
        /\ signalled' = signalled \cup ({j} \cap inflight)
        /\ \/ /\ SaveJobs(status')
              /\ Resolve(c)
              /\ ghost' = [ghost EXCEPT
                   !.acked = IF decided THEN @ \cup {j} ELSE @,
                   !.ended = IF decided /\ Committed(admission, j) THEN @ \cup {j} ELSE @]
           \/ /\ JobsSaveFails
              /\ Resolve(c)
              /\ ghost' = [ghost EXCEPT
                   !.ended = IF decided /\ Committed(admission, j) THEN @ \cup {j} ELSE @]
  /\ UNCHANGED <<gen, inflight, workerVars, admVars, requester, reconciler, closing>>

-----------------------------------------------------------------------------
(* RebindRepositoryDocsSource and the fence it raises when it has left the *)
(* registry's lock (FenceRepositoryDocsSourceGeneration).                  *)

Rebind ==
  /\ source < MaxGen
  /\ source' = source + 1
  /\ fencing' = fencing \cup {source}
  /\ SaveAdmission(None)
  /\ ghost' = [ghost EXCEPT !.ended = {j \in @ : gen[j] # source}]
  /\ UNCHANGED <<jobVars, workerVars, actorVars, closing>>

FenceGeneration(g) ==
  /\ g \in fencing
  /\ fencing' = fencing \ {g}
  /\ status' = [j \in Jobs |-> IF j \in ActiveWith(g) THEN "superseded" ELSE status[j]]
  /\ signalled' = signalled \cup (ActiveWith(g) \cap cancelable \cap inflight)
  /\ cancelable' = cancelable \ ActiveWith(g)
  /\ TrySaveJobs(status')
  /\ UNCHANGED <<gen, inflight, workerVars, admission, admDisk, source, actorVars, closing, ghost>>

-----------------------------------------------------------------------------
(* The reconcile pass over this source (reconcileEntry).                   *)

\* selectRepositoryDocsSourceForReconcileLocked: a cancelled admission hides
\* the source from the pass.
PassRead ==
  /\ reconciler.pc = "idle"
  /\ admission.disp # "cancelled"
  /\ reconciler' = [pc |-> "look", adm |-> admission, gen |-> source]
  /\ UNCHANGED <<jobVars, workerVars, admVars, caller, requester, closing, used, ghost>>

\* LatestRepositoryDocsSource, then ActiveCacheWriter: the admission of work
\* that succeeded is dropped, and nothing is launched beside a live writer.
PassLook ==
  /\ reconciler.pc = "look"
  /\ LET mine == {j \in Jobs : gen[j] = reconciler.gen /\ status[j] # "absent"}
         served == /\ reconciler.adm.disp = "pending"
                   /\ \E j \in mine : status[j] = "succeeded" /\ \A k \in mine : k <= j
     IN reconciler' = IF served THEN [reconciler EXCEPT !.pc = "complete"]
                      ELSE IF AllIdle THEN [reconciler EXCEPT !.pc = "launch"]
                      ELSE IdlePass
  /\ UNCHANGED <<jobVars, workerVars, admVars, caller, requester, closing, used, ghost>>

\* completeRepositoryDocsAdmission: drops the entry of that generation,
\* whatever it says by now.
Droppable == admission.disp # "none" /\ admission.gen = reconciler.adm.gen
DropAdmission ==
  \/ Droppable /\ SaveAdmission(None)
  \/ ~Droppable /\ UNCHANGED <<admission, admDisk, used>>

PassComplete ==
  /\ reconciler.pc = "complete"
  /\ \/ /\ DropAdmission
        /\ reconciler' = IF AllIdle THEN [reconciler EXCEPT !.pc = "launch", !.adm = None]
                                   ELSE IdlePass
     \/ /\ Droppable /\ AdmissionSaveFails
        /\ reconciler' = IF AllIdle THEN [reconciler EXCEPT !.pc = "launch"] ELSE IdlePass
  /\ UNCHANGED <<jobVars, workerVars, source, fencing, caller, requester, closing, ghost>>

\* The recovery job of the admission read, or the latest recoverable job of
\* the same work (RecoverableRepositoryDocsAdmission); 0 when there is none.
RecoveryJob(a) ==
  LET candidates == {j \in Jobs : gen[j] = a.gen /\ status[j] \in {"interrupted", "failed"}}
  IN IF a.disp # "pending" THEN 0
     ELSE IF a.job # 0 THEN a.job
     ELSE IF candidates = {} THEN 0
     ELSE CHOOSE j \in candidates : \A k \in candidates : k <= j

\* ResumeRepositoryDocsAdmission
Resume(j) ==
  /\ status' = [status EXCEPT ![j] = "queued"]
  /\ cancelable' = cancelable \cup {j}
  /\ inflight' = inflight \cup {j}
  /\ worker' = [worker EXCEPT ![j] = "spawned"]
  /\ SaveJobs(status')
  /\ UNCHANGED <<gen, signalled, outcome>>

Resumable(j, g) == status[j] \in {"interrupted", "failed"} /\ gen[j] = g

PassLaunch ==
  /\ reconciler.pc = "launch"
  /\ LET job == RecoveryJob(reconciler.adm)
     IN \/ \* nothing to do, not its turn yet, refused, or a failed write
           UNCHANGED <<jobVars, workerVars, used, ghost>>
        \/ /\ job \in Jobs /\ Resumable(job, reconciler.gen) /\ AllIdle /\ ~closing
           /\ Resume(job)
           /\ ghost' = [ghost EXCEPT !.acked = @ \ {job}]
        \/ /\ job = 0 /\ AllIdle /\ ~closing
           /\ \E j \in Jobs : CreateJob(j, reconciler.gen)
           /\ UNCHANGED ghost
  /\ reconciler' = IdlePass
  /\ UNCHANGED <<admVars, caller, requester, closing>>

\* The recovery job cannot be resumed, or Git moved on since the admission:
\* RepositoryDocsAdmissionStaleError drops the admission.
PassStale ==
  /\ reconciler.pc = "launch"
  /\ reconciler.adm.disp = "pending"
  /\ DropAdmission \/ (Droppable /\ AdmissionSaveFails)
  /\ reconciler' = IdlePass
  /\ UNCHANGED <<jobVars, workerVars, source, fencing, caller, requester, closing, ghost>>

-----------------------------------------------------------------------------
(* The daemon.                                                             *)

\* JobManager.shutdown: stop admission, signal every cancelable job.
Shutdown ==
  /\ Shutdowns /\ ~closing
  /\ closing' = TRUE
  /\ signalled' = signalled \cup (cancelable \cap inflight)
  /\ UNCHANGED <<status, gen, disk, cancelable, inflight, workerVars, admVars, actorVars, used, ghost>>

\* Mutant: loading does not look for the tombstone.
RestartUnreconciled ==
  /\ used.restarts < MaxRestarts
  /\ used' = [used EXCEPT !.restarts = @ + 1]
  /\ admission' = admDisk
  /\ status' = [j \in Jobs |-> IF disk[j] \in Active THEN "interrupted" ELSE disk[j]]
  /\ disk' = status'
  /\ cancelable' = {} /\ signalled' = {} /\ inflight' = {} /\ fencing' = {}
  /\ worker' = [j \in Jobs |-> "none"] /\ outcome' = worker'
  /\ caller' = [c \in Callers |-> IdleCaller]
  /\ requester' = [r \in Requesters |-> IdleRequester]
  /\ reconciler' = IdlePass /\ closing' = FALSE
  /\ UNCHANGED <<gen, admDisk, source, ghost>>

\* The process ends, by a crash or after a shutdown, and a new one loads both
\* files (LoadAndMarkInterrupted).
Restart ==
  /\ used.restarts < MaxRestarts
  /\ used' = [used EXCEPT !.restarts = @ + 1]
  /\ admission' = admDisk
  /\ status' = [j \in Jobs |->
       IF disk[j] = "cancelling" /\ Committed(admDisk, j) THEN "cancelled"
       ELSE IF disk[j] \in Active THEN "interrupted"
       ELSE disk[j]]
  /\ disk' = status'
  /\ cancelable' = {} /\ signalled' = {} /\ inflight' = {}
  /\ worker' = [j \in Jobs |-> "none"]
  /\ outcome' = [j \in Jobs |-> "none"]
  /\ fencing' = {}
  /\ caller' = [c \in Callers |-> IdleCaller]
  /\ requester' = [r \in Requesters |-> IdleRequester]
  /\ reconciler' = IdlePass
  /\ closing' = FALSE
  /\ UNCHANGED <<gen, admDisk, source, ghost>>

-----------------------------------------------------------------------------
Next ==
  \/ \E r \in Requesters : Register(r) \/ StartRequest(r) \/ Bind(r)
  \/ \E j \in Jobs : \/ Begin(j) \/ Index(j) \/ Publish(j)
                     \/ PublishTombstone(j) \/ PublishFailure(j) \/ Unwind(j)
  \/ \E c \in Callers : \/ \E j \in Jobs : CancelBegin(c, j)
                        \/ CancelTombstone(c) \/ CancelRollback(c) \/ CancelFinal(c)
  \/ Rebind
  \/ \E g \in Gens : FenceGeneration(g)
  \/ PassRead \/ PassLook \/ PassComplete \/ PassLaunch \/ PassStale
  \/ Shutdown \/ Restart

Spec == Init /\ [][Next]_vars

\* Goroutines and handlers keep running once started, an index run returns
\* (every provider and Git call of it carries a deadline or its context), and
\* the deferred fence follows a rebind.  Nobody promises a new request, a
\* reconcile pass, a failure or a restart.
Fairness ==
  /\ \A j \in Jobs : WF_vars(Begin(j) \/ Index(j) \/ Publish(j)
                            \/ PublishTombstone(j) \/ PublishFailure(j) \/ Unwind(j))
  /\ \A c \in Callers : WF_vars(CancelTombstone(c) \/ CancelRollback(c) \/ CancelFinal(c))
  /\ \A g \in Gens : WF_vars(FenceGeneration(g))

FairSpec == Spec /\ Fairness

-----------------------------------------------------------------------------
(* Properties.                                                             *)

\* Every variable keeps the type of the field it models.
TypeOK ==
  /\ status \in [Jobs -> Statuses] /\ disk \in [Jobs -> Statuses]
  /\ gen \in [Jobs -> 0..MaxGen]
  /\ cancelable \subseteq Jobs /\ signalled \subseteq Jobs /\ inflight \subseteq Jobs
  /\ worker \in [Jobs -> {"none", "spawned", "index", "publish", "tombstone", "fail", "unwind"}]
  /\ outcome \in [Jobs -> {"none", "succeeded", "failed", "superseded", "cancelled"}]
  /\ admission \in Admissions /\ admDisk \in Admissions
  /\ source \in Gens /\ fencing \subseteq Gens
  /\ caller \in [Callers ->
       [pc : {"idle", "waiting", "tombstone", "rollback", "final"}, job : 0..MaxJobs,
        prev : Statuses]]
  /\ requester \in [Requesters ->
       [pc : {"idle", "start", "bind"}, gen : 0..MaxGen, job : 0..MaxJobs]]
  /\ reconciler \in [pc : {"idle", "look", "complete", "launch"}, adm : Admissions, gen : 0..MaxGen]
  /\ closing \in BOOLEAN
  /\ used \in [admissions : 0..MaxAdmissions, cancels : 0..MaxCancels,
               failures : 0..MaxFailures, restarts : 0..MaxRestarts]
  /\ ghost \in [tombstoned : SUBSET Jobs, acked : SUBSET Jobs, ended : SUBSET Jobs]

\* A job is cancelling exactly while some Cancel call owns the decision, so
\* nobody waits on a resolution that no one will close.
CancellingIsOwned ==
  \A j \in Jobs : status[j] = "cancelling" =>
    Cardinality({c \in Callers : caller[c].job = j /\
                   caller[c].pc \in {"tombstone", "rollback", "final"}}) = 1

\* A Cancel call that joined a decision in progress waits for a call that is
\* still deciding about the same job.
WaitersHaveAnOwner ==
  \A c \in Callers : caller[c].pc = "waiting" =>
    \E d \in Callers : caller[d].job = caller[c].job /\
      caller[d].pc \in {"tombstone", "rollback", "final"}

\* Between them: every decision in progress has exactly one call that will
\* close it, for the job and for those who wait (jobs.go Cancel).
DecisionsAreOwned == CancellingIsOwned /\ WaitersHaveAnOwner

\* Cancel answers without error only for a job whose tombstone reached the
\* registry, and as long as the job is shown as cancelled jobs.json says so
\* too: no later failed write, rollback or crash takes the answer back.
AckedIsDurable ==
  \A j \in ghost.acked :
    /\ j \in ghost.tombstoned
    /\ status[j] = "cancelled" => disk[j] = "cancelled"

\* A cancellation that went through is cancelled in every later life of the
\* daemon that still has its tombstone, even if the jobs.json write of its
\* last step failed and other writes failed before it; unless its own worker,
\* which found another tombstone in its place, has failed it since (what
\* AckedStaysCancelled shows).
EndedSurvivesRestart ==
  \A j \in ghost.ended : Committed(admDisk, j) => status[j] = "cancelled"

\* The worker of a job that Cancel failed to cancel is running, unsignalled
\* and still cancelable (outside shutdown).
RunningKeepsItsWorker ==
  \A j \in Jobs : status[j] = "running" =>
    /\ j \in inflight /\ j \in cancelable
    /\ closing \/ j \notin signalled

\* An answered cancellation is kept, by the files and by later lives of the
\* daemon (jobs.go Cancel and LoadAndMarkInterrupted).
CancellationIsKept == AckedIsDurable /\ EndedSurvivesRestart

\* A job is in the hands of the one call that decides about it or of its own
\* worker (jobs.go Cancel and its rollback).
JobIsControlled == DecisionsAreOwned /\ RunningKeepsItsWorker

\* "Concurrent cancel callers share that same durable resolution": every
\* Cancel call is answered.
CancelIsAnswered == \A c \in Callers : caller[c].pc # "idle" ~> caller[c].pc = "idle"

\* A worker that waits for the decision about its job is always let go.
WorkerUnwinds == \A j \in Jobs : j \in inflight ~> j \notin inflight

-----------------------------------------------------------------------------
(* What the source promises and the code does not keep.                    *)

\* persistRepositoryDocsTerminalCancellation leaves alone what "a generation
\* rebind or a concurrent durable Cancel" decided: the job of an acknowledged
\* cancellation is a cancelled job.
AckedStaysCancelled ==
  [][\A j \in ghost.acked : status[j] = "cancelled" => status'[j] = "cancelled"]_vars
=============================================================================
