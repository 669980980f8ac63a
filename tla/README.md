# Verification of gitcode-mcp

TLA+ models of the daemon, the cache and the clients of `gitcode-mcp`, the TLC instances
that check them, and the theorems about them that TLAPS proves. Source paths are relative to
the repository; `servicectl`, `service`, `cache` … stand for `src/internal/<name>`.

Contents: 1 the system, 2 the modules and their correspondence to the code, 3 the runs and
their bounds, 4 fairness, 5 the proofs, 6 what the models found, 7 what is not modelled,
8 the plan.

## 1. The system and its parts

`gitcode-mcp` mirrors a GitCode repository (issues, comments, pull requests, wiki) into a
local SQLite cache and serves it over MCP, a CLI and a local admin page. A per-user daemon
runs jobs that change caches, schedules maintenance, hosts local Git projects, and survives
restarts. A cache is one file with a `cache_uuid`; everything that must not overlap is keyed
by that id. Writes go to the provider directly, under an idempotency key whose receipt is in
the cache.

### Inventory

| component (code) | state it keeps | operations | what is hard | correct when | module |
| --- | --- | --- | --- | --- | --- |
| Job admission and writer lane (`servicectl/jobs.go`, `sync_jobs.go`, `rag_jobs.go`) | `jobs`, `inflightWorkers`, `syncCommitQueues`, `directCacheWriters`, fences, all under one mutex | admit, resume, cancel, commit turns, backoff, direct writer, fences, shutdown, recovery | no lock is held while anybody writes; goroutines outlive their status | one writer at a time; identical work active once; nobody waits for ever | `WriterLane` |
| Documentation job cancellation (`jobs.go` `Cancel`, `repository_docs_jobs.go`, admissions of `maintenance.go`) | job history and admission registry: two files, two mutexes | start, bind, cancel, rebind, fence, reconcile, resume, restart | Cancel spans three critical sections; reconcile acts on a copy | an answered cancel is durable, every decision has an owner | `DocsCancellation` |
| Durable sync, stages, retry checkpoints (`sync_jobs.go`, `sync_staging.go`, `sync_collection_retry*.go`) | jobs.json, stage journal, retry journal, SQLite receipts | fetch, journal, commit, report, retry, settle, recover | four stores written one after the other, a crash between any two | reports are backed, evidence survives, nothing changes after the verdict | `DurableSync`, `SyncLedger` |
| Batch fetch and commit (`service/durable_*sync.go`, `cache/records.go`) | cache rows, receipts, frontiers | fetch a slice, commit it in one transaction | what was fetched is stale when it is committed | watermarks and rows claim no more than the cache holds | `CollectionSync`, `CommentQueue`, `RecordSync`, one action of `DurableSync` |
| Job history and retention (`jobs.go`) | jobs.json, caps, pins | save, prune, pin, release | pruning inside every save, reuse of ids | an open intent keeps its job | `JobHistory` |
| Admin actions and receipts (`job_actions.go`) | receipts, pinned intents | retry, settle, replay, recover | crash between receipt, intent and settlement | exactly once | `JobHistory`, `IntentLedger` |
| Maintenance scheduler (`maintenance.go`, `execution_health.go`) | registry, stages, backoff | enrol, disable, select, reconcile, finish | results computed from stale snapshots | no confirmed update is lost, a failure is counted once | `MaintenanceReconcile` |
| Identity conflicts (`maintenance_conflicts.go`) | registry, redirects, receipts | load, inspect, fold, plan, apply, roll back | hand-made rollback over three stores | one authority, chosen once | `IdentityConflicts` |
| Daemon lifecycle (`manager.go`) and migrate-cache (`cli/cli.go`) | unit, socket, state file, intent, receipt | start, stop, install, quiesce, migrate, resume | several processes, leftovers of dead ones | ready means listening; a stopped daemon is accounted for | `ServiceLifecycle`, `CacheMigration` |
| Cache schema and file lock (`cache/schema.go`, `sqlite.go`, `migrate.go`, `lock_unix.go`) | SQLite file, flock, backups | open, migrate 1 to 21, back up, upgrade | CLI and daemon are two processes; crashes inside an upgrade | one migrator, a whole schema, a backup | `CacheSchema` |
| Setup of maintenance (`enable.go`) | the machine, plans | plan, review, apply | the machine moves between the review and the apply | nothing is changed that was not reviewed | `SetupPlan` |
| Local projects (`service/local_project*.go`, `local_projects_ipc.go`) | configuration, stores, bindings | init, restore, register, serve, mutate | setups race; answers are lost | bindings stand; refusals are final | `LocalHosting` |
| Local Git store (`localgit`) | one branch: entities, ids, receipts | mutate, initialize, history, export | compare-and-swap race, killed subprocess | one effect and one answer per key | `LocalGit` |
| Remote writes (`service.go` write paths, audit) | audit rows, cached copy | claim, send, read back, stage, publish, settle | remote effect without local record | once per key; success is true | `RemoteWrite` |
| GitCode client (`gitcode/http_client.go`) | none | preflight, request, retry, readback | lost and late messages, edits by others | what the caller is told is true | `ProviderWrites` |
| Foreground sync and targeted syncs (`service.go`) | rows, sync events | bulk traversal, targeted sync, reset | revision and body are two reads | a skipped page is the provider's page | `CollectionSync`, `RecordSync` |
| Documentation index (`repositorydocs`, `cache/repository_docs.go`) | revision sets, vectors, checkpoints | prepare, walk, embed, publish, retain, search | several runs of one set, crashes | readers see one whole revision set | `DocsIndex` |
| Observation ledger (`observability`) | segments, checkpoint, queue | emit, append, rotate, seal, restart, follow | lock-free loss, crashes, damage | coverage claims no more than is held | `ObservationLog` |
| RAG ranking, text index, MCP, admin HTTP and UI, configuration, credentials, diagnostics, qualification | views and settings | – | – | – | section 7 |

### How they interact

* A start request reaches `JobManager` through the daemon's IPC; admission checks fences,
  lane and work key in one locked section and reserves the worker (`inflightWorkers`) before
  the goroutine exists.
* A sync worker fetches without the lane. Per collection it writes a stage to the journal,
  waits for its commit turn, reserves the lane by publishing phase "committing", commits one
  SQLite transaction that also writes a receipt, and reports a view in the job.
* A documentation or RAG worker owns the lane from admission until its goroutine has unwound.
* Conflict resolution raises a fence that closes admission and goes on only if nobody is live.
* Cancelling a documentation job goes from the job history to the admission registry and back.
* After a start the recovery goroutine resumes or settles interrupted sync jobs behind a
  recovery fence; maintenance reconciliation resumes documentation jobs from admissions.
* Foreground commands open the same cache from other processes; they and the daemon exclude
  one another by the writer lock file only.
* An admin retry writes a receipt, lets a maintenance pass admit the job, and settles; the job
  history pins what an open receipt refers to.

The code points where this can go wrong and a test would hardly get to are listed, each with
its line and the properties that cover it, under `hazards` in `PROJECT.json`.

## 2. Modules and their correspondence to the code

`PROJECT.json` maps every definition that models code to its lines. The rule everywhere: one
critical section, one request to another process, or one durable write is one action; whatever
the code does between two of them may be interleaved with everything else. A failed write
leaves its file as it was (`servicectl/durable_file.go` writes to the side and renames).

| module | what it stands for | builds on |
| --- | --- | --- |
| `WriterLane` | `JobManager` admission, lane, commit turns, fences, recovery | – |
| `DocsCancellation` | documentation jobs against the admission registry | – |
| `SyncLedger` | abstract: what a sync job promises to readers of cache and status | – |
| `DurableSync` | one durable sync job, its four stores, its recovery | implements `SyncLedger` |
| `IntentLedger` | abstract: what a retry intent promises | – |
| `JobHistory` | job history, retention, pins, admin retries and their receipts | implements `IntentLedger` |
| `MaintenanceReconcile` | one registration, its scheduler and backoff | – |
| `IdentityConflicts` | the registrations of one cache in conflict and resolved | – |
| `CollectionSync` | traversal of an issue collection, foreground and in slices | – |
| `CommentQueue` | the durable queue of issue comments and its three readers | – |
| `RecordSync` | single records: targeted sync, wiki listing, PR comments, batches, reset | – |
| `CacheSchema` | openers and upgraders of one cache file | – |
| `ServiceLifecycle` | daemon processes, unit, socket, state file | – |
| `CacheMigration` | migrate-cache beside the service | `ServiceLifecycle` |
| `SetupPlan` | plan, review and apply of maintenance setup | – |
| `LocalHosting` | local projects: setup commands, daemon, clients | – |
| `LocalGit` | the branch of one local project | – |
| `RemoteWrite` | one remote write under one key | – |
| `ProviderWrites` | the write half of the HTTP client | – |
| `DocsIndex` | indexing of documentation and its search | – |
| `ObservationLog` | the ledger of observations and its reader | – |
| `MC…` | constants, symmetry and composition for TLC | the modules they extend |
| `…_proofs` | theorems about the module of that name | that module, `TLAPS` |

### WriterLane

| variable | code |
| --- | --- |
| `status`, `phase`, `attempt` | `SyncJob.Status`, `SyncStage.Phase`, `SyncStageState.Attempt` |
| `inflight`, `queue`, `direct`, `fence`, `recFence`, `closing` | `inflightWorkers`, `syncCommitQueues`, `directCacheWriters`, `cacheMutationFences`, `syncRecoveryFences`, `closing` |
| `pc`, `outcome`, `cancelled` | where a worker goroutine is, what it is about to report, its context |
| `checkpoint` | a file of the retry journal |
| `boot`, `inline` | the goroutine of `startSyncStageRecovery`, and the job whose stage it commits itself |

| actions | code |
| --- | --- |
| `Admit`, `ResumeDocs`, `Cancel`, `EndDocs`, `Shutdown` | `createCoalescedJobWithIntent`, `ResumeRepositoryDocsAdmission`, `Cancel`, `Cancel`/`FenceRepositoryDocsSourceGeneration`, `shutdown` |
| `BeginDirect`, `EndDirect`, `RaiseFence`, `DropFence` | `BeginDirectCacheWriter`, `BeginCacheMutationFence` and the functions they return |
| `BeginWork`, `EndWork`, `Unwind` | RAG and documentation workers, `markWorkerFinished` |
| `BeginSync` … `Finish` | `runSyncJob`, the commit loop of `runDurableCollection`, `acquireSyncCommitTurn`, `tryReserveSyncCommit`, `nextSyncCommitRetry` |
| `Restart`, `Recover…`, `InlineDone` | `LoadAndMarkInterrupted`, `beginInterruptedSyncRecoveryFences`, `RecoverSyncStages`, `failInterruptedSyncRecoveries` |

Abstractions: one cache; a sync job has one batch (its collections are in `DurableSync`);
"cancelling" counts as running (it is an active status everywhere this module looks);
"ended" is succeeded, cancelled or superseded; no job is pruned. `RaiseFence` covers both
ways `BeginCacheMutationFence` returns: its caller goes on only when nothing was reported
as blocking, the "clear" fence.

### DocsCancellation

One registered source. `status`/`disk` are the job history in memory and in jobs.json,
`admission`/`admDisk` the registry entry in memory and on disk, `caller`, `requester`,
`reconciler` and `fencing` the places between critical sections at which a Cancel call, a
start request, a reconcile pass and a rebind can be. `ghost` remembers which cancellations
got their tombstone, were answered without error, or took effect; it is read by properties only.

| actions | code |
| --- | --- |
| `Register`, `StartRequest`, `Bind` | the request handler (`servicectl/ipc.go`), `registerAndRecordRepositoryDocsAdmission`, `startPreparedRepositoryDocsIndex`, `bindRepositoryDocsAdmissionJob` |
| `Begin`, `Index`, `Publish`, `PublishTombstone`, `PublishFailure`, `Unwind` | `beginRepositoryDocsJob`, `runRepositoryDocsIndex`, `updateRepositoryDocsTerminalJob`, `persistRepositoryDocsTerminalCancellation`, `markWorkerFinished` |
| `CancelBegin`, `CancelTombstone`, `CancelRollback`, `CancelFinal` | the sections of `JobManager.Cancel`; `Resolve` closes the shared resolution |
| `Rebind`, `FenceGeneration` | `RebindRepositoryDocsSource`, `FenceRepositoryDocsSourceGeneration` |
| `PassRead` … `PassStale` | the documentation part of `reconcileEntry` |
| `Shutdown`, `Restart` | `shutdown`; loading both files (`LoadAndMarkInterrupted`) |

Abstractions: a generation has one revision, so work key, revision set and generation are
one number; other writers of the cache appear as the refusal they cause; a failed write
leaves its file as it was (`servicectl/durable_file.go` writes a temporary file and renames it).

### SyncLedger and DurableSync

`SyncLedger` has two variables: the batches that reached the cache and the verdict readers
see. `Install` and `Publish` are enabled only while the verdict is open. `DurableSync` implements
it with `installed <- receipts` and `verdict <-` the terminal status in jobs.json.

| variable | code |
| --- | --- |
| `job`, `disk` | the job in memory and in jobs.json: status, collection views, the stage shown |
| `journal`, `check`, `receipts`, `degraded` | stage journal, retry journal, receipts and degraded frontiers in SQLite |
| `pc`, `pending`, `item`, `err`, `run` | `runSyncCollectionSchedule` and the request it works on |
| `rec` | progress of `RecoverSyncStages` for the job |

| actions | code |
| --- | --- |
| `Open`, `Pick`, `WaitCancelled`, `FetchFails`, `FetchStages` | `runDurableSync`, the schedule, `runDurableCollection` up to the stage file |
| `Install`, `Refuse`, `Mark` | `CommitSyncBatch` and what the journal learns of it |
| `Checkpoint`, `CheckpointFails`, `Observe` | the Scheduled hook and the retry view |
| `Settle`, `Retire`, `Release` | the Settled hook: view, stages, checkpoint, in this order |
| `Finish`, `Clean` | verdict of `runSyncJob`/`runRecoveredSyncWorkflow`, removal of terminal evidence |
| `RecoveredRefuse`, `RecoveredMark`, `RecoveredProject` | `runRecoveredSyncWorkflow` |
| `Crash`, `DropTerminal` | the end of a process, and what loading does |
| `Reconcile…`, `DropSettled`, `DropExpired`, `ResumeRetry`, `CompleteRetry` | `recoverSyncCollectionRetries` |
| `MarkFurthest` … `CompleteSettled` | the rest of `RecoverSyncStages` and `recoverSettledInterruptedSyncJobs` |
| `FailInterrupted` | `failInterruptedSyncRecoveries` |

Abstractions: what a batch holds is one bit (a complete batch or one with a failure class);
waiting for the lane is `WriterLane`'s; corrupt or expired stages are quarantined before
anything reads them and do not appear; a stage is named by collection and attempt, with a
generation `g` that tells a batch fetched again after a crash from the older one. Completion of a recovered
job and the cleanup of its stages are one step: a crash between them is the case of
`DropTerminal`, which `Clean` followed by `Crash` already covers. `reconcileSyncRetryStage`, a
second path to what `Reconcile…` did just before it, is not a separate action.

### IntentLedger and JobHistory

`IntentLedger` is a claim (none, pending, settled) and the number of jobs admitted for it.
`JobHistory` implements one ledger per idempotency key (`claim <- claimOf`, `worked <- admitted`).

| variable | code |
| --- | --- |
| `jobs`, `disk`, `nextId`, `inflight`, `now` | `JobManager.jobs`, jobs.json, `nextID`, `inflightWorkers`, the clock that ages entries |
| `receipts`, `saved`, `act` | `JobActionManager.receipts`, its file, who holds its mutex and where |
| `boot`, `todo` | how far `Load` has come, the pending receipts `recoverPendingLocked` has yet to see |
| `admitted` | ghost: jobs created for, or joined by, a key |

`Create`, `Finish`, `Unwind`, `PruneHistory` are the job side; every save is preceded by
`Prune`, as `writeSnapshotLocked` does. `Prepare`, `MayResume`, `Replay…`, `Admit…`, `Settle`,
`Release` and `GiveUp` are the sections of `apply`; `Restart`, `BootSave`, `BootRelease`,
`BootDone` are `LoadAndMarkInterrupted` and `Load`. A registration is a key of its own; which
work a registration needs is a free choice.

### MaintenanceReconcile

One registration: `entry` in memory and `registered` on disk, the latest `job` of each kind,
what the cache holds and what the index covers, and `rec`, the copy a reconcile pass works
on. `Enroll`, `Disable`, `StartByHand` and the ends of jobs interleave with the steps of a pass:
`TakeSnapshot`, `Observe`, `ReadState`, `StartStage`, `FinishReconcile` (`reconcileEntry`,
`observeMaintenanceStage`, `nextMaintenanceStage`, `finishReconcileEntry`). `Reboot` and
`ResumeSync` are the restart. `confirmed` and `failures` are history, read by properties only.
The early return for a cache that waits for recovery changes no state and is left out.

### IdentityConflicts

Two caches, two repositories, a moved path, a lost id. `book`/`registryFile` are the registry in
memory and on disk, `inspection` what an inspection of each path answers, `attempt` an operator's
plan and how far its apply has come. `Canonical` is `canonicalizeLoadedEntriesLocked` as one
operator, built from its passes (`Blocked`, `Inspected`, `Grouped`, `Expanded`, `ConflictRow`,
`RepoRow`); `LoadRegistry` applies it. `EnrollRegistration`, `DisableRegistration`,
`PlanConflictResolution`, `BeginResolution`, `SelectRepo`, `SelectPath`,
`ApplyConflictResolution` are the operations with their rollbacks. Remapping of documentation
sources along a redirect is not modelled.

### CollectionSync, CommentQueue, RecordSync

These are what the cache says of the provider.

* `CollectionSync`: records carry the stamp of their last change; a listing is sorted by it (`Position` is
  the place of a record), so what is not older than a mark leads a page.
  `StartRun`, `ListPage`, `RunStops`, `FinishRun` are `bulkSyncIssuesBounded`; `FetchSlice`,
  `CommitSlice`, `DropSlice` the daemon's slices of the head and tail lanes, `FetchPage` the
  page they start at, `ResetLive` the reset. A slice is one page, as `checkpointPage` makes it.
* `CommentQueue`: `issue_comment_sync` rows between the writers of parents (`CommitParent`,
  `StoreParent`, `Enqueue`) and three readers: per issue (`Drain…`), aggregate (`Aggregate…`) and
  durable (`FetchComments`, `CommitComments`, `DropComments`). Posting and deleting of comments is
  the environment.
* `RecordSync`: one page, one pull request. `BeginSync` … `EndSync` are `syncResource` under an
  explicit key, `BeginBulk` … `EndBulk` `bulkSyncWikiBounded` with its skip by revision,
  `BeginBatch`/`CommitBatch` the daemon's wiki batch, `BeginComments` … `CommitThread` pull request
  comments, `DropLive` the reset. Revision and body are two reads (`ReadMeta`, `ReadBody`), and the
  page may be edited between them. A listing is read in one step.

### CacheSchema

The file (`version`, which tables, whether flushed), its backups, the `flock`, and each process
opening it. `Migrations` is the list of `schema.go` as data: what each migration needs, writes and
deletes. `Open`, `Recheck`, `MigrateNext`, `FinishOpen`, `OpenReadOnly`, `Leave` are
`newSQLiteStore`/`runMigrations`; `Upgrade` … `CommitUpgrade` are `MigrateCacheWithConfirm` with
its backup. A crash may come after any of them. A transaction is atomic.

### ServiceLifecycle and CacheMigration

`ServiceLifecycle`: the installed unit, up to two daemon processes, `state.json`, the control
socket by the process that made it. `Boot`, `PublishState`, `Listen`, `Unserve`, `Exit` are `Run`;
`Unload`, `Stop`, `Install`, `Uninstall` the manager. `CacheMigration` adds the cache file, the
writer lease, the recovery intent and the completion receipt, and runs of the command: `Inspect`,
`ReadStatus`, `Plan`, `Quiesce`, `TakeLease`, `Migrate`, `Journal`, `InstallCompatible`, `Healthy`,
`CheckEvidence`, `WriteReceipt`, `ClearIntent`, each with its failing variant.

### SetupPlan

`machine` is the service, the embedding provider, its model and the configuration; operators hold a
`wish`, a `reviewed` plan and the plan `Apply` recomputes. `Gate` compares the two, then
`InstallService`, `StartService`, `AwaitDaemon`, `SetupProvider`, `SetupModel`, `Enrol` change the
machine. Others change it between any two steps, except, unless `MovesMidApply`, during an
Apply. The several reads of a plan are one step.

### LocalHosting and LocalGit

`LocalHosting`: directories (`shelf`), the YAML (`config`, `configLock`), setup commands, the daemon
with the bindings it started with (`host`), clients, requests at work (`ops`). `BeginSetup`,
`MakeStore`, `PublishStore`, `LockConfig`, `WriteConfig` are init, restore and registration,
`StartHost`/`StopHost` `runLocalProjects`, `Request` … `Reply` a mutation over the private socket,
whose answer may be lost (`LoseAnswer`). A store can be replaced by hand while the daemon is down.

`LocalGit`: the commits of one branch, `harness-writer.lock`, callers. `Ask`, `Lock`, `Replay`,
`PrepareCommit`, `PublishRef`, `Confirm`, `Answer`, `Abort` are `MutateProject` with its
compare-and-swap; `Initialize`, `Cite` (history) and `AskExport`/`Bundle`/`Export` are the others.
A commit made by a program other than this one is part of the environment.

### RemoteWrite and ProviderWrites

`RemoteWrite` is the service above the client: the audit `row` of a key, the `remote` object,
requests `flying`, the `cached` copy, the call. Its classes of command (`Creations`, `Updates`,
`Fenced`, `Comments`, `Unfenced`) take the paths their code takes: `Lookup`, `Claim…`,
`ReadPreimage`, `Apply`, `Send…`, `ReadBack`, `Recover…`, `Reconcile…`, `Stage…`, `Publish…`,
`Settle…`, `Repair…`. `ProviderWrites` is the client below it: preflight, attempts, the
"mutation attempted" flag, readback, on a `wire` that loses, delays and repeats. The two are not
composed: each leaves the other's failures as choices of its environment.

### DocsIndex

Runs of the indexer in the daemon or as a command, with the committed tree and the worktree, revision
sets (`docSets`, `docMembers`, `docOmitted`), vectors with the model that made them, the checkpoint
store (`handoffs`). `PrepareIndex`, `BuildSet`, `WalkDocument`, `Omit`, `LookUp`, `AskProvider`,
`NextAnswer`, `KeepAnswer`, `StoreAnswer`, `PublishSet`, `RetainSets`, `CancelIndex`,
`StopIndex`, `AbandonIndex` follow `Indexer.Run`; `SeekSet`, `LoadSet`, `AnswerSearch` are the
semantic half of a search. A document is one chunk; checkpoint pruning by age or bytes is left out.

### ObservationLog

The process (`life`), the queue (`first`, `backlog`, `pendingLoss`), `coverage`, the retained events,
the ledger files (`segments`, `manifest`, `stateLeaf`), a reader's cursor. `Emit`,
`EmitContended`, `BeginWrite`, `FinishWrite`, `Close`, `Seal`, `Exit` are the collector; `NewCollector`
and `OpenStorage` the next boot with its judgement of what it finds (`Gap`, `Behind`,
`Unclean`, `Recovered`); `Snapshot`, `Follow` the reader. A longer page is several of one event.
The events a process retains are a set: the code's slice is in the order of their numbers.

### Compositions

`MCExactlyOnce` (parts `actions`, `git`, `remote`), `MCCacheUpkeep` (`collection`, `comments`,
`schema`, `command`, `schedule`, `conflicts`, `records`), `MCBoundaries` (`lane`, `index`, `client`,
`setup`) and `MCDaemonClients` (`docs`, `hosting`, `ledger`) each put components into one instance that
share no state in the code. A variable `part`, fixed by the initial state, names the one that moves; the others
stay in their initial state, so the instance is the disjoint union of its components and not their
product. Components that do interact are composed for real: `CacheMigration` EXTENDS
`ServiceLifecycle`; `JobHistory` holds both the job and the receipt side; `DurableSync` has all four
stores.

## 3. What each run checks

Deadlock checking is off in every instance: requests, crashes and failures are bounded and
nobody promises more of them, so an idle daemon with all its bounds used up is a legal end.
That nothing gets stuck before that is the subject of the liveness runs.

| run | module | properties | what it shows |
| --- | --- | --- | --- |
| `lane_safety` | `MCWriterLane` | `TypeOK` `LaneExclusive` `ClearFenceQuiet` | workers, direct writer, inline recovery and conflict resolution never overlap, with a restart and failing writes |
| `lane_liveness` | `MCWriterLane` | `WorkersSettle` `RecoveryFenceLifts` | the FIFO, the budget and the fences let everybody finish |
| `docs_safety` | `MCDaemonClients` | `TypeOK` `JobIsControlled` `CancellationIsKept` `HostingIsSafe` `LedgerIsHonest` | what callers are told holds: an answered cancel is on disk and survives, a decision has one owner; bindings stand and mutations land where meant; coverage claims no more than is held |
| `docs_liveness` | `MCDaemonClients` | `CancelIsAnswered` `WorkerUnwinds` | every Cancel is answered; a worker waiting for a decision is let go |
| `docs_acked` | `MCDocsCancellation` | `AckedStaysCancelled` (violated) | finding 1 |
| `sync_safety` | `MCDurableSync` | `TypeOK` `EvidenceIsKept` `OneCrashIsSurvived` `LedgerSpec` | reports are backed, evidence survives, recovery is complete, `SyncLedger` is implemented |
| `sync_liveness` | `MCDurableSync` | `Settles` | the worker and recovery end |
| `collection_records` | `MCCollectionSync` | `WatermarkIsSound` (violated) | finding 2 |
| `collection_liveness` | `MCCollectionSync` | `CacheCatchesUp` | slices bring a quiet collection into the cache |
| `exactly_once` | `MCExactlyOnce` | `OnceTypeOK` `IntentsAreKept` `ExactlyOnce` `HistoryIsSound` `MutationsApplyOnce` `EffectsStand` `RemoteWriteIsSound` | a retried admin action, Git mutation or remote write takes effect once and is answered truly |
| `cache_upkeep` | `MCCacheUpkeep` | `UpkeepTypeOK` `CollectionIsSound` `CommentsAreExact` `MigratorsExclude` `UpgradesAreWhole` `MigrationIsSound` `RegistrationIsKept` `AuthorityIsSelected` `CacheSpeaksTrue` `RowsAdvance` | what keeps a cache right: watermarks, comments, schema, migrate-cache, scheduler, conflicts, single records |
| `boundaries` | `MCBoundaries` | `BoundaryTypeOK` `AdmissionIsExact` `IndexIsExact` `ClientIsTruthful` `ConsentIsKept` | what is let in or answered: admission, index, HTTP client, setup |

Several names are conjunctions of named parts, each with its own comment in the module:
`CancellationIsKept` is `AckedIsDurable /\ EndedSurvivesRestart`, `EvidenceIsKept` is
`AnswersAreBacked /\ RetryKeepsItsCheckpoint /\ RecoveryIsComplete`, and so on.

### Bounds, and why they are enough

Theorems (section 5) remove the bounds for what they state. For the rest:

* Lane. Two syncs and an exclusive worker are the smallest set with every pair of kinds
  (sync/sync by the queue, sync/worker by the reservation, recovery/new request by the fence) and one
  waiter behind another; one retry reaches "budget left" and "budget spent". The liveness run has
  no retry and no failing write, since what a failing journal write leaves is not promised to end
  before the next start.
* Documentation jobs. Two Cancel calls are needed for a join; a third waits like the second. Two jobs
  and generations give an old and a new one. `MaxAdmissions` 1: one start request beside the
  registration's own job.
* Durable sync. Two collections give "a sibling" and "the rest", `Budget` 2 a retry and a spent budget
  (4 in the code, which only asks "spent or not"), one crash and one failed write each possible
  boundary once. Any number of crashes is covered by the theorems for `EvidenceIsKept` and `LedgerSpec`;
  `OneCrashIsSurvived` says what it says of one crash, since with two it is false (section 6), and is proved
  for all collections and budgets. The liveness run leaves out cancellation and
  expiry, which only end things earlier.
* `exactly_once`. Two keys, two callers, one restart, one failed save, caps of one, so that every
  creation prunes; Git entities of one kind, since kinds differ in their path only.
* `cache_upkeep`. Three records on pages of two put a boundary inside the listing and let one record
  move over it; `MaxStamp` 3 lets each record be changed once. Two openers, a writer and an upgrader
  in four visits; two boots, one command per run and two runs of it; three generations of a
  registration; two repositories on two paths; one page with two versions beyond its first and three
  calls (a sync, a listing, a batch or a reset between two others).
* `boundaries`. Two indexers, two documents with two texts, one edit, one stop, one fault, two
  requests; two calls of the client, one resend, one edit by others, one spoiled message; two appliers,
  one move of the machine, one review each.
* `docs_safety`, second and third parts. Two projects and shelves, two setups, two guests, one token,
  one mishap; a ledger with two slots of one event, two boots, two emissions and `MaxTotal` 3
  occurrences.

Where a configuration names a SYMMETRY, the model values it permutes are interchangeable in every
component of the instance; no liveness run uses one.

### Mutants

Next to the actions stand definitions marked "Mutant": plausible slips in the same code (a dropped
guard, a forgotten reset, an ignored error, a swapped order). For each property of a passing run
`PROJECT.json` names one that breaks it, so that a property never passes merely by being weak.

## 4. Fairness

* `WriterLane`: weak fairness of each worker goroutine, of the recovery goroutine, and of
  the two deferred releases. Go schedules runnable goroutines, every wait in a worker is bounded
  (contexts, timers, HTTP timeouts), `markWorkerFinished` and the releases are deferred. The
  commit queue is FIFO in the code, so no strong fairness is needed. Nothing is assumed of
  requests, cancellation or restarts.
* `DocsCancellation`: weak fairness of the worker, of a Cancel call that has started, and of the
  fence deferred by a rebind. An index run returns because its provider and Git calls carry a
  context or a deadline. No reconcile pass and no request is promised.
* `DurableSync`: weak fairness of the worker and of the recovery goroutine as a whole.
* `CollectionSync`: weak fairness of the reader's pages, of fetching slices (the scheduler's ticker repeats them)
  and of the head's interval, which is a clock; strong fairness of `CommitSlice`, since a fetched slice may be dropped (stale,
  cancelled, crashed) but is fetched again and not dropped for ever. Changes at the provider are free until it settles:
  `CacheCatchesUp` is stated under the premise that the provider settles.

The other modules have safety properties only and state no fairness.

## 5. What is proved

Eight modules hold theorems, each about the component of its name; `MaintenanceReconcile_proofs`
also holds those of `JobHistory`, the other record the scheduler's jobs leave, of `CollectionSync`,
what those jobs read, and of `IdentityConflicts`, the registry the scheduler works from, `RecordSync_proofs` those of
`RemoteWrite`, the other way a record changes, `SetupPlan_proofs` those of `ProviderWrites` and
`DocsIndex`, two more programs that act on what they read before, `LocalHosting_proofs` those of `LocalGit`, the store
under a hosted project, `CacheSchema_proofs` those of `CommentQueue`, rows of that cache, and of
`CacheMigration`, the command that upgrades it beside the service, and
`DocsCancellation_proofs` those of `ObservationLog`, the ledger of what a daemon's jobs did. They hold
for every value of the constants that satisfies the named assumption of the component (in the module
that declares the constants; TLC evaluates it in every run): finite or infinite sets of jobs, callers, pages,
processes, any bounds, any number of crashes and failed writes.

| module | theorem | statement |
| --- | --- | --- |
| `WriterLane_proofs` | `TypeCorrect` | types; no stage is tried more than `MaxRetries + 1` times |
| | `LaneExclusion` | `[]LaneExclusive`: at most one actor changes the cache |
| | `ClearFenceIsQuiet` | `[]ClearFenceQuiet`: under a clear fence there is no worker and none appears |
| | `KeysStayUnique` | `[]OneActivePerKey`: identical work is never active twice, also with failing writes |
| | `AdmissionStaysExact` | `~PersistFails`: `[]AdmissionIsExact`, so the lane is also never busy without a worker |
| `DocsCancellation_proofs` | `DocsTyped` | types |
| | `JobsAreControlled` | `[]JobIsControlled`: a decision has one owner, waiters wait for one, a running job keeps its worker |
| | `CancellationsAreKept` | `[]CancellationIsKept`: an answered cancel is in both files and survives each restart that finds its tombstone |
| (for `ObservationLog`) | `LogInvHolds` | types; the ring of segments is in order; what the files miss is older than what they have, without faults |
| | `NumbersStayUnique` | `[]NumbersAreUnique`: a number names one event of its generation |
| | `LedgerStaysHonest` | `[]LedgerIsHonest`: coverage and readers are told of every loss |
| `DurableSync_proofs` | `SyncTyped` | types; attempts within the budget |
| | `VerdictsStand` | a saved verdict is that of the job in memory, and work is done for running jobs only |
| | `LedgerIsKept` | `LedgerSpec`: `DurableSync` implements `SyncLedger` |
| | `EvidenceStays` | `[]EvidenceIsKept`: successes are backed by the cache, a shown retry has its checkpoint, recovery resumes all it can |
| | `OneCrashSurvived` | `[]OneCrashIsSurvived`: without failed writes, what one crash finds is not lost and not reported as more than it is |
| `RecordSync_proofs` | `RecordsSpeakTrue` | `~Reverts`: `[]CacheSpeaksTrue` |
| | `RowsOnlyAdvance` | `~Reverts`: `RowsAdvance`, an action property |
| (for `RemoteWrite`) | `WriteTypesHold` | types |
| | `WritesAreSound` | `RemoteWriteIsSound`: one key, one payload, one change of the object; success is true and stays |
| `CacheSchema_proofs` | `SchemaTyped`, `MigratorsAreExclusive`, `UpgradesStayWhole` | types, `[]MigratorsExclude`, `[]UpgradesAreWhole` |
| | `VersionsGrow` | an action property: the version of the file never falls |
| (for `CommentQueue`) | `QueueTypesHold`, `RowsFollow` | types, `[]RowFollowsParent` |
| | `CommentsStayExact` | `NewestFirst`: `[]CommentsAreExact`: a complete row shows what the provider has |
| (for `CacheMigration`) | `MigrationTypesHold` | types; the lease is held by a live daemon or by the command that upgrades |
| | `ReceiptsAreEarned` | `[]ReceiptIsEarned`: a receipt is the evidence of an upgrade that took place; any commands, overlapping daemons |
| | `RunningIsListening` | `~DaemonsOverlap`: `[]ReadyIsListening`, for the service with any number of commands |
| | `MigrationStaysSound` | `~DaemonsOverlap` and one command: `[]MigrationIsSound`: a stopped daemon also has its intent |
| `MaintenanceReconcile_proofs` | `MaintenanceTyped`, `RegistrationKept` | types, `[]RegistrationIsKept` |
| (for `JobHistory`) | `HistoryTyped`, `IntentsStay` | types, `[]IntentsAreKept` |
| | `IntentsWorkOnce` | `ExactlyOnce`: each idempotency key implements `IntentLedger` |
| (for `CollectionSync`) | `CollectionStaysSound` | `~MayFail`, `~MayOverlap`, `Caps = {0}`: `[]CollectionIsSound`: watermarks and lanes claim what the cache holds |
| (for `IdentityConflicts`) | `AuthorityStaysSelected` | `~EnrolMidConflict`, `~MixedCohorts`: `[]AuthorityIsSelected`: a resolved cache has one path and one registration under all its names; each conflict is resolved once |
| `SetupPlan_proofs` | `ConsentKept` | `~MovesMidApply`: `[]ConsentIsKept` |
| (for `ProviderWrites`) | `ClientTyped` | types; no call sends more requests than its operation allows |
| | `ClientStaysTruthful` | `~PushMidMerge`: `[]ClientIsTruthful` |
| (for `DocsIndex`) | `IndexStaysExact` | `[]IndexIsExact`: a published set is exactly its snapshot, coverage and searches are true, a vector handed over is there until it is stored or let go |
| `LocalHosting_proofs` | `HostingStaysSafe` | `[]HostingIsSafe` |
| (for `LocalGit`) | `GitTypesHold` | types |
| | `MutationsOnce` | `[]MutationsApplyOnce`: a key is applied at most once and has one answer |
| | `EffectsAlwaysStand` | `EffectsStand`, an action property: the branch only grows; a refusal is true of it |
| | `HistoryServesItsReaders` | `[]HistoryIsSound`: histories validate, tombstones are final, bundles restore, history cites each change once, newest first |

Ten theorems have a hypothesis on a constant that selects a behaviour. Each is there because
the statement is false without it, and section 6 says what happens then: `~PersistFails` (a job
whose last status could not be saved has no worker), `~Reverts` (a page put back to an earlier
revision between two reads), `~MovesMidApply` (the machine changes between the check of a plan
and its execution), `~PushMidMerge` (a push between a merge's preflight and its PUT), `NewestFirst` (the
provider lists the oldest comments first: one that is deleted moves the others across a page boundary,
and the walk skips one), `~DaemonsOverlap` (a foreground daemon beside the managed one: each removes and
remakes the socket of the other), one migrate-cache at a time (with two, the first fails and drops the
intent of the second, which then stops the daemon and gives up waiting for it), and, for `CollectionSync`,
`~MayFail` and `Caps = {0}` (finding 2: a record that failed, or was beyond `--max-records`, is below the
watermark all the same) and `~MayOverlap` (a foreground run or a reset between a daemon's fetch and its
commit: the older stage overwrites, or fills a mirror that was emptied), and, for `IdentityConflicts`,
`~EnrolMidConflict` (a repository enrolled beside an open clone conflict is on a path the resolution may
retire) and `~MixedCohorts` (one candidate chosen for a cohort of several repositories takes the names of
the others too). `RecoveryIsComplete`, a part of
`EvidenceIsKept`, is stated for runs in which no write failed, for the same kind of reason.

### The inductive invariants, and why each is needed

None of the properties is inductive. Each proof finds what the code relies on without stating it,
shows that every action keeps it (one lemma per action or per group that shares a frame), and
derives the property from it. TLC checked every invariant on an instance before it was proved.

* **Lane**, `IInv`. `CommitterHeads`, `WaitersQueued`: whoever is between reservation and commit
  is the head of the FIFO and shows "committing"; this excludes two syncs, as a queue has one head
  (`DequeuedFacts` says what removing a waiter from the middle leaves). `WriterAlone`,
  `DirectAlone`: exclusive workers and the direct writer are checked against what is reserved from both
  sides, by admission and by a sync's reservation, which sees an exclusive worker until it has unwound
  and not only until its status is terminal. `InlineFenced`, `RecoveryFenced`: recovery commits for
  an "interrupted" job that no reservation check sees; it is safe because the recovery fence is up as
  long as it runs. `ClearFenceAlone`: the fence is clear only if nobody was live.
* **Admission**, `KeyInv`. Recovery makes interrupted syncs active without looking at any work key.
  So a key is *claimed* by active jobs and by interrupted syncs that recovery may still resume; it is
  claimed once (`KeysClaimedOnce`), because while there is one of the second kind the recovery fence
  keeps admissions out (`PendingFenced`), and recovery commits a stage itself only for a job that keeps
  its checkpoint (`InlineChecked`). `WorkKeysAssumption` says that only documentation jobs have the
  keys of documentation jobs: a key begins with the job's kind. `MannedInv` is the other side:
  without failing writes an active job has a goroutine that has not unwound.
* **Cancellation**, `DocsInv`. `Cancel` is three sections of two locks. `CallsSound`: a job that
  shows "cancelling" has exactly one call between its sections, whose fence is in the file too; this
  makes "the decision has an owner" inductive. `AckedSound`: after an answer both statuses are
  terminal, so no later write can show the job active. `EndedSound` separates what the files still
  say of a cancellation from what a restart has lost with its tombstone and nobody can bring back.
* **Ledger**, `LogInv`. `NumbersSound`: numbers go up within a generation, and a sealed leaf promises the
  highest one; an unclean boot takes a generation of its own, so it need not know how far the last one
  came. `RingSound`: read round the ring from the oldest segment the numbers go up. The code looks for the
  newest segment by its last number and for the oldest by its place (`SlotIs`, `IntoIs`), and only with this
  order are they neighbours and does a rotation drop the oldest events (`AppendIs`). `LossSound`: a
  loss shows in the coverage of the process, and once that is gone in the files (`FilesTell`: a torn, partial or
  unsealed leaf, or a manifest that no longer fits). `EventsSound`: what memory misses above its first
  event had a failed append and coverage says partial; after a clean boot this comes from the
  gap, the manifest or the promised number (`MissingIsTold`), and `ReaderSound` carries it to the cursor.
* **Durable sync**, `SyncInv`, `LedgerInv`, `BackedInv`, `RetryInv`, `CompleteInv`, each on top of the
  ones before. `SyncInv` types the job, the four stores, the request at work and where worker
  and recovery can be. `LedgerInv` is what refinement needs: the verdict on disk is the verdict in
  memory and a worker works for a running job; `StepKinds` shows every step to be one a reader does not
  see, an installation, or the one publication. `BackedInv`: whatever a view, a saved job, a stage or the
  request in hand calls committed has a receipt; receipts are never taken back. `RetryInv`: as
  long as the job has no verdict a shown retry has its checkpoint, because the view is settled, in
  memory and in the file, before the checkpoint is released. `CompleteInv`: when recovery passes from
  checkpoints to stages to settled jobs, nothing it could have resumed is behind it.
* **One crash**, `SurvivalInv`, on top of those. `JournalInv` holds whatever fails: stages are named by
  their attempt and ordered by the clock, a committed stage has its receipt, only a cached batch degrades a
  collection. `SteadyInv` holds while no write has failed and there was at most one crash, and has
  one part per place the program can be in. At work (`WorkSound`): each collection is in the queue once
  or is the item, a first attempt comes after every first attempt in the journal, and a partial or unreported
  batch is the item's. In a life without a crash (`FirstLife`): the item's stage says what its
  error will say, every other stage is rejected, reported, or was cancelled before its commit, and collections
  without a view wait behind all stages. That is what the crash needs to leave the journal in good order
  (`StagesSound`: of the batches in the cache only those a stage will report are missing in the views, one
  per collection; `FurthestCounts`: without checkpoints that stage is the furthest one). Recovery
  (`RecoverySound`) keeps this until the views show everything, and where it goes on with a stage
  (`ResumeSound`) only that collection may be behind. The number of crashes enters in one step only:
  the second one ends `Steady`, because a resumed request is shorter and `FirstLife` is over.
* **Records**, `RInv`. `RowsPaired` and `InHand` follow the pair (revision, body) from two separate
  reads into the row: should the page ever be at that revision, that is its body. `Ahead`: a revision read
  under the lock is not older than the row. `LockHeld`: who is inside a foreground operation holds the
  writer lock.
* **Remote writes**, `WInv`. What keeps two requests of one key apart is never checked by the call that
  sends. `OneLive`, `Belongs`: at most one call is between its claim and its settlement, as a claim
  takes only a key whose receipt is absent or failed (`MayClaimIsFree`), and while such a call is live
  the receipt is not failed (*not free*), whatever late callers write over it. `KeySound`: under
  a free key nothing has been or can still be applied, because a receipt is reopened only by the one live
  call and only on a proof that its request was not applied; the number of requests applied or on
  the wire is what a claim, a send and a lost answer exchange. `Carries`: what a call trusts when it
  settles (its preimage, the graph it read, the receipt it has seen). Besides the claim itself four
  kinds of step cover the actions of a call: those that leave the receipt (`Goes`), write it anew (`Writes`),
  change its status (`Turns`) and send (`Sends`); each kind has one lemma, each action is shown to be of its kind.
* **Schema**, `SInv`. `SeenIsCurrent` and `LockersFit`: what an opener read before taking the lock is
  re-read or cannot have changed in a way it would not notice. `BackupStays`, `OldIsLeftAlone`: an old
  file changes by an upgrade only, which has its backup from the copy to the commit. `Whole`: a
  version guarantees its tables.
* **Comments**, `QueueInv`. Nothing in the code compares a thread with the provider when its row is
  completed; the number of comments is compared, and only for rows that expect one. `RowSound`,
  `PassSound`, `StageSound` say of a row, a reading and a stage the same thing: *should* the issue be at
  the revision named, its thread is what was read; once the issue moves on they say nothing, and it never
  moves back. For the walk over pages `Ahead` is the argument: a comment not seen yet has, of the
  total the first page announced, too few comments after it to be on a page already listed; posting adds none
  of those and deleting only removes some (`ProviderStep`), so a page that passes the check of the
  total has every comment it should (`PlaceInList`), and after the last page nothing is ahead.
* **Migration**, `MigrationInv`, `DaemonInv`, `AccountInv`. The first holds of any commands and daemons:
  a lease has a live holder (`LeaseSound`), and evidence, in memory or in the intent, is of an upgrade that
  took place (`EvidenceSound`). `DaemonInv` is about the service alone: with one daemon at a time, only the one
  that serves has a socket and the state file names it, so a status of running is its own. `StopSound` is what
  ties the two: the command knows the intent once it has read it, and as long as a daemon counts as stopped
  the intent says that it was running and none serves. So the branch that drops the intent after a failure is
  not taken, `Start` and the health check cannot succeed while the daemon is down, and by the time the receipt
  is written it is back. Each kind of step of a command (it goes on, it ends) has one lemma per invariant.
* **Maintenance**, `MInv`. `ConfirmedSurvives` on top of `StagesSound`: a stale pass may overwrite
  stages, never generation or enablement, and a stage counts a failure only of a job it had launched.
* **Job history**, `HistInv`. `IdsSpent`: within a boot no id in use is handed out again, so a
  creation never replaces a pinned record. `PinsSaved`: pins are the same in memory and in the file,
  because a save that fails takes its pin back; `BooksAgree`: receipts in memory are those on disk,
  but for one a start has settled and could not save. `ActSound`: the action at work has its
  pending receipt, and until it admits no job carries its key; with `NoClaimNoWork` this is why work
  is admitted once. `PruneSpares` is the lemma below all of them: pruning by age and number takes no
  pinned job, whatever the caps. It needs the largest id in use (`HighestIdIs`), from the
  well-foundedness of the naturals.
* **Collections**, `CollectionInv`. A pass over pages that takes several jobs sees several lists. `Ahead`
  is what it goes by: a change only moves other records on by one place (`ChangeMoves`), so a record that is
  ahead of the next page stays ahead of it until it is listed or changed, and then it is newer than every mark
  (`MarksPassed`). `LaneSound` and `RunSound` say that of what existed when a pass began all is held or still
  ahead; a page settles what stands on it, and if the reader may stop also what is behind it (`PageSettles`:
  `PageIs` says what stands on a page, `StopIsEarned` why a mark may be believed). `SliceSound` says the same of a stage
  as if it were committed, because the claims are prepared when it is staged: a record that was changed
  in between is stored in its old revision, and is newer than all that is claimed.
* **Conflicts**, `ConflictsInv`. The registry is a map by id, and canonicalisation puts new rows into it and
  takes old ones out; nothing checks that no row is overwritten on the way. `LeavesApart`: every registration,
  alone or kept in a conflict, is in one row. With `AliasMerged` and `LostApart` (no alias beside a row that has
  taken it over or beside a lost cohort) the new rows find no other row under their names, so each replacement
  loses nothing (`Ready`, `RowsLaid`). `Led`: a redirect leads to a row of its own repository, or to a cohort of
  several; `Caught`: what a conflict keeps is found under it. `Placed` says where rows are: on one path that is
  not retired, in one clone conflict, or in the file of an earlier release, before its first load; only an
  operator leaves the second. `Settled` is why that is final: once something is resolved all rows are on one path,
  so no clone conflict comes back, and after a resolution by candidate the alias is gone, so none of that kind
  comes back either. Canonicalisation is followed stage by stage (expand, inspect, group or fold, normalize),
  each stage keeps the parts of the invariant the next one needs (`CanonicalKeeps`). What a chain of
  redirects resolves to stays in every set that no redirect leaves (`WalkIs`, `ResolveStays`).
* **Setup**, `SetupInv`. `ApplyIsOpen`: a running Apply holds the plan that was read, with what it
  permits; `MachineKeepsUp`: what the plan found of the provider is still there while it runs, so the
  provider's setup does what the plan says; `FreshChangedNothing`: who may review again changed nothing.
* **Client**, `PInv`. `CallSound` says, per call, how its flag, its requests on the wire and its
  object stand to each other: the flag is set before the first request leaves, so a call that says
  "untouched" has sent nothing and never will; the provider only adds (`Grows`), so what a call has found
  once stays; an operation sent once has made no object while its request is on the wire; and a body read
  between two reads of one revision is that revision's.
* **Index**, `IndexInv`. A run counts what it passes and publishes its counts; nothing compares them with
  the tables. `RunSound`: eligible and missing together are the documents passed so far, so a run that
  publishes "ready" has listed them all. `SetsSound` carries this from the publication on: members and
  vectors of a set go only with the set as a whole, since a build of the same id starts by dropping its rows
  and retention keeps each vector that a kept set still lists (`SetsKeep`, `TakenOut`). `WorkerSound` is the
  daemon's share: it has one worker, so what its run counts as done has its vector (`DoneIsStored`); two
  commands have no such rule, and there the counts of a partial set are not claimed. `HandedSound`: a vector
  in a checkpoint is not in the index yet, and until it is the checkpoint stays.
* **Hosting**, `HInv`. `BuildersOwn`: a store in the making belongs to one command. `OpsSound`: an
  operation is the only one of its request, and a refused one has no effect; `HeardSound`, `LandedSound`
  relate what clients were told, what is at work and what is in the stores.
* **Branch**, `GitInv`. No commit is checked against its predecessor when it is published: the
  compare-and-swap compares commit names. `CallSound`: from the preparation to the end of a call its
  candidate follows the commit it is pinned to, and as the branch only grows that commit is still there; at the
  swap it is the tip (`CandidateIs`, and `OutsideIs` for what others commit). `LogSound`: each commit
  `Follows` the one before, so a receipt once there stays as it is and came with the commit of its key;
  hence a key has one commit (`KeysOnce`) and `Origin`, which looks for the first commit with the receipt,
  finds that one (`OriginIs`). `AnswerSound` and `BundleSound` say the same of what was told and exported.
  The walk that cites an entity goes down the commits with one citation at hand; `Cited` says what it has when it
  has passed a commit (`CiteKeeps`), and the shortest walk of which that is false does not exist (`WalkCites`).

Lemmas about operators and data stand before the invariants they serve: what dequeuing, pruning,
planning, folding a retry into a request, ranking (`RankExists`) and counting return.

### Checked by TLC only, and why

* All liveness (`WorkersSettle`, `RecoveryFenceLifts`, `CancelIsAnswered`, `WorkerUnwinds`, `Settles`,
  `CacheCatchesUp`): fairness and ENABLED are outside the prover's reach.
* The type invariants of the three composed runs (`OnceTypeOK`, `UpkeepTypeOK`, `BoundaryTypeOK`). They join
  the type invariants of components that share no state; `HistoryTypeOK`, `GitTypeOK`, `WriteTypeOK`,
  `QueueTypeOK`, `SchemaTypeOK`, `MigrationTypeOK`, `MaintenanceTypeOK` and `ClientTypeOK` are theorems of
  their components, the other five are part of a check only. They say nothing beyond the shape of the
  state; the inductive invariants above carry the types their own arguments need.

Every other invariant and action property of the runs is stated by a theorem, the refinements included;
where a theorem has a condition, the table above names it.

## 6. What the models found

### Findings

Places where a document or comment of the repository says one thing and the code does another. Each
has a run that fails on the model of the code (`findings` in `PROJECT.json` quotes the lines).

1. `docs_acked`. `persistRepositoryDocsTerminalCancellation` says it lets a rebind or a
   concurrent cancel win; after a rebind dropped the admission it turns an answered
   "cancelled" into "failed", a status recovery accepts.
2. `collection_records`. A foreground sync in which one record could not be stored still records a
   complete frontier (`service.go:3088` looks at the stop reason only), so later runs stop at the
   watermark and never fetch that record again (`docs/cache-and-sync-model.md:265` excludes this).
   The same happens when `--max-records` is used up on the page that ends the collection.

### Observations

Met while modelling; reproduced with the constants named, or excluded from a property as said.

Lane and jobs
* With failing writes a job whose terminal status could not be saved stays active without a
  worker until the next start. `OneActivePerKey` does not depend on that, `BusyOnlyWhileWorker` does.
* A pending intent whose source job was pruned is driven again for an unrelated job that reused the
  id after a restart (`job_actions.go`; `docs/cache-and-sync-model.md:176-178`). The record of an in-flight
  worker can be pruned, so that `BeginCacheMutationFence` does not see it.

Documentation jobs
* A failed tombstone write while the job is queued leaves an active job with no worker
  (`jobs.go:1046`; `docs/repository-documentation-rag.md:133-134`).
* A reconcile pass that read the admission before a Cancel relaunches cancelled work
  (`maintenance.go:2767`; same document `:129-130`).
* Two late binds of stale start requests around a worker's failure return the tombstone of a job that
  has meanwhile failed (with two requesters `EndedSurvivesRestart` was false; the root of finding 1).

Durable sync
* Two crashes, four collections: a resumed retry's shorter request numbers its stages lower than a stage
  of the first run; a committed batch is swept by `Mark`'s GC (`sync_staging.go:497-522`) before its
  view is saved. If the higher stage is a rejected one, a second crash leaves the job interrupted with
  the batch cached and no authority, against "every crash boundary retains at least one
  recovery authority" (`sync_jobs.go:505-506`).
* Two crashes, two collections: a resumed retry settles its due collection and releases the last
  checkpoint before the rest is attempted; after a crash there,
  `recoverSettledInterruptedSyncJobs` completes the job although a selected collection was
  never fetched. These two are why `OneCrashIsSurvived` counts crashes.
* One crash, no failed write: a recovered stage whose commit is refused before any view exists ends the
  job "succeeded" (`sync_jobs.go:2120-2135`; `docs/cache-and-sync-model.md:142-145`). The same false
  success follows a failed journal write (`sync_jobs.go:2124`).
* A restart without checkpoints fetches a successful sibling again (`sync_jobs.go:2107`; same
  document `:157-159`).

Records, collections, comments
* With `Reverts` TRUE `SkipsAreRight` is violated: revision read, page edited, body read, page
  reverted; the row is skipped as fresh from then on. This is the torn read of `getWikiPageByPath`.
* An explicit key left in progress by a crash blocks that key for good (default keys hold a timestamp).
* A daemon batch may put an older revision back until the next listing; comments deleted at
  the provider stay cached; `markMissingRemote` clears the revision and keeps the content.
* `MayOverlap` TRUE violates `WatermarkIsSound` (`docs/cache-and-sync-model.md:342`); durable slices are
  one page, so the overlap of `docs/cache-maintenance.md:25` never happens; the complete watermark of a
  sliced pass is that of its last slice; an empty last page lowers it; a cache reset leaves
  `maintenance_frontiers`.
* With the oldest first, `CompleteIsExact` fails for seeded legacy rows; a failing item blocks the
  ones behind it; a foreground parent's store and its enqueueing are two transactions.

Maintenance and conflicts
* A disabled entry may still be scheduled or shown degraded (`docs/cache-maintenance.md:62`); a failure
  between `ReadState` and the re-read of active jobs is not counted in the backoff (`:115`); a `Disable`
  whose save fails is not rolled back in memory; `Enroll` resets the stage, but the next pass
  observes the old failed job again.
* `MixedCohorts` TRUE violates `OneAnswer` and `EnrolMidConflict` TRUE `OnePath`
  (`maintenance_conflicts.go:357-448`, `maintenance.go:1636-1640`; `docs/cache-maintenance.md:49-53`). Two
  blocks in a row overwrite `identityBlockedWasEnabled` (`maintenance.go:1241-1243`; `:113`). A replay
  under a legacy id is accepted without comparing the policy (`maintenance.go:3573`; `:76`).
* An unresolved cohort that an operator disabled never falls apart again, because its state is then "disabled"
  (`maintenance.go:1190-1196`, `:1739`). Registrations of that cache enrolled later and folded when it is gone
  again get the same id (`:864`), and their row takes the place of the first one, whose candidates are lost (`:1050`).

Cache file and migrate-cache
* An upgrade discards cached comments (`schema.go:661`: a PRAGMA without effect inside a
  transaction). A crash between `CREATE TABLE schema_version` and the first commit leaves a cache
  that neither opens nor migrates. The busy row of `wal_checkpoint(TRUNCATE)` is ignored.
* Evidence of a stopped daemon is lost by a crash or a second run
  (`docs/cache-and-sync-model.md:455`); a second concurrent run overwrites or clears the intent, so that
  with two `Commands` `StoppedIsRemembered` is false; a stale
  socket makes `InstallForCacheMigration` fail at each new run; nothing keeps two daemons apart
  (`DaemonsOverlap`).

Remote writes and the client
* A lost create-issue POST fails the row, and the same key posts again (`docs/feedback.md:114`); an
  update may be sent twice (`service.go:6069`; `docs/architecture.md:73`); the repair of update-pr can
  downgrade a success (`service.go:5650`; `docs/cache-and-sync-model.md:330`).
* With `PushMidMerge` TRUE a push between preflight and PUT is merged and confirmed though `HeadSHA` named
  another head (`docs/mcp-setup.md:315`, `docs/pr-mr-workflow.md:71`). Repeated POSTs can create
  duplicates; an issue update without a milestone sends the one it read; a second DELETE of a
  wiki page after a lost answer reports an error.

Setup, hosting, index, observation
* With `MovesMidApply` TRUE `rag.Setup` starts a stopped provider or downloads a vanished model
  that no reviewed plan showed, also for a caller without `AllowMachineChange` (`enable.go:280`;
  `docs/cache-maintenance.md:80,82`).
* A killed init or restore leaves an unpublished directory that blocks its storage ref
  (`store_exists`); two concurrent ones of one project make two stores, and the refused one stays.
* A vector is handed over and its run dies, the resumed run is interrupted after its reset and before it walks
  again: the set lists nothing, so the next prune deletes the checkpoint and the provider is asked once more
  (`repository_docs_jobs.go:354-362`; `docs/repository-documentation-rag.md:222`). `HandoffsAreKept` lets go
  of the vector there.
* Three commands indexing one commit, of which one is stopped, can publish a *partial* set whose counters speak of
  members that are gone: the second resets what the first counted. `CoverageIsTrue` claims the vectors of a partial
  set for the daemon only, where one worker writes.
* An append that fails before one that succeeds leaves a clean shutdown with the event missing on
  disk; a cursor taken between skips it, though coverage is "partial" (`docs/daemon-observation.md:90-94`). A
  boot whose storage could not be opened leaves no trace, and the next boot reports ready.

## 7. What is not modelled, and why

* SQLite transactions are atomic; lock contention shows as the refusal it causes.
* RAG ranking and embedding, the text index, chunking, Markdown, report and page rendering, argument
  parsing, the MCP and HTTP façades, the admin UI: data transformation with no protocol of their own.
* Configuration, credentials, doctor, diagnostics, feedback, qualification, fixtures: no decision of a
  modelled component depends on the order of their steps.
* Corrupt, expired or unsupported stage files: quarantined before they are looked at.
* Partial file-system writes: files are written to the side, synced and renamed
  (`durable_file.go`), and the models take a write as done or not done. The case in which the rename
  is done and the sync of the directory reports an error is left out.
* In part: coverage of issue comments after `SyncToCache`, `MergeSyncTraversal`, `BulkSyncAll`,
  remapping of documentation sources along a redirect, validation of policies, legacy migration and
  sequence exhaustion of the ledger, rate limiting, releases, mirrors and attachments of the client.

`PROJECT.json` lists every component with what of it is modelled.

## 8. Plan

Done: the modules of section 2, their runs, and the proofs of section 5, which state every safety property of
the runs.
