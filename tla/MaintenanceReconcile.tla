------------------------ MODULE MaintenanceReconcile ------------------------
(***************************************************************************)
(* One registration of the maintenance registry and the scheduler that     *)
(* keeps its cache fresh.                                                  *)
(*                                                                         *)
(* Every minute a reconciliation lists the registrations, takes a snapshot *)
(* of each enabled one, reads jobs and cache without the lock, starts at   *)
(* most one job, and writes its observations back if the registration is   *)
(* still of the generation it started from.  Enrolment and disabling by    *)
(* the operator, jobs that end, failed saves and restarts fall anywhere in *)
(* between.                                                                *)
(***************************************************************************)
EXTENDS Naturals, FiniteSets

CONSTANTS
    MaxGeneration,  \* bound on enrolments and disablings
    MaxStarted,     \* bound on jobs
    MaxContent,     \* bound on content generations
    MaxUnsaved,     \* bound on failed saves
    MaxReboots      \* bound on restarts of the daemon

ASSUME MaintenanceAssumption ==
    /\ MaxGeneration \in Nat \ {0}
    /\ {MaxStarted, MaxContent, MaxUnsaved, MaxReboots} \subseteq Nat

VARIABLES
    entry,      \* registry entry in memory: [enabled, generation, state, stages]
    registered, \* the same in managed-caches.json
    confirmed,  \* history: [enabled, generation] of the last acknowledged call
    job,        \* latest job of each kind: [status, ended, target]
    content,    \* content generation of the cache
    covered,    \* generation covered by the embedding index
    open,       \* lanes with work left: subset of {"head", "tail"}
    rec,        \* reconciliation: [at, generation, stages, work, choice]
    failures,   \* history: failed jobs of each kind
    bounds      \* [started, unsaved, reboots] so far

maintenanceVars == <<entry, registered, confirmed, job, content, covered, open, rec, failures, bounds>>
registry == <<entry, registered, confirmed>>
coverage == <<content, covered, open>>

Stages == {"sync", "rag"}
NoStage == [seen |-> 0, failed |-> 0, waiting |-> FALSE]
FreshStages == [k \in Stages |-> NoStage]
NoReconcile == [at |-> "idle", generation |-> 0, stages |-> FreshStages, work |-> {}, choice |-> "none"]
NoWork == [status |-> "none", ended |-> 0, target |-> 0, lane |-> "none"]

MaintenanceInit ==
    /\ entry = [enabled |-> TRUE, generation |-> 1, state |-> "enrolled", stages |-> FreshStages]
    /\ registered = entry
    /\ confirmed = [enabled |-> TRUE, generation |-> 1]
    /\ job = [k \in Stages |-> NoWork]
    /\ content = 0 /\ covered = 0
    /\ open = {"head", "tail"}
    /\ rec = NoReconcile
    /\ failures = [k \in Stages |-> 0]
    /\ bounds = [started |-> 0, unsaved |-> 0, reboots |-> 0]

(* Writing the registry may fail. *)
Register(e) ==
    \/ registered' = e /\ UNCHANGED bounds
    \/ bounds.unsaved < MaxUnsaved /\ bounds' = [bounds EXCEPT !.unsaved = @ + 1] /\ UNCHANGED registered

Busy == \E k \in Stages : job[k].status = "active"

------------------------------------------------------------------------------
(* The operator. *)

(* Enrolment with a changed policy forgets the progress of the stages it     *)
(* touches; if the registry cannot be written it is undone.                  *)
Enroll(reset) ==
    LET e == [entry EXCEPT !.enabled = TRUE, !.generation = @ + 1, !.state = "enrolled",
                !.stages = [k \in Stages |-> IF k \in reset THEN NoStage ELSE @[k]]]
    IN /\ entry.generation < MaxGeneration
       /\ reset # {} \/ ~entry.enabled
       /\ entry' = e /\ registered' = e
       /\ confirmed' = [enabled |-> TRUE, generation |-> e.generation]
       /\ UNCHANGED <<job, coverage, rec, failures, bounds>>

(* Disabling that cannot be written is reported, but not undone in memory.   *)
Disable ==
    LET e == [entry EXCEPT !.enabled = FALSE, !.generation = @ + 1, !.state = "disabled"] IN
    /\ entry.generation < MaxGeneration
    /\ entry' = e
    /\ Register(e)
    /\ confirmed' = IF registered' = e THEN [enabled |-> FALSE, generation |-> e.generation]
                    ELSE confirmed
    /\ UNCHANGED <<job, coverage, rec, failures>>

------------------------------------------------------------------------------
(* The jobs. *)

Launch(k, lane) ==
    /\ bounds.started < MaxStarted
    /\ bounds' = [bounds EXCEPT !.started = @ + 1]
    /\ job' = [job EXCEPT ![k] = [@ EXCEPT !.status = "active", !.target = content, !.lane = lane]]

(* Somebody starts a job of the same kind by hand. *)
StartByHand(k) ==
    /\ ~Busy
    /\ Launch(k, "head")
    /\ UNCHANGED <<registry, coverage, rec, failures>>

End(k, status) ==
    /\ job[k].status = "active"
    /\ job' = [job EXCEPT ![k].status = status, ![k].ended = @ + 1]
    /\ UNCHANGED <<registry, rec, bounds>>

SyncSucceeds ==
    /\ End("sync", "succeeded")
    /\ open' = open \ {job["sync"].lane}
    /\ content' \in {content} \union {c \in {content + 1} : c <= MaxContent}
    /\ UNCHANGED <<covered, failures>>

RAGSucceeds ==
    /\ End("rag", "succeeded")
    /\ covered' = job["rag"].target
    /\ UNCHANGED <<content, open, failures>>

JobFails(k) ==
    /\ End(k, "failed")
    /\ failures' = [failures EXCEPT ![k] = @ + 1]
    /\ UNCHANGED coverage

(* The head of a collection is due again after its interval. *)
HeadLapses ==
    /\ "head" \notin open
    /\ open' = open \union {"head"}
    /\ UNCHANGED <<registry, job, content, covered, rec, failures, bounds>>

------------------------------------------------------------------------------
(* The reconciliation. *)

ReconcileLists ==
    /\ rec.at = "idle" /\ entry.enabled
    /\ rec' = [rec EXCEPT !.at = "listed"]
    /\ UNCHANGED <<registry, job, coverage, failures, bounds>>

(* The entry is read again; that it is still enabled is not asked again.     *)
TakeSnapshot ==
    /\ rec.at = "listed"
    /\ rec' = [rec EXCEPT !.at = "snapshot", !.generation = entry.generation, !.stages = entry.stages]
    /\ UNCHANGED <<registry, job, coverage, failures, bounds>>

(* One terminal transition of a job is counted once: a failure opens a       *)
(* backoff window, a success clears it, a restart is not a failure.          *)
Ended(j) == j.status \notin {"none", "active"}
ObserveAgain(s, j) ==
    IF ~Ended(j) THEN s
    ELSE [seen |-> j.ended,
          failed |-> CASE j.status = "succeeded" -> 0 [] j.status = "failed" -> s.failed + 1 [] OTHER -> s.failed,
          waiting |-> j.status = "failed"]
Observe(s, j) == IF j.ended = s.seen THEN s ELSE ObserveAgain(s, j)

Work == open \union (IF content > covered THEN {"rag"} ELSE {})

ReadState ==
    /\ rec.at = "snapshot"
    /\ rec' = [rec EXCEPT !.at = "observed", !.work = Work,
                 !.stages = [k \in Stages |-> Observe(@[k], job[k])]]
    /\ UNCHANGED <<registry, job, coverage, failures, bounds>>

(* The cache cannot be read: the entry is marked whatever it has become.     *)
ReadFails ==
    LET e == [entry EXCEPT !.state = "degraded"] IN
    /\ rec.at = "snapshot"
    /\ entry' = e
    /\ Register(e)
    /\ rec' = NoReconcile
    /\ UNCHANGED <<confirmed, job, coverage, failures>>

(* The head first, then repair of the index, then history; a stage in its    *)
(* backoff window is passed over.                                            *)
NextStage ==
    LET ready(k) == ~rec.stages[k].waiting IN
    IF ready("sync") /\ "head" \in rec.work THEN "head"
    ELSE IF ready("rag") /\ "rag" \in rec.work THEN "rag"
    ELSE IF ready("sync") /\ "tail" \in rec.work THEN "tail" ELSE "none"
KindOf(choice) == IF choice = "rag" THEN "rag" ELSE "sync"

(* Active jobs are read anew before one is started. *)
StartStage ==
    /\ rec.at = "observed"
    /\ IF Busy \/ NextStage = "none"
       THEN /\ rec' = [rec EXCEPT !.at = "finish"]
            /\ UNCHANGED <<job, bounds>>
       ELSE /\ Launch(KindOf(NextStage), NextStage)
            /\ rec' = [rec EXCEPT !.at = "finish", !.choice = NextStage]
    /\ UNCHANGED <<registry, coverage, failures>>

Derived(e) ==
    IF ~e.enabled THEN "disabled"
    ELSE IF \E k \in Stages : e.stages[k].failed > 0 THEN "degraded" ELSE "ready"

(* The observations are written back unless the registration changed; the    *)
(* entry keeps them in memory even if the registry cannot be written.        *)
FinishOverwrites(e) ==
    [e EXCEPT !.stages = rec.stages, !.enabled = TRUE, !.generation = rec.generation,
        !.state = IF rec.choice # "none" THEN "working" ELSE Derived([e EXCEPT !.stages = rec.stages])]
Finished(e) ==
    IF e.generation # rec.generation THEN e
    ELSE [e EXCEPT !.stages = rec.stages,
            !.state = IF rec.choice # "none" THEN "working" ELSE Derived([e EXCEPT !.stages = rec.stages])]

FinishReconcile ==
    /\ rec.at = "finish"
    /\ entry' = Finished(entry)
    /\ IF entry.generation # rec.generation THEN UNCHANGED <<registered, bounds>> ELSE Register(entry')
    /\ rec' = NoReconcile
    /\ UNCHANGED <<confirmed, job, coverage, failures>>

(* The backoff window of a stage closes. *)
WindowOpens(k) ==
    /\ entry.stages[k].waiting
    /\ entry' = [entry EXCEPT !.stages[k].waiting = FALSE]
    /\ registered' = IF registered.stages[k].seen = entry.stages[k].seen
                THEN [registered EXCEPT !.stages[k].waiting = FALSE] ELSE registered
    /\ UNCHANGED <<confirmed, job, coverage, rec, failures, bounds>>

------------------------------------------------------------------------------
(* The daemon dies: the registry is what was saved, running jobs are         *)
(* interrupted, and a durable sync goes on under its own id.                 *)
Reboot ==
    /\ bounds.reboots < MaxReboots
    /\ bounds' = [bounds EXCEPT !.reboots = @ + 1]
    /\ entry' = registered
    /\ rec' = NoReconcile
    /\ job' = [k \in Stages |-> IF job[k].status = "active"
                                THEN [job[k] EXCEPT !.status = "interrupted", !.ended = @ + 1] ELSE job[k]]
    /\ UNCHANGED <<registered, confirmed, coverage, failures>>

ResumeSync ==
    /\ job["sync"].status = "interrupted"
    /\ ~Busy
    /\ job' = [job EXCEPT !["sync"].status = "active"]
    /\ UNCHANGED <<registry, coverage, rec, failures, bounds>>

MaintenanceNext ==
    \/ \E reset \in SUBSET Stages : Enroll(reset)
    \/ Disable
    \/ \E k \in Stages : StartByHand(k) \/ JobFails(k) \/ WindowOpens(k)
    \/ SyncSucceeds \/ RAGSucceeds \/ HeadLapses
    \/ ReconcileLists \/ TakeSnapshot \/ ReadState \/ ReadFails
    \/ StartStage \/ FinishReconcile
    \/ Reboot \/ ResumeSync

MaintenanceSpec == MaintenanceInit /\ [][MaintenanceNext]_maintenanceVars

------------------------------------------------------------------------------
(* Every variable keeps its type; coverage never runs ahead of content, nor  *)
(* a stage ahead of its jobs.                                                *)
EntryType ==
    [enabled : BOOLEAN, generation : 1..MaxGeneration,
     state : {"enrolled", "disabled", "degraded", "ready", "working"},
     stages : [Stages -> [seen : Nat, failed : Nat, waiting : BOOLEAN]]]
MaintenanceTypeOK ==
    /\ entry \in EntryType /\ registered \in EntryType
    /\ \A k \in Stages : entry.stages[k].seen <= job[k].ended
    /\ confirmed \in [enabled : BOOLEAN, generation : 1..MaxGeneration]
    /\ job \in [Stages -> [status : {"none", "active", "succeeded", "failed", "interrupted"},
                           ended : Nat, target : 0..MaxContent, lane : {"none", "head", "tail", "rag"}]]
    /\ content \in 0..MaxContent /\ covered \in 0..content
    /\ open \subseteq {"head", "tail"}
    /\ rec.at \in {"idle", "listed", "snapshot", "observed", "finish"}
    /\ bounds.unsaved \in 0..MaxUnsaved

(* What the operator was told is never taken back: no stale reconciliation,  *)
(* failed save or restart brings back an older enrolment.                    *)
ConfirmedSurvives ==
    \A e \in {entry, registered} :
        /\ e.generation >= confirmed.generation
        /\ e.generation = confirmed.generation => e.enabled = confirmed.enabled

(* The backoff of a stage grows with failed jobs only: no failure is counted *)
(* twice, by a second reconciliation or after a restart from older state.    *)
CountedOnce ==
    \A k \in Stages : entry.stages[k].failed <= failures[k]

(* One job of the registration runs at a time, by hand or by schedule.       *)
OneJobRuns == Cardinality({k \in Stages : job[k].status = "active"}) <= 1

\* A reconciliation, however stale, leaves the registration as the operator and
\* the jobs made it (maintenance.go finishReconcileEntry).
RegistrationIsKept == ConfirmedSurvives /\ CountedOnce /\ OneJobRuns
=============================================================================
