--------------------- MODULE MaintenanceReconcile_proofs ---------------------
(***************************************************************************)
(* The registration and its backoff for any number of enrolments, jobs,    *)
(* failed saves and restarts.  A reconciliation works on three copies of   *)
(* the stage counters: the one in memory, the one on disk and its own; the *)
(* invariant says of each of them that the failures it has counted, and    *)
(* the one it still has to count, are failures that happened.              *)
(*                                                                         *)
(* And the job history such a reconciliation admits work to, with the      *)
(* admin retries that drive it: pins keep the job that answers an intent,  *)
(* and the receipts over the history implement IntentLedger.               *)
(*                                                                         *)
(* And the collections the jobs read (CollectionSync), for any number of   *)
(* records, any page size, and any number of changes, runs and crashes:    *)
(* their frontiers claim nothing the cache does not hold.                  *)
(*                                                                         *)
(* And the registry itself (IdentityConflicts), for any repositories,      *)
(* paths, policies and operators: what canonicalization makes of rows that *)
(* cannot stand together, and that what an operator selects stands.        *)
(***************************************************************************)
EXTENDS MaintenanceReconcile, JobHistory, CollectionSync, IdentityConflicts, FiniteSetTheorems,
        SequenceTheorems, WellFoundedInduction, TLAPS

StageType == [seen : Nat, failed : Nat, waiting : BOOLEAN]
JobType ==
    [status : {"none", "active", "succeeded", "failed", "interrupted"},
     ended : Nat, target : 0..MaxContent, lane : {"none", "head", "tail", "rag"}]

EntryTyped == entry \in EntryType /\ registered \in EntryType
ConfirmedTyped == confirmed \in [enabled : BOOLEAN, generation : 1..MaxGeneration]
JobTyped == job \in [Stages -> JobType] /\ failures \in [Stages -> Nat]
CoverageTyped ==
    /\ content \in 0..MaxContent /\ covered \in 0..content
    /\ \A k \in Stages : job[k].target <= content
    /\ open \subseteq {"head", "tail"}
RecTyped ==
    rec \in [at : {"idle", "listed", "snapshot", "observed", "finish"},
             generation : Nat, stages : [Stages -> StageType],
             work : SUBSET {"head", "tail", "rag"}, choice : {"none", "head", "tail", "rag"}]
BoundsTyped ==
    bounds \in [started : Nat, unsaved : 0..MaxUnsaved, reboots : Nat]

\* What stage counter s of kind k has counted, with the failure it has not seen
\* yet, happened.
StageSound(s, k) ==
    /\ s.seen <= job[k].ended
    /\ s.failed + (IF job[k].status = "failed" /\ s.seen # job[k].ended THEN 1 ELSE 0) <= failures[k]
StagesSound ==
    \A k \in Stages : /\ StageSound(entry.stages[k], k)
                      /\ StageSound(registered.stages[k], k)
                      /\ StageSound(rec.stages[k], k)
FailuresHappened ==
    \A k \in Stages : job[k].status = "failed" => failures[k] >= 1

OneActive == ~(job["sync"].status = "active" /\ job["rag"].status = "active")

MInv ==
    /\ EntryTyped /\ ConfirmedTyped /\ JobTyped /\ CoverageTyped /\ RecTyped /\ BoundsTyped
    /\ ConfirmedSurvives
    /\ StagesSound /\ FailuresHappened
    /\ OneActive

-----------------------------------------------------------------------------
\* The initial registry, idle and without jobs, satisfies the invariant.
LEMMA InitMInv == MaintenanceInit => MInv
BY MaintenanceAssumption
   DEF MaintenanceInit, MInv, EntryTyped, ConfirmedTyped, JobTyped, CoverageTyped, RecTyped,
       BoundsTyped, ConfirmedSurvives, StagesSound, StageSound, FailuresHappened, OneActive,
       EntryType, StageType, JobType, FreshStages, NoStage, NoWork, NoReconcile, Stages

\* A save that may fail leaves the counters of saves in range and the registry
\* either as it was or as it was to be.
LEMMA RegisterFacts ==
    ASSUME BoundsTyped, NEW e, Register(e)
    PROVE  /\ registered' \in {e, registered}
           /\ BoundsTyped'
BY MaintenanceAssumption DEF BoundsTyped, Register

\* Starting a job while none is active.
LEMMA LaunchFacts ==
    ASSUME JobTyped, CoverageTyped, BoundsTyped, StagesSound, FailuresHappened, ~Busy,
           NEW k \in Stages, NEW lane \in {"head", "tail", "rag"}, Launch(k, lane),
           UNCHANGED <<coverage, failures>>
    PROVE  /\ JobTyped' /\ CoverageTyped' /\ BoundsTyped' /\ FailuresHappened' /\ OneActive'
           /\ \A l \in Stages : \A s \in StageType : StageSound(s, l) => StageSound(s, l)'
<1>1. job' = [job EXCEPT ![k] = [@ EXCEPT !.status = "active", !.target = content, !.lane = lane]]
  BY DEF Launch
<1>2. UNCHANGED <<content, covered, open, failures>>
  BY DEF coverage
<1>3. content \in 0..MaxContent
  BY DEF CoverageTyped
<1>5. job' \in [Stages -> JobType]
  BY <1>1, <1>3 DEF JobTyped, JobType
<1>6. /\ \A l \in Stages \ {k} : job'[l] = job[l]
      /\ job'[k].status = "active" /\ job'[k].ended = job[k].ended /\ job'[k].target = content
  BY <1>1 DEF JobTyped, JobType
<1>7. JobTyped' /\ FailuresHappened'
  BY <1>2, <1>5, <1>6 DEF JobTyped, FailuresHappened, JobType
<1>8. CoverageTyped'
  BY <1>2, <1>3, <1>6 DEF CoverageTyped, JobTyped, JobType
<1>9. OneActive'
  BY <1>6 DEF OneActive, Busy, JobTyped, JobType, Stages
<1>4. BoundsTyped'
  BY DEF Launch, BoundsTyped
<1>10. ASSUME NEW l \in Stages, NEW s \in StageType, StageSound(s, l)
      PROVE  StageSound(s, l)'
  BY <1>2, <1>6, <1>10 DEF StageSound, JobTyped, JobType, StageType, Stages
<1>. QED  BY <1>4, <1>7, <1>8, <1>9, <1>10

\* A job that ends without failing leaves every sound counter sound.
LEMMA EndFacts ==
    ASSUME JobTyped, StagesSound, FailuresHappened, OneActive,
           NEW k \in Stages, NEW status \in {"succeeded", "failed", "interrupted"}, End(k, status),
           failures' = IF status = "failed" THEN [failures EXCEPT ![k] = @ + 1] ELSE failures
    PROVE  /\ JobTyped' /\ FailuresHappened' /\ OneActive'
           /\ \A l \in Stages : job'[l].target = job[l].target
           /\ \A l \in Stages : \A s \in StageType : StageSound(s, l) => StageSound(s, l)'
<1>1. job' = [job EXCEPT ![k].status = status, ![k].ended = @ + 1]
  BY DEF End
<1>2. JobTyped' /\ FailuresHappened' /\ OneActive'
  BY <1>1 DEF JobTyped, FailuresHappened, OneActive, JobType, Stages
<1>3. \A l \in Stages : job'[l].target = job[l].target
  BY <1>1 DEF JobTyped, JobType
<1>4. ASSUME NEW l \in Stages, NEW s \in StageType, StageSound(s, l)
      PROVE  StageSound(s, l)'
  BY <1>1, <1>4 DEF StageSound, JobTyped, JobType, StageType, Stages
<1>. QED  BY <1>2, <1>3, <1>4

\* What a reconciliation makes of a counter when it looks at the job.
LEMMA ObserveFacts ==
    ASSUME JobTyped, NEW k \in Stages, NEW s \in StageType, StageSound(s, k)
    PROVE  Observe(s, job[k]) \in StageType /\ StageSound(Observe(s, job[k]), k)
<1>1. CASE job[k].ended = s.seen
  BY <1>1 DEF Observe
<1>2. CASE job[k].ended # s.seen /\ ~Ended(job[k])
  BY <1>2 DEF Observe, ObserveAgain
<1>3. CASE job[k].ended # s.seen /\ Ended(job[k])
  BY <1>3 DEF Observe, ObserveAgain, StageType, StageSound, JobTyped, JobType
<1>. QED  BY <1>1, <1>2, <1>3

\* Counters that are sound and of their type.
LEMMA CountersTyped ==
    ASSUME EntryTyped, RecTyped
    PROVE  \A k \in Stages : /\ entry.stages[k] \in StageType
                             /\ registered.stages[k] \in StageType
                             /\ rec.stages[k] \in StageType
BY DEF EntryTyped, EntryType, RecTyped, StageType

-----------------------------------------------------------------------------
(* The operator.                                                           *)

\* A changed enrolment starts the stages it touches anew.
LEMMA EnrollStep == ASSUME MInv, NEW reset \in SUBSET Stages, Enroll(reset) PROVE MInv'
<1> DEFINE e == [entry EXCEPT !.enabled = TRUE, !.generation = @ + 1, !.state = "enrolled",
                  !.stages = [k \in Stages |-> IF k \in reset THEN NoStage ELSE @[k]]]
<1>1. entry' = e /\ registered' = e /\ entry.generation < MaxGeneration
  BY DEF Enroll
<1>2. UNCHANGED <<job, content, covered, open, rec, failures, bounds>>
  BY DEF Enroll, coverage
<1>3. entry.generation \in 1..MaxGeneration /\ entry.generation + 1 \in 1..MaxGeneration
  BY <1>1, MaintenanceAssumption DEF MInv, EntryTyped, EntryType
<1>4. e \in EntryType /\ e.enabled = TRUE /\ e.generation = entry.generation + 1
  BY <1>3 DEF MInv, EntryTyped, EntryType, NoStage
<1>5. \A k \in Stages : e.stages[k] = IF k \in reset THEN NoStage ELSE entry.stages[k]
  BY DEF MInv, EntryTyped, EntryType
<1>6. confirmed' = [enabled |-> TRUE, generation |-> e.generation]
  BY DEF Enroll
<1>7. EntryTyped' /\ ConfirmedTyped'
  BY <1>1, <1>3, <1>4, <1>6 DEF EntryTyped, ConfirmedTyped
<1>8. JobTyped' /\ CoverageTyped' /\ RecTyped' /\ BoundsTyped' /\ FailuresHappened' /\ OneActive'
  BY <1>2 DEF MInv, JobTyped, CoverageTyped, RecTyped, BoundsTyped, FailuresHappened, OneActive
<1>9. ConfirmedSurvives'
  <2> HIDE DEF e
  <2>1. e.generation \in Nat
    BY <1>3, <1>4
  <2>2. confirmed'.generation = e.generation /\ confirmed'.enabled = e.enabled
    BY <1>4, <1>6, Zenon
  <2>. QED  BY <1>1, <2>1, <2>2 DEF ConfirmedSurvives
<1>10. ASSUME NEW k \in Stages
       PROVE  StageSound(NoStage, k)
  BY <1>10 DEF MInv, FailuresHappened, StageSound, NoStage, JobTyped, JobType
<1>11. StagesSound'
  BY <1>1, <1>2, <1>5, <1>10 DEF MInv, StagesSound, StageSound
<1>. QED  BY <1>7, <1>8, <1>9, <1>11 DEF MInv

\* Disabling, whether it is written or not.
LEMMA DisableStep == ASSUME MInv, Disable PROVE MInv'
<1> DEFINE e == [entry EXCEPT !.enabled = FALSE, !.generation = @ + 1, !.state = "disabled"]
<1>1. entry' = e /\ entry.generation < MaxGeneration /\ Register(e)
  BY DEF Disable
<1>2. UNCHANGED <<job, content, covered, open, rec, failures>>
  BY DEF Disable, coverage
<1>3. confirmed' = IF registered' = e THEN [enabled |-> FALSE, generation |-> e.generation] ELSE confirmed
  BY DEF Disable
<1>4. entry.generation \in 1..MaxGeneration /\ entry.generation + 1 \in 1..MaxGeneration
  BY <1>1, MaintenanceAssumption DEF MInv, EntryTyped, EntryType
<1>5. e \in EntryType /\ e.enabled = FALSE /\ e.generation = entry.generation + 1 /\ e.stages = entry.stages
  BY <1>4 DEF MInv, EntryTyped, EntryType
<1>6. registered' \in {e, registered} /\ BoundsTyped'
  BY <1>1, RegisterFacts DEF MInv
<1>7. EntryTyped' /\ ConfirmedTyped'
  BY <1>1, <1>3, <1>4, <1>5, <1>6 DEF MInv, EntryTyped, ConfirmedTyped
<1>8. JobTyped' /\ CoverageTyped' /\ RecTyped' /\ FailuresHappened' /\ OneActive'
  BY <1>2 DEF MInv, JobTyped, CoverageTyped, RecTyped, FailuresHappened, OneActive
<1>9. ConfirmedSurvives'
  <2>1. CASE registered' = e
    <3> HIDE DEF e
    <3>1. e.generation \in Nat
      BY <1>4, <1>5
    <3>2. confirmed'.generation = e.generation /\ confirmed'.enabled = e.enabled
      BY <1>3, <1>5, <2>1, Zenon
    <3>. QED  BY <1>1, <2>1, <3>1, <3>2 DEF ConfirmedSurvives
  <2> HIDE DEF e
  <2>2. CASE registered' # e
    BY <1>1, <1>3, <1>4, <1>5, <1>6, <2>2 DEF MInv, ConfirmedSurvives, ConfirmedTyped
  <2>. QED  BY <2>1, <2>2
<1>10. StagesSound'
  BY <1>1, <1>2, <1>5, <1>6 DEF MInv, StagesSound, StageSound
<1>. QED  BY <1>6, <1>7, <1>8, <1>9, <1>10 DEF MInv

-----------------------------------------------------------------------------
(* The jobs.                                                               *)

\* Steps of the jobs leave the registration and the reconciliation alone.
LEMMA JobFrame ==
    ASSUME MInv, UNCHANGED <<registry, rec>>,
           JobTyped', CoverageTyped', BoundsTyped', FailuresHappened', OneActive',
           \A l \in Stages : \A s \in StageType : StageSound(s, l) => StageSound(s, l)'
    PROVE  MInv'
<1>1. EntryTyped' /\ ConfirmedTyped' /\ RecTyped' /\ ConfirmedSurvives'
  BY DEF registry, MInv, EntryTyped, ConfirmedTyped, RecTyped, ConfirmedSurvives
<1>2. StagesSound'
  BY CountersTyped DEF registry, MInv, StagesSound, StageSound
<1>. QED  BY <1>1, <1>2 DEF MInv

\* A job started by hand.
LEMMA StartByHandStep == ASSUME MInv, NEW k \in Stages, StartByHand(k) PROVE MInv'
<1>1. ~Busy /\ Launch(k, "head") /\ UNCHANGED <<registry, rec>> /\ UNCHANGED <<coverage, failures>>
  BY DEF StartByHand
<1>. QED  BY <1>1, LaunchFacts, JobFrame DEF MInv

\* A sync that succeeds may move the content on.
LEMMA SyncSucceedsStep == ASSUME MInv, SyncSucceeds PROVE MInv'
<1>1. End("sync", "succeeded") /\ UNCHANGED <<covered, failures>>
  BY DEF SyncSucceeds
<1>2. UNCHANGED <<registry, rec, bounds>>
  BY <1>1 DEF End
<1>3. content' \in 0..MaxContent /\ content <= content' /\ open' \subseteq open
  BY DEF SyncSucceeds, MInv, CoverageTyped
<1>4. BoundsTyped'
  BY <1>2 DEF MInv, BoundsTyped
<1>5. "sync" \in Stages /\ failures' = IF "succeeded" = "failed" THEN [failures EXCEPT !["sync"] = @ + 1] ELSE failures
  BY <1>1 DEF Stages
<1>6. /\ JobTyped' /\ FailuresHappened' /\ OneActive'
      /\ \A l \in Stages : job'[l].target = job[l].target
      /\ \A l \in Stages : \A s \in StageType : StageSound(s, l) => StageSound(s, l)'
  BY <1>1, <1>5, EndFacts DEF MInv
<1>7. CoverageTyped'
  BY <1>1, <1>3, <1>6 DEF MInv, CoverageTyped, JobTyped, JobType
<1>. QED  BY <1>2, <1>4, <1>6, <1>7, JobFrame

\* An embedding run covers the content it started from.
LEMMA RAGSucceedsStep == ASSUME MInv, RAGSucceeds PROVE MInv'
<1>1. End("rag", "succeeded") /\ UNCHANGED <<content, open, failures>> /\ covered' = job["rag"].target
  BY DEF RAGSucceeds
<1>2. UNCHANGED <<registry, rec, bounds>>
  BY <1>1 DEF End
<1>3. BoundsTyped'
  BY <1>2 DEF MInv, BoundsTyped
<1>4. "rag" \in Stages /\ failures' = IF "succeeded" = "failed" THEN [failures EXCEPT !["rag"] = @ + 1] ELSE failures
  BY <1>1 DEF Stages
<1>5. /\ JobTyped' /\ FailuresHappened' /\ OneActive'
      /\ \A l \in Stages : job'[l].target = job[l].target
      /\ \A l \in Stages : \A s \in StageType : StageSound(s, l) => StageSound(s, l)'
  BY <1>1, <1>4, EndFacts DEF MInv
<1>6. CoverageTyped'
  BY <1>1, <1>4, <1>5 DEF MInv, CoverageTyped, JobTyped, JobType
<1>. QED  BY <1>2, <1>3, <1>5, <1>6, JobFrame

\* A job that fails is one more failure to count.
LEMMA JobFailsStep == ASSUME MInv, NEW k \in Stages, JobFails(k) PROVE MInv'
<1>1. End(k, "failed") /\ UNCHANGED coverage /\ failures' = [failures EXCEPT ![k] = @ + 1]
  BY DEF JobFails
<1>2. UNCHANGED <<registry, rec, bounds>>
  BY <1>1 DEF End
<1>3. BoundsTyped'
  BY <1>2 DEF MInv, BoundsTyped
<1>4. failures' = IF "failed" = "failed" THEN [failures EXCEPT ![k] = @ + 1] ELSE failures
  BY <1>1
<1>5. /\ JobTyped' /\ FailuresHappened' /\ OneActive'
      /\ \A l \in Stages : job'[l].target = job[l].target
      /\ \A l \in Stages : \A s \in StageType : StageSound(s, l) => StageSound(s, l)'
  BY <1>1, <1>4, EndFacts DEF MInv
<1>6. CoverageTyped'
  BY <1>1, <1>5 DEF MInv, CoverageTyped, coverage
<1>. QED  BY <1>2, <1>3, <1>5, <1>6, JobFrame

\* The head falls due again.
LEMMA HeadLapsesStep == ASSUME MInv, HeadLapses PROVE MInv'
<1>1. UNCHANGED <<entry, registered, confirmed, job, content, covered, rec, failures, bounds>>
  BY DEF HeadLapses, registry
<1>2. CoverageTyped'
  BY <1>1 DEF HeadLapses, MInv, CoverageTyped
<1>3. EntryTyped' /\ ConfirmedTyped' /\ JobTyped' /\ RecTyped' /\ BoundsTyped'
  BY <1>1 DEF MInv, EntryTyped, ConfirmedTyped, JobTyped, RecTyped, BoundsTyped
<1>4. ConfirmedSurvives' /\ StagesSound' /\ FailuresHappened' /\ OneActive'
  BY <1>1 DEF MInv, ConfirmedSurvives, StagesSound, StageSound, FailuresHappened, OneActive
<1>. QED  BY <1>2, <1>3, <1>4 DEF MInv

-----------------------------------------------------------------------------
(* The reconciliation.                                                     *)

\* Steps that change nothing but the reconciliation's own copy.
LEMMA RecFrame ==
    ASSUME MInv, UNCHANGED <<registry, job, coverage, failures, bounds>>, RecTyped',
           \A k \in Stages : StageSound(rec'.stages[k], k)
    PROVE  MInv'
<1>1. UNCHANGED <<entry, registered, confirmed, job, content, covered, open, failures, bounds>>
  BY DEF registry, coverage
<1>2. EntryTyped' /\ ConfirmedTyped' /\ JobTyped' /\ CoverageTyped' /\ BoundsTyped'
  BY <1>1 DEF MInv, EntryTyped, ConfirmedTyped, JobTyped, CoverageTyped, BoundsTyped
<1>3. ConfirmedSurvives' /\ FailuresHappened' /\ OneActive'
  BY <1>1 DEF MInv, ConfirmedSurvives, FailuresHappened, OneActive
<1>4. StagesSound'
  BY <1>1 DEF MInv, StagesSound, StageSound
<1>. QED  BY <1>2, <1>3, <1>4 DEF MInv

\* Listing the registrations.
LEMMA ReconcileListsStep == ASSUME MInv, ReconcileLists PROVE MInv'
<1>1. rec' = [rec EXCEPT !.at = "listed"] /\ UNCHANGED <<registry, job, coverage, failures, bounds>>
  BY DEF ReconcileLists
<1>2. RecTyped' /\ rec'.stages = rec.stages
  BY <1>1 DEF MInv, RecTyped
<1>. QED  BY <1>1, <1>2, RecFrame DEF MInv, StagesSound

\* The snapshot takes over the counters of the entry.
LEMMA TakeSnapshotStep == ASSUME MInv, TakeSnapshot PROVE MInv'
<1>1. rec' = [rec EXCEPT !.at = "snapshot", !.generation = entry.generation, !.stages = entry.stages]
  BY DEF TakeSnapshot
<1>2. UNCHANGED <<registry, job, coverage, failures, bounds>>
  BY DEF TakeSnapshot
<1>3. entry.generation \in Nat /\ entry.stages \in [Stages -> StageType]
  BY DEF MInv, EntryTyped, EntryType, StageType
<1>4. RecTyped' /\ rec'.stages = entry.stages
  BY <1>1, <1>3 DEF MInv, RecTyped
<1>. QED  BY <1>2, <1>4, RecFrame DEF MInv, StagesSound

\* Looking at the jobs keeps the counters sound.
LEMMA ReadStateStep == ASSUME MInv, ReadState PROVE MInv'
<1> DEFINE seen == [k \in Stages |-> Observe(rec.stages[k], job[k])]
<1>1. UNCHANGED <<registry, job, coverage, failures, bounds>>
  BY DEF ReadState
<1>2. rec' = [rec EXCEPT !.at = "observed", !.work = Work, !.stages = seen]
  BY DEF ReadState, MInv, RecTyped
<1>3. ASSUME NEW k \in Stages
      PROVE  seen[k] \in StageType /\ StageSound(seen[k], k)
  BY <1>3, CountersTyped, ObserveFacts DEF MInv, StagesSound
<1>4. Work \in SUBSET {"head", "tail", "rag"}
  BY DEF Work, MInv, CoverageTyped
<1>5. RecTyped' /\ rec'.stages = seen
  BY <1>2, <1>3, <1>4 DEF MInv, RecTyped
<1>. QED  BY <1>1, <1>3, <1>5, RecFrame

\* A cache that cannot be read marks the entry and nothing else.
LEMMA ReadFailsStep == ASSUME MInv, ReadFails PROVE MInv'
<1> DEFINE e == [entry EXCEPT !.state = "degraded"]
<1>1. entry' = e /\ Register(e) /\ rec' = NoReconcile
  BY DEF ReadFails
<1>2. UNCHANGED <<confirmed, job, content, covered, open, failures>>
  BY DEF ReadFails, coverage
<1>3. registered' \in {e, registered} /\ BoundsTyped'
  BY <1>1, RegisterFacts DEF MInv
<1>4. e \in EntryType /\ e.enabled = entry.enabled /\ e.generation = entry.generation /\ e.stages = entry.stages
  BY DEF MInv, EntryTyped, EntryType
<1>5. EntryTyped' /\ ConfirmedTyped' /\ JobTyped' /\ CoverageTyped'
  BY <1>1, <1>2, <1>3, <1>4 DEF MInv, EntryTyped, ConfirmedTyped, JobTyped, CoverageTyped
<1>6. RecTyped' /\ rec'.stages = FreshStages
  BY <1>1 DEF RecTyped, NoReconcile, FreshStages, NoStage, StageType
<1>7. ConfirmedSurvives'
  BY <1>1, <1>2, <1>3, <1>4 DEF MInv, ConfirmedSurvives
<1>8. FailuresHappened' /\ OneActive'
  BY <1>2 DEF MInv, FailuresHappened, OneActive
<1>9. ASSUME NEW k \in Stages
      PROVE  StageSound(FreshStages[k], k)
  BY <1>9 DEF MInv, FailuresHappened, StageSound, FreshStages, NoStage, JobTyped, JobType
<1>10. StagesSound'
  <2> HIDE DEF e
  <2> SUFFICES ASSUME NEW k \in Stages
               PROVE  StageSound(entry.stages[k], k)' /\ StageSound(registered.stages[k], k)' /\ StageSound(rec.stages[k], k)'
    BY DEF StagesSound
  <2>1. StageSound(entry.stages[k], k) /\ StageSound(registered.stages[k], k)
    BY DEF MInv, StagesSound
  <2>2. entry'.stages = entry.stages /\ registered'.stages \in {entry.stages, registered.stages}
    BY <1>1, <1>3, <1>4
  <2>3. StageSound(entry.stages[k], k)' /\ StageSound(registered.stages[k], k)'
    BY <1>2, <2>1, <2>2 DEF StageSound
  <2>4. StageSound(rec.stages[k], k)'
    BY <1>2, <1>6, <1>9 DEF StageSound
  <2> QED
    BY <2>3, <2>4
<1>. QED  BY <1>3, <1>5, <1>6, <1>7, <1>8, <1>10 DEF MInv

\* The reconciliation starts a job only when none is active.
LEMMA StartStageStep == ASSUME MInv, StartStage PROVE MInv'
<1>1. UNCHANGED <<registry, coverage, failures>>
  BY DEF StartStage
<1>2. CASE Busy \/ NextStage = "none"
  BY <1>2, <1>1, RecFrame DEF StartStage, MInv, RecTyped, StagesSound
<1>3. CASE ~Busy /\ NextStage # "none"
  <2>1. Launch(KindOf(NextStage), NextStage) /\ rec' = [rec EXCEPT !.at = "finish", !.choice = NextStage]
    BY <1>3 DEF StartStage
  <2>2. NextStage \in {"head", "tail", "rag"} /\ KindOf(NextStage) \in Stages
    BY <1>3 DEF NextStage, KindOf, Stages
  <2>3. /\ JobTyped' /\ CoverageTyped' /\ BoundsTyped' /\ FailuresHappened' /\ OneActive'
        /\ \A l \in Stages : \A s \in StageType : StageSound(s, l) => StageSound(s, l)'
    BY <1>1, <1>3, <2>1, <2>2, LaunchFacts DEF MInv
  <2>4. RecTyped' /\ rec'.stages = rec.stages
    BY <2>1, <2>2 DEF MInv, RecTyped
  <2>5. EntryTyped' /\ ConfirmedTyped' /\ ConfirmedSurvives'
    BY <1>1 DEF registry, MInv, EntryTyped, ConfirmedTyped, ConfirmedSurvives
  <2>6. StagesSound'
    BY <1>1, <2>3, <2>4, CountersTyped DEF registry, MInv, StagesSound, StageSound
  <2>. QED  BY <2>3, <2>4, <2>5, <2>6 DEF MInv
<1>. QED  BY <1>2, <1>3

\* The observations are written back to the generation they were made of.
LEMMA FinishReconcileStep == ASSUME MInv, FinishReconcile PROVE MInv'
<1>1. entry' = Finished(entry) /\ rec' = NoReconcile
  BY DEF FinishReconcile
<1>2. UNCHANGED <<confirmed, job, content, covered, open, failures>>
  BY DEF FinishReconcile, coverage
<1>3. /\ Finished(entry) \in EntryType
      /\ Finished(entry).enabled = entry.enabled /\ Finished(entry).generation = entry.generation
      /\ Finished(entry).stages \in {entry.stages, rec.stages}
  <2>1. CASE entry.generation # rec.generation
    BY <2>1 DEF Finished, MInv, EntryTyped
  <2>2. CASE entry.generation = rec.generation
    <3> DEFINE s == IF rec.choice # "none" THEN "working" ELSE Derived([entry EXCEPT !.stages = rec.stages])
    <3>1. s \in {"enrolled", "disabled", "degraded", "ready", "working"}
      BY DEF Derived
    <3>2. rec.stages \in [Stages -> StageType]
      BY DEF MInv, RecTyped
    <3>3. Finished(entry) = [entry EXCEPT !.stages = rec.stages, !.state = s]
      BY <2>2 DEF Finished
    <3> HIDE DEF s
    <3>. QED  BY <3>1, <3>2, <3>3 DEF MInv, EntryTyped, EntryType, StageType
  <2>. QED  BY <2>1, <2>2
<1>4. registered' \in {entry', registered} /\ BoundsTyped'
  BY RegisterFacts DEF FinishReconcile, MInv, BoundsTyped
<1>5. EntryTyped' /\ ConfirmedTyped' /\ JobTyped' /\ CoverageTyped'
  BY <1>1, <1>2, <1>3, <1>4 DEF MInv, EntryTyped, ConfirmedTyped, JobTyped, CoverageTyped
<1>6. RecTyped' /\ rec'.stages = FreshStages
  BY <1>1 DEF RecTyped, NoReconcile, FreshStages, NoStage, StageType
<1>7. ConfirmedSurvives'
  BY <1>1, <1>2, <1>3, <1>4 DEF MInv, ConfirmedSurvives
<1>8. FailuresHappened' /\ OneActive'
  BY <1>2 DEF MInv, FailuresHappened, OneActive
<1>9. ASSUME NEW k \in Stages
      PROVE  StageSound(FreshStages[k], k)
  BY <1>9 DEF MInv, FailuresHappened, StageSound, FreshStages, NoStage, JobTyped, JobType
<1>10. StagesSound'
  BY <1>1, <1>2, <1>3, <1>4, <1>6, <1>9 DEF MInv, StagesSound, StageSound
<1>. QED  BY <1>4, <1>5, <1>6, <1>7, <1>8, <1>10 DEF MInv

\* A window that closes leaves the counts as they are.
LEMMA WindowOpensStep == ASSUME MInv, NEW k \in Stages, WindowOpens(k) PROVE MInv'
<1>1. entry' = [entry EXCEPT !.stages[k].waiting = FALSE]
  BY DEF WindowOpens
<1>2. registered' \in {[registered EXCEPT !.stages[k].waiting = FALSE], registered}
  BY DEF WindowOpens
<1>3. UNCHANGED <<confirmed, job, content, covered, open, rec, failures, bounds>>
  BY DEF WindowOpens, coverage
<1>4. ASSUME NEW r \in EntryType, NEW e, e = [r EXCEPT !.stages[k].waiting = FALSE]
      PROVE  /\ e \in EntryType /\ e.enabled = r.enabled /\ e.generation = r.generation
             /\ \A l \in Stages : e.stages[l].seen = r.stages[l].seen /\ e.stages[l].failed = r.stages[l].failed
  BY <1>4 DEF EntryType
<1>6. /\ EntryTyped'
      /\ entry'.enabled = entry.enabled /\ entry'.generation = entry.generation
      /\ registered'.enabled = registered.enabled /\ registered'.generation = registered.generation
      /\ \A l \in Stages : /\ entry'.stages[l].seen = entry.stages[l].seen
                            /\ entry'.stages[l].failed = entry.stages[l].failed
                            /\ registered'.stages[l].seen = registered.stages[l].seen
                            /\ registered'.stages[l].failed = registered.stages[l].failed
  BY <1>1, <1>2, <1>4 DEF MInv, EntryTyped
<1>7. ConfirmedTyped' /\ JobTyped' /\ CoverageTyped' /\ RecTyped' /\ BoundsTyped' /\ FailuresHappened' /\ OneActive'
  BY <1>3 DEF MInv, ConfirmedTyped, JobTyped, CoverageTyped, RecTyped, BoundsTyped, FailuresHappened, OneActive
<1>8. ConfirmedSurvives'
  BY <1>3, <1>6 DEF MInv, ConfirmedSurvives
<1>9. StagesSound'
  BY <1>3, <1>6 DEF MInv, StagesSound, StageSound
<1>. QED  BY <1>6, <1>7, <1>8, <1>9 DEF MInv

-----------------------------------------------------------------------------
(* Restarts.                                                               *)

\* A restart takes over the registry and interrupts what was running.
LEMMA RebootStep == ASSUME MInv, Reboot PROVE MInv'
<1>1. entry' = registered /\ rec' = NoReconcile /\ UNCHANGED <<registered, confirmed, content, covered, open, failures>>
  BY DEF Reboot, coverage
<1>2. job' = [k \in Stages |-> IF job[k].status = "active"
                               THEN [job[k] EXCEPT !.status = "interrupted", !.ended = @ + 1] ELSE job[k]]
  BY DEF Reboot
<1>3. BoundsTyped'
  <2>1. bounds' = [bounds EXCEPT !.reboots = @ + 1]
    BY DEF Reboot
  <2>. QED  BY <2>1 DEF MInv, BoundsTyped
<1>4. \A k \in Stages : /\ job'[k] \in JobType /\ job'[k].target = job[k].target
                        /\ job'[k].status # "active" /\ job[k].ended <= job'[k].ended
                        /\ job'[k].status = "failed" => job'[k] = job[k]
  <2> TAKE k \in Stages
  <2>1. job[k] \in JobType
    BY DEF MInv, JobTyped
  <2>2. CASE job[k].status = "active"
    <3>1. job'[k] = [job[k] EXCEPT !.status = "interrupted", !.ended = @ + 1]
      BY <1>2, <2>2, Zenon
    <3>2. /\ job'[k].status = "interrupted" /\ job'[k].target = job[k].target
          /\ job'[k].ended = job[k].ended + 1 /\ job'[k].lane = job[k].lane
      BY <2>1, <3>1 DEF JobType
    <3>3. job'[k] \in JobType
      <4>1. ASSUME NEW r \in JobType, NEW n \in Nat
            PROVE  [r EXCEPT !.status = "interrupted", !.ended = n] \in JobType
        BY DEF JobType
      <4>2. job[k].ended + 1 \in Nat
        BY <2>1 DEF JobType
      <4>. QED  BY <2>1, <3>1, <4>1, <4>2
    <3>. QED  BY <2>1, <3>2, <3>3 DEF JobType
  <2>3. CASE job[k].status # "active"
    <3>1. job'[k] = job[k]
      BY <1>2, <2>3
    <3>. QED  BY <2>1, <2>3, <3>1 DEF JobType
  <2>. QED  BY <2>2, <2>3
<1>5. JobTyped' /\ CoverageTyped' /\ FailuresHappened' /\ OneActive'
  BY <1>1, <1>2, <1>4 DEF MInv, JobTyped, CoverageTyped, FailuresHappened, OneActive, Stages
<1>6. EntryTyped' /\ ConfirmedTyped' /\ ConfirmedSurvives'
  BY <1>1 DEF MInv, EntryTyped, ConfirmedTyped, ConfirmedSurvives
<1>7. RecTyped' /\ rec'.stages = FreshStages
  BY <1>1 DEF RecTyped, NoReconcile, FreshStages, NoStage, StageType
<1>8. ASSUME NEW k \in Stages, NEW s \in StageType, StageSound(s, k)
      PROVE  StageSound(s, k)'
  BY <1>1, <1>4, <1>8 DEF MInv, StageSound, StageType, JobTyped, JobType
<1>9. ASSUME NEW k \in Stages
      PROVE  FreshStages[k] \in StageType /\ StageSound(FreshStages[k], k)
  BY <1>9 DEF MInv, FailuresHappened, StageSound, FreshStages, NoStage, JobTyped, JobType, StageType
<1>10. StagesSound'
  BY <1>1, <1>7, <1>8, <1>9, CountersTyped DEF MInv, StagesSound, StageSound
<1>. QED  BY <1>3, <1>5, <1>6, <1>7, <1>10 DEF MInv

\* The interrupted sync goes on.
LEMMA ResumeSyncStep == ASSUME MInv, ResumeSync PROVE MInv'
<1>1. ~Busy /\ job' = [job EXCEPT !["sync"].status = "active"]
  BY DEF ResumeSync
<1>2. UNCHANGED <<registry, rec>> /\ UNCHANGED <<content, covered, open, failures, bounds>>
  BY DEF ResumeSync, coverage
<1>3. \A k \in Stages : /\ job'[k] \in JobType /\ job'[k].target = job[k].target /\ job'[k].ended = job[k].ended
                        /\ job'[k].status = IF k = "sync" THEN "active" ELSE job[k].status
  BY <1>1 DEF MInv, JobTyped, JobType, Stages
<1>4. JobTyped' /\ CoverageTyped' /\ BoundsTyped' /\ FailuresHappened' /\ OneActive'
  BY <1>1, <1>2, <1>3 DEF MInv, JobTyped, CoverageTyped, BoundsTyped, FailuresHappened, OneActive, Busy, Stages
<1>5. ASSUME NEW k \in Stages, NEW s \in StageType, StageSound(s, k)
      PROVE  StageSound(s, k)'
  BY <1>2, <1>3, <1>5 DEF MInv, StageSound, StageType, JobTyped, JobType
<1>. QED  BY <1>2, <1>4, <1>5, JobFrame

-----------------------------------------------------------------------------
\* Every step of the scheduler, the operator and the jobs keeps the invariant.
LEMMA NextMInv == MInv /\ [MaintenanceNext]_maintenanceVars => MInv'
<1> SUFFICES ASSUME MInv, [MaintenanceNext]_maintenanceVars PROVE MInv'
  OBVIOUS
<1>1. CASE UNCHANGED maintenanceVars
  BY <1>1 DEF maintenanceVars, MInv, EntryTyped, ConfirmedTyped, JobTyped, CoverageTyped, RecTyped,
              BoundsTyped, ConfirmedSurvives, StagesSound, StageSound, FailuresHappened, OneActive
<1>2. CASE MaintenanceNext
  BY <1>2, EnrollStep, DisableStep, StartByHandStep, JobFailsStep, WindowOpensStep, SyncSucceedsStep,
     RAGSucceedsStep, HeadLapsesStep, ReconcileListsStep, TakeSnapshotStep, ReadStateStep, ReadFailsStep,
     StartStageStep, FinishReconcileStep, RebootStep, ResumeSyncStep
     DEF MaintenanceNext
<1>. QED  BY <1>1, <1>2

\* The invariant holds of the scheduler whatever its bounds.
LEMMA MaintenanceInvariance == MaintenanceSpec => []MInv
BY InitMInv, NextMInv, PTL DEF MaintenanceSpec

\* The variables of the scheduler keep their types; coverage never runs ahead
\* of content, nor a stage ahead of its jobs.
THEOREM MaintenanceTyped == MaintenanceSpec => []MaintenanceTypeOK
<1>1. MInv => MaintenanceTypeOK
  <2> SUFFICES ASSUME MInv PROVE MaintenanceTypeOK
    OBVIOUS
  <2>1. \A k \in Stages : entry.stages[k].seen <= job[k].ended
    BY DEF MInv, StagesSound, StageSound
  <2>2. job \in [Stages -> JobType] /\ confirmed \in [enabled : BOOLEAN, generation : 1..MaxGeneration]
    BY DEF MInv, JobTyped, ConfirmedTyped
  <2>3. rec.at \in {"idle", "listed", "snapshot", "observed", "finish"}
    BY DEF MInv, RecTyped
  <2>4. bounds.unsaved \in 0..MaxUnsaved
    BY DEF MInv, BoundsTyped
  <2>. QED  BY <2>1, <2>2, <2>3, <2>4 DEF MInv, EntryTyped, CoverageTyped, MaintenanceTypeOK, JobType
<1>. QED  BY <1>1, MaintenanceInvariance, PTL

\* Two kinds of job are not active together, so at most one is.
LEMMA AtMostOne == OneActive => OneJobRuns
<1> DEFINE A == {k \in Stages : job[k].status = "active"}
<1> SUFFICES ASSUME OneActive PROVE Cardinality(A) <= 1
  BY DEF OneJobRuns
<1>1. A \subseteq {"sync", "rag"} /\ ~("sync" \in A /\ "rag" \in A)
  BY DEF OneActive, Stages
<1>2. A = {} \/ A = {"sync"} \/ A = {"rag"}
  <2> HIDE DEF A
  <2>1. CASE "sync" \in A
    BY <1>1, <2>1
  <2>2. CASE "rag" \in A
    BY <1>1, <2>2
  <2>3. CASE "sync" \notin A /\ "rag" \notin A
    BY <1>1, <2>3
  <2>. QED  BY <2>1, <2>2, <2>3
<1>3. Cardinality(A) = 0 \/ Cardinality(A) = 1
  <2> HIDE DEF A
  <2>. QED  BY <1>2, FS_EmptySet, FS_Singleton, Zenon
<1>. QED  BY <1>3

\* However stale a reconciliation is, whichever save failed and whenever the
\* daemon restarted: the operator's last confirmed call stands, no failure is
\* counted twice, and one job of the registration runs at a time.
THEOREM RegistrationKept == MaintenanceSpec => []RegistrationIsKept
<1>1. MInv => CountedOnce
  BY DEF MInv, EntryTyped, EntryType, StagesSound, StageSound, JobTyped, CountedOnce
<1>2. MInv => RegistrationIsKept
  BY <1>1, AtMostOne DEF MInv, RegistrationIsKept
<1>. QED  BY <1>2, MaintenanceInvariance, PTL

-----------------------------------------------------------------------------
(* The job history and the intents it keeps alive (JobHistory).            *)

\* A set of numbers that is not empty has a least element (HighestId).
LEMMA LeastExists ==
  ASSUME NEW S \in SUBSET Nat, S # {}
  PROVE  \E m \in S : \A k \in S : m <= k
<1> DEFINE R == {ss \in Nat \X Nat : ss[1] < ss[2]}
<1>1. IsWellFoundedOn(R, Nat)
  BY NatLessThanWellFounded DEF OpToRel
<1> HIDE DEF R
<1>2. PICK x \in S : \A y \in S : ~ (<<y, x>> \in R)
  BY <1>1, WFMin
<1>3. \A y \in S : y < x => <<y, x>> \in R
  BY DEF R
<1>4. \A y \in S : ~(y < x)
  BY <1>2, <1>3
<1>5. \A y \in S : x \in Nat /\ y \in Nat
  OBVIOUS
<1>6. \A y \in S : x <= y
  BY <1>4, <1>5
<1> QED
  BY <1>6

Histories == [Ids -> Job \union {NoJob}]
ReceiptBooks == [Keys -> Receipt \union {NoReceipt}]

\* The id a start takes over is the highest in use (LoadAndMarkInterrupted).
LEMMA HighestIdIs ==
  ASSUME NEW js \in Histories
  PROVE  /\ HighestId(js) \in 0..MaxJobs
         /\ \A i \in Live(js) : i <= HighestId(js)
<1> DEFINE Bounds == {n \in 0..MaxJobs : \A i \in Live(js) : i <= n}
<1>1. MaxJobs \in Nat /\ Live(js) \subseteq 1..MaxJobs
  BY HistoryAssumption DEF Live, Ids
<1>2. MaxJobs \in Bounds /\ Bounds \in SUBSET Nat
  BY <1>1
<1>3. PICK m \in Bounds : \A k \in Bounds : m <= k
  BY <1>2, LeastExists
<1>4. m = 0 \/ m \in Live(js)
  BY <1>1, <1>3
<1>5. \E n \in 0..MaxJobs : (n = 0 \/ n \in Live(js)) /\ \A i \in Live(js) : i <= n
  BY <1>4
<1> QED
  BY <1>5 DEF HighestId

\* Pruning takes whole jobs: none that is active, and none that is pinned (pruneLocked).
LEMMA PruneSpares ==
  ASSUME NEW js \in Histories
  PROVE  /\ Prune(js) \in Histories
         /\ \A i \in Ids : Prune(js)[i] \in {js[i], NoJob}
         /\ \A k \in Keys : Pinned(Prune(js), k) = Pinned(js, k)
<1> DEFINE gone == Expired(js) \union Truncated(js)
<1>1. \A i \in gone : i \in Terminal(js) /\ i \notin Protected(js)
  BY DEF Expired, Truncated
<1>2. \A i \in gone : i \in Ids /\ js[i].pins = {}
  BY <1>1 DEF Protected, Terminal, Live
<1>3. Prune(js) = [i \in Ids |-> IF i \in gone THEN NoJob ELSE js[i]]
  BY DEF Prune
<1> HIDE DEF gone
<1>4. Prune(js) \in Histories /\ \A i \in Ids : Prune(js)[i] \in {js[i], NoJob}
  BY <1>3 DEF Histories
<1>5. ASSUME NEW k \in Keys PROVE Pinned(Prune(js), k) = Pinned(js, k)
  BY <1>2, <1>3 DEF Pinned, Live
<1> QED
  BY <1>4, <1>5

-----------------------------------------------------------------------------
(* The inductive invariant.                                                *)

HistTyped ==
  /\ now \in 0..MaxTime /\ nextId \in 0..MaxJobs /\ inflight \subseteq Ids
  /\ jobs \in Histories /\ disk \in Histories
  /\ fails \in 0..MaxFails /\ restarts \in 0..MaxRestarts
BooksTyped ==
  /\ receipts \in ReceiptBooks /\ saved \in ReceiptBooks
  /\ act \in [key: Keys \union {NoKey}, at: {"idle", "reconcile", "settle", "release"},
              reg: Regs \union {NoKey}]
  /\ boot \in {"up", "recover", "release"} /\ todo \subseteq Keys
  /\ admitted \in [Keys -> Nat]

\* Ids are handed out upwards: none in use, in memory or in the file, is handed out again.
IdsSpent == \A i \in Live(jobs) \union Live(disk) : i <= nextId

\* A failed save may leave memory ahead of the file, but never in its pins.
PinsSaved == \A k \in Keys : Pinned(jobs, k) = Pinned(disk, k)

\* Receipts in memory are those on disk, but while a start has settled some
\* that it has yet to save.
SettledInMemory(k) ==
  /\ boot = "recover" /\ saved[k] # NoReceipt /\ saved[k].outcome = "pending"
  /\ receipts[k] = [saved[k] EXCEPT !.outcome = "settled"]
BooksAgree == \A k \in Keys : receipts[k] = saved[k] \/ SettledInMemory(k)

\* The action at work has a receipt; before it admits, no job carries its key;
\* and it releases only what is settled on disk.
ActSound ==
  /\ act.at # "idle" => act.key \in Keys /\ boot # "release"
  /\ act.at \in {"reconcile", "settle"} => act.key \in Pending(receipts)
  /\ act.at = "reconcile" => act.reg \in Regs /\ Pinned(jobs, act.key) = {}
  /\ act.at = "release" => boot = "up" /\ act.key \in Settled(receipts)

\* A key without a receipt has no work left.
NoClaimNoWork == \A k \in Keys : saved[k] = NoReceipt => admitted[k] = 0

HistInv == /\ HistTyped /\ BooksTyped /\ IdsSpent /\ PinsSaved /\ BooksAgree
           /\ ActSound /\ NoClaimNoWork /\ IntentsAreKept

\* The invariant implies the type invariant and what intents promise.
LEMMA HistInvSays == HistInv => HistoryTypeOK /\ IntentsAreKept
  BY DEF HistInv, HistTyped, BooksTyped, Histories, ReceiptBooks, HistoryTypeOK

\* It holds of an empty history.
LEMMA HistStarts == HistoryInit => HistInv
  BY HistoryAssumption, NoRecordsAssumption
     DEF HistoryInit, HistInv, HistTyped, BooksTyped, IdsSpent, PinsSaved, BooksAgree, ActSound,
         NoClaimNoWork, IntentsAreKept, AdmissionIsEvident, PinsHaveReceipts, Histories,
         ReceiptBooks, Idle, Live, Pinned, Pending, Settled, Kept, Ids

-----------------------------------------------------------------------------
(* What the writes of the history do to pins.                              *)

\* Two histories with the same jobs under the same pins.
SamePinsAs(ks, js) ==
  /\ ks \in Histories /\ Live(ks) \subseteq Live(js)
  /\ \A k \in Keys : Pinned(ks, k) = Pinned(js, k)

\* A record that is no job is not found, and a job is.
LEMMA JobOrNone ==
  ASSUME NEW js \in Histories, NEW i \in Ids
  PROVE  IF i \in Live(js) THEN js[i] \in Job ELSE js[i] = NoJob
  BY NoRecordsAssumption DEF Histories, Live

\* saveLocked: what reaches memory and file is the pruned history.
LEMMA SaveWrites ==
  ASSUME NEW js \in Histories, jobs' = Prune(js)
  PROVE  SamePinsAs(jobs', js)
  BY PruneSpares DEF SamePinsAs, Live

\* A verdict leaves the pins (updateJob).
LEMMA VerdictKeepsPins ==
  ASSUME NEW js \in Histories, NEW i \in Live(js),
         NEW st \in {"active", "success", "diag"}, NEW t \in 0..MaxTime
  PROVE  SamePinsAs([js EXCEPT ![i].st = st, ![i].fin = t], js)
<1> DEFINE ks == [js EXCEPT ![i].st = st, ![i].fin = t]
<1>1. js[i] \in Job
  BY JobOrNone DEF Live
<1>2. ks = [x \in Ids |-> IF x = i THEN [js[i] EXCEPT !.st = st, !.fin = t] ELSE js[x]]
  BY <1>1 DEF Histories
<1>3. [js[i] EXCEPT !.st = st, !.fin = t] \in Job /\ [js[i] EXCEPT !.st = st, !.fin = t].pins = js[i].pins
  BY <1>1 DEF Job
<1> QED
  BY <1>1, <1>2, <1>3, NoRecordsAssumption DEF SamePinsAs, Histories, Live, Pinned

\* A restart makes the active jobs interrupted, and leaves the pins.
LEMMA InterruptKeepsPins ==
  ASSUME NEW js \in Histories, now \in 0..MaxTime
  PROVE  SamePinsAs(Interrupt(js), js)
<1>1. \A i \in Active(js) : js[i] \in Job
  BY JobOrNone DEF Active, Live
<1>2. \A i \in Active(js) : /\ [js[i] EXCEPT !.st = "diag", !.fin = now] \in Job
                            /\ [js[i] EXCEPT !.st = "diag", !.fin = now].pins = js[i].pins
  BY <1>1 DEF Job
<1> QED
  BY <1>1, <1>2, NoRecordsAssumption DEF SamePinsAs, Interrupt, Histories, Live, Pinned, Active

\* ReleaseActionIntent takes one key from all jobs.
LEMMA UnpinDrops ==
  ASSUME NEW js \in Histories, NEW k \in Keys
  PROVE  /\ Unpin(js, k) \in Histories /\ Live(Unpin(js, k)) \subseteq Live(js)
         /\ Pinned(Unpin(js, k), k) = {}
         /\ \A c \in Keys \ {k} : Pinned(Unpin(js, k), c) = Pinned(js, c)
<1>1. \A i \in Live(js) : js[i] \in Job
  BY JobOrNone DEF Live
<1>2. \A i \in Live(js) : /\ [js[i] EXCEPT !.pins = @ \ {k}] \in Job
                          /\ [js[i] EXCEPT !.pins = @ \ {k}].pins = js[i].pins \ {k}
  BY <1>1 DEF Job
<1> QED
  BY <1>1, <1>2, NoRecordsAssumption DEF Unpin, Histories, Live, Pinned

\* AttachActionIntent adds one key to one job.
LEMMA PinAdds ==
  ASSUME NEW js \in Histories, NEW i \in Live(js), NEW k \in Keys
  PROVE  LET ks == [js EXCEPT ![i].pins = @ \union {k}]
         IN  /\ ks \in Histories /\ Live(ks) \subseteq Live(js)
             /\ i \in Pinned(ks, k)
             /\ \A c \in Keys \ {k} : Pinned(ks, c) = Pinned(js, c)
<1>1. js[i] \in Job
  BY JobOrNone DEF Live
<1>2. /\ [js[i] EXCEPT !.pins = @ \union {k}] \in Job
      /\ [js[i] EXCEPT !.pins = @ \union {k}].pins = js[i].pins \union {k}
  BY <1>1 DEF Job
<1>3. [js EXCEPT ![i].pins = @ \union {k}]
        = [x \in Ids |-> IF x = i THEN [js[i] EXCEPT !.pins = @ \union {k}] ELSE js[x]]
  BY DEF Histories
<1> QED
  BY <1>1, <1>2, <1>3, NoRecordsAssumption DEF Histories, Live, Pinned

-----------------------------------------------------------------------------
(* Steps of the history alone.                                             *)

\* Receipts and claims do not notice a step that leaves all pins.
LEMMA PinsStay ==
  ASSUME HistInv, HistTyped', IdsSpent', UNCHANGED <<actions, admitted>>,
         \A k \in Keys : Pinned(jobs', k) = Pinned(jobs, k) /\ Pinned(disk', k) = Pinned(disk, k)
  PROVE  HistInv'
<1>1. BooksTyped' /\ BooksAgree' /\ NoClaimNoWork'
  BY DEF HistInv, actions, BooksTyped, BooksAgree, SettledInMemory, NoClaimNoWork
<1>2. PinsSaved'
  BY DEF HistInv, PinsSaved
<1>3. ActSound'
  BY DEF HistInv, actions, ActSound, Pending, Settled, Kept
<1>4. IntentsAreKept'
  BY DEF HistInv, actions, IntentsAreKept, AdmissionIsEvident, PinsHaveReceipts, Pending, Kept
<1> QED
  BY <1>1, <1>2, <1>3, <1>4 DEF HistInv

\* An admission: a new job under a new id, saved with its pins (Create).
LEMMA CreateWrites ==
  ASSUME HistInv, NEW r \in Regs, NEW p \in SUBSET Keys, Create(r, p)
  PROVE  /\ jobs' \in Histories /\ disk' = jobs' /\ UNCHANGED fails
         /\ nextId' \in 0..MaxJobs /\ inflight' \subseteq Ids /\ IdsSpent'
         /\ \A c \in Keys : Pinned(jobs', c) = Pinned(jobs, c) \union (IF c \in p THEN {nextId'} ELSE {})
<1> DEFINE id == nextId + 1
           ks == [jobs EXCEPT ![id] = [reg |-> r, st |-> "active", fin |-> 0, pins |-> p]]
<1>1. MaxJobs \in Nat /\ nextId \in Nat /\ Ids = 1..MaxJobs
  BY HistoryAssumption DEF HistInv, HistTyped, Ids
<1>2. id \in Ids /\ id \notin Live(jobs) /\ jobs \in Histories
  BY <1>1 DEF Create, HistInv, HistTyped, IdsSpent
<1>3. /\ ks \in Histories /\ Live(ks) \subseteq Live(jobs) \union {id}
      /\ \A c \in Keys : Pinned(ks, c) = Pinned(jobs, c) \union (IF c \in p THEN {id} ELSE {})
  <2>1. ks = [jobs EXCEPT ![id] = [reg |-> r, st |-> "active", fin |-> 0, pins |-> p]]
    OBVIOUS
  <2>2. [reg |-> r, st |-> "active", fin |-> 0, pins |-> p] \in Job
    BY HistoryAssumption DEF Job
  <2> HIDE DEF id, ks
  <2> QED
    BY <1>2, <2>1, <2>2, NoRecordsAssumption DEF Histories, Live, Pinned
<1>4. jobs' = Prune(ks) /\ disk' = jobs' /\ nextId' = id /\ inflight' = inflight \union {id} /\ UNCHANGED fails
  BY DEF Create, Save
<1> HIDE DEF ks
<1>5. SamePinsAs(jobs', ks)
  BY <1>3, <1>4, SaveWrites
<1>6. inflight' \subseteq Ids /\ nextId' \in 0..MaxJobs
  BY <1>1, <1>2, <1>4 DEF HistInv, HistTyped
<1>7. \A i \in Live(jobs') \union Live(disk') : i <= nextId'
  BY <1>3, <1>4, <1>5, <1>1 DEF SamePinsAs, Live, HistInv, IdsSpent
<1> QED
  BY <1>3, <1>4, <1>5, <1>6, <1>7 DEF SamePinsAs, IdsSpent

\* The job of a request (Start).
LEMMA StartStep ==
  ASSUME HistInv, NEW r \in Regs, Start(r)
  PROVE  HistInv'
<1>1. CASE CreateFails
  BY <1>1, HistoryAssumption, PinsStay DEF HistInv, HistTyped, IdsSpent, Start, CreateFails, history
<1>2. CASE Create(r, {})
  <2>1. /\ jobs' \in Histories /\ disk' = jobs' /\ UNCHANGED fails
        /\ nextId' \in 0..MaxJobs /\ inflight' \subseteq Ids /\ IdsSpent'
        /\ \A c \in Keys : Pinned(jobs', c) = Pinned(jobs, c)
    <3>1. {} \in SUBSET Keys
      OBVIOUS
    <3>2. /\ jobs' \in Histories /\ disk' = jobs' /\ UNCHANGED fails
          /\ nextId' \in 0..MaxJobs /\ inflight' \subseteq Ids /\ IdsSpent'
          /\ \A c \in Keys : Pinned(jobs', c) = Pinned(jobs, c) \union (IF c \in {} THEN {nextId'} ELSE {})
      BY <1>2, <3>1, CreateWrites
    <3> QED
      BY <3>2
  <2>2. HistTyped'
    BY <2>1 DEF Start, HistInv, HistTyped
  <2> QED
    BY <2>1, <2>2, PinsStay DEF Start, HistInv, PinsSaved
<1> QED
  BY <1>1, <1>2 DEF Start

\* The verdict of a worker, saved or not (Finish).
LEMMA FinishStep ==
  ASSUME HistInv, NEW i \in Ids, NEW st \in {"success", "diag"}, Finish(i, st)
  PROVE  HistInv'
<1> DEFINE js == [jobs EXCEPT ![i].st = st, ![i].fin = now]
<1>1. SamePinsAs(js, jobs)
  BY VerdictKeepsPins DEF Finish, Active, HistInv, HistTyped
<1> HIDE DEF js
<1>2. js \in Histories
  BY <1>1 DEF SamePinsAs
<1>3. Save(js) \/ SaveFails(js)
  BY DEF Finish, js
<1>4. CASE Save(js)
  BY <1>2, <1>4, SaveWrites, <1>1, PinsStay DEF Save, Finish, HistInv, HistTyped, IdsSpent, SamePinsAs,
         PinsSaved
<1>5. CASE SaveFails(js)
  BY <1>1, <1>5, HistoryAssumption, PinsStay DEF Finish, SaveFails, HistInv, HistTyped, IdsSpent, SamePinsAs
<1> QED
  BY <1>3, <1>4, <1>5

\* A worker unwinds, time passes, a pass prunes (Unwind, Tick, PruneHistory).
LEMMA QuietStep ==
  ASSUME HistInv, Tick \/ PruneHistory \/ (\E i \in Ids : Unwind(i))
  PROVE  HistInv'
<1>1. CASE Tick
  BY <1>1, HistoryAssumption, PinsStay DEF Tick, history, HistInv, HistTyped, IdsSpent
<1>2. CASE PruneHistory
  BY <1>2, SaveWrites, PinsStay DEF PruneHistory, Save, HistInv, HistTyped, IdsSpent, SamePinsAs, PinsSaved
<1>3. ASSUME NEW i \in Ids, Unwind(i) PROVE HistInv'
  BY <1>3, PinsStay DEF Unwind, HistInv, HistTyped, IdsSpent
<1> QED
  BY <1>1, <1>2, <1>3

-----------------------------------------------------------------------------
(* Steps of an action that leave the history.                              *)

\* The action at work moves on, gives up, or starts with an old receipt.
LEMMA ActMoves ==
  ASSUME HistInv, UNCHANGED <<now, history, receipts, saved, boot, admitted, fails, restarts>>,
         todo' \subseteq Keys, ActSound',
         act' \in [key: Keys \union {NoKey}, at: {"idle", "reconcile", "settle", "release"},
                   reg: Regs \union {NoKey}]
  PROVE  HistInv'
<1>1. HistTyped' /\ BooksTyped' /\ IdsSpent' /\ PinsSaved'
  BY DEF HistInv, history, HistTyped, BooksTyped, IdsSpent, PinsSaved
<1>2. BooksAgree' /\ NoClaimNoWork'
  BY DEF HistInv, BooksAgree, SettledInMemory, NoClaimNoWork
<1>3. IntentsAreKept'
  BY DEF HistInv, history, IntentsAreKept, AdmissionIsEvident, PinsHaveReceipts, Pending, Kept
<1> QED
  BY <1>1, <1>2, <1>3 DEF HistInv

\* A receipt is taken up again (ReplayAdmitted, ReplayUnadmitted, ReplaySettled).
LEMMA ReplayStep ==
  ASSUME HistInv, NEW k \in Keys, ReplayAdmitted(k) \/ ReplayUnadmitted(k) \/ ReplaySettled(k)
  PROVE  HistInv'
<1>1. CASE ReplayAdmitted(k)
  BY <1>1, ActMoves DEF ReplayAdmitted, MayResume, HistInv, ActSound, Pending, Kept, history, BooksTyped
<1>2. CASE ReplayUnadmitted(k)
  <2>1. receipts[k] \in Receipt
    BY <1>2 DEF ReplayUnadmitted, MayResume, Pending, Kept, HistInv, BooksTyped, ReceiptBooks
  <2>2. Authority(k) \in Regs
    BY <2>1, JobOrNone DEF Authority, HistInv, HistTyped, Receipt, Job
  <2>3. ActSound'
    BY <1>2, <2>2 DEF ReplayUnadmitted, MayResume, HistInv, ActSound, Pending, Kept, history, Pinned, Live
  <2> QED
    BY <1>2, <2>2, <2>3, ActMoves DEF ReplayUnadmitted, HistInv, BooksTyped
<1>3. CASE ReplaySettled(k)
  BY <1>3, ActMoves DEF ReplaySettled, HistInv, ActSound, Settled, Kept, history, BooksTyped
<1> QED
  BY <1>1, <1>2, <1>3

\* A reconcile fails, or finds that nothing is to be done (ReconcileFails, NoWorkNeeded).
LEMMA ReconcileStep ==
  ASSUME HistInv, ReconcileFails \/ NoWorkNeeded
  PROVE  HistInv'
<1>1. CASE ReconcileFails
  BY <1>1, ActMoves DEF ReconcileFails, GiveUp, Idle, ActSound, HistInv, BooksTyped
<1>2. CASE NoWorkNeeded
  <2>1. act' = [key |-> act.key, at |-> "settle", reg |-> act.reg]
    BY <1>2 DEF NoWorkNeeded, ToSettle, HistInv, BooksTyped
  <2>2. ActSound'
    BY <1>2, <2>1 DEF NoWorkNeeded, HistInv, ActSound, Pending, Kept
  <2> QED
    BY <1>2, <2>1, <2>2, ActMoves DEF NoWorkNeeded, ToSettle, HistInv, BooksTyped
<1> QED
  BY <1>1, <1>2
\* What is in memory is saved, but while a start has settled more.
LEMMA BooksAreOne ==
  ASSUME HistInv
  PROVE  /\ boot # "recover" => receipts = saved
         /\ \A k \in Pending(receipts) : k \in Pending(saved) /\ receipts[k] = saved[k]
<1>1. \A k \in Keys : SettledInMemory(k) => boot = "recover" /\ receipts[k].outcome = "settled"
  BY DEF SettledInMemory, HistInv, BooksTyped, ReceiptBooks, Receipt
<1>2. boot # "recover" => receipts = saved
  BY <1>1 DEF HistInv, BooksAgree, BooksTyped, ReceiptBooks
<1>3. \A k \in Pending(receipts) : receipts[k] = saved[k]
  BY <1>1 DEF HistInv, BooksAgree, Pending, Kept
<1> QED
  BY <1>2, <1>3 DEF Pending, Kept

\* Settling one receipt leaves it one, and leaves the others.
LEMMA SettledIs ==
  ASSUME HistInv, NEW k \in Pending(receipts)
  PROVE  /\ SettledReceipts(k) \in ReceiptBooks
         /\ SettledReceipts(k)[k] # NoReceipt /\ SettledReceipts(k)[k].outcome = "settled"
         /\ SettledReceipts(k)[k] = [receipts[k] EXCEPT !.outcome = "settled"]
         /\ \A c \in Keys \ {k} : SettledReceipts(k)[c] = receipts[c]
<1>1. k \in Keys /\ receipts[k] \in Receipt /\ receipts \in ReceiptBooks
  BY DEF Pending, Kept, HistInv, BooksTyped, ReceiptBooks
<1>2. /\ [receipts[k] EXCEPT !.outcome = "settled"] \in Receipt
      /\ [receipts[k] EXCEPT !.outcome = "settled"].outcome = "settled"
  BY <1>1 DEF Receipt
<1>3. SettledReceipts(k) = [c \in Keys |-> IF c = k THEN [receipts[k] EXCEPT !.outcome = "settled"] ELSE receipts[c]]
  BY <1>1 DEF SettledReceipts, ReceiptBooks
<1> QED
  BY <1>1, <1>2, <1>3, NoRecordsAssumption DEF ReceiptBooks

\* The receipt of the action at work is settled, in the file or in memory (Settle).
LEMMA SettleStep ==
  ASSUME HistInv, Settle
  PROVE  HistInv'
<1> DEFINE k == act.key
<1>1. k \in Keys /\ k \in Pending(receipts) /\ k \in Pending(saved) /\ receipts[k] = saved[k]
  BY BooksAreOne DEF Settle, HistInv, ActSound
<1>2. /\ SettledReceipts(k) \in ReceiptBooks
      /\ SettledReceipts(k)[k] # NoReceipt /\ SettledReceipts(k)[k].outcome = "settled"
      /\ SettledReceipts(k)[k] = [receipts[k] EXCEPT !.outcome = "settled"]
      /\ \A c \in Keys \ {k} : SettledReceipts(k)[c] = receipts[c]
  BY <1>1, SettledIs
<1>3. UNCHANGED <<now, history, boot, admitted, restarts>>
  BY DEF Settle
<1>4. IdsSpent' /\ PinsSaved'
  BY <1>3 DEF history, HistInv, IdsSpent, PinsSaved
<1>5. CASE /\ boot = "up" /\ receipts' = SettledReceipts(k) /\ saved' = receipts'
           /\ act' = [act EXCEPT !.at = "release"] /\ UNCHANGED <<todo, fails>>
  <2>1. act' = [key |-> k, at |-> "release", reg |-> act.reg]
    BY <1>5 DEF HistInv, BooksTyped
  <2>2. HistTyped' /\ BooksTyped'
    BY <1>2, <1>3, <1>5, <2>1 DEF history, HistInv, HistTyped, BooksTyped
  <2>3. BooksAgree' /\ ActSound'
    BY <1>1, <1>2, <1>3, <1>5, <2>1 DEF BooksAgree, ActSound, Settled, Kept
  <2>4. receipts = saved
    BY <1>5, BooksAreOne
  <2>5. NoClaimNoWork' /\ IntentsAreKept'
    BY <1>1, <1>2, <1>3, <1>5, <2>4
       DEF history, HistInv, NoClaimNoWork, IntentsAreKept, AdmissionIsEvident, PinsHaveReceipts, Pending, Kept
  <2> QED
    BY <1>4, <2>2, <2>3, <2>5 DEF HistInv
<1>6. CASE /\ boot = "up" /\ fails < MaxFails /\ fails' = fails + 1
           /\ act' = Idle /\ UNCHANGED <<receipts, saved, todo>>
  <2>1. HistTyped' /\ BooksTyped'
    BY <1>3, <1>6, HistoryAssumption DEF history, HistInv, HistTyped, BooksTyped, Idle
  <2>2. BooksAgree' /\ ActSound' /\ NoClaimNoWork'
    BY <1>3, <1>6 DEF HistInv, BooksAgree, SettledInMemory, ActSound, Idle, NoClaimNoWork
  <2>3. IntentsAreKept'
    BY <1>3, <1>6 DEF history, HistInv, IntentsAreKept, AdmissionIsEvident, PinsHaveReceipts, Pending, Kept
  <2> QED
    BY <1>4, <2>1, <2>2, <2>3 DEF HistInv
<1>7. CASE /\ boot = "recover" /\ receipts' = SettledReceipts(k) /\ GiveUp /\ UNCHANGED <<saved, fails>>
  <2>1. act' = Idle /\ todo' \subseteq Keys
    BY <1>7 DEF GiveUp, HistInv, BooksTyped
  <2>2. HistTyped' /\ BooksTyped'
    BY <1>2, <1>3, <1>7, <2>1 DEF history, HistInv, HistTyped, BooksTyped, Idle
  <2>3. BooksAgree'
    BY <1>1, <1>2, <1>3, <1>7 DEF HistInv, BooksAgree, SettledInMemory, Pending, Kept
  <2>4. ActSound' /\ NoClaimNoWork'
    BY <1>3, <1>7, <2>1 DEF ActSound, Idle, HistInv, NoClaimNoWork
  <2>5. IntentsAreKept'
    BY <1>3, <1>7 DEF history, HistInv, IntentsAreKept, AdmissionIsEvident, PinsHaveReceipts, Pending, Kept
  <2> QED
    BY <1>4, <2>2, <2>3, <2>4, <2>5 DEF HistInv
<1> QED
  BY <1>5, <1>6, <1>7 DEF Settle

\* A start saves what it settled, and comes up (BootSave, BootDone).
LEMMA BootStep ==
  ASSUME HistInv, BootSave \/ BootDone
  PROVE  HistInv'
<1>1. CASE BootSave
  <2>1. HistTyped' /\ BooksTyped' /\ IdsSpent' /\ PinsSaved'
    BY <1>1 DEF BootSave, history, HistInv, HistTyped, BooksTyped, IdsSpent, PinsSaved
  <2>2. BooksAgree' /\ ActSound'
    BY <1>1 DEF BootSave, BooksAgree, ActSound, Idle
  <2>3. \A k \in Keys : saved[k] # NoReceipt <=> receipts[k] # NoReceipt
    BY NoRecordsAssumption DEF HistInv, BooksAgree, SettledInMemory, BooksTyped, ReceiptBooks, Receipt
  <2>4. NoClaimNoWork'
    BY <1>1, <2>3 DEF BootSave, HistInv, NoClaimNoWork
  <2>5. IntentsAreKept'
    BY <1>1, <2>3, BooksAreOne
       DEF BootSave, history, HistInv, IntentsAreKept, AdmissionIsEvident, PinsHaveReceipts, Pending, Kept
  <2> QED
    BY <2>1, <2>2, <2>4, <2>5 DEF HistInv
<1>2. CASE BootDone
  <2>1. HistTyped' /\ BooksTyped' /\ IdsSpent' /\ PinsSaved'
    BY <1>2 DEF BootDone, history, HistInv, HistTyped, BooksTyped, IdsSpent, PinsSaved
  <2>2. BooksAgree' /\ NoClaimNoWork'
    BY <1>2, BooksAreOne DEF BootDone, BooksAgree, HistInv, NoClaimNoWork
  <2>3. ActSound'
    BY <1>2 DEF BootDone, HistInv, BooksTyped, ActSound
  <2>4. IntentsAreKept'
    BY <1>2 DEF BootDone, history, HistInv, IntentsAreKept, AdmissionIsEvident, PinsHaveReceipts, Pending, Kept
  <2> QED
    BY <2>1, <2>2, <2>3, <2>4 DEF HistInv
<1> QED
  BY <1>1, <1>2
-----------------------------------------------------------------------------
(* Steps that make and take claims and pins.                               *)

\* Only settled receipts that no job carries make room (pruneToLimitLocked).
LEMMA EvictedAreFree ==
  ASSUME HistInv, NEW n, NEW gone \in Evicted(receipts, n)
  PROVE  /\ gone \subseteq Settled(receipts)
         /\ \A k \in gone : Pinned(jobs, k) = {}
  BY DEF Evicted

\* A claim, as it is on disk, and what goes for it (prepare).
Claimed(k, gone) ==
  /\ receipts[k] = NoReceipt /\ receipts = saved /\ gone \subseteq Settled(receipts)
  /\ \A c \in gone : Pinned(jobs, c) = {}
  /\ saved' \in ReceiptBooks /\ receipts' = saved'
  /\ k \notin gone /\ saved'[k] # NoReceipt /\ saved'[k].outcome = "pending"
  /\ \A c \in gone : saved'[c] = NoReceipt
  /\ \A c \in Keys \ (gone \union {k}) : saved'[c] = saved[c]
  /\ admitted' = [c \in Keys |-> IF c \in gone THEN 0 ELSE admitted[c]]

\* A new receipt evicts only what is free, or nothing is written (Prepare).
LEMMA PrepareClaims ==
  ASSUME HistInv, NEW k \in Keys, NEW i \in Ids, Prepare(k, i)
  PROVE  \/ /\ \E gone \in SUBSET Keys : Claimed(k, gone)
            /\ act' = [key |-> k, at |-> "reconcile", reg |-> jobs[i].reg] /\ UNCHANGED fails
         \/ /\ UNCHANGED <<receipts, saved, act, admitted>> /\ fails < MaxFails /\ fails' = fails + 1
<1> DEFINE new == [outcome |-> "pending", target |-> i, source |-> jobs[i].reg, at |-> now]
           Books(gone) == [Without(receipts, gone) EXCEPT ![k] = new]
<1>1. PICK gone \in Evicted(receipts, MaxReceipts - 1) :
         \/ /\ receipts' = Books(gone) /\ saved' = Books(gone)
            /\ act' = [key |-> k, at |-> "reconcile", reg |-> jobs[i].reg]
            /\ admitted' = [c \in Keys |-> IF c \in gone THEN 0 ELSE admitted[c]]
            /\ UNCHANGED fails
         \/ /\ fails < MaxFails /\ fails' = fails + 1
            /\ UNCHANGED <<receipts, saved, act, admitted>>
  BY DEF Prepare
<1>2. gone \subseteq Settled(receipts) /\ \A c \in gone : Pinned(jobs, c) = {}
  BY EvictedAreFree
<1>3. receipts[k] = NoReceipt /\ receipts = saved
  BY BooksAreOne DEF Prepare
<1>4. new \in Receipt
  BY JobOrNone DEF Prepare, Terminal, Live, HistInv, HistTyped, Receipt, Job
<1> HIDE DEF new
<1>5. Books(gone) = [c \in Keys |-> IF c = k THEN new ELSE IF c \in gone THEN NoReceipt ELSE receipts[c]]
  BY DEF Without
<1>6. Books(gone) \in ReceiptBooks
  BY <1>4, <1>5 DEF HistInv, BooksTyped, ReceiptBooks
<1>7. k \notin gone /\ gone \in SUBSET Keys
  BY <1>2, <1>3 DEF Settled, Kept
<1>8. new # NoReceipt /\ new.outcome = "pending"
  BY <1>4, NoRecordsAssumption DEF new
<1>9. ASSUME receipts' = Books(gone), saved' = Books(gone),
             admitted' = [c \in Keys |-> IF c \in gone THEN 0 ELSE admitted[c]]
      PROVE  Claimed(k, gone)
  <2> HIDE DEF Books
  <2>1. \A c \in Keys : Books(gone)[c] = IF c = k THEN new ELSE IF c \in gone THEN NoReceipt ELSE receipts[c]
    BY <1>5
  <2> QED
    BY <1>2, <1>3, <1>6, <1>7, <1>8, <1>9, <2>1 DEF Claimed
<1> QED
  BY <1>1, <1>7, <1>9

\* A new claim (Prepare).
LEMMA PrepareStep ==
  ASSUME HistInv, NEW k \in Keys, NEW i \in Ids, Prepare(k, i)
  PROVE  HistInv'
<1>0. UNCHANGED <<now, history, boot, todo, restarts>> /\ boot = "up"
  BY DEF Prepare
<1>1. IdsSpent' /\ PinsSaved'
  BY <1>0 DEF history, HistInv, IdsSpent, PinsSaved
<1>2. ASSUME NEW gone \in SUBSET Keys, Claimed(k, gone),
             act' = [key |-> k, at |-> "reconcile", reg |-> jobs[i].reg], UNCHANGED fails
      PROVE  HistInv'
  <2>1. jobs[i].reg \in Regs
    BY JobOrNone DEF Prepare, Terminal, Live, HistInv, HistTyped, Job
  <2>2. \A c \in Keys : saved[c] = NoReceipt => Pinned(jobs, c) = {} /\ Pinned(disk, c) = {}
    BY DEF HistInv, IntentsAreKept, PinsHaveReceipts
  <2>3. HistTyped' /\ BooksTyped'
    BY <1>0, <1>2, <2>1 DEF Claimed, history, HistInv, HistTyped, BooksTyped
  <2>4. BooksAgree' /\ ActSound'
    BY <1>0, <1>2, <2>1, <2>2 DEF Claimed, BooksAgree, ActSound, Pending, Kept, history
  <2>5. NoClaimNoWork'
    BY <1>2 DEF Claimed, HistInv, BooksTyped, NoClaimNoWork
  <2>6. AdmissionIsEvident'
    <3> SUFFICES ASSUME NEW c \in Keys, saved'[c] # NoReceipt, saved'[c].outcome = "pending", admitted'[c] > 0
                 PROVE  Pinned(disk, c) # {}
      BY <1>0 DEF AdmissionIsEvident, Pending, Kept, history
    <3>1. c \notin gone /\ admitted'[c] = admitted[c]
      BY <1>2 DEF Claimed
    <3>2. c # k
      BY <1>2, <3>1 DEF Claimed, HistInv, NoClaimNoWork
    <3> QED
      BY <1>2, <3>1, <3>2 DEF Claimed, HistInv, IntentsAreKept, AdmissionIsEvident, Pending, Kept
  <2>7. PinsHaveReceipts'
    BY <1>0, <1>2 DEF Claimed, HistInv, PinsSaved, IntentsAreKept, PinsHaveReceipts, history
  <2> QED
    BY <1>1, <2>3, <2>4, <2>5, <2>6, <2>7 DEF HistInv, IntentsAreKept
<1>3. ASSUME UNCHANGED <<receipts, saved, act, admitted>>, fails < MaxFails, fails' = fails + 1
      PROVE  HistInv'
  BY <1>0, <1>3, HistoryAssumption, <1>1, PinsStay DEF history, HistInv, HistTyped, actions
<1> QED
  BY <1>2, <1>3, PrepareClaims

\* A job is admitted for the key at work: the first one, and under its pin.
Admitted(k) ==
  /\ act.at = "reconcile" /\ act.key = k
  /\ jobs' \in Histories /\ disk' = jobs'
  /\ Pinned(jobs', k) # {} /\ \A c \in Keys \ {k} : Pinned(jobs', c) = Pinned(jobs, c)
  /\ UNCHANGED <<now, receipts, saved, boot, fails, restarts>>
  /\ ToSettle
  /\ admitted' = [admitted EXCEPT ![k] = @ + 1]

\* An admission that failed: the action gives up.
NotAdmitted ==
  /\ GiveUp /\ fails < MaxFails /\ fails' = fails + 1
  /\ UNCHANGED <<now, jobs, disk, nextId, inflight, receipts, saved, boot, admitted, restarts>>

\* An admission under a pin keeps the invariant.
LEMMA AdmittedStep ==
  ASSUME HistInv, NEW k \in Keys, Admitted(k), nextId' \in 0..MaxJobs, inflight' \subseteq Ids, IdsSpent'
  PROVE  HistInv'
<1>1. act' = [key |-> k, at |-> "settle", reg |-> act.reg] /\ todo' = todo
  BY DEF Admitted, ToSettle, HistInv, BooksTyped
<1>2. k \in Pending(receipts) /\ k \in Pending(saved)
  BY BooksAreOne DEF Admitted, HistInv, ActSound
<1>3. /\ admitted' \in [Keys -> Nat] /\ \A c \in Keys \ {k} : admitted'[c] = admitted[c]
  BY DEF Admitted, HistInv, BooksTyped
<1>4. HistTyped' /\ BooksTyped'
  BY <1>1, <1>3 DEF Admitted, HistInv, HistTyped, BooksTyped
<1>5. PinsSaved' /\ BooksAgree'
  BY DEF Admitted, HistInv, PinsSaved, BooksAgree, SettledInMemory
<1>6. ActSound'
  BY <1>1, <1>2 DEF Admitted, HistInv, ActSound, Pending, Kept
<1>7. NoClaimNoWork'
  BY <1>2, <1>3 DEF Admitted, HistInv, NoClaimNoWork, Pending, Kept
<1>8. IntentsAreKept'
  BY <1>2, <1>3 DEF Admitted, HistInv, IntentsAreKept, AdmissionIsEvident, PinsHaveReceipts, PinsSaved, Pending, Kept
<1> QED
  BY <1>4, <1>5, <1>6, <1>7, <1>8 DEF HistInv

\* So does one that failed.
LEMMA NotAdmittedStep ==
  ASSUME HistInv, NotAdmitted
  PROVE  HistInv'
<1>1. act' = Idle /\ todo' \subseteq Keys
  BY DEF NotAdmitted, GiveUp, HistInv, BooksTyped
<1>2. HistTyped' /\ BooksTyped' /\ IdsSpent' /\ PinsSaved'
  BY <1>1, HistoryAssumption DEF NotAdmitted, Idle, HistInv, HistTyped, BooksTyped, IdsSpent, PinsSaved
<1>3. BooksAgree' /\ ActSound' /\ NoClaimNoWork'
  BY <1>1 DEF NotAdmitted, Idle, HistInv, BooksAgree, SettledInMemory, ActSound, NoClaimNoWork
<1>4. IntentsAreKept'
  BY DEF NotAdmitted, HistInv, IntentsAreKept, AdmissionIsEvident, PinsHaveReceipts, Pending, Kept
<1> QED
  BY <1>2, <1>3, <1>4 DEF HistInv

\* A pass admits a new job, or joins one (AdmitCreated, AdmitCoalesced).
LEMMA AdmitIs ==
  ASSUME HistInv, AdmitCreated \/ (\E i \in Ids : AdmitCoalesced(i))
  PROVE  \/ NotAdmitted
         \/ \E k \in Keys : /\ Admitted(k) /\ nextId' \in 0..MaxJobs /\ inflight' \subseteq Ids /\ IdsSpent'
<1> DEFINE k == act.key
<1>1. k \in Keys /\ act.reg \in Regs /\ act.at = "reconcile"
  BY DEF AdmitCreated, AdmitCoalesced, HistInv, ActSound
<1>2. CASE AdmitCreated
  <2>1. CASE Create(act.reg, {k}) /\ ToSettle /\ admitted' = [admitted EXCEPT ![k] = @ + 1]
    <3>1. /\ jobs' \in Histories /\ disk' = jobs' /\ UNCHANGED fails
          /\ nextId' \in 0..MaxJobs /\ inflight' \subseteq Ids /\ IdsSpent'
          /\ \A c \in Keys : Pinned(jobs', c) = Pinned(jobs, c) \union (IF c \in {k} THEN {nextId'} ELSE {})
      BY <1>1, <2>1, CreateWrites
    <3>2. Admitted(k)
      BY <1>1, <1>2, <2>1, <3>1 DEF Admitted, AdmitCreated
    <3> QED
      BY <1>1, <3>1, <3>2
  <2>2. CASE CreateFails /\ GiveUp /\ UNCHANGED admitted
    BY <1>2, <2>2 DEF AdmitCreated, NotAdmitted, CreateFails, history
  <2> QED
    BY <1>2, <2>1, <2>2 DEF AdmitCreated
<1>3. ASSUME NEW i \in Ids, AdmitCoalesced(i)
      PROVE  NotAdmitted \/ (Admitted(k) /\ nextId' \in 0..MaxJobs /\ inflight' \subseteq Ids /\ IdsSpent')
  <2> DEFINE js == [jobs EXCEPT ![i].pins = @ \union {k}]
  <2>1. i \in Live(jobs)
    BY <1>3 DEF AdmitCoalesced, ActiveOf, Active
  <2>2. /\ js \in Histories /\ Live(js) \subseteq Live(jobs)
        /\ i \in Pinned(js, k)
        /\ \A c \in Keys \ {k} : Pinned(js, c) = Pinned(jobs, c)
    BY <1>1, <2>1, PinAdds DEF HistInv, HistTyped
  <2> HIDE DEF js
  <2>3. CASE /\ jobs' \in {js, Prune(js)} /\ disk' = jobs' /\ ToSettle
             /\ admitted' = [admitted EXCEPT ![k] = @ + 1] /\ UNCHANGED fails
    <3>1. SamePinsAs(jobs', js)
      BY <2>2, <2>3, SaveWrites DEF SamePinsAs
    <3>2. Admitted(k)
      BY <1>1, <1>3, <2>2, <2>3, <3>1 DEF Admitted, AdmitCoalesced, SamePinsAs
    <3>3. nextId' \in 0..MaxJobs /\ inflight' \subseteq Ids
      BY <1>3 DEF AdmitCoalesced, HistInv, HistTyped
    <3>4. IdsSpent'
      BY <1>3, <2>2, <2>3, <3>1 DEF AdmitCoalesced, HistInv, IdsSpent, SamePinsAs
    <3> QED
      BY <3>2, <3>3, <3>4
  <2>4. CASE /\ fails < MaxFails /\ fails' = fails + 1 /\ GiveUp /\ UNCHANGED <<jobs, disk, admitted>>
    BY <1>3, <2>4 DEF AdmitCoalesced, NotAdmitted
  <2> QED
    BY <1>3, <2>3, <2>4 DEF AdmitCoalesced, js
<1> QED
  BY <1>1, <1>2, <1>3
\* Pins are taken only from jobs whose receipt is settled on disk
\* (ReleaseActionIntent), and a failed save takes none or one more.
Released(k) ==
  /\ k \in Settled(saved)
  /\ jobs' \in Histories /\ disk' = jobs'
  /\ Live(jobs') \subseteq Live(jobs)
  /\ Pinned(jobs', k) = {} /\ \A c \in Keys \ {k} : Pinned(jobs', c) = Pinned(jobs, c)

\* A release, pruned or not, takes the pins of one key.
LEMMA ReleaseIs ==
  ASSUME HistInv, NEW k \in Settled(saved), jobs' \in {Unpin(jobs, k), Prune(Unpin(jobs, k))}, disk' = jobs'
  PROVE  Released(k)
<1>1. k \in Keys
  BY DEF Settled, Kept
<1>2. /\ Unpin(jobs, k) \in Histories /\ Live(Unpin(jobs, k)) \subseteq Live(jobs)
      /\ Pinned(Unpin(jobs, k), k) = {}
      /\ \A c \in Keys \ {k} : Pinned(Unpin(jobs, k), c) = Pinned(jobs, c)
  BY <1>1, UnpinDrops DEF HistInv, HistTyped
<1>3. CASE jobs' = Prune(Unpin(jobs, k))
  BY <1>2, <1>3, SaveWrites, <1>1 DEF Released, SamePinsAs
<1>4. CASE jobs' = Unpin(jobs, k)
  BY <1>1, <1>2, <1>4 DEF Released
<1> QED
  BY <1>3, <1>4

\* What is released had a settled receipt, so nothing pending loses its job.
LEMMA ReleasedStep ==
  ASSUME HistInv, NEW k \in Keys, Released(k), act' = Idle \/ UNCHANGED act,
         UNCHANGED <<now, nextId, inflight, receipts, saved, boot, todo, admitted, restarts>>,
         fails' \in 0..MaxFails, act' = act => act.at = "idle"
  PROVE  HistInv'
<1>1. HistTyped' /\ BooksTyped' /\ IdsSpent' /\ PinsSaved'
  BY DEF Released, Idle, HistInv, HistTyped, BooksTyped, IdsSpent, PinsSaved
<1>2. BooksAgree' /\ NoClaimNoWork'
  BY DEF HistInv, BooksAgree, SettledInMemory, NoClaimNoWork
<1>3. ActSound'
  BY DEF HistInv, ActSound, Idle
<1>4. AdmissionIsEvident'
  BY DEF Released, HistInv, PinsSaved, IntentsAreKept, AdmissionIsEvident, Pending, Settled, Kept
<1>5. PinsHaveReceipts'
  BY DEF Released, HistInv, IntentsAreKept, PinsHaveReceipts
<1> QED
  BY <1>1, <1>2, <1>3, <1>4, <1>5 DEF HistInv, IntentsAreKept

\* The last section of an action, and of a start (ReleasePin, BootRelease).
LEMMA ReleaseStep ==
  ASSUME HistInv, ReleasePin \/ (\E k \in Keys : BootRelease(k))
  PROVE  HistInv'
<1>1. CASE ReleasePin
  <2> DEFINE k == act.key
  <2>1. k \in Keys /\ k \in Settled(saved) /\ k \in Settled(receipts)
    BY <1>1, BooksAreOne DEF ReleasePin, HistInv, ActSound
  <2>2. UNCHANGED <<now, nextId, inflight, receipts, saved, boot, todo, admitted, restarts>> /\ act' = Idle
    BY <1>1 DEF ReleasePin
  <2>3. CASE UNCHANGED <<jobs, disk, fails>>
    <3>1. HistTyped' /\ BooksTyped' /\ IdsSpent' /\ PinsSaved'
      BY <2>2, <2>3 DEF Idle, HistInv, HistTyped, BooksTyped, IdsSpent, PinsSaved
    <3>2. BooksAgree' /\ NoClaimNoWork' /\ ActSound'
      BY <2>2, <2>3 DEF HistInv, BooksAgree, SettledInMemory, NoClaimNoWork, ActSound, Idle
    <3>3. IntentsAreKept'
      BY <2>2, <2>3 DEF HistInv, IntentsAreKept, AdmissionIsEvident, PinsHaveReceipts, Pending, Kept
    <3> QED
      BY <3>1, <3>2, <3>3 DEF HistInv
  <2>4. CASE Release(k)
    <3>1. fails' \in 0..MaxFails
      BY <2>4, HistoryAssumption DEF Release, HistInv, HistTyped
    <3>2. CASE UNCHANGED <<jobs, disk>>
      <4>1. HistTyped' /\ BooksTyped' /\ IdsSpent' /\ PinsSaved'
        BY <2>2, <3>1, <3>2 DEF Idle, HistInv, HistTyped, BooksTyped, IdsSpent, PinsSaved
      <4>2. BooksAgree' /\ NoClaimNoWork' /\ ActSound'
        BY <2>2, <3>2 DEF HistInv, BooksAgree, SettledInMemory, NoClaimNoWork, ActSound, Idle
      <4>3. IntentsAreKept'
        BY <2>2, <3>2 DEF HistInv, IntentsAreKept, AdmissionIsEvident, PinsHaveReceipts, Pending, Kept
      <4> QED
        BY <4>1, <4>2, <4>3 DEF HistInv
    <3>3. CASE jobs' \in {Unpin(jobs, k), Prune(Unpin(jobs, k))} /\ disk' = jobs'
      <4>1. Released(k)
        BY <2>1, <3>3, ReleaseIs
      <4>2. act' = act => act.at = "idle"
        BY <2>2 DEF Idle
      <4> HIDE DEF k
      <4> QED
        BY <2>1, <2>2, <3>1, <4>1, <4>2, ReleasedStep
    <3> QED
      BY <2>4, <3>2, <3>3 DEF Release
  <2> QED
    BY <1>1, <2>3, <2>4 DEF ReleasePin
<1>2. ASSUME NEW k \in Keys, BootRelease(k) PROVE HistInv'
  <2>1. k \in Settled(saved)
    BY <1>2, BooksAreOne DEF BootRelease
  <2>2. Released(k)
    BY <1>2, <2>1, ReleaseIs DEF BootRelease
  <2>3. fails' \in 0..MaxFails /\ act.at = "idle"
    BY <1>2 DEF BootRelease, HistInv, HistTyped, BooksTyped, ActSound
  <2> QED
    BY <1>2, <2>2, <2>3, ReleasedStep DEF BootRelease, actions
<1> QED
  BY <1>1, <1>2

\* The process ends and the next one loads both files (Restart).
LEMMA RestartStep ==
  ASSUME HistInv, Restart
  PROVE  HistInv'
<1>1. SamePinsAs(Interrupt(disk), disk)
  BY InterruptKeepsPins DEF HistInv, HistTyped
<1>2. SamePinsAs(jobs', Interrupt(disk)) /\ disk' = jobs'
  BY <1>1, SaveWrites DEF Restart, Save, SamePinsAs
<1>3. /\ jobs' \in Histories /\ Live(jobs') \subseteq Live(disk)
      /\ \A k \in Keys : Pinned(jobs', k) = Pinned(disk, k)
  BY <1>1, <1>2 DEF SamePinsAs
<1>4. nextId' \in 0..MaxJobs /\ \A i \in Live(disk) : i <= nextId'
  BY HighestIdIs DEF Restart, HistInv, HistTyped
<1>5. HistTyped' /\ IdsSpent'
  BY <1>2, <1>3, <1>4, HistoryAssumption DEF Restart, Save, HistInv, HistTyped, IdsSpent
<1>6. BooksTyped' /\ BooksAgree' /\ ActSound' /\ NoClaimNoWork'
  BY DEF Restart, Idle, HistInv, BooksTyped, BooksAgree, ActSound, NoClaimNoWork, Pending, Kept
<1>7. PinsSaved'
  BY <1>2 DEF PinsSaved
<1>8. IntentsAreKept'
  BY <1>2, <1>3 DEF Restart, HistInv, IntentsAreKept, AdmissionIsEvident, PinsHaveReceipts, Pending, Kept
<1> QED
  BY <1>5, <1>6, <1>7, <1>8 DEF HistInv

-----------------------------------------------------------------------------
(* The invariant, and the abstract ledger of each key.                     *)

\* Every step keeps the invariant.
LEMMA HistNextStep == HistInv /\ [HistoryNext]_historyVars => HistInv'
<1> SUFFICES ASSUME HistInv, [HistoryNext]_historyVars PROVE HistInv'
  OBVIOUS
<1>1. CASE UNCHANGED historyVars
  BY <1>1, PinsStay DEF historyVars, HistInv, HistTyped, IdsSpent, actions
<1>2. CASE HistoryNext
  BY <1>2, QuietStep, StartStep, FinishStep, PrepareStep, ReplayStep, ReconcileStep, SettleStep,
     BootStep, AdmitIs, AdmittedStep, NotAdmittedStep, ReleaseStep, RestartStep
     DEF HistoryNext
<1> QED
  BY <1>1, <1>2

\* Every variable of the history and of the actions over it keeps its type,
\* whatever is pruned, fails or restarts.
THEOREM HistoryTyped == HistorySpec => []HistoryTypeOK
<1>1. HistorySpec => []HistInv
  BY HistStarts, HistNextStep, PTL DEF HistorySpec
<1> QED
  BY <1>1, HistInvSays, PTL

\* A retry intent keeps the job that answers it as long as its receipt is open,
\* and no longer: pruning by age and number, failed saves, id reuse and
\* restarts included.
THEOREM IntentsStay == HistorySpec => []IntentsAreKept
<1>1. HistorySpec => []HistInv
  BY HistStarts, HistNextStep, PTL DEF HistorySpec
<1> QED
  BY <1>1, HistInvSays, PTL

\* What a claim is, key by key.
LEMMA ClaimIs ==
  ASSUME HistInv, NEW k \in Keys
  PROVE  /\ claimOf[k] = "none" <=> saved[k] = NoReceipt
         /\ claimOf[k] = "pending" <=> k \in Pending(saved)
         /\ claimOf[k] = "settled" <=> k \in Settled(saved)
<1>1. saved[k] # NoReceipt => saved[k].outcome \in {"pending", "settled"}
  BY DEF HistInv, BooksTyped, ReceiptBooks, Receipt
<1> QED
  BY <1>1 DEF claimOf, Pending, Settled, Kept

\* A step that writes no receipt and admits nothing is not seen by the ledger.
LEMMA LedgerUnmoved ==
  ASSUME UNCHANGED <<saved, admitted>>
  PROVE  UNCHANGED <<claimOf, admitted>>
  BY DEF claimOf

\* A new receipt claims its key, and forgets settled ones (prepare).
LEMMA LedgerClaims ==
  ASSUME HistInv, NEW k \in Keys, NEW gone \in SUBSET Keys, Claimed(k, gone)
  PROVE  Ledger!LedgerNext
<1>1. claimOf[k] = "none"
  BY ClaimIs DEF Claimed
<1>2. \A g \in gone : claimOf[g] = "settled"
  BY ClaimIs DEF Claimed
<1>3. claimOf' = [c \in Keys |-> IF c = k THEN "pending" ELSE IF c \in gone THEN "none" ELSE claimOf[c]]
  BY DEF Claimed, claimOf
<1>4. Ledger!Claim(k, gone)
  BY <1>1, <1>2, <1>3 DEF Ledger!Claim, Claimed
<1> QED
  BY <1>4 DEF Ledger!LedgerNext

\* Work is admitted under a pending claim that has none yet.
LEMMA LedgerAdmits ==
  ASSUME HistInv, NEW k \in Keys, Admitted(k)
  PROVE  Ledger!LedgerNext
<1>1. k \in Pending(saved)
  BY BooksAreOne DEF Admitted, HistInv, ActSound
<1>2. Pinned(disk, k) = {}
  BY DEF Admitted, HistInv, ActSound, PinsSaved
<1>3. admitted[k] = 0
  BY <1>1, <1>2 DEF HistInv, BooksTyped, IntentsAreKept, AdmissionIsEvident
<1>4. admitted' = [admitted EXCEPT ![k] = 1]
  BY <1>3 DEF Admitted, HistInv, BooksTyped
<1>5. claimOf[k] = "pending" /\ UNCHANGED claimOf
  BY <1>1, ClaimIs DEF Admitted, claimOf
<1>6. Ledger!Admit(k)
  BY <1>3, <1>4, <1>5 DEF Ledger!Admit
<1> QED
  BY <1>6 DEF Ledger!LedgerNext

\* One write settles the claims whose receipts it settles (Settle, BootSave).
LEMMA LedgerSettles ==
  ASSUME HistInv, UNCHANGED admitted, NEW done \in SUBSET Pending(saved),
         \A c \in Keys \ done : saved'[c] = saved[c],
         \A c \in done : saved'[c] # NoReceipt /\ saved'[c].outcome = "settled"
  PROVE  Ledger!LedgerNext
<1>1. done \in SUBSET Keys
  BY DEF Pending, Kept
<1>2. \A c \in done : claimOf[c] = "pending"
  BY <1>1, ClaimIs
<1>3. claimOf' = [c \in Keys |-> IF c \in done THEN "settled" ELSE claimOf[c]]
  BY <1>1 DEF claimOf
<1>4. Ledger!SettleAll(done)
  BY <1>2, <1>3 DEF Ledger!SettleAll
<1> QED
  BY <1>1, <1>4 DEF Ledger!LedgerNext

\* Every step is one of the ledger, or is not seen by it.
LEMMA LedgerStep ==
  ASSUME HistInv, HistoryNext
  PROVE  Ledger!LedgerNext \/ UNCHANGED <<claimOf, admitted>>
<1>1. ASSUME NEW k \in Keys, NEW i \in Ids, Prepare(k, i)
      PROVE  Ledger!LedgerNext \/ UNCHANGED <<claimOf, admitted>>
  BY <1>1, PrepareClaims, LedgerClaims, LedgerUnmoved
<1>2. CASE AdmitCreated \/ (\E i \in Ids : AdmitCoalesced(i))
  BY <1>2, AdmitIs, LedgerAdmits, LedgerUnmoved DEF NotAdmitted
<1>3. CASE Settle
  <2> DEFINE k == act.key
  <2>1. k \in Keys /\ k \in Pending(receipts) /\ k \in Pending(saved) /\ UNCHANGED admitted
    BY <1>3, BooksAreOne DEF Settle, HistInv, ActSound
  <2>2. CASE boot = "up" /\ saved' = SettledReceipts(k)
    <3>1. /\ SettledReceipts(k)[k] # NoReceipt /\ SettledReceipts(k)[k].outcome = "settled"
          /\ \A c \in Keys \ {k} : SettledReceipts(k)[c] = receipts[c]
      BY <2>1, SettledIs
    <3>2. receipts = saved
      BY <2>2, BooksAreOne
    <3>3. {k} \in SUBSET Pending(saved)
      BY <2>1
    <3> HIDE DEF k
    <3> QED
      BY <2>1, <2>2, <3>1, <3>2, <3>3, LedgerSettles
  <2>3. CASE UNCHANGED saved
    BY <2>1, <2>3, LedgerUnmoved
  <2> QED
    BY <1>3, <2>2, <2>3 DEF Settle
<1>4. CASE BootSave
  <2> DEFINE done == {k \in Keys : SettledInMemory(k)}
  <2>1. done \in SUBSET Pending(saved) /\ \A c \in Keys \ done : receipts[c] = saved[c]
    BY DEF HistInv, BooksAgree, SettledInMemory, Pending, Kept
  <2>2. ASSUME NEW c \in done PROVE receipts[c] # NoReceipt /\ receipts[c].outcome = "settled"
    BY NoRecordsAssumption DEF SettledInMemory, HistInv, BooksTyped, ReceiptBooks, Receipt
  <2>3. saved' = receipts /\ UNCHANGED admitted
    BY <1>4 DEF BootSave
  <2> HIDE DEF done
  <2> QED
    BY <2>1, <2>2, <2>3, LedgerSettles
<1>5. CASE UNCHANGED <<saved, admitted>>
  BY <1>5, LedgerUnmoved
<1>6. \/ \E k \in Keys, i \in Ids : Prepare(k, i)
      \/ AdmitCreated \/ (\E i \in Ids : AdmitCoalesced(i)) \/ Settle \/ BootSave
      \/ UNCHANGED <<saved, admitted>>
  BY DEF HistoryNext, Tick, PruneHistory, Start, Finish, Unwind, ReplayAdmitted, ReplayUnadmitted,
         ReplaySettled, BootRelease, ReconcileFails, NoWorkNeeded, ReleasePin, Restart, BootDone, actions
<1> QED
  BY <1>1, <1>2, <1>3, <1>4, <1>5, <1>6

\* The actions over the history implement the ledger of intents: each durable
\* claim is worked on at most once, and forgotten only when settled, whatever
\* is pruned, fails or restarts.
THEOREM IntentsWorkOnce == HistorySpec => ExactlyOnce
<1>1. HistoryInit => Ledger!LedgerInit
  BY DEF HistoryInit, Ledger!LedgerInit, claimOf
<1>2. HistInv /\ [HistoryNext]_historyVars => [Ledger!LedgerNext]_<<claimOf, admitted>>
  BY LedgerUnmoved, LedgerStep DEF historyVars
<1>3. HistorySpec => []HistInv
  BY HistStarts, HistNextStep, PTL DEF HistorySpec
<1> QED
  BY <1>1, <1>2, <1>3, PTL DEF HistorySpec, ExactlyOnce, Ledger!LedgerSpec, Ledger!ledger

-----------------------------------------------------------------------------
(* The collections: what their frontiers claim.                            *)

\* Statuses of a lane whose pass is over, all its statuses, the ends of a traversal.
Over == {"fresh", "due", "complete"}
LaneStatuses == {"none", "partial", "degraded", "backfilling"} \union Over
Ends == {"watermark", "end_of_collection"}

\* CollectionTypeOK, where no cap is set, with the types of a stage in full.
CollectionTyped ==
    /\ remote \in [Records -> Stamps] /\ cached \in [Records -> Stamps]
    /\ frontier \in [status : {"none", "open", "complete"}, high : Stamps]
    /\ lanes \in [Lanes -> [status : LaneStatuses, page : Nat]]
    /\ run \in [on : BOOLEAN, page : Nat, mark : Stamps, high : Stamps, cap : {0}]
    /\ slice.on \in BOOLEAN /\ slice.lane \in Lanes /\ slice.stop \in Stops
    /\ slice.high \in Stamps /\ slice.began \in Stamps
    /\ slice.next \in [status : LaneStatuses, page : Nat]
    /\ DOMAIN slice.items \subseteq Records /\ Cardinality(DOMAIN slice.items) <= PerPage
    /\ \A r \in DOMAIN slice.items : slice.items[r] \in Stamps
    /\ began \in [Lanes -> Stamps] /\ runs \in 0..MaxRuns

\* Changes have stamps of their own.
StampsDiffer == \A a, b \in OnList : remote[a] = remote[b] => a = b

\* What the readers keep is not newer than the newest change; so whatever
\* changes from now on is above it.
Marks == {frontier.high, run.mark, run.high, slice.high, slice.began} \union {began[l] : l \in Lanes}
MarksPassed == \A h \in Marks : h <= Newest

\* The page and all behind it in the list.
Ahead(r, page) == Position(r) > (page - 1) * PerPage
Held(r) == cached[r] = remote[r]

\* What existed when a pass began is held, or still ahead of the pass.
LaneSound(l) ==
    \A r \in OnList : remote[r] <= began[l] =>
        Held(r) \/ (lanes[l].status \notin Over /\ Ahead(r, StartPage(l)))

\* The same of a foreground run, up to the newest record it has met; what is
\* older than its mark it will not visit.
RunSound ==
    run.on => /\ run.page # 0
              /\ \A r \in OnList : remote[r] < run.mark => Held(r)
              /\ \A r \in OnList : remote[r] <= run.high => Held(r) \/ Ahead(r, run.page)

\* What a stage claims is true once its records are stored: a record of it that
\* was changed since is above every mark, so that storing it breaks no claim.
WillHold(r) == IF r \in DOMAIN slice.items THEN slice.items[r] = remote[r] ELSE Held(r)
SliceSound ==
    slice.on =>
        /\ ~run.on
        /\ \A r \in DOMAIN slice.items : slice.items[r] = remote[r] \/ (\A h \in Marks : remote[r] > h)
        /\ slice.stop \in Ends => \A r \in OnList : remote[r] < slice.high => WillHold(r)
        /\ \A r \in OnList : remote[r] <= slice.began =>
               WillHold(r) \/ (slice.next.status \notin Over /\ Ahead(r, Max({1, slice.next.page})))

CollectionInv ==
    /\ CollectionTyped /\ StampsDiffer /\ MarksPassed
    /\ WatermarkIsSound /\ \A l \in Lanes : LaneSound(l)
    /\ RunSound /\ SliceSound

-----------------------------------------------------------------------------
\* A set of numbers below a bound has a largest element, if it is not empty.
LEMMA LargestExists ==
    ASSUME NEW n \in Nat, NEW S \in SUBSET (0..n), S # {}
    PROVE  \E m \in S : \A k \in S : k <= m
  <1> DEFINE T == {n - k : k \in S}
  <1>1. \A k \in S : n - k \in Nat
    OBVIOUS
  <1>1a. T \in SUBSET Nat /\ T # {}
    BY <1>1
  <1> HIDE DEF T
  <1>2. PICK d \in T : \A k \in T : d <= k
    BY <1>1a, LeastExists
  <1>3. PICK m \in S : d = n - m
    BY <1>2 DEF T
  <1>4. ASSUME NEW k \in S PROVE k <= m
    <2>1. n - k \in T
      BY DEF T
    <2>2. d <= n - k
      BY <1>2, <2>1
    <2> QED BY <1>3, <2>2
  <1> QED BY <1>4

\* The newest of a set of stamps is one of them (Highest, Newest).
LEMMA MaxOfStamps ==
    ASSUME NEW S \in SUBSET Stamps, S # {}
    PROVE  /\ Max(S) \in S
           /\ \A h \in S : h <= Max(S)
  <1>1. MaxStamp \in Nat
    BY CollectionAssumption
  <1>2. S \in SUBSET (0..MaxStamp)
    BY DEF Stamps
  <1>3. PICK m \in S : \A k \in S : k <= m
    BY <1>1, <1>2, LargestExists
  <1>4. Max(S) \in S /\ \A k \in S : Max(S) >= k
    BY <1>2, <1>3 DEF Max
  <1> QED BY <1>2, <1>4

\* The page a pass continues at is a page.
LEMMA PageToStart ==
    ASSUME NEW n \in Nat
    PROVE  /\ Max({1, n}) \in Nat \ {0}
           /\ Max({1, n}) = IF n = 0 THEN 1 ELSE n
  <1>1. \E x \in {1, n} : \A y \in {1, n} : x >= y
    BY DEF Max
  <1>2. Max({1, n}) \in {1, n} /\ \A y \in {1, n} : Max({1, n}) >= y
    BY <1>1 DEF Max
  <1> QED BY <1>2

\* The newest change of all.
LEMMA NewestIs ==
    ASSUME remote \in [Records -> Stamps]
    PROVE  /\ Newest \in Stamps
           /\ \A r \in Records : remote[r] <= Newest
           /\ Newest = 0 \/ \E r \in Records : remote[r] = Newest
  <1> DEFINE S == {remote[r] : r \in Records} \union {0}
  <1>1. S \in SUBSET Stamps /\ S # {}
    BY CollectionAssumption DEF Stamps
  <1>2. Max(S) \in S /\ \A h \in S : h <= Max(S)
    BY <1>1, MaxOfStamps
  <1>3. Newest = Max(S)
    BY DEF Newest
  <1> QED BY <1>1, <1>2, <1>3

\* The newest of a page and of what was met before.
LEMMA HighestIs ==
    ASSUME remote \in [Records -> Stamps], NEW items, NEW high \in Stamps, Range(items) \subseteq Records
    PROVE  /\ Highest(items, high) \in Stamps
           /\ Highest(items, high) >= high
           /\ \A r \in Range(items) : Highest(items, high) >= remote[r]
           /\ Highest(items, high) = high \/ \E r \in Range(items) : Highest(items, high) = remote[r]
  <1> DEFINE S == {remote[r] : r \in Range(items)} \union {high}
  <1>1. S \in SUBSET Stamps /\ S # {}
    OBVIOUS
  <1>2. Max(S) \in S /\ \A h \in S : h <= Max(S)
    BY <1>1, MaxOfStamps
  <1>3. Highest(items, high) = Max(S)
    BY DEF Highest
  <1>4. S \subseteq Nat
    BY <1>1, CollectionAssumption DEF Stamps
  <1> QED BY <1>1, <1>2, <1>3, <1>4

-----------------------------------------------------------------------------
(* The list of the provider: its places, its pages                         *)

\* Records stand in the list from the newest change down.
LEMMA PositionsFollow ==
    ASSUME remote \in [Records -> Stamps], StampsDiffer
    PROVE  /\ IsFiniteSet(OnList) /\ Cardinality(OnList) \in Nat
           /\ \A r \in OnList : Position(r) \in 1..Cardinality(OnList)
           /\ \A a, b \in OnList : remote[a] > remote[b] <=> Position(a) < Position(b)
           /\ \A a, b \in OnList : Position(a) = Position(b) => a = b
  <1>1. IsFiniteSet(OnList) /\ Cardinality(OnList) \in Nat
    BY CollectionAssumption, FS_Subset, FS_CardinalityType DEF OnList
  <1> DEFINE At(r) == {x \in OnList : remote[x] >= remote[r]}
  <1>2. ASSUME NEW r \in OnList
        PROVE  /\ IsFiniteSet(At(r)) /\ Position(r) = Cardinality(At(r)) /\ r \in At(r)
               /\ Position(r) \in 1..Cardinality(OnList)
    <2>1. At(r) \in SUBSET OnList /\ Position(r) = Cardinality(At(r))
      BY DEF Position
    <2>2. r \in At(r)
      BY DEF OnList, Stamps
    <2> HIDE DEF At
    <2>3. IsFiniteSet(At(r)) /\ Cardinality(At(r)) <= Cardinality(OnList)
      BY <1>1, <2>1, FS_Subset
    <2>4. Cardinality(At(r)) \in Nat /\ Cardinality(At(r)) # 0
      BY <2>2, <2>3, FS_CardinalityType, FS_EmptySet
    <2> QED BY <1>1, <2>1, <2>2, <2>3, <2>4
  <1>3. ASSUME NEW a \in OnList, NEW b \in OnList, remote[a] > remote[b]
        PROVE  Position(a) < Position(b)
    <2>1. At(a) \in SUBSET At(b) /\ b \notin At(a) /\ b \in At(b)
      BY <1>3 DEF OnList, Stamps
    <2> HIDE DEF At
    <2>2. Cardinality(At(a)) <= Cardinality(At(b)) /\ Cardinality(At(a)) # Cardinality(At(b))
      BY <1>2, <2>1, FS_Subset
    <2>3. Position(a) <= Position(b) /\ Position(a) # Position(b)
      BY <1>2, <2>2
    <2> QED BY <1>1, <1>2, <2>3
  <1>4. ASSUME NEW a \in OnList, NEW b \in OnList, a # b
        PROVE  remote[a] > remote[b] \/ remote[b] > remote[a]
    BY <1>4 DEF StampsDiffer, OnList, Stamps
  <1>5. \A a, b \in OnList : remote[a] > remote[b] => ~(remote[b] > remote[a]) /\ a # b
    BY DEF OnList, Stamps
  <1> HIDE DEF At
  <1>6. ASSUME NEW a \in OnList, NEW b \in OnList
        PROVE  Position(a) < Position(b) => ~(Position(b) < Position(a)) /\ Position(a) # Position(b)
    BY <1>1, <1>2
  <1> QED BY <1>1, <1>2, <1>3, <1>4, <1>5, <1>6

\* Every place of the list is taken.
LEMMA ListingIs ==
    ASSUME remote \in [Records -> Stamps], StampsDiffer
    PROVE  /\ Listing \in Seq(OnList) /\ Len(Listing) = Cardinality(OnList)
           /\ \A i \in 1..Cardinality(OnList) : Position(Listing[i]) = i
           /\ \A r \in OnList : Listing[Position(r)] = r
  <1> DEFINE n == Cardinality(OnList)
             place == [r \in OnList |-> Position(r)]
  <1>1. /\ IsFiniteSet(OnList) /\ n \in Nat
        /\ \A r \in OnList : Position(r) \in 1..n
        /\ \A a, b \in OnList : Position(a) = Position(b) => a = b
    BY PositionsFollow
  <1>2. place \in Injection(OnList, 1..n)
    <2> HIDE DEF n
    <2>1. place \in [OnList -> 1..n]
      BY <1>1
    <2>2. \A a, b \in OnList : place[a] = place[b] => a = b
      BY <1>1
    <2> QED BY <2>1, <2>2 DEF Injection, IsInjective
  <1>3. IsFiniteSet(1..n) /\ Cardinality(1..n) = n
    <2> HIDE DEF n
    <2>1. IsFiniteSet(1..n) /\ Cardinality(1..n) = IF 1 > n THEN 0 ELSE n - 1 + 1
      BY <1>1, FS_Interval
    <2> QED BY <1>1, <2>1
  <1>4. place \in Surjection(OnList, 1..n)
    <2> HIDE DEF place
    <2> QED BY <1>2, <1>3, FS_Injection
  <1>5. \A i \in 1..n : \E r \in OnList : Position(r) = i
    BY <1>4 DEF Surjection
  <1>6. \A i \in 1..n : Listing[i] \in OnList /\ Position(Listing[i]) = i
    BY <1>5 DEF Listing
  <1>7. Listing \in Seq(OnList) /\ Len(Listing) = n
    <2>1. Listing \in [1..n -> OnList]
      BY <1>5 DEF Listing
    <2> HIDE DEF n
    <2> QED BY <1>1, <2>1
  <1>8. \A r \in OnList : Listing[Position(r)] = r
    BY <1>1, <1>6
  <1> QED BY <1>6, <1>7, <1>8

\* A set of places with all before them is an initial segment.
LEMMA SegmentIs ==
    ASSUME NEW k \in Nat, NEW D \in SUBSET (1..k), \A i \in D : \A j \in 1..k : j < i => j \in D
    PROVE  Cardinality(D) \in 0..k /\ D = 1..Cardinality(D)
  <1>1. D \in SUBSET (0..k)
    OBVIOUS
  <1>3. CASE D = {}
    BY <1>3, FS_EmptySet
  <1>4. CASE D # {}
    <2>1. PICK m \in D : \A i \in D : i <= m
      BY <1>1, <1>4, LargestExists
    <2>2. m \in 1..k /\ D = 1..m
      <3>1. m \in 1..k
        BY <2>1
      <3>2. ASSUME NEW j \in 1..m PROVE j \in D
        BY <2>1, <3>1
      <3>3. ASSUME NEW i \in D PROVE i \in 1..m
        BY <2>1, <3>1
      <3> QED BY <3>1, <3>2, <3>3
    <2>3. Cardinality(1..m) = m
      BY <2>2, FS_Interval
    <2> QED BY <2>2, <2>3
  <1> QED BY <1>3, <1>4

\* What a reader gets: records from the newest change down.
Sorted(items) ==
    /\ items \in Seq(OnList)
    /\ \A i, j \in 1..Len(items) : i < j => remote[items[i]] > remote[items[j]]

\* The first items of a page.
LEMMA CutIs ==
    ASSUME NEW items, Sorted(items), NEW k \in Nat
    PROVE  /\ Sorted(Cut(items, k)) /\ Range(Cut(items, k)) \subseteq Range(items)
           /\ Len(Cut(items, k)) <= k /\ Len(Cut(items, k)) <= Len(items)
           /\ k >= Len(items) => Cut(items, k) = items
  <1>1. items \in Seq(OnList) /\ Len(items) \in Nat
    BY DEF Sorted
  <1> DEFINE m == Min({k, Len(items)})
  <1>2. m \in {k, Len(items)} /\ m <= k /\ m <= Len(items)
    BY <1>1 DEF Min
  <1> DEFINE c == SubSeq(items, 1, m)
  <1>3. Cut(items, k) = c
    BY DEF Cut
  <1> HIDE DEF m
  <1>4. /\ c \in Seq(OnList) /\ Len(c) = m
        /\ \A i \in 1..m : c[i] = items[i]
    BY <1>1, <1>2, SubSeqProperties
  <1> HIDE DEF c
  <1>5. Sorted(c) /\ Range(c) \subseteq Range(items)
    BY <1>1, <1>2, <1>4 DEF Sorted, Range
  <1>6. ASSUME k >= Len(items) PROVE c = items
    BY <1>1, <1>2, <1>4, <1>6, SeqEqual
  <1> QED BY <1>2, <1>3, <1>4, <1>5, <1>6

\* The records of a page that are not older than a mark.
LEMMA AboveIs ==
    ASSUME remote \in [Records -> Stamps], NEW items, Sorted(items), NEW mark \in Stamps
    PROVE  /\ Sorted(AtOrAbove(items, mark)) /\ Len(AtOrAbove(items, mark)) <= Len(items)
           /\ Range(AtOrAbove(items, mark)) = {r \in Range(items) : remote[r] >= mark}
           /\ AtOrAbove(items, mark) # items => \E r \in Range(items) : remote[r] < mark
  <1> DEFINE k == Len(items)
             D == {i \in DOMAIN items : remote[items[i]] >= mark}
             c == SubSeq(items, 1, Cardinality(D))
  <1>1. items \in Seq(OnList) /\ k \in Nat /\ DOMAIN items = 1..k
    BY DEF Sorted
  <1>2. \A i \in 1..k : items[i] \in OnList /\ remote[items[i]] \in Int
    BY <1>1, CollectionAssumption DEF OnList, Stamps
  <1>3. mark \in Int
    BY CollectionAssumption DEF Stamps
  <1>4. \A i \in D : \A j \in 1..k : j < i => j \in D
    BY <1>1, <1>2, <1>3 DEF Sorted
  <1>5. D \in SUBSET (1..k)
    BY <1>1
  <1>6. AtOrAbove(items, mark) = c
    BY DEF AtOrAbove
  <1>7. \A i : i \in D <=> i \in 1..k /\ remote[items[i]] >= mark
    BY <1>1
  <1> HIDE DEF D, k
  <1>8. Cardinality(D) \in 0..k /\ D = 1..Cardinality(D)
    BY <1>1, <1>4, <1>5, SegmentIs
  <1>9. /\ c \in Seq(OnList) /\ Len(c) = Cardinality(D)
        /\ \A i \in 1..Cardinality(D) : c[i] = items[i]
    BY <1>1, <1>2, <1>8, SubSeqProperties
  <1> HIDE DEF c
  <1>10. Sorted(c) /\ Len(c) <= k
    BY <1>1, <1>8, <1>9 DEF Sorted, k
  <1>11. DOMAIN c = D
    BY <1>8, <1>9
  <1>12. Range(c) = {r \in Range(items) : remote[r] >= mark}
    BY <1>1, <1>5, <1>7, <1>8, <1>9, <1>11 DEF Range
  <1>13. ASSUME c # items PROVE \E r \in Range(items) : remote[r] < mark
    <2>1. Cardinality(D) # k
      BY <1>1, <1>9, <1>13, SeqEqual DEF k
    <2>2. k \in 1..k /\ k \notin D
      BY <1>1, <1>8, <2>1
    <2>3. remote[items[k]] < mark
      BY <1>2, <1>3, <1>7, <2>2
    <2> QED BY <1>1, <2>2, <2>3 DEF Range
  <1> QED BY <1>6, <1>10, <1>12, <1>13 DEF k

\* The places of a page, and of the next one.
LEMMA PageNumbers ==
    ASSUME NEW p \in Nat \ {0}
    PROVE  /\ (p - 1) * PerPage \in Nat /\ p * PerPage = (p - 1) * PerPage + PerPage
           /\ PerPage \in Nat \ {0}
           /\ (p + 1) - 1 = p
  <1>1. PerPage \in Nat \ {0} /\ p - 1 \in Nat
    BY CollectionAssumption
  <1>2. (p - 1) * PerPage \in Nat
    BY <1>1
  <1>3. p * PerPage = (p - 1) * PerPage + PerPage
    BY <1>1
  <1> QED BY <1>1, <1>2, <1>3

\* A page holds the records at its places; only the last one is not full.
LEMMA PageIs ==
    ASSUME remote \in [Records -> Stamps], StampsDiffer, NEW p \in Nat \ {0}
    PROVE  /\ Sorted(Page(p)) /\ Len(Page(p)) <= PerPage
           /\ Range(Page(p)) = {r \in OnList : Ahead(r, p) /\ ~Ahead(r, p + 1)}
           /\ Len(Page(p)) < PerPage => \A r \in OnList : ~Ahead(r, p + 1)
  <1> DEFINE n == Cardinality(OnList)
             first == (p - 1) * PerPage
             m == Min({first, Len(Listing)})
             rest == SubSeq(Listing, m + 1, Len(Listing))
             k == Min({PerPage, Len(rest)})
             page == SubSeq(rest, 1, k)
  <1>1. /\ Listing \in Seq(OnList) /\ Len(Listing) = n
        /\ \A i \in 1..n : Position(Listing[i]) = i
        /\ \A r \in OnList : Listing[Position(r)] = r
    BY ListingIs
  <1>2. /\ n \in Nat /\ \A r \in OnList : Position(r) \in 1..n
        /\ \A a, b \in OnList : remote[a] > remote[b] <=> Position(a) < Position(b)
    BY PositionsFollow
  <1>3. /\ first \in Nat /\ p * PerPage = first + PerPage /\ PerPage \in Nat \ {0}
        /\ (p + 1) - 1 = p
    BY PageNumbers
  <1>4. /\ \A r : Ahead(r, p) <=> Position(r) > first
        /\ \A r : Ahead(r, p + 1) <=> Position(r) > first + PerPage
    BY <1>3 DEF Ahead
  <1>5. Page(p) = page
    BY DEF Page, Cut
  <1> HIDE DEF first, n
  <1>6. m \in Nat /\ m \in {first, n} /\ m <= first /\ m <= n
    <2>1. \E x \in {first, n} : \A y \in {first, n} : x <= y
      BY <1>2, <1>3
    <2> QED BY <1>1, <1>2, <1>3, <2>1 DEF Min
  <1> HIDE DEF m
  <1>7. /\ rest \in Seq(OnList) /\ Len(rest) = n - m
        /\ \A i \in 1..(n - m) : rest[i] = Listing[m + i]
    <2>1. \A i \in (m + 1)..n : Listing[i] \in OnList
      BY <1>1, <1>2, <1>6
    <2>2. m + 1 \in Int /\ Len(Listing) \in Int
      BY <1>1, <1>2, <1>6
    <2>3. /\ SubSeq(Listing, m + 1, n) \in Seq(OnList)
          /\ Len(SubSeq(Listing, m + 1, n)) = IF m + 1 <= n THEN n - (m + 1) + 1 ELSE 0
          /\ \A i \in 1..(n - (m + 1) + 1) : SubSeq(Listing, m + 1, n)[i] = Listing[(m + 1) + i - 1]
      BY <1>1, <2>1, <2>2, SubSeqProperties
    <2> QED BY <1>1, <1>2, <1>6, <2>3
  <1> HIDE DEF rest
  <1>8. k \in Nat /\ k \in {PerPage, n - m} /\ k <= PerPage /\ k <= n - m
    BY <1>2, <1>6, <1>3, <1>7 DEF Min
  <1> HIDE DEF k
  <1>9. /\ page \in Seq(OnList) /\ Len(page) = k
        /\ \A i \in 1..k : page[i] = Listing[m + i] /\ Position(page[i]) = m + i
    BY <1>2, <1>6, <1>7, <1>8, SubSeqProperties, <1>1
  <1> HIDE DEF page
  <1>10. Sorted(page)
    <2>1. \A i \in 1..k : page[i] \in OnList
      BY <1>9
    <2>2. ASSUME NEW i \in 1..k, NEW j \in 1..k, i < j
          PROVE  remote[page[i]] > remote[page[j]]
      <3>1. Position(page[i]) < Position(page[j])
        BY <1>6, <1>8, <1>9, <2>2
      <3> QED BY <1>2, <2>1, <3>1
    <2> QED BY <1>9, <2>2 DEF Sorted
  <1>11. ASSUME NEW r \in OnList, Position(r) > first, Position(r) <= first + PerPage
         PROVE  r \in Range(page)
    <2>1. m = first
      BY <1>2, <1>3, <1>6, <1>11
    <2>2. Position(r) - m \in 1..k /\ m + (Position(r) - m) = Position(r)
      BY <1>2, <1>3, <1>6, <1>8, <1>11, <2>1
    <2>3. page[Position(r) - m] = r
      BY <1>1, <1>9, <2>2
    <2> QED BY <1>9, <2>2, <2>3 DEF Range
  <1>12. ASSUME NEW i \in 1..k
         PROVE  /\ page[i] \in OnList
                /\ Position(page[i]) > first /\ Position(page[i]) <= first + PerPage
    BY <1>2, <1>3, <1>6, <1>8, <1>9
  <1>13. Range(page) = {r \in OnList : Position(r) > first /\ ~(Position(r) > first + PerPage)}
    <2>1. ASSUME NEW r \in Range(page)
          PROVE  r \in OnList /\ Position(r) > first /\ ~(Position(r) > first + PerPage)
      <3>1. PICK i \in 1..k : r = page[i]
        BY <1>9 DEF Range
      <3>2. Position(r) \in Int
        BY <1>2, <1>12, <3>1
      <3> QED BY <1>3, <1>12, <3>1, <3>2
    <2>2. ASSUME NEW r \in OnList, Position(r) > first, ~(Position(r) > first + PerPage)
          PROVE  r \in Range(page)
      BY <1>2, <1>3, <1>11, <2>2
    <2> QED BY <2>1, <2>2
  <1>14. ASSUME k < PerPage, NEW r \in OnList
         PROVE  ~(Position(r) > first + PerPage)
    BY <1>2, <1>3, <1>6, <1>8, <1>14
  <1> QED BY <1>4, <1>5, <1>8, <1>9, <1>10, <1>13, <1>14

\* A reader that met all that is newer than a page, and all that is older than
\* its mark, has met all but what stands behind the page, once it keeps the page.
LEMMA PageCovers ==
    ASSUME remote \in [Records -> Stamps], StampsDiffer, NEW p \in Nat \ {0}, NEW mark \in Stamps
    PROVE  /\ \A r \in OnList : Ahead(r, 1)
           /\ \A r \in OnList : Ahead(r, p) =>
                  r \in Range(AtOrAbove(Page(p), mark)) \/ remote[r] < mark \/ Ahead(r, p + 1)
           /\ \A r \in OnList, x \in Range(Page(p)) : remote[r] <= remote[x] => Ahead(r, p)
  <1>1. /\ Sorted(Page(p))
        /\ Range(Page(p)) = {r \in OnList : Ahead(r, p) /\ ~Ahead(r, p + 1)}
    BY PageIs
  <1>2. Range(AtOrAbove(Page(p), mark)) = {r \in Range(Page(p)) : remote[r] >= mark}
    BY <1>1, AboveIs
  <1>3. /\ Cardinality(OnList) \in Nat
        /\ \A r \in OnList : Position(r) \in 1..Cardinality(OnList)
        /\ \A a, b \in OnList : remote[a] > remote[b] <=> Position(a) < Position(b)
    BY PositionsFollow
  <1>4. \A r \in OnList : Position(r) \in Nat \ {0} /\ remote[r] \in Int
    BY <1>3, CollectionAssumption DEF OnList, Stamps
  <1>5. mark \in Int
    BY CollectionAssumption DEF Stamps
  <1>6. \A r \in OnList : Ahead(r, 1)
    BY <1>4, CollectionAssumption DEF Ahead
  <1>7. ASSUME NEW r \in OnList, Ahead(r, p)
        PROVE  r \in Range(AtOrAbove(Page(p), mark)) \/ remote[r] < mark \/ Ahead(r, p + 1)
    BY <1>1, <1>2, <1>4, <1>5, <1>7
  <1>8. ASSUME NEW r \in OnList, NEW x \in Range(Page(p)), remote[r] <= remote[x]
        PROVE  Ahead(r, p)
    <2>1. x \in OnList /\ Ahead(x, p)
      BY <1>1
    <2>2. ~(remote[r] > remote[x])
      BY <1>4, <1>8, <2>1
    <2>3. ~(Position(r) < Position(x))
      BY <1>3, <2>1, <2>2
    <2>4. (p - 1) * PerPage \in Int
      BY PageNumbers
    <2> QED BY <1>4, <2>1, <2>3, <2>4 DEF Ahead
  <1> QED BY <1>6, <1>7, <1>8

\* A reader stops for a reason: behind the page is nothing, or nothing new.
LEMMA StopIsEarned ==
    ASSUME remote \in [Records -> Stamps], StampsDiffer, NEW p \in Nat \ {0}, NEW mark \in Stamps,
           NEW otherwise, otherwise \notin Ends, StopAt(Page(p), mark, otherwise) \in Ends,
           NEW r \in OnList, Ahead(r, p + 1)
    PROVE  remote[r] < mark
  <1>1. /\ Sorted(Page(p))
        /\ Len(Page(p)) < PerPage => ~Ahead(r, p + 1)
        /\ Range(Page(p)) = {x \in OnList : Ahead(x, p) /\ ~Ahead(x, p + 1)}
    BY PageIs
  <1>2. AtOrAbove(Page(p), mark) # Page(p)
    BY <1>1 DEF StopAt
  <1>3. PICK x \in Range(Page(p)) : remote[x] < mark
    BY <1>1, <1>2, AboveIs
  <1>4. x \in OnList /\ ~Ahead(x, p + 1)
    BY <1>1
  <1>5. /\ Cardinality(OnList) \in Nat
        /\ \A a \in OnList : Position(a) \in 1..Cardinality(OnList)
        /\ \A a, b \in OnList : remote[a] > remote[b] <=> Position(a) < Position(b)
    BY PositionsFollow
  <1>6. Position(x) \in Int /\ Position(r) \in Int /\ ((p + 1) - 1) * PerPage \in Int
    BY PageNumbers, <1>4, <1>5
  <1>7. Position(x) < Position(r)
    BY <1>4, <1>6 DEF Ahead
  <1>8. remote[x] > remote[r]
    BY <1>4, <1>5, <1>7
  <1> QED BY <1>3, <1>4, <1>8, CollectionAssumption DEF OnList, Stamps

\* What is kept of a page, or of a part of it, is not more than a page.
LEMMA KeptIs ==
    ASSUME remote \in [Records -> Stamps], StampsDiffer, NEW p \in Nat \ {0}, NEW mark \in Stamps,
           NEW n \in Nat
    PROVE  LET listed == Cut(Page(p), n)
               kept == AtOrAbove(listed, mark)
           IN /\ Range(listed) \subseteq OnList /\ Range(kept) \subseteq Range(listed)
              /\ DOMAIN kept = 1..Len(kept) /\ Len(kept) \in Nat
              /\ IsFiniteSet(Range(kept)) /\ Cardinality(Range(kept)) <= PerPage
              /\ n >= Len(Page(p)) => listed = Page(p)
  <1> DEFINE listed == Cut(Page(p), n)
             kept == AtOrAbove(listed, mark)
  <1>1. Sorted(Page(p)) /\ Len(Page(p)) <= PerPage /\ Len(Page(p)) \in Nat
    BY PageIs DEF Sorted
  <1>2. Sorted(listed) /\ Len(listed) <= Len(Page(p)) /\ Len(listed) \in Nat
        /\ (n >= Len(Page(p)) => listed = Page(p))
    BY <1>1, CutIs DEF Sorted
  <1> HIDE DEF listed
  <1>3. /\ Sorted(kept) /\ Len(kept) <= Len(listed)
        /\ Range(kept) = {r \in Range(listed) : remote[r] >= mark}
    BY <1>2, AboveIs
  <1> HIDE DEF kept
  <1>4. kept \in Seq(OnList) /\ Len(kept) \in Nat /\ DOMAIN kept = 1..Len(kept)
    BY <1>3 DEF Sorted
  <1>5. Len(kept) <= PerPage
    BY <1>1, <1>2, <1>3, <1>4, CollectionAssumption
  <1>6. Range(listed) \subseteq OnList
    BY <1>2 DEF Sorted, Range
  <1>7. IsFiniteSet(DOMAIN kept) /\ Cardinality(DOMAIN kept) = Len(kept)
    <2> DEFINE n2 == Len(kept)
    <2>1. n2 \in Nat /\ DOMAIN kept = 1..n2
      BY <1>4
    <2> HIDE DEF n2
    <2>2. IsFiniteSet(1..n2) /\ Cardinality(1..n2) = IF 1 > n2 THEN 0 ELSE n2 - 1 + 1
      BY <2>1, FS_Interval
    <2> QED BY <2>1, <2>2 DEF n2
  <1>8. kept \in Surjection(DOMAIN kept, Range(kept))
    BY <1>4 DEF Surjection, Range
  <1>9. IsFiniteSet(Range(kept)) /\ Cardinality(Range(kept)) <= Cardinality(DOMAIN kept)
    BY <1>7, <1>8, FS_Surjection
  <1>10. Cardinality(Range(kept)) \in Nat
    BY <1>9, FS_CardinalityType
  <1>11. Cardinality(Range(kept)) <= PerPage
    BY <1>4, <1>5, <1>7, <1>9, <1>10, CollectionAssumption
  <1> QED BY <1>2, <1>3, <1>4, <1>6, <1>9, <1>11 DEF listed, kept

-----------------------------------------------------------------------------
(* The collection: every step keeps what the readers rely on               *)

\* The runs that the theorems are about: a record that is listed is stored, no
\* cap is set, and a foreground run does not fall between a fetch and its commit.
OneReader == ~MayFail /\ ~MayOverlap /\ Caps = {0}

\* The list changes only with a record.
LEMMA ListStays ==
    ASSUME remote' = remote
    PROVE  /\ OnList' = OnList /\ Newest' = Newest
           /\ StampsDiffer' <=> StampsDiffer
           /\ \A r, p : Ahead(r, p)' <=> Ahead(r, p)
  <1>1. OnList' = OnList /\ Newest' = Newest
    BY DEF OnList, Newest
  <1>2. \A r : Position(r)' = Position(r)
    BY <1>1 DEF Position
  <1>3. StampsDiffer' <=> StampsDiffer
    BY <1>1 DEF StampsDiffer
  <1>4. \A r, p : Ahead(r, p)' <=> Ahead(r, p)
    BY <1>2 DEF Ahead
  <1> QED BY <1>1, <1>3, <1>4

\* A change moves its record to the front, and the others one place on at most.
LEMMA ChangeMoves ==
    ASSUME CollectionInv, NEW x \in Records, RemoteChange(x)
    PROVE  /\ remote' \in [Records -> Stamps] /\ StampsDiffer' /\ MarksPassed'
           /\ remote'[x] = Newest + 1 /\ \A h \in Marks : remote'[x] > h
           /\ Marks' = Marks
           /\ \A r \in OnList' : r # x => /\ r \in OnList /\ remote'[r] = remote[r]
                                          /\ \A p \in Nat : Ahead(r, p) => Ahead(r, p)'
  <1>1. /\ remote \in [Records -> Stamps] /\ StampsDiffer /\ MarksPassed
        /\ frontier.high \in Stamps /\ run.mark \in Stamps /\ run.high \in Stamps
        /\ slice.high \in Stamps /\ slice.began \in Stamps /\ began \in [Lanes -> Stamps]
    BY DEF CollectionInv, CollectionTyped
  <1>2. Stamps \subseteq Nat /\ MaxStamp \in Nat
    BY CollectionAssumption DEF Stamps
  <1>3. Newest \in Stamps /\ \A r \in Records : remote[r] <= Newest
    BY <1>1, NewestIs
  <1>4. Newest < MaxStamp /\ remote' = [remote EXCEPT ![x] = Newest + 1]
    BY DEF RemoteChange
  <1>5. Newest + 1 \in Stamps /\ Newest + 1 > Newest
    BY <1>2, <1>3, <1>4 DEF Stamps
  <1>6. /\ remote' \in [Records -> Stamps] /\ remote'[x] = Newest + 1
        /\ \A r \in Records : r # x => remote'[r] = remote[r]
    BY <1>1, <1>4, <1>5
  <1>a. ASSUME NEW r \in Records PROVE remote'[r] <= Newest + 1
    <2>1. remote[r] \in Nat /\ remote[r] <= Newest /\ Newest \in Nat
      BY <1>1, <1>2, <1>3
    <2>2. remote'[r] = Newest + 1 \/ remote'[r] = remote[r]
      BY <1>6
    <2> QED BY <2>1, <2>2
  <1>7. OnList' = OnList \union {x}
    BY <1>2, <1>3, <1>6 DEF OnList
  <1>8. StampsDiffer'
    BY <1>2, <1>3, <1>5, <1>6, <1>1, <1>7 DEF OnList, StampsDiffer
  <1>9. Newest' = Newest + 1
    <2>1. /\ \A r \in Records : remote'[r] <= Newest'
          /\ Newest' \in Stamps /\ (Newest' = 0 \/ \E r \in Records : remote'[r] = Newest')
      <3> DEFINE S == {remote'[r] : r \in Records} \union {0}
      <3>1. S \in SUBSET Stamps /\ S # {}
        BY <1>2, <1>6, CollectionAssumption DEF Stamps
      <3>2. Max(S) \in S /\ \A h \in S : h <= Max(S)
        BY <3>1, MaxOfStamps
      <3>3. Newest' = Max(S)
        BY DEF Newest
      <3> QED BY <3>1, <3>2, <3>3
    <2>2. Newest' >= Newest + 1 /\ Newest' # 0
      BY <1>2, <1>3, <1>6, <2>1
    <2>3. \E r \in Records : remote'[r] = Newest'
      BY <2>1, <2>2
    <2>5. Newest' <= Newest + 1
      <3>1. PICK r \in Records : remote'[r] = Newest'
        BY <2>3
      <3>2. remote'[r] <= Newest + 1
        BY <1>a
      <3> QED BY <3>1, <3>2
    <2>6. Newest' \in Nat /\ Newest \in Nat
      BY <1>2, <1>3, <2>1
    <2>7. Newest' >= Newest + 1
      BY <2>2
    <2> QED BY <2>5, <2>6, <2>7
  <1>10. Marks' = Marks /\ Marks \subseteq Stamps
    BY <1>1 DEF RemoteChange, Marks
  <1>11. \A h \in Marks : h < Newest + 1
    BY <1>1, <1>2, <1>3, <1>10 DEF MarksPassed
  <1>12. MarksPassed'
    BY <1>2, <1>3, <1>9, <1>10, <1>11 DEF MarksPassed
  <1>13. ASSUME NEW r \in OnList', r # x
         PROVE  /\ r \in OnList /\ remote'[r] = remote[r]
                /\ \A p \in Nat : Ahead(r, p) => Ahead(r, p)'
    <2>1. r \in OnList /\ remote'[r] = remote[r]
      BY <1>6, <1>7, <1>13 DEF OnList
    <2> DEFINE before == {y \in OnList : remote[y] >= remote[r]}
               after == {y \in OnList' : remote'[y] >= remote'[r]}
    <2>2. before \subseteq after
      <3>1. remote'[x] >= remote'[r]
        BY <2>1, <1>6, <1>a, <1>2, <1>5 DEF OnList
      <3>2. OnList \subseteq Records
        BY DEF OnList
      <3> QED BY <1>6, <1>7, <2>1, <3>1, <3>2
    <2>3. Position(r) = Cardinality(before) /\ Position(r)' = Cardinality(after)
      BY DEF Position
    <2>4. after \in SUBSET Records /\ IsFiniteSet(Records)
      BY <1>7, CollectionAssumption DEF OnList
    <2> HIDE DEF before, after
    <2>5. IsFiniteSet(after)
      BY <2>4, FS_Subset
    <2>6. IsFiniteSet(before) /\ Cardinality(before) <= Cardinality(after)
      BY <2>2, <2>5, FS_Subset
    <2>7. Position(r) \in Nat /\ Position(r)' \in Nat /\ Position(r) <= Position(r)'
      BY <2>3, <2>5, <2>6, FS_CardinalityType
    <2>8. \A p \in Nat : Ahead(r, p) => Ahead(r, p)'
      BY CollectionAssumption, <2>7 DEF Ahead
    <2> QED BY <2>1, <2>8
  <1> QED BY <1>6, <1>8, <1>10, <1>11, <1>12, <1>13

\* A change at the provider is ahead of every mark.
LEMMA ChangeKeeps ==
    ASSUME CollectionInv, NEW x \in Records, RemoteChange(x)
    PROVE  CollectionInv'
  <1>1. CollectionTyped /\ WatermarkIsSound /\ (\A l \in Lanes : LaneSound(l)) /\ RunSound /\ SliceSound
    BY DEF CollectionInv
  <1>2. /\ remote' \in [Records -> Stamps] /\ StampsDiffer' /\ MarksPassed'
        /\ \A h \in Marks : remote'[x] > h
        /\ Marks' = Marks
        /\ \A r \in OnList' : r # x => /\ r \in OnList /\ remote'[r] = remote[r]
                                       /\ \A p \in Nat : Ahead(r, p) => Ahead(r, p)'
    BY ChangeMoves
  <1>3. UNCHANGED <<cached, frontier, lanes, run, slice, began, runs>>
    BY DEF RemoteChange
  <1>4. CollectionTyped'
    BY <1>1, <1>2, <1>3 DEF CollectionTyped
  <1>5. \A h \in Marks : h \in Int /\ remote'[x] \in Int
    BY <1>1, <1>2, CollectionAssumption DEF CollectionTyped, Marks, Stamps
  <1>6. \A h \in Marks : ~(remote'[x] <= h) /\ ~(remote'[x] < h)
    BY <1>2, <1>5
  <1>7. \A r \in Records : r \in OnList' <=> remote'[r] # 0
    BY DEF OnList
  <1>8. \A r \in OnList' : r # x => (Held(r)' <=> Held(r)) /\ (WillHold(r)' <=> WillHold(r))
    BY <1>2, <1>3 DEF Held, WillHold
  <1>9. WatermarkIsSound'
    BY <1>1, <1>2, <1>3, <1>6, <1>7 DEF Marks, WatermarkIsSound, OnList
  <1>10. ASSUME NEW l \in Lanes PROVE LaneSound(l)'
    BY <1>1, <1>3, PageToStart, <1>2, <1>6, <1>8 DEF Marks, StartPage, CollectionTyped, LaneSound
  <1>11. RunSound'
    BY <1>1, <1>2, <1>3, <1>6, <1>8 DEF Marks, CollectionTyped, RunSound
  <1>12. SliceSound'
    <2>1. slice.high \in Marks /\ slice.began \in Marks
      BY DEF Marks
    <2>2. PICK p \in Nat : p = Max({1, slice.next.page})
      BY <1>1, PageToStart DEF CollectionTyped
    <2>3. SUFFICES ASSUME slice.on PROVE SliceSound'
      BY <1>3 DEF SliceSound
    <2>4. ASSUME NEW r \in DOMAIN slice.items
          PROVE  slice.items[r] = remote'[r] \/ (\A h \in Marks : remote'[r] > h)
      BY <1>1, <2>3, <1>2 DEF SliceSound, CollectionTyped, RemoteChange
    <2>5. slice.stop \in Ends => \A r \in OnList' : remote'[r] < slice.high => WillHold(r)'
      BY <1>1, <1>2, <1>6, <1>8, <2>1, <2>3 DEF SliceSound
    <2>6. \A r \in OnList' : remote'[r] <= slice.began =>
              WillHold(r)' \/ (slice.next.status \notin Over /\ Ahead(r, p)')
      BY <1>1, <1>2, <1>6, <1>8, <2>1, <2>2, <2>3 DEF SliceSound
    <2>7. ~run.on
      BY <1>1, <2>3 DEF SliceSound
    <2>8. slice' = slice /\ run' = run
      BY <1>3
    <2>9. Max({1, slice'.next.page}) = p
      BY <2>2, <2>8
    <2> QED BY <1>2, <2>4, <2>5, <2>6, <2>7, <2>8, <2>9 DEF SliceSound
  <1> QED BY <1>2, <1>4, <1>9, <1>10, <1>11, <1>12 DEF CollectionInv

\* The watermark after a page: complete only if the traversal came to an end.
LEMMA FrontierIs ==
    ASSUME CollectionTyped, NEW stop \in Stops, NEW high \in Stamps
    PROVE  /\ FrontierAfter(stop, high) \in [status : {"none", "open", "complete"}, high : Stamps]
           /\ FrontierAfter(stop, high).high \in {high, frontier.high}
           /\ FrontierAfter(stop, high).status = "complete" =>
                  \/ stop \in Ends /\ FrontierAfter(stop, high).high = high
                  \/ FrontierAfter(stop, high) = frontier /\ frontier.status = "complete"
  <1>1. frontier \in [status : {"none", "open", "complete"}, high : Stamps]
    BY DEF CollectionTyped
  <1>2. CASE stop \notin Ends /\ frontier.status = "complete"
    BY <1>2, <1>1 DEF FrontierAfter, Ends
  <1>3. CASE stop \in Ends
    BY <1>3 DEF FrontierAfter, Ends
  <1>4. CASE stop \notin Ends /\ frontier.status # "complete"
    BY <1>4 DEF FrontierAfter, Ends
  <1> QED BY <1>2, <1>3, <1>4

\* The mark a traversal may stop at is sound as the watermark is.
LEMMA MarkIsSound ==
    ASSUME CollectionInv
    PROVE  /\ CompleteWatermark \in Stamps /\ CompleteWatermark \in {0, frontier.high}
           /\ \A r \in OnList : remote[r] < CompleteWatermark => Held(r)
  <1>1. /\ remote \in [Records -> Stamps] /\ WatermarkIsSound
        /\ frontier.high \in Stamps /\ 0 \in Stamps
    BY CollectionAssumption DEF CollectionInv, CollectionTyped, Stamps
  <1>2. CASE frontier.status = "complete"
    BY <1>1, <1>2 DEF CompleteWatermark, WatermarkIsSound, OnList, Held
  <1>3. CASE frontier.status # "complete"
    BY <1>1, CollectionAssumption, <1>3 DEF OnList, Stamps, CompleteWatermark
  <1> QED BY <1>2, <1>3

\* Storing records as they are listed loses nothing.
LEMMA StoreIs ==
    ASSUME CollectionTyped, remote' = remote, NEW S, Store(S)
    PROVE  /\ cached' \in [Records -> Stamps]
           /\ \A r \in Records : Held(r) \/ r \in S => Held(r)'
  BY DEF CollectionTyped, Store, Held

\* A step of a foreground run leaves the daemon's lanes as sound as they were.
LEMMA ReaderKeeps ==
    ASSUME CollectionInv, ~slice.on, UNCHANGED <<remote, lanes, slice, began>>,
           runs' \in 0..MaxRuns, cached' \in [Records -> Stamps],
           \A r \in Records : Held(r) => Held(r)',
           frontier' \in [status : {"none", "open", "complete"}, high : Stamps],
           run' \in [on : BOOLEAN, page : Nat, mark : Stamps, high : Stamps, cap : {0}],
           frontier'.high <= Newest, run'.mark <= Newest, run'.high <= Newest,
           WatermarkIsSound', RunSound'
    PROVE  CollectionInv'
  <1>1. CollectionTyped /\ StampsDiffer /\ MarksPassed /\ \A l \in Lanes : LaneSound(l)
    BY DEF CollectionInv
  <1>2. /\ OnList' = OnList /\ Newest' = Newest
        /\ StampsDiffer' <=> StampsDiffer
        /\ \A r, p : Ahead(r, p)' <=> Ahead(r, p)
    BY ListStays
  <1>3. CollectionTyped'
    BY <1>1 DEF CollectionTyped
  <1>4. MarksPassed'
    BY <1>1, <1>2 DEF MarksPassed, Marks
  <1>5. ASSUME NEW l \in Lanes PROVE LaneSound(l)'
    BY <1>1, <1>2 DEF OnList, StartPage, Ahead, Position, LaneSound
  <1>6. SliceSound'
    BY DEF SliceSound
  <1> QED BY <1>1, <1>2, <1>3, <1>4, <1>5, <1>6 DEF CollectionInv

\* A run starts with the mark of the last complete traversal.
LEMMA StartKeeps ==
    ASSUME CollectionInv, OneReader, NEW cap \in Caps, StartRun(cap)
    PROVE  CollectionInv'
  <1>1. CollectionTyped /\ MarksPassed /\ WatermarkIsSound /\ cap = 0 /\ ~slice.on
    BY DEF CollectionInv, OneReader, StartRun
  <1>2. /\ run' = [on |-> TRUE, page |-> 1, mark |-> CompleteWatermark, high |-> 0, cap |-> 0]
        /\ UNCHANGED <<remote, cached, frontier, lanes, slice, began>>
        /\ runs < MaxRuns /\ runs' = runs + 1
    BY <1>1 DEF StartRun, NoRun
  <1>3. /\ CompleteWatermark \in Stamps /\ CompleteWatermark \in {0, frontier.high}
        /\ \A r \in OnList : remote[r] < CompleteWatermark => Held(r)
    BY MarkIsSound
  <1>4. Stamps \subseteq Nat /\ 0 \in Stamps /\ MaxRuns \in Nat
    BY CollectionAssumption DEF Stamps
  <1>5. remote \in [Records -> Stamps] /\ Newest \in Stamps /\ frontier.high <= Newest
    BY <1>1, NewestIs DEF CollectionTyped, MarksPassed, Marks
  <1>6. OnList' = OnList
    BY <1>2, ListStays
  <1>7. RunSound'
    <2>1. ASSUME NEW r \in OnList PROVE ~(remote[r] <= 0)
      <3>1. remote[r] \in Nat /\ remote[r] # 0
        BY <1>4, <1>5 DEF OnList
      <3> QED BY <3>1
    <2> QED BY <1>2, <1>3, <1>6, <2>1 DEF RunSound, Held
  <1>8. WatermarkIsSound'
    BY <1>1, <1>2 DEF WatermarkIsSound
  <1>9. runs' \in 0..MaxRuns
    BY <1>1, <1>2, <1>4 DEF CollectionTyped
  <1>10. run'.mark <= Newest /\ run'.high <= Newest
    BY <1>2, <1>3, <1>4, <1>5
  <1>11. run' \in [on : BOOLEAN, page : Nat, mark : Stamps, high : Stamps, cap : {0}]
    BY <1>2, <1>3, <1>4
  <1>12. \A r \in Records : Held(r) => Held(r)'
    BY <1>2 DEF Held
  <1> QED BY <1>1, <1>2, <1>5, <1>7, <1>8, <1>9, <1>10, <1>11, <1>12, ReaderKeeps DEF CollectionTyped

\* A run that is cut short leaves no claim behind.
LEMMA StopKeeps ==
    ASSUME CollectionInv, NEW n \in Nat, RunStops(n) \/ RunCrashes(n)
    PROVE  CollectionInv'
  <1>1. CollectionTyped /\ StampsDiffer /\ MarksPassed /\ WatermarkIsSound /\ run.on /\ ~slice.on /\ run.page \in Nat \ {0}
    BY DEF CollectionInv, RunStops, RunCrashes, SliceSound, RunSound, CollectionTyped
  <1>2. /\ remote \in [Records -> Stamps] /\ run.mark \in Stamps /\ run.high \in Stamps
        /\ runs \in 0..MaxRuns /\ frontier \in [status : {"none", "open", "complete"}, high : Stamps]
    BY <1>1 DEF CollectionTyped
  <1>3. UNCHANGED <<remote, lanes, slice, began, runs>> /\ run' = NoRun
    BY DEF RunStops, RunCrashes, FinishRun
  <1>4. \E S : Store(S)
    BY DEF RunStops, RunCrashes
  <1>5. cached' \in [Records -> Stamps] /\ \A r \in Records : Held(r) => Held(r)'
    BY <1>1, <1>3, <1>4, StoreIs
  <1>6. Newest \in Stamps /\ Stamps \subseteq Nat /\ 0 \in Stamps /\ \A r \in Records : remote[r] <= Newest
    BY <1>2, NewestIs, CollectionAssumption DEF Stamps
  <1>7. frontier.high <= Newest /\ run.high <= Newest
    BY <1>1 DEF MarksPassed, Marks
  <1>8. \/ frontier' = frontier
        \/ \E high \in Stamps : high <= Newest /\ frontier' = FrontierAfter("bounded", high)
    <2>1. CASE RunCrashes(n)
      BY <2>1 DEF RunCrashes
    <2>2. CASE RunStops(n)
      <3> DEFINE items == AtOrAbove(Cut(Page(run.page), n), run.mark)
      <3>1. frontier' = FrontierAfter("bounded", Highest(items, run.high))
        BY <2>2 DEF RunStops, FinishRun
      <3>2. Range(items) \subseteq Records
        BY <1>1, <1>2, KeptIs DEF OnList
      <3> HIDE DEF items
      <3>3. Highest(items, run.high) \in Stamps
            /\ (Highest(items, run.high) = run.high \/ \E r \in Range(items) : Highest(items, run.high) = remote[r])
        BY <1>2, <3>2, HighestIs
      <3>4. Highest(items, run.high) <= Newest
        BY <1>6, <1>7, <3>2, <3>3
      <3> QED BY <3>1, <3>3, <3>4
    <2> QED BY <2>1, <2>2
  <1>9. /\ frontier' \in [status : {"none", "open", "complete"}, high : Stamps]
        /\ frontier'.high <= Newest
        /\ frontier'.status = "complete" => frontier' = frontier
    <2>1. CASE frontier' = frontier
      BY <1>2, <1>7, <2>1
    <2>2. ASSUME NEW high \in Stamps, high <= Newest, frontier' = FrontierAfter("bounded", high)
          PROVE  /\ frontier' \in [status : {"none", "open", "complete"}, high : Stamps]
                 /\ frontier'.high <= Newest
                 /\ frontier'.status = "complete" => frontier' = frontier
      BY <1>1, <1>7, <2>2, FrontierIs DEF Stops, Ends
    <2> QED BY <1>8, <2>1, <2>2
  <1>10. WatermarkIsSound'
    BY <1>1, <1>3, <1>5, <1>9 DEF WatermarkIsSound, Held
  <1>11. RunSound'
    BY <1>3 DEF RunSound, NoRun
  <1>12. /\ run' \in [on : BOOLEAN, page : Nat, mark : Stamps, high : Stamps, cap : {0}]
         /\ run'.mark <= Newest /\ run'.high <= Newest
    BY <1>3, <1>6 DEF NoRun
  <1> QED BY <1>1, <1>2, <1>3, <1>5, <1>9, <1>10, <1>11, <1>12, ReaderKeeps

\* What a foreground run does with a page when every record is stored.
LEMMA ListPageDoes ==
    ASSUME CollectionInv, OneReader, ListPage
    PROVE  LET items == AtOrAbove(Page(run.page), run.mark)
               high == Highest(Page(run.page), run.high)
               stop == StopAt(Page(run.page), run.mark, "more")
           IN /\ Store(Range(items))
              /\ \/ stop \in Ends /\ frontier' = FrontierAfter(stop, high) /\ run' = NoRun
                 \/ /\ stop = "more" /\ frontier' = frontier
                    /\ run' = [[[run EXCEPT !.page = run.page + 1] EXCEPT !.high = high] EXCEPT !.cap = 0]
  <1> DEFINE listed == Page(run.page)
             items == AtOrAbove(listed, run.mark)
             high == Highest(listed, run.high)
  <1>1. run.cap = 0 /\ run \in [on : BOOLEAN, page : Nat, mark : Stamps, high : Stamps, cap : {0}]
    BY DEF CollectionInv, CollectionTyped
  <1>2. \A bad : Processed(items, run.cap, bad) = DOMAIN items
    BY <1>1 DEF Processed
  <1>3. \A other : StopAt(listed, run.mark, other) \in Ends \union {other}
    BY DEF StopAt, Ends
  <1> HIDE DEF items, listed
  <1>4. /\ Store({items[i] : i \in Processed(items, run.cap, {})} \ {})
        /\ IF StopAt(listed, run.mark, "more") # "more"
           THEN FinishRun(StopAt(listed, run.mark, "more"), high)
           ELSE /\ run' = [[[run EXCEPT !.page = run.page + 1] EXCEPT !.high = high] EXCEPT !.cap = 0]
                /\ UNCHANGED frontier
    BY <1>1 DEF ListPage, OneReader, items, listed
  <1>5. Store(Range(items))
    BY <1>2, <1>4 DEF Range
  <1> QED BY <1>3, <1>4, <1>5 DEF FinishRun, items, listed

\* A page settles what stands on it, and all behind it if the reader may stop.
LEMMA PageSettles ==
    ASSUME remote \in [Records -> Stamps], StampsDiffer, NEW p \in Nat \ {0}, NEW mark \in Stamps,
           \A x \in OnList : remote[x] < mark => Held(x),
           NEW otherwise, otherwise \notin Ends, NEW r \in OnList, Ahead(r, p)
    PROVE  \/ Held(r)
           \/ r \in Range(AtOrAbove(Page(p), mark))
           \/ Ahead(r, p + 1) /\ StopAt(Page(p), mark, otherwise) \notin Ends
  <1>1. r \in Range(AtOrAbove(Page(p), mark)) \/ remote[r] < mark \/ Ahead(r, p + 1)
    BY PageCovers
  <1>2. ASSUME Ahead(r, p + 1), StopAt(Page(p), mark, otherwise) \in Ends
        PROVE  Held(r)
    BY <1>2, StopIsEarned
  <1> QED BY <1>1, <1>2

\* A page of a foreground run.
LEMMA ListKeeps ==
    ASSUME CollectionInv, OneReader, ListPage
    PROVE  CollectionInv'
  <1> DEFINE items == AtOrAbove(Page(run.page), run.mark)
             high == Highest(Page(run.page), run.high)
             stop == StopAt(Page(run.page), run.mark, "more")
  <1>1. CollectionTyped /\ StampsDiffer /\ MarksPassed /\ WatermarkIsSound /\ run.on /\ ~slice.on /\ run.page \in Nat \ {0}
    BY DEF CollectionInv, ListPage, SliceSound, RunSound, CollectionTyped
  <1>2. /\ remote \in [Records -> Stamps] /\ run.mark \in Stamps /\ run.high \in Stamps
        /\ runs \in 0..MaxRuns /\ frontier \in [status : {"none", "open", "complete"}, high : Stamps]
        /\ run \in [on : BOOLEAN, page : Nat, mark : Stamps, high : Stamps, cap : {0}]
    BY <1>1 DEF CollectionTyped
  <1>3. UNCHANGED <<remote, lanes, slice, began, runs>>
    BY DEF ListPage
  <1>4. Store(Range(items))
    BY ListPageDoes
  <1>5. \/ stop \in Ends /\ frontier' = FrontierAfter(stop, high) /\ run' = NoRun
        \/ /\ stop = "more" /\ frontier' = frontier
           /\ run' = [[[run EXCEPT !.page = run.page + 1] EXCEPT !.high = high] EXCEPT !.cap = 0]
    BY ListPageDoes
  <1>6. /\ Range(Page(run.page)) \subseteq OnList /\ OnList \subseteq Records
        /\ \A r \in OnList, x \in Range(Page(run.page)) : remote[r] <= remote[x] => Ahead(r, run.page)
    BY <1>1, <1>2, PageIs, PageCovers DEF OnList
  <1>7. /\ high \in Stamps
        /\ high = run.high \/ \E x \in Range(Page(run.page)) : high = remote[x]
    BY <1>2, <1>6, HighestIs
  <1>8. /\ \A r \in OnList : remote[r] < run.mark => Held(r)
        /\ \A r \in OnList : remote[r] <= run.high => Held(r) \/ Ahead(r, run.page)
    BY <1>1 DEF CollectionInv, RunSound
  <1>9. /\ cached' \in [Records -> Stamps]
        /\ \A r \in Records : Held(r) \/ r \in Range(items) => Held(r)'
    BY <1>1, <1>3, <1>4, StoreIs
  <1>10. "more" \notin Ends /\ Ends \subseteq Stops
    BY DEF Ends, Stops
  <1>11. ASSUME NEW r \in OnList, Ahead(r, run.page)
         PROVE  Held(r)' \/ (Ahead(r, run.page + 1) /\ stop \notin Ends)
    BY <1>1, <1>2, <1>8, <1>10, <1>11, PageSettles, <1>6, <1>9
  <1> HIDE DEF high, stop, items
  <1>12. ASSUME NEW r \in OnList, remote[r] <= high
         PROVE  Held(r)' \/ (Ahead(r, run.page + 1) /\ stop \notin Ends)
    BY <1>6, <1>7, <1>8, <1>12, <1>9, <1>11
  <1>13. Newest \in Stamps /\ Stamps \subseteq Nat /\ 0 \in Stamps /\ \A r \in Records : remote[r] <= Newest
    BY <1>2, NewestIs, CollectionAssumption DEF Stamps
  <1>14. frontier.high <= Newest /\ run.high <= Newest /\ run.mark <= Newest
    BY <1>1 DEF MarksPassed, Marks
  <1>15. high <= Newest
    BY <1>6, <1>7, <1>13, <1>14
  <1>16. /\ OnList' = OnList
         /\ \A r, p : Ahead(r, p)' <=> Ahead(r, p)
    BY <1>3, ListStays
  <1>17. CASE stop \in Ends /\ frontier' = FrontierAfter(stop, high) /\ run' = NoRun
    <2>1. /\ frontier' \in [status : {"none", "open", "complete"}, high : Stamps]
          /\ frontier'.high \in {high, frontier.high}
          /\ frontier'.status = "complete" =>
                 frontier'.high = high \/ (frontier' = frontier /\ frontier.status = "complete")
      BY <1>1, <1>7, <1>10, <1>17, FrontierIs
    <2>2. frontier'.high <= Newest
      BY <1>14, <1>15, <2>1
    <2>3. WatermarkIsSound'
      <3>1. SUFFICES ASSUME frontier'.status = "complete", NEW r \in Records,
                            remote[r] # 0, remote[r] < frontier'.high
                     PROVE  Held(r)'
        BY <1>3 DEF WatermarkIsSound, Held
      <3>2. r \in OnList /\ remote[r] \in Nat
        BY <1>2, <1>13, <3>1 DEF OnList
      <3>3. CASE frontier'.high = high
        BY <1>7, <1>13, <3>1, <3>2, <3>3, <1>12, <1>17
      <3>4. CASE frontier' = frontier /\ frontier.status = "complete"
        BY <1>1, <3>1, <3>4, <1>9 DEF WatermarkIsSound, Held
      <3> QED BY <2>1, <3>1, <3>3, <3>4
    <2>4. RunSound'
      BY <1>17 DEF RunSound, NoRun
    <2>5. /\ run' \in [on : BOOLEAN, page : Nat, mark : Stamps, high : Stamps, cap : {0}]
          /\ run'.mark <= Newest /\ run'.high <= Newest
      BY <1>13, <1>17 DEF NoRun
    <2> QED BY <1>1, <1>2, <1>3, <1>9, <2>1, <2>2, <2>3, <2>4, <2>5, ReaderKeeps
  <1>18. CASE /\ stop = "more" /\ frontier' = frontier
              /\ run' = [[[run EXCEPT !.page = run.page + 1] EXCEPT !.high = high] EXCEPT !.cap = 0]
    <2>1. /\ run' \in [on : BOOLEAN, page : Nat, mark : Stamps, high : Stamps, cap : {0}]
          /\ run'.mark = run.mark /\ run'.high = high /\ run'.page = run.page + 1 /\ run'.page # 0
      <3> DEFINE T == [on : BOOLEAN, page : Nat, mark : Stamps, high : Stamps, cap : {0}]
                 a == [run EXCEPT !.page = run.page + 1]
                 b == [a EXCEPT !.high = high]
      <3>1. run.page + 1 \in Nat /\ run.page + 1 # 0
        BY <1>1
      <3>2. a \in T /\ a.page = run.page + 1 /\ a.mark = run.mark
        BY <1>2, <3>1
      <3>3. b \in T /\ b.page = run.page + 1 /\ b.mark = run.mark /\ b.high = high
        <4> HIDE DEF a
        <4> QED BY <1>7, <3>2
      <3>4. run' = [b EXCEPT !.cap = 0]
        BY <1>18
      <3> HIDE DEF b
      <3> QED BY <3>1, <3>3, <3>4
    <2>2. WatermarkIsSound'
      BY <1>1, <1>3, <1>9, <1>18 DEF WatermarkIsSound, Held
    <2>3. RunSound'
      BY <1>3, <1>6, <1>8, <1>9, <1>16, <2>1, <1>12 DEF RunSound
    <2> QED BY <1>1, <1>2, <1>3, <1>9, <1>14, <1>15, <1>18, <2>1, <2>2, <2>3, ReaderKeeps
  <1> QED BY <1>5, <1>17, <1>18

\* No stage.
LEMMA EmptySliceIs ==
    /\ NoSlice.on \in BOOLEAN /\ NoSlice.lane \in Lanes /\ NoSlice.stop \in Stops
    /\ NoSlice.high \in Stamps /\ NoSlice.began \in Stamps
    /\ NoSlice.next \in [status : LaneStatuses, page : Nat]
    /\ DOMAIN NoSlice.items = {} /\ DOMAIN NoSlice.items \subseteq Records
    /\ Cardinality(DOMAIN NoSlice.items) <= PerPage
    /\ \A r \in DOMAIN NoSlice.items : NoSlice.items[r] \in Stamps
  <1>1. 0 \in Stamps /\ PerPage \in Nat
    BY CollectionAssumption DEF Stamps
  <1>2. NoSlice.items = <<>> /\ DOMAIN NoSlice.items = {}
    BY DEF NoSlice
  <1>3. Cardinality(DOMAIN NoSlice.items) = 0
    BY <1>2, FS_EmptySet
  <1>4. /\ NoSlice.on = FALSE /\ NoSlice.lane = "head" /\ NoSlice.stop = "partial"
        /\ NoSlice.high = 0 /\ NoSlice.began = 0 /\ NoSlice.next = [status |-> "none", page |-> 0]
    BY DEF NoSlice
  <1>5. NoSlice.next \in [status : LaneStatuses, page : Nat]
    <2>1. "none" \in LaneStatuses
      BY DEF LaneStatuses
    <2>2. [status |-> "none", page |-> 0] \in [status : LaneStatuses, page : Nat]
      BY <2>1
    <2>3. NoSlice.next = [status |-> "none", page |-> 0]
      BY <1>4
    <2> QED BY <2>2, <2>3, Zenon
  <1>6. NoSlice.on \in BOOLEAN
    BY <1>4, Zenon
  <1>7. NoSlice.lane \in Lanes /\ NoSlice.stop \in Stops
    BY <1>4 DEF Lanes, Stops
  <1>8. NoSlice.high \in Stamps /\ NoSlice.began \in Stamps
    BY <1>1, <1>4
  <1>9. Cardinality(DOMAIN NoSlice.items) <= PerPage
    BY <1>1, <1>3
  <1> QED BY <1>2, <1>5, <1>6, <1>7, <1>8, <1>9

\* A reset takes the mirror away, and with it every claim about it.
LEMMA ResetKeeps ==
    ASSUME CollectionInv, OneReader, ResetLive
    PROVE  CollectionInv'
  <1>1. CollectionTyped /\ StampsDiffer /\ MarksPassed /\ ~slice.on /\ ~run.on
    BY DEF CollectionInv, ResetLive, OneReader
  <1>2. /\ UNCHANGED <<remote, lanes, run, slice>> /\ cached' = [r \in Records |-> 0]
        /\ frontier' = [status |-> "none", high |-> 0] /\ began' = [l \in Lanes |-> 0]
        /\ runs < MaxRuns /\ runs' = runs + 1
    BY DEF ResetLive
  <1>3. Stamps \subseteq Nat /\ 0 \in Stamps /\ MaxRuns \in Nat
    BY CollectionAssumption DEF Stamps
  <1>4. remote \in [Records -> Stamps] /\ Newest \in Stamps
    BY <1>1, NewestIs DEF CollectionTyped
  <1>5. OnList' = OnList /\ Newest' = Newest /\ (StampsDiffer' <=> StampsDiffer)
    BY <1>2, ListStays
  <1>6. CollectionTyped'
    BY <1>1, <1>2, <1>3 DEF CollectionTyped
  <1>7. MarksPassed'
    <2>1. \A h \in Marks : h <= Newest
      BY <1>1 DEF MarksPassed
    <2>2. Marks' \subseteq Marks \union {0}
      BY <1>2 DEF Marks
    <2>3. 0 <= Newest
      BY <1>3, <1>4
    <2> QED BY <1>5, <2>1, <2>2, <2>3 DEF MarksPassed
  <1>8. WatermarkIsSound' /\ RunSound' /\ SliceSound'
    BY <1>1, <1>2 DEF WatermarkIsSound, RunSound, SliceSound
  <1>9. ASSUME NEW l \in Lanes PROVE LaneSound(l)'
    <2>1. ASSUME NEW r \in OnList' PROVE ~(remote'[r] <= began'[l])
      <3>1. remote'[r] \in Nat /\ remote'[r] # 0
        BY <1>2, <1>3, <1>4, <2>1 DEF OnList
      <3> QED BY <1>2, <3>1
    <2> QED BY <2>1 DEF LaneSound
  <1> QED BY <1>1, <1>5, <1>6, <1>7, <1>8, <1>9 DEF CollectionInv

\* The head's interval passes, or a stage is given up: no claim is added.
LEMMA QuietKeeps ==
    ASSUME CollectionInv, Lapse \/ DropSlice
    PROVE  CollectionInv'
  <1>1. /\ CollectionTyped /\ StampsDiffer /\ MarksPassed /\ WatermarkIsSound /\ RunSound
        /\ SliceSound /\ \A l \in Lanes : LaneSound(l)
    BY DEF CollectionInv
  <1>2. UNCHANGED <<remote, cached, frontier, run, began, runs>>
    BY DEF Lapse, DropSlice
  <1>3. /\ OnList' = OnList /\ Newest' = Newest
        /\ StampsDiffer' <=> StampsDiffer
        /\ \A r, p : Ahead(r, p)' <=> Ahead(r, p)
    BY <1>2, ListStays
  <1>4. \A r : Held(r)' <=> Held(r)
    BY <1>2 DEF Held
  <1>5. WatermarkIsSound' /\ RunSound'
    BY <1>2, <1>1, <1>3, <1>4 DEF Ahead, Position, OnList, WatermarkIsSound, RunSound
  <1>6. CASE Lapse
    <2>1. /\ lanes["head"].status = "fresh" /\ slice' = slice
          /\ lanes' = [lanes EXCEPT !["head"].status = "due"]
      BY <1>6 DEF Lapse
    <2>2. /\ lanes \in [Lanes -> [status : LaneStatuses, page : Nat]]
          /\ "due" \in LaneStatuses /\ "due" \in Over /\ "fresh" \in Over /\ "head" \in Lanes
      BY <1>1 DEF CollectionTyped, LaneStatuses, Over, Lanes
    <2>3. /\ lanes' \in [Lanes -> [status : LaneStatuses, page : Nat]]
          /\ \A l \in Lanes : /\ lanes'[l].page = lanes[l].page
                              /\ lanes'[l].status \in Over <=> lanes[l].status \in Over
      BY <2>1, <2>2
    <2>4. CollectionTyped'
      BY <1>1, <1>2, <2>1, <2>3 DEF CollectionTyped
    <2>5. MarksPassed'
      BY <1>1, <1>2, <1>3, <2>1 DEF MarksPassed, Marks
    <2>6. ASSUME NEW l \in Lanes PROVE LaneSound(l)'
      BY <2>3, <1>3, <1>1, <1>2, <1>4 DEF StartPage, Ahead, Position, LaneSound
    <2>7. SliceSound'
      BY <1>2, <1>4, <2>1, <1>3, <1>1 DEF WillHold, Ahead, Position, Marks, SliceSound
    <2> QED BY <1>1, <1>3, <1>5, <2>4, <2>5, <2>6, <2>7 DEF CollectionInv
  <1>7. CASE DropSlice
    <2>1. slice' = NoSlice /\ lanes' = lanes
      BY <1>7 DEF DropSlice
    <2>2. CollectionTyped'
      BY <1>1, <1>2, <2>1, EmptySliceIs DEF CollectionTyped
    <2>3. MarksPassed'
      <3>1. \A h \in Marks : h <= Newest
        BY <1>1 DEF MarksPassed
      <3>2. Marks' \subseteq Marks \union {0}
        BY <1>2, <2>1 DEF Marks, NoSlice
      <3>3. 0 <= Newest
        BY <1>1, NewestIs, CollectionAssumption DEF CollectionTyped, Stamps
      <3> QED BY <1>3, <3>1, <3>2, <3>3 DEF MarksPassed
    <2>4. ASSUME NEW l \in Lanes PROVE LaneSound(l)'
      BY <2>1, <1>3, <1>1, <1>2, <1>4 DEF StartPage, Ahead, Position, LaneSound
    <2>5. SliceSound'
      BY <2>1 DEF SliceSound, NoSlice
    <2> QED BY <1>1, <1>3, <1>5, <2>2, <2>3, <2>4, <2>5 DEF CollectionInv
  <1> QED BY <1>6, <1>7

\* A stage that is committed makes true what it was prepared to claim.
LEMMA CommitKeeps ==
    ASSUME CollectionInv, CommitSlice
    PROVE  CollectionInv'
  <1>1. /\ CollectionTyped /\ StampsDiffer /\ MarksPassed /\ WatermarkIsSound
        /\ slice.on /\ ~run.on /\ SliceSound
        /\ \A l \in Lanes : LaneSound(l)
    BY DEF CollectionInv, CommitSlice
  <1>2. /\ UNCHANGED <<remote, run, runs>> /\ slice' = NoSlice
        /\ cached' = [r \in Records |-> IF r \in DOMAIN slice.items THEN slice.items[r] ELSE cached[r]]
        /\ frontier' = FrontierAfter(slice.stop, slice.high)
        /\ lanes' = [lanes EXCEPT ![slice.lane] = slice.next]
        /\ began' = [began EXCEPT ![slice.lane] = slice.began]
    BY DEF CommitSlice
  <1>3. /\ remote \in [Records -> Stamps] /\ slice.stop \in Stops /\ slice.high \in Stamps
        /\ slice.began \in Stamps /\ slice.lane \in Lanes
        /\ slice.next \in [status : LaneStatuses, page : Nat]
        /\ lanes \in [Lanes -> [status : LaneStatuses, page : Nat]] /\ began \in [Lanes -> Stamps]
        /\ frontier.high \in Stamps
    BY <1>1 DEF CollectionTyped
  <1>4. Stamps \subseteq Nat /\ 0 \in Stamps
    BY CollectionAssumption DEF Stamps
  <1>5. /\ OnList' = OnList /\ Newest' = Newest
        /\ StampsDiffer' <=> StampsDiffer
        /\ \A r, p : Ahead(r, p)' <=> Ahead(r, p)
    BY <1>2, ListStays
  <1>6. OnList \subseteq Records
    BY DEF OnList
  <1>7. \A r \in Records : Held(r)' <=> WillHold(r)
    BY <1>2 DEF Held, WillHold
  <1>8. \A r \in OnList, h \in Marks : remote[r] <= h /\ Held(r) => WillHold(r)
    <2>1. SUFFICES ASSUME NEW r \in OnList, NEW h \in Marks, remote[r] <= h, Held(r)
                   PROVE  WillHold(r)
      OBVIOUS
    <2>2. ~(remote[r] > h)
      <3>1. Marks \subseteq Stamps
        BY <1>1 DEF Marks, CollectionTyped
      <3>2. h \in Nat /\ remote[r] \in Nat
        BY <1>3, <1>4, <1>6, <3>1
      <3> QED BY <2>1, <3>2
    <2>3. r \in DOMAIN slice.items => slice.items[r] = remote[r]
      BY <1>1, <2>2 DEF SliceSound
    <2> QED BY <2>1, <2>3 DEF WillHold
  <1>9. /\ slice.stop \in Ends => \A r \in OnList : remote[r] < slice.high => WillHold(r)
        /\ \A r \in OnList : remote[r] <= slice.began =>
               WillHold(r) \/ (slice.next.status \notin Over /\ Ahead(r, Max({1, slice.next.page})))
    BY <1>1 DEF SliceSound
  <1>10. /\ frontier' \in [status : {"none", "open", "complete"}, high : Stamps]
         /\ frontier'.high \in {slice.high, frontier.high}
         /\ frontier'.status = "complete" =>
               \/ slice.stop \in Ends /\ frontier'.high = slice.high
               \/ frontier' = frontier /\ frontier.status = "complete"
    BY <1>1, <1>2, <1>3, FrontierIs
  <1>11. /\ \A l \in Lanes : l # slice.lane => lanes'[l] = lanes[l] /\ began'[l] = began[l]
         /\ lanes'[slice.lane] = slice.next /\ began'[slice.lane] = slice.began
         /\ lanes' \in [Lanes -> [status : LaneStatuses, page : Nat]] /\ began' \in [Lanes -> Stamps]
    BY <1>2, <1>3
  <1>12. CollectionTyped'
    <2>1. cached' \in [Records -> Stamps]
      BY <1>1, <1>2 DEF CollectionTyped
    <2> QED BY <1>1, <1>2, <1>10, <1>11, <2>1, EmptySliceIs DEF CollectionTyped
  <1>13. MarksPassed'
    <2>1. \A h \in Marks : h <= Newest
      BY <1>1 DEF MarksPassed
    <2>2. Marks' \subseteq Marks \union {0}
      BY <1>11, <1>2, <1>10 DEF Marks, NoSlice
    <2>3. 0 <= Newest
      BY <1>3, NewestIs, CollectionAssumption DEF Stamps
    <2> QED BY <1>5, <2>1, <2>2, <2>3 DEF MarksPassed
  <1>14. WatermarkIsSound'
    <2>1. SUFFICES ASSUME frontier'.status = "complete", NEW r \in Records,
                          remote[r] # 0, remote[r] < frontier'.high
                   PROVE  WillHold(r)
      BY <1>2, <1>7 DEF WatermarkIsSound, Held
    <2>2. r \in OnList /\ remote[r] \in Nat
      BY <1>3, <1>4, <2>1 DEF OnList
    <2>3. CASE slice.stop \in Ends /\ frontier'.high = slice.high
      BY <1>9, <2>1, <2>2, <2>3
    <2>4. CASE frontier' = frontier /\ frontier.status = "complete"
      <3>1. Held(r)
        BY <1>1, <2>1, <2>4 DEF WatermarkIsSound, Held
      <3>2. remote[r] <= frontier.high /\ frontier.high \in Marks
        <4>1. remote[r] < frontier.high
          BY <2>1, <2>4
        <4>2. frontier.high \in Nat
          BY <1>3, <1>4
        <4> QED BY <2>2, <4>1, <4>2 DEF Marks
      <3> QED BY <1>8, <2>2, <3>1, <3>2
    <2> QED BY <1>10, <2>1, <2>3, <2>4
  <1>15. ASSUME NEW l \in Lanes PROVE LaneSound(l)'
    <2>1. PICK p : p = StartPage(l)'
      OBVIOUS
    <2>2. SUFFICES ASSUME NEW r \in OnList, remote[r] <= began'[l]
                   PROVE  WillHold(r) \/ (lanes'[l].status \notin Over /\ Ahead(r, p))
      BY <1>5, <2>1, <1>2, <1>6, <1>7 DEF Ahead, Position, LaneSound
    <2>3. CASE l = slice.lane
      BY <1>11, <2>1, <2>3, <1>9, <2>2 DEF StartPage
    <2>4. CASE l # slice.lane
      BY <1>11, <2>1, <2>4, <1>1, <2>2, <1>8 DEF StartPage, LaneSound, Marks
    <2> QED BY <2>3, <2>4
  <1>16. RunSound' /\ SliceSound'
    BY <1>1, <1>2 DEF RunSound, SliceSound, NoSlice
  <1> QED BY <1>1, <1>5, <1>12, <1>13, <1>14, <1>15, <1>16 DEF CollectionInv

\* What the daemon stages of a page that came whole, or in part.
LEMMA FetchDoes ==
    ASSUME CollectionInv, OneReader, NEW received \in Nat, FetchSlice(received)
    PROVE  /\ ~slice.on /\ ~run.on /\ NextLane \in Lanes
           /\ UNCHANGED <<remote, cached, frontier, lanes, run, began, runs>>
           /\ StartPage(NextLane) \in Nat \ {0}
           /\ StartPage(NextLane) = IF lanes[NextLane].page = 0 THEN 1 ELSE lanes[NextLane].page
           /\ \E listed, kept, stop, degraded :
                 /\ listed = Cut(Page(StartPage(NextLane)), received)
                 /\ kept = AtOrAbove(listed, CompleteWatermark)
                 /\ degraded \in BOOLEAN
                 /\ degraded => stop = "partial"
                 /\ ~degraded => /\ listed = Page(StartPage(NextLane))
                                 /\ stop = StopAt(listed, CompleteWatermark, "bounded")
                 /\ slice' = [on |-> TRUE, lane |-> NextLane, stop |-> stop, high |-> Highest(listed, 0),
                              items |-> [r \in Range(kept) |-> remote[r]],
                              next |-> LaneAfter(NextLane, StartPage(NextLane), stop, degraded),
                              began |-> IF degraded THEN 0
                                        ELSE IF StartPage(NextLane) = 1 THEN Newest ELSE began[NextLane]]
  <1>1. CollectionTyped /\ StampsDiffer /\ remote \in [Records -> Stamps]
    BY DEF CollectionInv, CollectionTyped
  <1>2. NextLane \in Lanes /\ lanes[NextLane].page \in Nat
    BY <1>1 DEF FetchSlice, NextLane, Lanes, CollectionTyped
  <1>3. /\ StartPage(NextLane) \in Nat \ {0}
        /\ StartPage(NextLane) = IF lanes[NextLane].page = 0 THEN 1 ELSE lanes[NextLane].page
    BY <1>2, PageToStart DEF StartPage
  <1> DEFINE whole == Page(StartPage(NextLane))
             listed == Cut(whole, received)
             kept == AtOrAbove(listed, CompleteWatermark)
             degraded == received < Len(whole)
             stop == IF degraded THEN "partial" ELSE StopAt(listed, CompleteWatermark, "bounded")
  <1>4. /\ ~slice.on /\ ~run.on
        /\ UNCHANGED <<remote, cached, frontier, lanes, run, began, runs>>
    BY DEF FetchSlice, OneReader
  <1>5. slice' = [on |-> TRUE, lane |-> NextLane, stop |-> stop, high |-> Highest(listed, 0),
                  items |-> [r \in Range(kept) |-> remote[r]],
                  next |-> LaneAfter(NextLane, StartPage(NextLane), stop, degraded),
                  began |-> IF degraded THEN 0
                            ELSE IF StartPage(NextLane) = 1 THEN Newest ELSE began[NextLane]]
    BY DEF FetchSlice
  <1>6. ~degraded => listed = whole
    <2>1. Sorted(whole)
      BY <1>1, <1>3, PageIs
    <2>2. Len(whole) \in Nat
      BY <2>1 DEF Sorted
    <2> HIDE DEF whole
    <2> QED BY <2>1, <2>2, CutIs
  <1>7. degraded \in BOOLEAN /\ (degraded => stop = "partial")
        /\ (~degraded => stop = StopAt(listed, CompleteWatermark, "bounded"))
    OBVIOUS
  <1> HIDE DEF whole, listed, kept, degraded, stop
  <1>8. listed = Cut(whole, received) /\ kept = AtOrAbove(listed, CompleteWatermark)
    BY DEF listed, kept
  <1>9. whole = Page(StartPage(NextLane))
    BY DEF whole
  <1> QED BY <1>2, <1>3, <1>4, <1>5, <1>6, <1>7, <1>8, <1>9

\* The lane after a page: over, or ahead by one page.
LEMMA LaneAfterIs ==
    ASSUME CollectionInv, NEW l \in Lanes, NEW p \in Nat \ {0}, NEW stop, NEW degraded \in BOOLEAN,
           p = IF lanes[l].page = 0 THEN 1 ELSE lanes[l].page
    PROVE  /\ LaneAfter(l, p, stop, degraded) \in [status : LaneStatuses, page : Nat]
           /\ ~degraded /\ stop \notin Ends =>
                  /\ LaneAfter(l, p, stop, degraded).status \notin Over
                  /\ Max({1, LaneAfter(l, p, stop, degraded).page}) = p + 1
  <1>1. lanes[l].page \in Nat
    BY DEF CollectionInv, CollectionTyped
  <1>2. \A a, b \in Nat : a >= b => Max({a, b}) = a
    BY DEF Max
  <1>3. p + 1 \in Nat /\ p + 1 >= lanes[l].page /\ p + 1 # 0
    BY <1>1
  <1>4. Max({p + 1, lanes[l].page}) = p + 1
    BY <1>1, <1>2, <1>3
  <1>5. LaneAfter(l, p, stop, degraded).page = IF stop \in Ends THEN 0 ELSE p + 1
    BY <1>4 DEF LaneAfter, Ends
  <1>6. /\ LaneAfter(l, p, stop, degraded).status \in LaneStatuses
        /\ (~degraded /\ stop \notin Ends => LaneAfter(l, p, stop, degraded).status \in {"backfilling", "partial"})
    <2>1. CASE degraded
      BY <2>1 DEF LaneAfter, LaneStatuses
    <2>2. CASE ~degraded /\ stop \in Ends
      BY <2>2 DEF LaneAfter, LaneStatuses, Ends, Over
    <2>3. CASE ~degraded /\ stop \notin Ends
      BY <2>3 DEF LaneAfter, LaneStatuses, Ends
    <2> QED BY <2>1, <2>2, <2>3
  <1>7. LaneAfter(l, p, stop, degraded) \in [status : LaneStatuses, page : Nat]
    BY <1>3, <1>5, <1>6 DEF LaneAfter
  <1>8. ASSUME ~degraded, stop \notin Ends
        PROVE  /\ LaneAfter(l, p, stop, degraded).status \notin Over
               /\ Max({1, LaneAfter(l, p, stop, degraded).page}) = p + 1
    BY <1>5, <1>8, <1>3, PageToStart, <1>6 DEF Over
  <1> QED BY <1>7, <1>8

\* A page that is staged will make true what it is prepared to claim.
LEMMA FetchKeeps ==
    ASSUME CollectionInv, OneReader, NEW received \in Nat, FetchSlice(received)
    PROVE  CollectionInv'
  <1>1. /\ CollectionTyped /\ StampsDiffer /\ MarksPassed /\ WatermarkIsSound /\ RunSound
        /\ \A l \in Lanes : LaneSound(l)
    BY DEF CollectionInv
  <1>2. PICK l, p : l = NextLane /\ p = StartPage(NextLane)
    OBVIOUS
  <1>3. /\ ~slice.on /\ ~run.on /\ l \in Lanes
        /\ UNCHANGED <<remote, cached, frontier, lanes, run, began, runs>>
        /\ p \in Nat \ {0} /\ p = IF lanes[l].page = 0 THEN 1 ELSE lanes[l].page
    BY <1>2, FetchDoes
  <1>4. PICK mark : mark = CompleteWatermark
    OBVIOUS
  <1>5. PICK listed, kept, stop, degraded :
           /\ listed = Cut(Page(p), received)
           /\ kept = AtOrAbove(listed, mark)
           /\ degraded \in BOOLEAN
           /\ degraded => stop = "partial"
           /\ ~degraded => listed = Page(p) /\ stop = StopAt(listed, mark, "bounded")
           /\ slice' = [on |-> TRUE, lane |-> l, stop |-> stop, high |-> Highest(listed, 0),
                        items |-> [r \in Range(kept) |-> remote[r]],
                        next |-> LaneAfter(l, p, stop, degraded),
                        began |-> IF degraded THEN 0 ELSE IF p = 1 THEN Newest ELSE began[l]]
    BY <1>2, <1>4, FetchDoes
  <1>6. PICK high, next, start :
           /\ high = Highest(listed, 0) /\ next = LaneAfter(l, p, stop, degraded)
           /\ start = IF degraded THEN 0 ELSE IF p = 1 THEN Newest ELSE began[l]
    OBVIOUS
  <1>7. slice' = [on |-> TRUE, lane |-> l, stop |-> stop, high |-> high,
                  items |-> [r \in Range(kept) |-> remote[r]], next |-> next, began |-> start]
    BY <1>5, <1>6
  <1>8. /\ remote \in [Records -> Stamps] /\ began \in [Lanes -> Stamps]
        /\ Stamps \subseteq Nat /\ 0 \in Stamps /\ OnList \subseteq Records
    BY <1>1, CollectionAssumption DEF CollectionTyped, Stamps, OnList
  <1>9. /\ mark \in Stamps /\ \A r \in OnList : remote[r] < mark => Held(r)
    BY <1>4, MarkIsSound
  <1>10. /\ Range(listed) \subseteq OnList /\ Range(kept) \subseteq Range(listed)
         /\ Cardinality(Range(kept)) <= PerPage
    BY <1>1, <1>3, <1>5, <1>8, <1>9, KeptIs
  <1>11. /\ high \in Stamps
         /\ high = 0 \/ \E x \in Range(listed) : high = remote[x]
    BY <1>6, <1>8, <1>10, HighestIs
  <1>12. Newest \in Stamps /\ \A r \in Records : remote[r] <= Newest
    BY <1>8, NewestIs
  <1>13. stop \in Stops /\ "bounded" \notin Ends /\ (stop \in Ends => ~degraded)
    BY <1>5 DEF StopAt, Ends, Stops
  <1>14. /\ next \in [status : LaneStatuses, page : Nat]
         /\ ~degraded /\ stop \notin Ends => next.status \notin Over /\ Max({1, next.page}) = p + 1
    BY <1>3, <1>5, <1>6, LaneAfterIs
  <1>15. start \in Stamps /\ start <= Newest
    BY <1>1, <1>3, <1>8, <1>12, <1>6 DEF MarksPassed, Marks
  <1>16. /\ OnList' = OnList /\ Newest' = Newest
         /\ StampsDiffer' <=> StampsDiffer
         /\ \A r, n : Ahead(r, n)' <=> Ahead(r, n)
    BY <1>3, ListStays
  <1>17. \A r : Held(r)' <=> Held(r)
    BY <1>3 DEF Held
  <1>18. \A r : WillHold(r)' <=> (r \in Range(kept) \/ Held(r))
    <2>1. ASSUME NEW r PROVE WillHold(r)' <=> (r \in Range(kept) \/ Held(r))
      BY <1>7, <1>3, <1>17 DEF WillHold
    <2> QED BY <2>1
  <1>19. CollectionTyped'
    <2>1. /\ slice'.on = TRUE /\ slice'.lane = l /\ slice'.stop = stop /\ slice'.high = high
          /\ slice'.began = start /\ slice'.next = next
          /\ DOMAIN slice'.items = Range(kept)
          /\ \A r \in Range(kept) : slice'.items[r] = remote[r]
      BY <1>7
    <2>2. /\ slice'.on \in BOOLEAN /\ slice'.lane \in Lanes /\ slice'.stop \in Stops
          /\ slice'.high \in Stamps /\ slice'.began \in Stamps
      BY <1>3, <1>11, <1>13, <1>15, <2>1
    <2>3. /\ slice'.next \in [status : LaneStatuses, page : Nat]
          /\ DOMAIN slice'.items \subseteq Records /\ Cardinality(DOMAIN slice'.items) <= PerPage
      BY <1>8, <1>10, <1>14, <2>1
    <2>4. \A r \in DOMAIN slice'.items : slice'.items[r] \in Stamps
      BY <1>8, <1>10, <2>1
    <2> QED BY <1>1, <1>3, <2>2, <2>3, <2>4 DEF CollectionTyped
  <1>20. MarksPassed'
    <2>1. \A h \in Marks : h <= Newest
      BY <1>1 DEF MarksPassed
    <2>2. high <= Newest
      BY <1>8, <1>10, <1>11, <1>12
    <2>3. slice'.high = high /\ slice'.began = start
      BY <1>7
    <2>4. Marks' \subseteq Marks \union {high, start}
      BY <1>3, <2>3 DEF Marks
    <2> QED BY <1>15, <1>16, <2>1, <2>2, <2>4 DEF MarksPassed
  <1>21. WatermarkIsSound' /\ RunSound'
    BY <1>1, <1>3 DEF WatermarkIsSound, RunSound
  <1>22. ASSUME NEW k \in Lanes PROVE LaneSound(k)'
    BY <1>3, <1>16, <1>1, <1>17 DEF StartPage, Ahead, Position, LaneSound
  <1>23. ASSUME NEW r \in OnList, Ahead(r, p), ~degraded
         PROVE  r \in Range(kept) \/ Held(r) \/ (Ahead(r, p + 1) /\ stop \notin Ends)
    BY <1>5, <1>23, <1>1, <1>3, <1>8, <1>9, <1>13, PageSettles
  <1>24. ASSUME stop \in Ends, NEW r \in OnList, remote[r] < high
         PROVE  r \in Range(kept) \/ Held(r)
    <2>1. remote[r] \in Nat /\ high \in Nat /\ high # 0
      <3>1. remote[r] \in Nat /\ high \in Nat
        BY <1>8, <1>11
      <3> QED BY <1>24, <3>1
    <2>2. PICK x \in Range(listed) : high = remote[x]
      BY <1>11, <2>1
    <2>3. ~degraded /\ listed = Page(p)
      BY <1>5, <1>13, <1>24
    <2>4. remote[r] <= remote[x]
      BY <1>24, <2>1, <2>2
    <2>5. Ahead(r, p)
      BY <1>1, <1>3, <1>8, <1>9, <2>2, <2>3, <2>4, PageCovers
    <2> QED BY <1>23, <1>24, <2>3, <2>5
  <1>25. ASSUME NEW r \in OnList, remote[r] <= start
         PROVE  \/ r \in Range(kept) \/ Held(r)
                \/ next.status \notin Over /\ Ahead(r, Max({1, next.page}))
    <2>1. remote[r] \in Nat /\ remote[r] # 0
      BY <1>8 DEF OnList
    <2>2. ~degraded
      BY <1>6, <1>25, <2>1
    <2>3. Held(r) \/ Ahead(r, p)
      <3>1. CASE p = 1
        BY <1>1, <1>8, <1>9, <3>1, PageCovers
      <3>2. CASE p # 1
        BY <1>6, <1>25, <2>2, <3>2, <1>1, <1>3, <1>2 DEF LaneSound
      <3> QED BY <3>1, <3>2
    <2>4. r \in Range(kept) \/ Held(r) \/ (Ahead(r, p + 1) /\ stop \notin Ends)
      BY <1>23, <2>2, <2>3
    <2> QED BY <1>14, <2>2, <2>4
  <1>26. SliceSound'
    <2>1. PICK n : n = Max({1, next.page})
      OBVIOUS
    <2>2. /\ slice'.stop = stop /\ slice'.high = high /\ slice'.began = start /\ slice'.next = next
          /\ DOMAIN slice'.items = Range(kept)
          /\ \A r \in Range(kept) : slice'.items[r] = remote[r]
      BY <1>7
    <2>3. Max({1, slice'.next.page}) = n
      BY <2>1, <2>2
    <2>4. \A r : Ahead(r, Max({1, slice.next.page}))' <=> Ahead(r, n)
      BY <1>16, <2>3 DEF Ahead, Position
    <2>5. \A r \in DOMAIN slice'.items : slice'.items[r] = remote'[r]
      BY <1>3, <2>2
    <2>6. stop \in Ends => \A r \in OnList' : remote'[r] < slice'.high => WillHold(r)'
      BY <1>3, <1>16, <1>18, <1>24, <2>2
    <2>7. \A r \in OnList' : remote'[r] <= slice'.began =>
              WillHold(r)' \/ (slice'.next.status \notin Over /\ Ahead(r, n))
      BY <1>3, <1>16, <1>18, <1>25, <2>1, <2>2
    <2>8. run' = run /\ ~run.on
      BY <1>3
    <2> QED BY <2>2, <2>4, <2>5, <2>6, <2>7, <2>8 DEF SliceSound
  <1> QED BY <1>1, <1>16, <1>19, <1>20, <1>21, <1>22, <1>26 DEF CollectionInv

\* Before anything happens, nothing is listed, cached or claimed.
LEMMA CollectionInitKeeps ==
    ASSUME CollectionInit, OneReader
    PROVE  CollectionInv
  <1>1. 0 \in Stamps /\ Stamps \subseteq Nat /\ MaxRuns \in Nat
    BY CollectionAssumption DEF Stamps
  <1>2. CollectionTyped
    <2>1. remote \in [Records -> Stamps] /\ cached \in [Records -> Stamps] /\ began \in [Lanes -> Stamps]
      BY <1>1 DEF CollectionInit
    <2>2. frontier \in [status : {"none", "open", "complete"}, high : Stamps]
      BY <1>1 DEF CollectionInit
    <2>3. lanes \in [Lanes -> [status : LaneStatuses, page : Nat]]
      BY <1>1 DEF CollectionInit, LaneStatuses
    <2>4. run \in [on : BOOLEAN, page : Nat, mark : Stamps, high : Stamps, cap : {0}]
      BY <1>1 DEF CollectionInit, NoRun
    <2>5. runs \in 0..MaxRuns /\ slice = NoSlice
      BY <1>1 DEF CollectionInit
    <2> QED BY <2>1, <2>2, <2>3, <2>4, <2>5, EmptySliceIs DEF CollectionTyped
  <1>3. OnList = {}
    BY DEF CollectionInit, OnList
  <1>4. Newest = 0
    BY <1>2, NewestIs DEF CollectionTyped, CollectionInit
  <1>5. MarksPassed
    BY <1>4 DEF CollectionInit, NoRun, NoSlice, MarksPassed, Marks
  <1>6. StampsDiffer /\ WatermarkIsSound /\ RunSound /\ SliceSound /\ \A l \in Lanes : LaneSound(l)
    BY <1>3 DEF CollectionInit, NoRun, NoSlice, StampsDiffer, WatermarkIsSound, RunSound, SliceSound, LaneSound
  <1> QED BY <1>2, <1>5, <1>6 DEF CollectionInv

\* Every step of the collection.
LEMMA CollectionNextKeeps ==
    ASSUME CollectionInv, OneReader, [CollectionNext]_collectionVars
    PROVE  CollectionInv'
  <1>1. CASE UNCHANGED collectionVars
    <2>1. /\ remote' = remote /\ cached' = cached /\ frontier' = frontier /\ lanes' = lanes
          /\ run' = run /\ slice' = slice /\ began' = began /\ runs' = runs
      BY <1>1 DEF collectionVars
    <2>2. CollectionTyped' /\ StampsDiffer' /\ MarksPassed' /\ WatermarkIsSound'
      BY <2>1, ListStays DEF CollectionInv, CollectionTyped, MarksPassed, Marks, WatermarkIsSound
    <2>3. OnList' = OnList /\ \A r : (Held(r)' <=> Held(r)) /\ (WillHold(r)' <=> WillHold(r))
      BY <2>1 DEF OnList, Held, WillHold
    <2>4. RunSound'
      BY <2>1, <2>3 DEF Ahead, Position, CollectionInv, RunSound
    <2>5. SliceSound'
      BY <2>1, <2>3 DEF Ahead, Position, Marks, CollectionInv, SliceSound
    <2>6. ASSUME NEW l \in Lanes PROVE LaneSound(l)'
      BY <2>1, <2>3 DEF Ahead, Position, StartPage, CollectionInv, LaneSound
    <2> QED BY <2>2, <2>4, <2>5, <2>6 DEF CollectionInv
  <1>2. CASE \E r \in Records : RemoteChange(r)
    BY <1>2, ChangeKeeps
  <1>3. CASE \E cap \in Caps : StartRun(cap)
    BY <1>3, StartKeeps
  <1>4. CASE ListPage
    BY <1>4, ListKeeps
  <1>5. CASE \E n \in 0..(PerPage - 1) : RunStops(n) \/ RunCrashes(n)
    <2>1. PICK n \in Nat : RunStops(n) \/ RunCrashes(n)
      BY <1>5, CollectionAssumption
    <2> QED BY <2>1, StopKeeps
  <1>6. CASE ResetLive
    BY <1>6, ResetKeeps
  <1>7. CASE Lapse \/ DropSlice
    BY <1>7, QuietKeeps
  <1>8. CASE \E n \in 0..PerPage : FetchSlice(n)
    <2>1. PICK n \in Nat : FetchSlice(n)
      BY <1>8, CollectionAssumption
    <2> QED BY <2>1, FetchKeeps
  <1>9. CASE CommitSlice
    BY <1>9, CommitKeeps
  <1> QED BY <1>1, <1>2, <1>3, <1>4, <1>5, <1>6, <1>7, <1>8, <1>9 DEF CollectionNext

\* The invariant says what the frontier and the lanes claim.
LEMMA CollectionInvClaims ==
    ASSUME CollectionInv
    PROVE  CollectionIsSound
  <1>1. /\ WatermarkIsSound /\ \A l \in Lanes : LaneSound(l)
        /\ remote \in [Records -> Stamps]
    BY DEF CollectionInv, CollectionTyped
  <1>2. PassMeetsAll
    BY <1>1 DEF PassMeetsAll, Over, OnList, LaneSound, Held
  <1> QED BY <1>1, <1>2 DEF CollectionIsSound

\* Whatever is changed, crashes, is cancelled or resumes at a page, a complete
\* watermark covers the cache, and a lane that is over met every record that
\* existed when its pass began: of the foreground traversal and the daemon's
\* one-page jobs (service.go, collection sync; sync_jobs.go), when no record fails,
\* no cap is set and no run falls between a fetch and its commit.
THEOREM CollectionStaysSound ==
    ~MayFail /\ ~MayOverlap /\ Caps = {0} => (CollectionSpec => []CollectionIsSound)
  <1> SUFFICES ASSUME ~MayFail /\ ~MayOverlap /\ Caps = {0}
               PROVE  CollectionSpec => []CollectionIsSound
    OBVIOUS
  <1>1. OneReader
    BY DEF OneReader
  <1>2. CollectionInit => CollectionInv
    BY <1>1, CollectionInitKeeps
  <1>3. CollectionInv /\ [CollectionNext]_collectionVars => CollectionInv'
    BY <1>1, CollectionNextKeeps
  <1>4. CollectionInv => CollectionIsSound
    BY CollectionInvClaims
  <1> QED BY <1>2, <1>3, <1>4, PTL DEF CollectionSpec

-----------------------------------------------------------------------------
(* Registrations.  Every row of a registry is a registration or a conflict   *)
(* row that keeps some, its leaves.                                          *)

LoneRows(S) == {r \in S : ~InConflict(r)}
Cohort(r) == IF InConflict(r) THEN r.cands ELSE {r}
RowIds(S) == {r.id : r \in S}

RowShape(r) ==
    r = [id |-> r.id, repo |-> r.repo, path |-> r.path, policy |-> r.policy, enabled |-> r.enabled, was |-> r.was,
         state |-> r.state, gen |-> r.gen, legacy |-> r.legacy, cands |-> r.cands]
IsLeaf(c) ==
    /\ RowShape(c) /\ c.id = c.repo /\ c.id \in Labels /\ c.path \in Paths /\ c.cands = {}
    /\ c.legacy \subseteq {Alias, LostId} /\ (Alias \in c.legacy => c.id = Main)
IsConflict(r) ==
    /\ ~r.enabled /\ r.id \in {CloneId, LostId} \union Repos
    /\ r.state = "identity_unresolved" => r.id = LostId
    /\ r.id \in Repos => \A c \in r.cands : RepoOf(c.repo) = r.id
    /\ \E c, d \in r.cands : c # d
IsRow(r) == RowShape(r) /\ (\A c \in Cohort(r) : IsLeaf(c)) /\ (InConflict(r) => IsConflict(r))

\* A registration is in one row; one that has taken over the alias leaves no
\* other under that name; a lost cohort is one, and no alias stands beside it.
LeavesApart(S) ==
    \A r, s \in S : \A c \in Cohort(r) : \A d \in Cohort(s) :
        c.id = d.id /\ c.path = d.path => c = d /\ r = s
AliasMerged(S) == \A r, s \in S : \A c \in Cohort(r) : \A d \in Cohort(s) : c.legacy # {} => d.id # Alias
LostApart(S) == \A r, s \in S : r.id = LostId => s.id # Alias /\ (s.id = LostId => s = r)
RowsLaid(S) == (\A r \in S : IsRow(r)) /\ LeavesApart(S) /\ AliasMerged(S) /\ LostApart(S)

\* A name leads to a row of its repository, or to a cohort of several; what a
\* conflict row keeps is found under it.
Mixed(r) == \E c, d \in Cohort(r) : RepoOf(c.repo) # RepoOf(d.repo)
Agrees(r, x) == Mixed(r) \/ \A c \in Cohort(r) : RepoOf(c.repo) = x
Led(S, red) ==
    /\ DOMAIN red \subseteq RegistrationIds
    /\ \A n \in DOMAIN red : \E r \in S : r.id = red[n] /\ (n \in Labels => Agrees(r, RepoOf(n)))
Caught(S, red) == \A r \in S : \A c \in r.cands : c.id = r.id \/ (c.id \in DOMAIN red /\ red[c.id] = r.id)

\* Where the rows are: on one path that is not retired, in one clone conflict,
\* or in the file of an earlier release.
OnPath(S, p) == \A r \in S : r.path = p /\ r.id # CloneId /\ \A c \in r.cands : c.path = p
OnePathed(S, gone) == S = {} \/ \E p \in Paths \ gone : OnPath(S, p)
CloneOnly(S, gone) ==
    gone = {} /\ \E r \in S : S = {r} /\ r.id = CloneId /\ InConflict(r) /\ \E c, d \in r.cands : c.path # d.path
RawRows(S, red, gone) == gone = {} /\ DOMAIN red = {} /\ \A r \in S : ~InConflict(r)

IsBook(b) == {"rows", "redirects", "keys", "retired", "receipts"} \subseteq DOMAIN b
Laid(b) == IsBook(b) /\ RowsLaid(b.rows) /\ Led(b.rows, b.redirects) /\ Caught(b.rows, b.redirects)
Placed(b) == OnePathed(b.rows, b.retired) \/ CloneOnly(b.rows, b.retired)
                \/ RawRows(b.rows, b.redirects, b.retired)
AliasOff(S) == \A r \in S : r.id = Alias => ~r.enabled
BookSound(b) == Laid(b) /\ (OnePathed(b.rows, b.retired) \/ CloneOnly(b.rows, b.retired)) /\ AliasOff(b.rows)

NoAlias(S) == \A r \in S : \A c \in Cohort(r) : c.id # Alias
SettledAs(b, done) ==
    \A t \in done : OnePathed(b.rows, b.retired) /\ (t.id # CloneId => NoAlias(b.rows))
PlanSingle(plan) ==
    plan # NoPlan => plan.id = CloneId \/ \A c, d \in plan.cands : RepoOf(c.repo) = RepoOf(d.repo)

\* Names are few, and the marks of conflicts are no repositories.
LEMMA NamesAre ==
  /\ Cardinality(RegistrationIds) \in Nat \ {0} /\ IsFiniteSet(Labels) /\ IsFiniteSet(Labels \X Paths)
  /\ Labels \subseteq RegistrationIds /\ Repos \subseteq Labels /\ {Main, Alias, LostId, CloneId} \subseteq RegistrationIds
  /\ {LostId, CloneId} \cap Labels = {} /\ LostId # CloneId /\ Main # Alias /\ Alias \notin Repos /\ Alias \in Labels
  /\ Main \in Repos
<1>1. IsFiniteSet(Labels)
  BY ConflictsAssumption, FS_Singleton, FS_Union DEF Labels
<1>2. IsFiniteSet(RegistrationIds)
  <2>1. IsFiniteSet({CloneId, LostId})
    <3>1. IsFiniteSet({CloneId}) /\ IsFiniteSet({LostId})
      BY FS_Singleton
    <3>2. {CloneId, LostId} = {CloneId} \union {LostId}
      OBVIOUS
    <3> QED
      BY <3>1, <3>2, FS_Union
  <2> QED
    BY <1>1, <2>1, FS_Union DEF RegistrationIds
<1>3. Main \in RegistrationIds
  BY ConflictsAssumption DEF RegistrationIds, Labels
<1>4. Cardinality(RegistrationIds) \in Nat \ {0}
  BY <1>2, <1>3, FS_CardinalityType, FS_EmptySet
<1>5. IsFiniteSet(Labels \X Paths)
  BY <1>1, ConflictsAssumption, FS_Product
<1> QED
  BY <1>1, <1>4, <1>5, ConflictsAssumption DEF RegistrationIds, Labels

\* Two names of one repository are that repository and its alias.
LEMMA RepoOfIs ==
  ASSUME NEW l \in Labels
  PROVE  /\ RepoOf(l) \in Repos /\ (l \in Repos => RepoOf(l) = l) /\ (l # Alias => RepoOf(l) = l)
         /\ \A k \in Labels : RepoOf(k) = RepoOf(l) /\ k # l => RepoOf(l) = Main /\ {k, l} = {Main, Alias}
BY ConflictsAssumption DEF RepoOf, Labels

\* The leaves of a registration are itself, those of a conflict what it keeps.
LEMMA CohortIs ==
  ASSUME NEW r
  PROVE  /\ InConflict(r) => Cohort(r) = r.cands
         /\ ~InConflict(r) => Cohort(r) = {r} /\ r.cands = {}
BY DEF Cohort, InConflict

-----------------------------------------------------------------------------
(* Redirects.                                                               *)

IsWalk(redirects, id, K, f) == f = [n \in 0..K |-> IF n = 0 THEN id ELSE Hop(redirects, f[n - 1])]

\* A walk along redirects exists for every length, and stays in a set that
\* no redirect leaves.
LEMMA WalkIs ==
  ASSUME NEW K \in Nat, NEW redirects, NEW T, NEW id,
         Hop(redirects, id) \in T,
         \A m \in T : Hop(redirects, m) \in T
  PROVE  \E f : IsWalk(redirects, id, K, f)
<1> DEFINE Good(k, f) == /\ f \in [0..k -> T \union {id}] /\ f[0] = id
                         /\ \A n \in 1..k : f[n] \in T /\ f[n] = Hop(redirects, f[n - 1])
<1> DEFINE Bad == {k \in Nat : ~ \E f : Good(k, f)}
<1>1. Bad = {}
  <2> SUFFICES ASSUME Bad # {} PROVE FALSE
    OBVIOUS
  <2>1. PICK k \in Bad : \A m \in Bad : k <= m
    BY LeastExists
  <2>2. k # 0
    <3>1. Good(0, [n \in 0..0 |-> id])
      OBVIOUS
    <3> QED
      BY <3>1
  <2>3. k \in Nat /\ k - 1 \in Nat /\ k - 1 \notin Bad
    <3> HIDE DEF Good
    <3>1. k \in Nat /\ k - 1 \in Nat
      BY <2>2
    <3> HIDE DEF Bad
    <3>2. k - 1 \in Bad => k <= k - 1
      BY <2>1
    <3> QED
      BY <3>1, <3>2
  <2>4. PICK f : Good(k - 1, f)
    BY <2>3
  <2>5. DEFINE g == [n \in 0..k |-> IF n = k THEN Hop(redirects, f[k - 1]) ELSE f[n]]
  <2>6. f[k - 1] \in T \union {id} /\ k \in Nat
    BY <2>3, <2>4
  <2>7. Hop(redirects, f[k - 1]) \in T
    BY <2>6
  <2>8. Good(k, g)
    BY <2>3, <2>4, <2>7, <2>6, <2>2
  <2> QED
    BY <2>8
<1>2. PICK f : Good(K, f)
  BY <1>1
<1>3. IsWalk(redirects, id, K, f)
  BY <1>2 DEF IsWalk
<1> QED
  BY <1>3

\* So does what an id resolves to.
LEMMA ResolveStays ==
  ASSUME NEW redirects, NEW T, NEW id,
         Hop(redirects, id) \in T,
         \A m \in T : Hop(redirects, m) \in T
  PROVE  Resolve(redirects, id) \in T
<1> DEFINE K == Cardinality(RegistrationIds)
<1>0. K \in Nat \ {0}
  BY NamesAre
<1>1. \E f : IsWalk(redirects, id, K, f)
  <2> HIDE DEF K
  <2> QED
    BY <1>0, WalkIs
<1>2. IsWalk(redirects, id, K, CHOOSE f : IsWalk(redirects, id, K, f))
  BY <1>1
<1>3. PICK W : IsWalk(redirects, id, K, W) /\ Resolve(redirects, id) = W[K]
  BY <1>2 DEF Resolve, IsWalk
<1>4. \A n \in 1..K : W[n] = Hop(redirects, W[n - 1])
  <2> TAKE n \in 1..K
  <2>1. n \in 0..K /\ n # 0
    BY <1>0
  <2> QED
    BY <1>3, <2>1, Zenon DEF IsWalk
<1>5. W[0] = id
  <2>1. 0 \in 0..K
    BY <1>0
  <2> QED
    BY <1>3, <2>1, Zenon DEF IsWalk
<1> DEFINE Bad == {n \in 1..K : W[n] \notin T}
<1>6. Bad = {}
  <2> SUFFICES ASSUME Bad # {} PROVE FALSE
    OBVIOUS
  <2>1. PICK n \in Bad : \A m \in Bad : n <= m
    <3>1. Bad \subseteq Nat
      OBVIOUS
    <3> HIDE DEF Bad
    <3> QED
      BY <3>1, LeastExists
  <2>2. n \in 1..K /\ W[n] \notin T /\ W[n] = Hop(redirects, W[n - 1])
    BY <1>4
  <2>3. n # 1
    BY <1>5, <2>2
  <2>4. n - 1 \in 1..K /\ n - 1 \notin Bad
    <3>1. n - 1 \in 1..K
      BY <1>0, <2>2, <2>3
    <3> HIDE DEF Bad
    <3>2. n - 1 \in Bad => n <= n - 1
      BY <2>1
    <3> QED
      BY <2>2, <3>1, <3>2
  <2>5. W[n - 1] \in T
    BY <2>4
  <2> QED
    BY <2>2, <2>5
<1>7. K \in 1..K
  BY <1>0
<1> QED
  BY <1>3, <1>6, <1>7

\* What is left of redirects leads from no row and to a row.
LEMMA NormalizedIs ==
  ASSUME NEW S, NEW red
  PROVE  /\ DOMAIN Normalized(red, S) \subseteq DOMAIN red \ RowIds(S)
         /\ \A n \in DOMAIN Normalized(red, S) : Normalized(red, S)[n] \in RowIds(S)
<1> DEFINE onward == [n \in DOMAIN red \ RowIds(S) |-> red[n]]
<1> DEFINE kept == {n \in DOMAIN onward : Resolve(onward, n) \in RowIds(S)}
<1>1. Normalized(red, S) = [n \in kept |-> Resolve(onward, n)]
  BY DEF Normalized, RowIds
<1>2. DOMAIN onward = DOMAIN red \ RowIds(S)
  OBVIOUS
<1> HIDE DEF onward
<1> QED
  BY <1>1, <1>2

\* It leads to where a set of names leads that no redirect leaves.
LEMMA NormalizedStays ==
  ASSUME NEW S, NEW red, NEW T,
         \A m \in T : m \in DOMAIN red \ RowIds(S) => red[m] \in T,
         NEW n \in DOMAIN Normalized(red, S), n \in T
  PROVE  Normalized(red, S)[n] \in T
<1> DEFINE onward == [m \in DOMAIN red \ RowIds(S) |-> red[m]]
<1>1. Normalized(red, S)[n] = Resolve(onward, n)
  <2> DEFINE kept == {m \in DOMAIN onward : Resolve(onward, m) \in RowIds(S)}
  <2>1. Normalized(red, S) = [m \in kept |-> Resolve(onward, m)]
    BY DEF Normalized, RowIds
  <2> HIDE DEF onward
  <2> QED
    BY <2>1
<1>2. \A m \in T : Hop(onward, m) \in T
  BY DEF Hop
<1> HIDE DEF onward
<1> QED
  BY <1>1, <1>2, ResolveStays

\* A redirect to a row stays as it is.
LEMMA NormalizedKeeps ==
  ASSUME NEW S, NEW red, NEW n \in DOMAIN red \ RowIds(S), red[n] \in RowIds(S)
  PROVE  n \in DOMAIN Normalized(red, S) /\ Normalized(red, S)[n] = red[n]
<1> DEFINE onward == [m \in DOMAIN red \ RowIds(S) |-> red[m]]
<1> DEFINE kept == {m \in DOMAIN onward : Resolve(onward, m) \in RowIds(S)}
<1>1. Normalized(red, S) = [m \in kept |-> Resolve(onward, m)]
  BY DEF Normalized, RowIds
<1>2. DOMAIN onward = DOMAIN red \ RowIds(S) /\ Hop(onward, n) = red[n] /\ Hop(onward, red[n]) = red[n]
  BY DEF Hop
<1> HIDE DEF onward
<1>3. Resolve(onward, n) \in {red[n]}
  <2>1. Hop(onward, n) \in {red[n]} /\ \A m \in {red[n]} : Hop(onward, m) \in {red[n]}
    BY <1>2
  <2> QED
    <3>1. PICK T : T = {red[n]}
      OBVIOUS
    <3>2. Hop(onward, n) \in T /\ \A m \in T : Hop(onward, m) \in T
      BY <2>1, <3>1
    <3>3. Resolve(onward, n) \in T
      BY <3>2, ResolveStays
    <3> QED
      BY <3>1, <3>3
<1> QED
  BY <1>1, <1>2, <1>3

-----------------------------------------------------------------------------
(* Rows and their names.                                                    *)

\* The names that end at a repository: its own and those of rows that keep it.
NamesOf(S, x) == {l \in Labels : RepoOf(l) = x} \union {r.id : r \in {q \in S : Agrees(q, x)}}
Leading(S, red) ==
    \A x \in Repos : \A m \in NamesOf(S, x) : m \in DOMAIN red \ RowIds(S) => red[m] \in NamesOf(S, x)
\* What a conflict row keeps is no other row.
KeptHere(S) == \A r, s \in S : \A c \in r.cands : c.id = s.id => s = r

\* A row agrees with the repository it is called after.
LEMMA NamedAgrees ==
  ASSUME NEW r, IsRow(r), r.id \in Labels
  PROVE  Agrees(r, RepoOf(r.id))
<1>1. CASE InConflict(r)
  BY <1>1, NamesAre, RepoOfIs, CohortIs DEF IsRow, IsConflict, Agrees
<1>2. CASE ~InConflict(r)
  BY <1>2, CohortIs DEF IsRow, IsLeaf, Agrees
<1> QED
  BY <1>1, <1>2

\* Normalizing keeps a registry whose names lead where they should.
LEMMA NormalizedSound ==
  ASSUME NEW S, NEW red, \A r \in S : IsRow(r), DOMAIN red \subseteq RegistrationIds,
         Leading(S, red), KeptHere(S), Caught(S, red)
  PROVE  Led(S, Normalized(red, S)) /\ Caught(S, Normalized(red, S))
<1> DEFINE N == Normalized(red, S)
<1>1. ASSUME NEW n \in DOMAIN N
      PROVE  \E r \in S : r.id = N[n] /\ (n \in Labels => Agrees(r, RepoOf(n)))
  <2>1. PICK r \in S : r.id = N[n]
    BY NormalizedIs DEF RowIds
  <2>2. CASE n \notin Labels
    BY <2>1, <2>2
  <2>3. CASE n \in Labels
    <3>1. PICK x \in Repos : x = RepoOf(n)
      BY <2>3, RepoOfIs
    <3>2. n \in NamesOf(S, x)
      BY <2>3, <3>1 DEF NamesOf
    <3>3. N[n] \in NamesOf(S, x)
      BY <3>2, NormalizedStays DEF Leading
    <3>4. CASE N[n] \in Labels /\ RepoOf(N[n]) = x
      BY <2>1, <3>1, <3>4, NamedAgrees
    <3>5. CASE \E q \in S : Agrees(q, x) /\ q.id = N[n]
      BY <3>1, <3>5
    <3> QED
      BY <3>3, <3>4, <3>5 DEF NamesOf
  <2> QED
    BY <2>2, <2>3
<1>2. DOMAIN N \subseteq RegistrationIds
  BY NormalizedIs
<1>3. ASSUME NEW r \in S, NEW c \in r.cands, c.id # r.id
      PROVE  c.id \in DOMAIN N /\ N[c.id] = r.id
  BY <1>3, NormalizedKeeps DEF Caught, KeptHere, RowIds
<1> QED
  BY <1>1, <1>2, <1>3 DEF Led, Caught

\* A registry as it stands leads where it should.
LEMMA LedLeads ==
  ASSUME NEW S, NEW red, \A r \in S : IsRow(r), Led(S, red)
  PROVE  Leading(S, red) /\ DOMAIN red \subseteq RegistrationIds
<1>1. ASSUME NEW x \in Repos, NEW m \in NamesOf(S, x), m \in DOMAIN red \ RowIds(S)
      PROVE  red[m] \in NamesOf(S, x)
  <2>1. m \in Labels /\ RepoOf(m) = x
    BY <1>1 DEF NamesOf, RowIds
  <2>2. PICK r \in S : r.id = red[m] /\ Agrees(r, x)
    BY <1>1, <2>1 DEF Led
  <2> QED
    BY <2>2 DEF NamesOf
<1> QED
  BY <1>1 DEF Leading, Led

\* On one path, two leaves of one repository in a row that keeps no other are
\* the repository and its alias.
LEMMA TwoNames ==
  ASSUME NEW S, RowsLaid(S), NEW p, OnPath(S, p), NEW r \in S, InConflict(r),
         \A c, d \in r.cands : RepoOf(c.repo) = RepoOf(d.repo)
  PROVE  \E c, d \in r.cands : c.id = Main /\ d.id = Alias
<1>1. PICK c, d \in r.cands : c # d
  BY DEF RowsLaid, IsRow, IsConflict
<1>2. c \in Cohort(r) /\ d \in Cohort(r) /\ c.path = p /\ d.path = p
  BY CohortIs DEF OnPath
<1>3. IsLeaf(c) /\ IsLeaf(d)
  BY <1>2 DEF RowsLaid, IsRow
<1>4. c.id # d.id
  BY <1>1, <1>2 DEF RowsLaid, LeavesApart
<1>5. c.id \in Labels /\ d.id \in Labels /\ RepoOf(c.id) = RepoOf(d.id)
  BY <1>3 DEF IsLeaf
<1> QED
  BY <1>4, <1>5, RepoOfIs

\* A conflict of one repository keeps it under both its names.
LEMMA RepoConflictIs ==
  ASSUME NEW S, RowsLaid(S), NEW p, OnPath(S, p), NEW r \in S, InConflict(r), r.id \in Labels
  PROVE  r.id = Main /\ \E c, d \in r.cands : c.id = Main /\ d.id = Alias
<1>1. r.id \in Repos /\ \A c \in r.cands : RepoOf(c.repo) = r.id
  BY NamesAre DEF RowsLaid, IsRow, IsConflict
<1>2. PICK c, d \in r.cands : c.id = Main /\ d.id = Alias
  BY <1>1, TwoNames
<1>3. c \in Cohort(r)
  BY CohortIs
<1>4. IsLeaf(c)
  BY <1>3 DEF RowsLaid, IsRow
<1>5. r.id = Main
  BY <1>1, <1>2, <1>4, NamesAre, RepoOfIs DEF IsLeaf
<1> QED
  BY <1>2, <1>5

\* On one path a row is known by its id, and what a conflict keeps is no row.
LEMMA IdsOnPath ==
  ASSUME NEW S, RowsLaid(S), NEW p, OnPath(S, p)
  PROVE  KeptHere(S) /\ \A r, s \in S : r.id = s.id => r = s
<1>1. ASSUME NEW r \in S, NEW c \in Cohort(r), NEW s \in S, c.id = s.id
      PROVE  s = r
  <2>1. c.path = p /\ c.id \in Labels
    BY CohortIs DEF OnPath, RowsLaid, IsRow, IsLeaf
  <2>2. CASE InConflict(s)
    <3>1. PICK d \in s.cands : d.id = Main /\ s.id = Main
      BY <1>1, <2>1, <2>2, RepoConflictIs
    <3>2. d \in Cohort(s) /\ d.path = p
      BY <2>2, CohortIs DEF OnPath
    <3> QED
      BY <1>1, <2>1, <3>1, <3>2 DEF RowsLaid, LeavesApart
  <2>3. CASE ~InConflict(s)
    BY <2>3, CohortIs, <1>1, <2>1 DEF OnPath, RowsLaid, LeavesApart
  <2> QED
    BY <2>2, <2>3
<1>2. KeptHere(S)
  BY <1>1, CohortIs DEF KeptHere, InConflict
<1>3. ASSUME NEW r \in S, NEW s \in S, r.id = s.id
      PROVE  r = s
  <2>1. CASE ~InConflict(r) \/ ~InConflict(s)
    BY <1>1, <1>3, <2>1, CohortIs
  <2>2. CASE InConflict(r) /\ InConflict(s)
    <3>1. r.id # CloneId
      BY DEF OnPath
    <3>2. CASE r.id = LostId
      BY <1>3, <3>2 DEF RowsLaid, LostApart
    <3>3. CASE r.id \in Repos
      <4>1. PICK c \in r.cands : c.id = Main /\ r.id = Main
        BY <2>2, <3>3, NamesAre, RepoConflictIs
      <4>2. c \in Cohort(r)
        BY <2>2, CohortIs
      <4> QED
        BY <1>1, <1>3, <4>1, <4>2
    <3> QED
      BY <2>2, <3>1, <3>2, <3>3 DEF RowsLaid, IsRow, IsConflict
  <2> QED
    BY <2>1, <2>2
<1> QED
  BY <1>2, <1>3

-----------------------------------------------------------------------------
(* What canonicalization does to the rows.                                  *)

\* A row that is changed in what is not its identity.
SameRow(r, q) ==
    /\ RowShape(q) /\ q.id = r.id /\ q.repo = r.repo /\ q.path = r.path
    /\ q.legacy = r.legacy /\ q.cands = r.cands
    /\ InConflict(r) => ~q.enabled /\ (q.state = r.state \/ q.state = "disabled")
\* A set of rows that is another one, changed in that way.
Redone(S, Q) ==
    /\ \A r \in S : \E q \in Q : SameRow(r, q)
    /\ \A q \in Q : \E r \in S : SameRow(r, q)
    /\ \A r \in S : \A q1, q2 \in Q : SameRow(r, q1) /\ SameRow(r, q2) => q1 = q2

\* The leaves of a changed row are those it had, or itself.
LEMMA SameLeaves ==
  ASSUME NEW r, NEW q, IsRow(r), SameRow(r, q)
  PROVE  /\ IsRow(q) /\ (InConflict(q) <=> InConflict(r))
         /\ \A c \in Cohort(q) : \E d \in Cohort(r) : SameRow(d, c) /\ (InConflict(r) => d = c)
         /\ \A c \in Cohort(q) : c.id = c.repo
         /\ \A x : Agrees(r, x) => Agrees(q, x)
<1>1. InConflict(q) <=> InConflict(r)
  BY DEF SameRow, InConflict
<1>2. CASE InConflict(r)
  BY <1>1, <1>2, CohortIs DEF SameRow, IsRow, IsLeaf, InConflict, IsConflict, Agrees, Mixed
<1>3. CASE ~InConflict(r)
  <2>1. Cohort(q) = {q} /\ Cohort(r) = {r}
    BY <1>1, <1>3, CohortIs
  <2>2. IsLeaf(r)
    BY <2>1 DEF IsRow
  <2>3. IsLeaf(q)
    BY <2>2 DEF IsLeaf, SameRow
  <2>4. IsRow(q)
    BY <1>1, <1>3, <2>1, <2>3 DEF IsRow, SameRow
  <2>5. \A x : Agrees(r, x) => Agrees(q, x)
    BY <2>1 DEF Agrees, Mixed, SameRow
  <2> QED
    BY <1>1, <1>3, <2>1, <2>3, <2>4, <2>5 DEF IsLeaf
<1> QED
  BY <1>2, <1>3

\* Such a change keeps a registry as it should be.
LEMMA RedoneSound ==
  ASSUME NEW S, NEW Q, NEW red, Redone(S, Q), RowsLaid(S), Led(S, red), Caught(S, red)
  PROVE  /\ RowsLaid(Q) /\ Led(Q, red) /\ Caught(Q, red)
         /\ NoAlias(S) => NoAlias(Q)
         /\ \A gone : OnePathed(S, gone) => OnePathed(Q, gone)
         /\ \A p : OnPath(S, p) => OnPath(Q, p)
         /\ RowIds(Q) = RowIds(S)
<1>1. \A q \in Q : \E r \in S : SameRow(r, q) /\ IsRow(r)
  BY DEF Redone, RowsLaid
<1>2. \A q \in Q : IsRow(q)
  BY <1>1, SameLeaves
<1>3. ASSUME NEW q1 \in Q, NEW q2 \in Q, NEW c \in Cohort(q1), NEW d \in Cohort(q2)
      PROVE  /\ c.id = d.id /\ c.path = d.path => c = d /\ q1 = q2
             /\ c.legacy # {} => d.id # Alias
  <2>1. PICK r1 \in S, r2 \in S : SameRow(r1, q1) /\ IsRow(r1) /\ SameRow(r2, q2) /\ IsRow(r2)
    BY <1>1
  <2>2. PICK c0 \in Cohort(r1) : SameRow(c0, c) /\ (InConflict(r1) => c0 = c)
    BY <2>1, SameLeaves
  <2>3. PICK d0 \in Cohort(r2) : SameRow(d0, d) /\ (InConflict(r2) => d0 = d)
    BY <2>1, SameLeaves
  <2>4. c.legacy # {} => d.id # Alias
    BY <2>2, <2>3 DEF SameRow, RowsLaid, AliasMerged
  <2>5. ASSUME c.id = d.id, c.path = d.path
        PROVE  c = d /\ q1 = q2
    <3>0. c0.id = d0.id /\ c0.path = d0.path
      BY <2>2, <2>3, <2>5 DEF SameRow
    <3>1. c0 = d0 /\ r1 = r2
      BY <3>0 DEF RowsLaid, LeavesApart
    <3>2. q1 = q2
      BY <2>1, <3>1 DEF Redone
    <3>3. CASE InConflict(r1)
      BY <2>2, <2>3, <3>1, <3>2, <3>3
    <3>4. CASE ~InConflict(r1)
      BY <2>1, <3>4, SameLeaves, CohortIs, <3>2
    <3> QED
      BY <3>2, <3>3, <3>4
  <2> QED
    BY <2>4, <2>5
<1>4. LostApart(Q)
  <2> SUFFICES ASSUME NEW q1 \in Q, NEW q2 \in Q, q1.id = LostId
               PROVE  q2.id # Alias /\ (q2.id = LostId => q2 = q1)
    BY DEF LostApart
  <2>1. PICK r1 \in S, r2 \in S : SameRow(r1, q1) /\ SameRow(r2, q2)
    BY <1>1
  <2> QED
    BY <2>1 DEF RowsLaid, LostApart, SameRow, Redone
<1>5. Led(Q, red)
  <2> SUFFICES ASSUME NEW n \in DOMAIN red
               PROVE  \E q \in Q : q.id = red[n] /\ (n \in Labels => Agrees(q, RepoOf(n)))
    BY DEF Led
  <2>1. PICK r \in S : r.id = red[n] /\ (n \in Labels => Agrees(r, RepoOf(n)))
    BY DEF Led
  <2>2. PICK q \in Q : SameRow(r, q)
    BY DEF Redone
  <2>3. IsRow(r)
    BY DEF RowsLaid
  <2>4. n \in Labels => Agrees(q, RepoOf(n))
    BY <2>1, <2>2, <2>3, SameLeaves
  <2> QED
    BY <2>1, <2>2, <2>4 DEF SameRow
<1>6. Caught(Q, red)
  BY DEF Caught, Redone, SameRow
<1>7. NoAlias(S) => NoAlias(Q)
  <2> SUFFICES ASSUME NoAlias(S), NEW q \in Q, NEW c \in Cohort(q)
               PROVE  c.id # Alias
    BY DEF NoAlias
  <2>1. PICK r \in S : SameRow(r, q) /\ IsRow(r)
    BY <1>1
  <2>2. PICK d \in Cohort(r) : SameRow(d, c)
    BY <2>1, SameLeaves
  <2> QED
    BY <2>2 DEF NoAlias, SameRow
<1>8. \A p : OnPath(S, p) => OnPath(Q, p)
  BY DEF OnPath, Redone, SameRow
<1>9. \A gone : OnePathed(S, gone) => OnePathed(Q, gone)
  BY <1>8 DEF OnePathed, Redone
<1>10. RowIds(Q) = RowIds(S)
  BY DEF RowIds, Redone, SameRow
<1> QED
  BY <1>2, <1>3, <1>4, <1>5, <1>6, <1>7, <1>8, <1>9, <1>10 DEF RowsLaid, LeavesApart, AliasMerged

\* What a stage of canonicalization leaves as it is.
Keeps(b, e) ==
    /\ IsBook(e) /\ e.retired = b.retired
    /\ OnePathed(b.rows, b.retired) => OnePathed(e.rows, e.retired)
    /\ NoAlias(b.rows) => NoAlias(e.rows)

\* On one path a cohort may fall apart into what it keeps.
LEMMA LostFallsApart ==
  ASSUME NEW S, NEW red, NEW less, NEW p, NEW l \in S,
         RowsLaid(S), Led(S, red), Caught(S, red), OnPath(S, p), InConflict(l), l.id = LostId,
         DOMAIN less \subseteq DOMAIN red,
         \A n \in DOMAIN red : red[n] # LostId <=> n \in DOMAIN less,
         \A n \in DOMAIN less : less[n] = red[n]
  PROVE  /\ Put(S \ {l}, l.cands) = (S \ {l}) \union l.cands
         /\ RowsLaid((S \ {l}) \union l.cands) /\ OnPath((S \ {l}) \union l.cands, p)
         /\ Led((S \ {l}) \union l.cands, less) /\ Caught((S \ {l}) \union l.cands, less)
         /\ NoAlias(S) => NoAlias((S \ {l}) \union l.cands)
<1> DEFINE Q == (S \ {l}) \union l.cands
<1>1. \A c \in l.cands : IsLeaf(c) /\ ~InConflict(c) /\ Cohort(c) = {c} /\ c \in Cohort(l)
  <2> TAKE c \in l.cands
  <2>1. c \in Cohort(l)
    BY CohortIs
  <2>2. IsLeaf(c)
    BY <2>1 DEF RowsLaid, IsRow
  <2>3. ~InConflict(c)
    BY <2>2 DEF IsLeaf, InConflict
  <2> QED
    BY <2>1, <2>2, <2>3, CohortIs
<1>2. \A q \in Q : \A c \in Cohort(q) : (q \in S \ {l} /\ c \in Cohort(q)) \/ (c \in l.cands /\ q = c)
  BY <1>1
<1>3. Put(S \ {l}, l.cands) = Q
  BY IdsOnPath DEF KeptHere, Put
<1>4. \A q \in Q : IsRow(q)
  BY <1>1 DEF RowsLaid, IsRow, IsLeaf
<1>5. ASSUME NEW q1 \in Q, NEW q2 \in Q, NEW c \in Cohort(q1), NEW d \in Cohort(q2)
      PROVE  /\ c.id = d.id /\ c.path = d.path => c = d /\ q1 = q2
             /\ c.legacy # {} => d.id # Alias
  <2>1. PICK r1 \in S : c \in Cohort(r1) /\ ((q1 = r1 /\ r1 # l) \/ (r1 = l /\ q1 = c))
    BY <1>1, <1>2
  <2>2. PICK r2 \in S : d \in Cohort(r2) /\ ((q2 = r2 /\ r2 # l) \/ (r2 = l /\ q2 = d))
    BY <1>1, <1>2
  <2> QED
    BY <2>1, <2>2 DEF RowsLaid, LeavesApart, AliasMerged
<1>6. \A q \in Q : q.id # LostId
  BY <1>1, NamesAre DEF IsLeaf, RowsLaid, LostApart
<1>7. RowsLaid(Q)
  BY <1>4, <1>5, <1>6 DEF RowsLaid, LeavesApart, AliasMerged, LostApart
<1>8. OnPath(Q, p)
  BY <1>1, NamesAre DEF OnPath, IsLeaf
<1>9. Led(Q, less)
  BY DEF Led
<1>10. Caught(Q, less)
  BY <1>1, <1>6 DEF Caught, IsLeaf
<1>11. NoAlias(S) => NoAlias(Q)
  BY <1>1, <1>2 DEF NoAlias
<1> QED
  BY <1>3, <1>7, <1>8, <1>9, <1>10, <1>11

\* Expansion keeps a registry as it should be.
LEMMA ExpandedSound ==
  ASSUME NEW b, Laid(b), Placed(b)
  PROVE  Laid(Expanded(b)) /\ Placed(Expanded(b)) /\ Keeps(b, Expanded(b))
<1> DEFINE back == {r \in b.rows : /\ InConflict(r) /\ r.state = "identity_unresolved"
                                   /\ inspection[r.path] \in {"ok", "snapshot"}}
<1> DEFINE names == {r.id : r \in back}
<1> DEFINE less == [n \in {m \in DOMAIN b.redirects : b.redirects[m] \notin names} |-> b.redirects[n]]
<1> DEFINE rows == Put(b.rows \ back, UNION {r.cands : r \in back})
<1>1. /\ IsBook(Expanded(b)) /\ Expanded(b).rows = rows /\ Expanded(b).redirects = less
      /\ Expanded(b).retired = b.retired
  <2>1. Expanded(b) = [b EXCEPT !.rows = rows, !.redirects = less]
    BY DEF Expanded
  <2>2. IsBook(b)
    BY DEF Laid
  <2> HIDE DEF rows, less
  <2>3. PICK x, y, e : x = rows /\ y = less /\ e = Expanded(b)
    OBVIOUS
  <2>4. e = [b EXCEPT !.rows = x, !.redirects = y]
    BY <2>1, <2>3
  <2>5. IsBook(e) /\ e.rows = x /\ e.redirects = y /\ e.retired = b.retired
    BY <2>2, <2>4 DEF IsBook
  <2> QED
    BY <2>3, <2>5, Zenon
<1>2. DOMAIN less \subseteq DOMAIN b.redirects /\ \A n \in DOMAIN less : less[n] = b.redirects[n]
  OBVIOUS
<1>3. \A n \in DOMAIN b.redirects : n \in DOMAIN less <=> b.redirects[n] \notin names
  OBVIOUS
<1> HIDE DEF less
<1>4. CASE back = {}
  <2>1. rows = b.rows
    BY <1>4 DEF Put
  <2>2. DOMAIN less = DOMAIN b.redirects
    BY <1>2, <1>3, <1>4
  <2>3. Led(b.rows, less) /\ Caught(b.rows, less)
    BY <1>2, <2>2 DEF Laid, Led, Caught
  <2> HIDE DEF rows
  <2>4. Laid(Expanded(b))
    BY <1>1, <2>1, <2>3 DEF Laid
  <2>5. Placed(Expanded(b))
    BY <1>1, <2>1, <2>2 DEF RawRows, Placed
  <2> QED
    BY <1>1, <2>1, <2>4, <2>5 DEF Keeps
<1>5. ASSUME NEW l \in back
      PROVE  Laid(Expanded(b)) /\ Placed(Expanded(b)) /\ Keeps(b, Expanded(b))
  <2>1. \A r \in back : r.id = LostId
    BY DEF Laid, RowsLaid, IsRow, IsConflict
  <2>2. back = {l}
    BY <2>1 DEF Laid, RowsLaid, LostApart
  <2>3. names = {LostId} /\ rows = Put(b.rows \ {l}, l.cands) /\ l \in b.rows /\ InConflict(l) /\ l.id = LostId
    BY <2>1, <2>2
  <2>4. PICK p \in Paths \ b.retired : OnPath(b.rows, p)
    BY <2>3, NamesAre DEF Placed, OnePathed, CloneOnly, RawRows
  <2>5. \A n \in DOMAIN b.redirects : b.redirects[n] # LostId <=> n \in DOMAIN less
    BY <1>3, <2>3
  <2> HIDE DEF rows, names, back
  <2>6. /\ rows = (b.rows \ {l}) \union l.cands
        /\ RowsLaid(rows) /\ OnPath(rows, p) /\ Led(rows, less) /\ Caught(rows, less)
        /\ NoAlias(b.rows) => NoAlias(rows)
    <3>1. RowsLaid(b.rows) /\ Led(b.rows, b.redirects) /\ Caught(b.rows, b.redirects)
      BY DEF Laid
    <3>2. PICK S, red, lost : S = b.rows /\ red = b.redirects /\ lost = less
      OBVIOUS
    <3>3. /\ Put(S \ {l}, l.cands) = (S \ {l}) \union l.cands
          /\ RowsLaid((S \ {l}) \union l.cands) /\ OnPath((S \ {l}) \union l.cands, p)
          /\ Led((S \ {l}) \union l.cands, lost) /\ Caught((S \ {l}) \union l.cands, lost)
          /\ NoAlias(S) => NoAlias((S \ {l}) \union l.cands)
      <4>1. l \in S /\ RowsLaid(S) /\ Led(S, red) /\ Caught(S, red) /\ OnPath(S, p)
        BY <2>3, <2>4, <3>1, <3>2
      <4>2. /\ InConflict(l) /\ l.id = LostId /\ DOMAIN lost \subseteq DOMAIN red
            /\ \A n \in DOMAIN red : red[n] # LostId <=> n \in DOMAIN lost
            /\ \A n \in DOMAIN lost : lost[n] = red[n]
        BY <1>2, <2>3, <2>5, <3>2
      <4> QED
        BY <4>1, <4>2, LostFallsApart
    <3> QED
      BY <2>3, <3>2, <3>3
  <2>7. OnePathed(rows, b.retired)
    BY <2>4, <2>6 DEF OnePathed
  <2> QED
    BY <1>1, <2>6, <2>7 DEF Laid, Placed, Keeps
<1> QED
  BY <1>4, <1>5

\* What an inspection makes of a row is not another row.
LEMMA InspectedIs ==
  ASSUME NEW r, IsRow(r), ~InConflict(r)
  PROVE  /\ SameRow(r, Inspected(r)) /\ SameRow(r, Blocked(r, SilentAs(inspection[r.path])))
         /\ inspection[r.path] = "snapshot" => ~Inspected(r).enabled
         /\ ~Blocked(r, SilentAs(inspection[r.path])).enabled
<1>1. RowShape(r)
  BY DEF IsRow
<1>2. \A why : SameRow(r, Blocked(r, why)) /\ ~Blocked(r, why).enabled
  <2> TAKE why
  <2>1. PICK a1, a2, a3, a4, a5, a6, a7, a8, a9, a10 :
           r = [id |-> a1, repo |-> a2, path |-> a3, policy |-> a4, enabled |-> a5, was |-> a6,
                state |-> a7, gen |-> a8, legacy |-> a9, cands |-> a10]
    BY <1>1 DEF RowShape
  <2>2. PICK x : Blocked(r, why) = [r EXCEPT !.was = x, !.enabled = FALSE, !.state = why]
    BY DEF Blocked
  <2>3. Blocked(r, why) = [id |-> a1, repo |-> a2, path |-> a3, policy |-> a4, enabled |-> FALSE, was |-> x,
                           state |-> why, gen |-> a8, legacy |-> a9, cands |-> a10]
    BY <2>1, <2>2
  <2> QED
    BY <2>1, <2>3 DEF SameRow, RowShape
<1>3. SameRow(r, Unblocked(r))
  BY <1>1 DEF Unblocked, SameRow, RowShape
<1>4. SameRow(r, r)
  BY <1>1 DEF SameRow
<1> QED
  BY <1>2, <1>3, <1>4 DEF Inspected

\* Inspection changes no row into another one.
LEMMA InspectionRedoes ==
  ASSUME NEW S, RowsLaid(S)
  PROVE  Redone(S, {IF InConflict(r) THEN r ELSE Inspected(r) : r \in S})
<1> DEFINE Seen(r) == IF InConflict(r) THEN r ELSE Inspected(r)
<1> DEFINE Q == {Seen(r) : r \in S}
<1>1. \A r \in S : IsRow(r) /\ SameRow(r, Seen(r))
  <2> TAKE r \in S
  <2>1. IsRow(r)
    BY DEF RowsLaid
  <2>2. CASE InConflict(r)
    BY <2>1, <2>2 DEF SameRow, IsRow, IsConflict
  <2>3. CASE ~InConflict(r)
    BY <2>1, <2>3, InspectedIs
  <2> QED
    BY <2>1, <2>2, <2>3
<1>2. ASSUME NEW r \in S, NEW q \in Q, SameRow(r, q)
      PROVE  q = Seen(r)
  <2>1. PICK s \in S : q = Seen(s)
    OBVIOUS
  <2> HIDE DEF Seen
  <2>2. SameRow(s, q)
    BY <1>1, <2>1
  <2>3. r.id = s.id /\ r.path = s.path /\ r.cands = s.cands
    BY <1>2, <2>2 DEF SameRow
  <2>4. r = s
    <3>1. CASE InConflict(r)
      <4>1. PICK c \in r.cands : c \in s.cands
        BY <2>3, <3>1 DEF InConflict
      <4>2. c \in Cohort(r) /\ c \in Cohort(s)
        BY <2>3, <3>1, <4>1, CohortIs DEF InConflict
      <4> QED
        BY <4>2 DEF RowsLaid, LeavesApart
    <3>2. CASE ~InConflict(r)
      BY <2>3, <3>2, CohortIs DEF InConflict, RowsLaid, LeavesApart
    <3> QED
      BY <3>1, <3>2
  <2> QED
    BY <2>1, <2>4
<1>3. \A r \in S : Seen(r) \in Q
  OBVIOUS
<1>4. \A q \in Q : \E r \in S : q = Seen(r)
  OBVIOUS
<1> HIDE DEF Seen, Q
<1>5. Redone(S, Q)
  BY <1>1, <1>2, <1>3, <1>4 DEF Redone
<1> QED
  BY <1>5 DEF Q, Seen

-----------------------------------------------------------------------------
(* Rows that take the place of others.                                      *)

Froms(made) == UNION {m.from : m \in made}
MadeRows(made) == {m.row : m \in made}
MadeNames(made) == UNION {OldNames(m.from, m.row.id) : m \in made}
LedBy(made, red, new) ==
    /\ DOMAIN new = DOMAIN red \union MadeNames(made)
    /\ \A n \in MadeNames(made) : \E m \in made : n \in OldNames(m.from, m.row.id) /\ new[n] = m.row.id
    /\ \A n \in DOMAIN red \ MadeNames(made) : new[n] = red[n]

\* What Replace makes of a registry.
LEMMA ReplaceIs ==
  ASSUME NEW b, IsBook(b), NEW made
  PROVE  /\ IsBook(Replace(b, made)) /\ Replace(b, made).retired = b.retired
         /\ Replace(b, made).rows = Put(b.rows \ Froms(made), MadeRows(made))
         /\ LedBy(made, b.redirects, Replace(b, made).redirects)
<1> DEFINE maker(n) == CHOOSE m \in made : n \in OldNames(m.from, m.row.id)
<1> DEFINE red == [n \in DOMAIN b.redirects \union MadeNames(made) |->
                     IF n \in MadeNames(made) THEN maker(n).row.id ELSE b.redirects[n]]
<1> DEFINE rows == Put(b.rows \ Froms(made), MadeRows(made))
<1>1. Replace(b, made) = [b EXCEPT !.rows = rows, !.redirects = red]
  BY DEF Replace, Froms, MadeRows, MadeNames
<1>2. \A n \in MadeNames(made) : maker(n) \in made /\ n \in OldNames(maker(n).from, maker(n).row.id)
  BY DEF MadeNames
<1>3. LedBy(made, b.redirects, red)
  <2>1. DOMAIN red = DOMAIN b.redirects \union MadeNames(made)
    OBVIOUS
  <2>2. \A n \in MadeNames(made) : red[n] = maker(n).row.id
    OBVIOUS
  <2>3. \A n \in DOMAIN b.redirects \ MadeNames(made) : red[n] = b.redirects[n]
    OBVIOUS
  <2> HIDE DEF red, maker
  <2> QED
    BY <1>2, <2>1, <2>2, <2>3 DEF LedBy
<1> HIDE DEF red, rows
<1>4. PICK x, y, e : x = rows /\ y = red /\ e = Replace(b, made)
  OBVIOUS
<1>5. e = [b EXCEPT !.rows = x, !.redirects = y]
  BY <1>1, <1>4
<1>6. IsBook(e) /\ e.rows = x /\ e.redirects = y /\ e.retired = b.retired
  BY <1>5 DEF IsBook
<1> QED
  BY <1>3, <1>4, <1>6, Zenon DEF rows

\* An old name that is a label names the repository of a row it was on.
LEMMA OldNameIs ==
  ASSUME NEW F, \A r \in F : IsLeaf(r), NEW id, NEW n \in OldNames(F, id)
  PROVE  /\ n \in RegistrationIds
         /\ \E r \in F : /\ n = r.id \/ n \in r.legacy
                         /\ n \in Labels => /\ RepoOf(n) = RepoOf(r.repo)
                                            /\ n = r.id \/ (n = Alias /\ r.legacy # {})
<1>1. PICK r \in F : n = r.id \/ n \in r.legacy
  BY DEF OldNames
<1>2. IsLeaf(r)
  OBVIOUS
<1>3. n \in r.legacy => n \in {Alias, LostId}
  BY <1>2 DEF IsLeaf
<1>4. n \in Labels /\ n \in r.legacy => n = Alias /\ r.id = Main
  BY <1>2, <1>3, NamesAre DEF IsLeaf
<1>5. RepoOf(Alias) = RepoOf(Main)
  BY NamesAre DEF RepoOf
<1>6. n \in RegistrationIds
  BY <1>1, <1>2, <1>3, NamesAre DEF IsLeaf
<1> QED
  BY <1>1, <1>2, <1>4, <1>5, <1>6 DEF IsLeaf

\* The names of rows that others take the place of lead where they should.
LEMMA ReplacedLeads ==
  ASSUME NEW S, NEW red, \A r \in S : IsRow(r), Led(S, red), Caught(S, red),
         NEW made, NEW Q, NEW new, Q = Put(S \ Froms(made), MadeRows(made)), LedBy(made, red, new),
         \A m \in made : m.from \subseteq LoneRows(S) /\ m.row.cands \subseteq m.from,
         \A m \in made : \A r \in m.from : Agrees(m.row, RepoOf(r.repo)),
         \A m \in made : \A q \in S \ Froms(made) : \A x : q.id = m.row.id /\ Agrees(q, x) => Agrees(m.row, x),
         \A m, k \in made : \A r \in m.from : \A s \in k.from : RepoOf(r.repo) = RepoOf(s.repo) => m = k,
         \A q \in S \ Froms(made) : \A c \in q.cands : \A r \in Froms(made) :
             c.id # r.id /\ (r.legacy # {} => c.id # Alias)
  PROVE  DOMAIN new \subseteq RegistrationIds /\ Leading(Q, new) /\ Caught(Q, new)
<1>1. \A m \in made : \A r \in m.from : r \in S /\ IsLeaf(r)
  BY CohortIs DEF LoneRows, IsRow
<1>2. \A m \in made : m.row \in Q
  BY DEF Put, MadeRows
<1>3. \A n \in MadeNames(made) : \E m \in made : n \in OldNames(m.from, m.row.id) /\ new[n] = m.row.id
  BY DEF LedBy
<1>4. DOMAIN new \subseteq RegistrationIds
  BY <1>1, OldNameIs DEF MadeNames, LedBy, Led
<1>5. \A q \in S : q \in Q \/ q \in Froms(made) \/ \E m \in made : m.row.id = q.id
  BY DEF Put, MadeRows
<1>6. ASSUME NEW x \in Repos, NEW n \in NamesOf(Q, x), n \in DOMAIN new \ RowIds(Q)
      PROVE  new[n] \in NamesOf(Q, x)
  <2>1. n \in Labels /\ RepoOf(n) = x
    BY <1>6 DEF NamesOf, RowIds
  <2>2. CASE n \in MadeNames(made)
    <3>1. PICK m \in made : n \in OldNames(m.from, m.row.id) /\ new[n] = m.row.id
      BY <1>3, <2>2
    <3>2. PICK r \in m.from : RepoOf(r.repo) = x
      BY <1>1, <2>1, <3>1, OldNameIs
    <3>3. PICK q \in Q : q = m.row /\ Agrees(q, x)
      BY <1>2, <3>2
    <3>4. new[n] = q.id
      BY <3>1, <3>3
    <3> QED
      BY <3>3, <3>4 DEF NamesOf
  <2>3. CASE n \notin MadeNames(made)
    <3>1. n \in DOMAIN red /\ new[n] = red[n]
      BY <1>6, <2>3 DEF LedBy
    <3>2. PICK q \in S : q.id = red[n] /\ Agrees(q, x)
      BY <2>1, <3>1 DEF Led
    <3>3. CASE q \in Q
      BY <3>1, <3>2, <3>3 DEF NamesOf
    <3>4. CASE q \in Froms(made)
      BY <1>1, <3>4, <3>2, CohortIs, <3>1 DEF Froms, IsLeaf, InConflict, Agrees, Mixed, NamesOf
    <3>5. CASE q \notin Q /\ q \notin Froms(made)
      <4>1. PICK m \in made : m.row.id = q.id
        BY <1>5, <3>5
      <4>2. Agrees(m.row, x)
        BY <3>2, <3>5, <4>1
      <4>3. PICK k \in Q : k = m.row /\ Agrees(k, x)
        BY <1>2, <4>2
      <4>4. new[n] = k.id
        BY <3>1, <3>2, <4>1, <4>3
      <4> QED
        BY <4>3, <4>4 DEF NamesOf
    <3> QED
      BY <3>3, <3>4, <3>5
  <2> QED
    BY <2>2, <2>3
<1>7. ASSUME NEW q \in Q, NEW c \in q.cands, c.id # q.id
      PROVE  c.id \in DOMAIN new /\ new[c.id] = q.id
  <2>1. CASE q \in MadeRows(made)
    <3>1. PICK m \in made : q = m.row
      BY <2>1 DEF MadeRows
    <3>2. c \in m.from /\ IsLeaf(c) /\ c.id \in Labels
      BY <1>1, <3>1 DEF IsLeaf
    <3>3. c.id \in OldNames(m.from, m.row.id)
      BY <1>7, <3>1, <3>2 DEF OldNames
    <3>4. c.id \in MadeNames(made)
      BY <3>3 DEF MadeNames
    <3>5. PICK k \in made : c.id \in OldNames(k.from, k.row.id) /\ new[c.id] = k.row.id
      BY <1>3, <3>4
    <3>6. PICK r \in k.from : RepoOf(c.id) = RepoOf(r.repo)
      BY <1>1, <3>2, <3>5, OldNameIs
    <3>7. k = m
      BY <3>2, <3>6 DEF IsLeaf
    <3> QED
      BY <3>1, <3>4, <3>5, <3>7 DEF LedBy
  <2>2. CASE q \notin MadeRows(made)
    <3>1. q \in S \ Froms(made)
      BY <2>2 DEF Put
    <3>2. c.id \in DOMAIN red /\ red[c.id] = q.id
      BY <1>7, <3>1 DEF Caught
    <3>3. c.id \in Labels
      BY <3>1, CohortIs DEF InConflict, IsRow, IsLeaf
    <3>4. c.id \notin MadeNames(made)
      <4> SUFFICES ASSUME c.id \in MadeNames(made) PROVE FALSE
        OBVIOUS
      <4>1. PICK m \in made : c.id \in OldNames(m.from, m.row.id)
        BY DEF MadeNames
      <4>2. PICK r \in m.from : c.id = r.id \/ (c.id = Alias /\ r.legacy # {})
        BY <1>1, <3>3, <4>1, OldNameIs
      <4>3. r \in Froms(made)
        BY <4>2 DEF Froms
      <4> QED
        BY <3>1, <4>2, <4>3
    <3> QED
      BY <3>2, <3>4 DEF LedBy
  <2> QED
    BY <2>1, <2>2
<1>8. Leading(Q, new)
  BY <1>6 DEF Leading
<1>9. Caught(Q, new)
  BY <1>7 DEF Caught
<1> QED
  BY <1>4, <1>8, <1>9

-----------------------------------------------------------------------------
(* The rows that take the place of others.                                  *)

\* A row for others is built on one of them.
LEMMA BaseRowIs ==
  ASSUME NEW F, F # {}, NEW id
  PROVE  BaseRow(F, id) \in F
<1>1. \A T : T # {} => AnyOf(T) \in T
  BY DEF AnyOf
<1>2. RowsNamed(F, id) # {} => AnyOf(RowsNamed(F, id)) \in F
  BY <1>1 DEF RowsNamed
<1> QED
  BY <1>1, <1>2 DEF BaseRow

\* A conflict row keeps the registrations it is made of, disabled.
LEMMA ConflictRowIs ==
  ASSUME NEW F, \A r \in F : IsLeaf(r), \E c, d \in F : c # d,
         NEW id \in {CloneId, LostId} \union Repos, NEW kind,
         kind = "identity_unresolved" => id = LostId,
         id \in Repos => \A c \in F : RepoOf(c.repo) = id
  PROVE  /\ IsRow(ConflictRow(F, id, kind)) /\ InConflict(ConflictRow(F, id, kind))
         /\ ConflictRow(F, id, kind).id = id /\ ConflictRow(F, id, kind).cands = F
         /\ \E r \in F : ConflictRow(F, id, kind).path = r.path
<1>1. PICK r \in F : r = BaseRow(F, id)
  BY BaseRowIs
<1>2. PICK g, names : g = TopGeneration(F) + 1 /\ names = OldNames(F, id)
  OBVIOUS
<1>3. ConflictRow(F, id, kind) = [r EXCEPT !.id = id, !.enabled = FALSE, !.state = kind,
                                     !.gen = g, !.legacy = names, !.cands = F]
  BY <1>1, <1>2, Zenon DEF ConflictRow
<1>4. PICK a1, a2, a3, a4, a5, a6, a7, a8, a9, a10 :
         r = [id |-> a1, repo |-> a2, path |-> a3, policy |-> a4, enabled |-> a5, was |-> a6,
              state |-> a7, gen |-> a8, legacy |-> a9, cands |-> a10]
  BY DEF IsLeaf, RowShape
<1>5. PICK q : q = ConflictRow(F, id, kind)
  OBVIOUS
<1>6. q = [id |-> id, repo |-> a2, path |-> a3, policy |-> a4, enabled |-> FALSE, was |-> a6,
           state |-> kind, gen |-> g, legacy |-> names, cands |-> F]
  BY <1>3, <1>4, <1>5
<1>7. q.id = id /\ q.cands = F /\ q.path = r.path /\ ~q.enabled /\ q.state = kind /\ RowShape(q)
  BY <1>4, <1>6 DEF RowShape
<1>8. InConflict(q)
  BY <1>1, <1>7 DEF InConflict
<1>9. IsConflict(q)
  BY <1>7 DEF IsConflict
<1>10. IsRow(q)
  BY <1>7, <1>8, <1>9, CohortIs DEF IsRow
<1> QED
  BY <1>5, <1>7, <1>8, <1>10

\* The rows of one repository become its row, under its name, or a conflict
\* that keeps them.
LEMMA RepoRowIs ==
  ASSUME NEW F, F # {}, NEW x \in Repos, \A r \in F : IsLeaf(r) /\ RepoOf(r.repo) = x
  PROVE  /\ IsRow(RepoRow(F, x)) /\ RepoRow(F, x).id = x
         /\ \E r \in F : RepoRow(F, x).path = r.path
         /\ InConflict(RepoRow(F, x)) => RepoRow(F, x).cands = F
         /\ ~InConflict(RepoRow(F, x)) => RepoRow(F, x).repo = x /\ RepoRow(F, x).legacy = OldNames(F, x)
<1>1. CASE Cardinality({r.policy : r \in F}) > 1
  <2>1. \E c, d \in F : c # d
    <3> SUFFICES ASSUME \A c, d \in F : c = d PROVE FALSE
      OBVIOUS
    <3>1. PICK c \in F : F = {c}
      OBVIOUS
    <3>2. {r.policy : r \in F} = {c.policy}
      BY <3>1
    <3>3. Cardinality({c.policy}) = 1
      BY FS_Singleton
    <3>4. Cardinality({r.policy : r \in F}) = 1
      BY <3>2, <3>3, Zenon
    <3>5. ~(1 > 1)
      OBVIOUS
    <3> QED
      BY <1>1, <3>4, <3>5, Zenon
  <2>2. RepoRow(F, x) = ConflictRow(F, x, "identity_conflict")
    BY <1>1 DEF RepoRow
  <2>3. PICK kind : kind = "identity_conflict"
    OBVIOUS
  <2>4. kind # "identity_unresolved" /\ x \in {CloneId, LostId} \union Repos
    BY <2>3
  <2>5. /\ IsRow(ConflictRow(F, x, kind)) /\ InConflict(ConflictRow(F, x, kind))
        /\ ConflictRow(F, x, kind).id = x /\ ConflictRow(F, x, kind).cands = F
        /\ \E r \in F : ConflictRow(F, x, kind).path = r.path
    BY <2>1, <2>4, ConflictRowIs
  <2> QED
    BY <2>2, <2>3, <2>5
<1>2. CASE ~(Cardinality({r.policy : r \in F}) > 1)
  <2>1. PICK r \in F : r = BaseRow(F, x)
    BY BaseRowIs
  <2>2. PICK names, g : /\ names = OldNames(F, x)
                        /\ RepoRow(F, x) = [r EXCEPT !.id = x, !.repo = x, !.legacy = names, !.gen = g]
    BY <1>2, <2>1, Zenon DEF RepoRow
  <2>3. PICK a1, a2, a3, a4, a5, a6, a7, a8, a9, a10 :
           r = [id |-> a1, repo |-> a2, path |-> a3, policy |-> a4, enabled |-> a5, was |-> a6,
                state |-> a7, gen |-> a8, legacy |-> a9, cands |-> a10]
    BY DEF IsLeaf, RowShape
  <2>4. PICK q : q = RepoRow(F, x)
    OBVIOUS
  <2>5. q = [id |-> x, repo |-> x, path |-> a3, policy |-> a4, enabled |-> a5, was |-> a6,
             state |-> a7, gen |-> g, legacy |-> names, cands |-> a10]
    BY <2>2, <2>3, <2>4
  <2>6. q.id = x /\ q.repo = x /\ q.path = r.path /\ q.legacy = names /\ q.cands = r.cands /\ RowShape(q)
    BY <2>3, <2>5 DEF RowShape
  <2>7. names \subseteq {Alias, LostId} /\ (Alias \in names => x = Main)
    <3> SUFFICES ASSUME NEW n \in names PROVE n \in {Alias, LostId} /\ (n = Alias => x = Main)
      OBVIOUS
    <3>1. n \in OldNames(F, x) /\ n # x
      BY <2>2 DEF OldNames
    <3>2. PICK s \in F : /\ n = s.id \/ n \in s.legacy
                         /\ n \in Labels => RepoOf(n) = RepoOf(s.repo)
      BY <3>1, OldNameIs
    <3>3. IsLeaf(s) /\ RepoOf(s.repo) = x
      OBVIOUS
    <3>4. n \in Labels => n \in {Alias, Main} /\ x = Main
      BY <3>1, <3>2, <3>3, NamesAre, RepoOfIs
    <3>5. Main = x => n # Main
      BY <3>1
    <3> QED
      BY <3>2, <3>3, <3>4, <3>5, NamesAre DEF IsLeaf
  <2>8. ~InConflict(q) /\ q.cands = {}
    BY <2>6 DEF InConflict, IsLeaf
  <2>9. IsLeaf(q)
    BY <2>6, <2>7, <2>8, NamesAre DEF IsLeaf
  <2>10. IsRow(q)
    BY <2>6, <2>8, <2>9, CohortIs DEF IsRow
  <2> QED
    BY <2>2, <2>4, <2>6, <2>8, <2>10
<1> QED
  BY <1>1, <1>2

-----------------------------------------------------------------------------
(* What canonicalization puts together.                                     *)

\* A registry whose redirects are only to be normalized.
Ready(S, red) ==
    RowsLaid(S) /\ DOMAIN red \subseteq RegistrationIds /\ Leading(S, red) /\ KeptHere(S) /\ Caught(S, red)

Group(F, x) == {r \in F : RepoOf(r.repo) = x}
Groups(F) == {[row |-> RepoRow(Group(F, x), x), from |-> Group(F, x)] : x \in {RepoOf(r.repo) : r \in F}}

\* The rows of Groups: one for each repository, from all its rows.
LEMMA GroupsAre ==
  ASSUME NEW F, \A r \in F : IsLeaf(r)
  PROVE  /\ \A m \in Groups(F) : \E x \in Repos : /\ m.from = Group(F, x) /\ m.from # {}
                                                  /\ m.row = RepoRow(Group(F, x), x)
         /\ Froms(Groups(F)) = F
<1>1. ASSUME NEW m \in Groups(F)
      PROVE  \E x \in Repos : m.from = Group(F, x) /\ m.from # {} /\ m.row = RepoRow(Group(F, x), x)
  <2>1. PICK r \in F : m = [row |-> RepoRow(Group(F, RepoOf(r.repo)), RepoOf(r.repo)),
                            from |-> Group(F, RepoOf(r.repo))]
    BY DEF Groups
  <2>2. RepoOf(r.repo) \in Repos
    BY RepoOfIs DEF IsLeaf
  <2>3. r \in Group(F, RepoOf(r.repo))
    BY DEF Group
  <2> QED
    BY <2>1, <2>2, <2>3
<1>2. ASSUME NEW r \in F
      PROVE  r \in Froms(Groups(F))
  <2>1. PICK x, m : /\ x = RepoOf(r.repo)
                    /\ m = [row |-> RepoRow(Group(F, x), x), from |-> Group(F, x)]
    OBVIOUS
  <2>2. m \in Groups(F) /\ r \in m.from
    BY <2>1 DEF Groups, Group
  <2> QED
    BY <2>2 DEF Froms
<1>3. \A r \in Froms(Groups(F)) : r \in F
  BY <1>1 DEF Froms, Group
<1> QED
  BY <1>1, <1>2, <1>3

\* On one path whose cache answers, the rows of each repository come together.
LEMMA GroupedReady ==
  ASSUME NEW S, NEW red, RowsLaid(S), Led(S, red), Caught(S, red), NEW p, OnPath(S, p),
         NEW F, F = LoneRows(S), NEW Q, NEW new, Q = Put(S \ F, MadeRows(Groups(F))), LedBy(Groups(F), red, new)
  PROVE  /\ Ready(Q, new) /\ OnPath(Q, p) /\ (NoAlias(S) => NoAlias(Q))
         /\ \A q \in Q : q.id # Alias
<1>1. \A r \in F : r \in S /\ IsLeaf(r) /\ ~InConflict(r) /\ Cohort(r) = {r} /\ r.path = p
  <2> TAKE r \in F
  <2>1. r \in S /\ ~InConflict(r)
    BY DEF LoneRows
  <2> QED
    BY <2>1, CohortIs DEF RowsLaid, IsRow, OnPath
<1>2. \A r \in S \ F : InConflict(r) /\ Cohort(r) = r.cands /\ IsConflict(r) /\ IsRow(r) /\ r.id \in {LostId} \union Repos
  <2> TAKE r \in S \ F
  <2>1. InConflict(r) /\ IsRow(r) /\ r.id # CloneId
    BY DEF LoneRows, RowsLaid, OnPath
  <2> QED
    BY <2>1, CohortIs DEF IsRow, IsConflict
<1>3. \A c \in UNION {Cohort(r) : r \in S} : c.path = p /\ IsLeaf(c)
  BY <1>1, <1>2 DEF OnPath, RowsLaid, IsRow
<1>4. ASSUME NEW q \in MadeRows(Groups(F))
      PROVE  \E x \in Repos : /\ Group(F, x) # {} /\ q = RepoRow(Group(F, x), x)
                              /\ IsRow(q) /\ q.id = x /\ q.path = p
                              /\ InConflict(q) => q.cands = Group(F, x) /\ Cohort(q) = Group(F, x)
                              /\ ~InConflict(q) => /\ Cohort(q) = {q} /\ q.repo = x /\ q.cands = {}
                                                   /\ q.legacy = OldNames(Group(F, x), x)
  <2>1. PICK m \in Groups(F) : q = m.row
    BY DEF MadeRows
  <2>2. PICK x \in Repos : m.from = Group(F, x) /\ m.from # {} /\ m.row = RepoRow(Group(F, x), x)
    BY <1>1, GroupsAre
  <2>3. PICK G : G = Group(F, x) /\ G # {}
    BY <2>2
  <2>4. \A r \in G : r \in F /\ IsLeaf(r) /\ RepoOf(r.repo) = x
    BY <1>1, <2>3 DEF Group
  <2>5. /\ IsRow(RepoRow(G, x)) /\ RepoRow(G, x).id = x
        /\ \E r \in G : RepoRow(G, x).path = r.path
        /\ InConflict(RepoRow(G, x)) => RepoRow(G, x).cands = G
        /\ ~InConflict(RepoRow(G, x)) => RepoRow(G, x).repo = x /\ RepoRow(G, x).legacy = OldNames(G, x)
    BY <2>3, <2>4, RepoRowIs
  <2>6. q = RepoRow(G, x)
    BY <2>1, <2>2, <2>3
  <2>7. q.path = p
    BY <1>1, <2>4, <2>5, <2>6
  <2> QED
    BY <2>3, <2>5, <2>6, <2>7, CohortIs
<1>5. Q \subseteq (S \ F) \union MadeRows(Groups(F))
  BY DEF Put
<1>6. \A x \in Repos : \A s \in Group(F, x) : /\ s \in F /\ RepoOf(s.id) = x
                                              /\ s.id # x => s.id = Alias /\ x = Main
  <2> TAKE x \in Repos
  <2> TAKE s \in Group(F, x)
  <2>1. s \in F /\ s.id \in Labels /\ RepoOf(s.id) = x
    BY <1>1 DEF Group, IsLeaf
  <2> QED
    BY <2>1, RepoOfIs, NamesAre
<1>7. ASSUME NEW r \in S \ F, NEW x \in Repos, NEW s \in Group(F, x)
      PROVE  r.id # x /\ \A c \in r.cands : c.id # x
  <2>1. s \in F /\ (s.id # x => s.id = Alias /\ x = Main)
    BY <1>6
  <2>2. \A c \in r.cands : c.id # s.id
    BY <1>2, <1>1, <2>1 DEF OnPath, RowsLaid, LeavesApart
  <2>3. CASE r.id \in Repos
    BY <1>2, <2>3, NamesAre, RepoConflictIs, <2>1, <2>2
  <2>4. CASE r.id = LostId
    BY <1>1, <2>1, <2>4, <2>2, NamesAre DEF RowsLaid, LostApart
  <2> QED
    BY <1>2, <2>3, <2>4
<1>8. OnPath(Q, p)
  <2> SUFFICES ASSUME NEW q \in Q PROVE q.path = p /\ q.id # CloneId /\ \A c \in q.cands : c.path = p
    BY DEF OnPath
  <2>1. CASE q \in S \ F
    BY <2>1 DEF OnPath
  <2>2. CASE q \in MadeRows(Groups(F))
    BY <1>1, <1>4, <1>6, <2>2, NamesAre, CohortIs
  <2> QED
    BY <1>5, <2>1, <2>2
<1>9. \A q \in Q : IsRow(q) /\ q.id # Alias
  <2> TAKE q \in Q
  <2>1. CASE q \in S \ F
    BY <1>2, <2>1, NamesAre
  <2>2. CASE q \in MadeRows(Groups(F))
    BY <1>4, <2>2, NamesAre
  <2> QED
    BY <1>5, <2>1, <2>2
<1>10. \A q \in Q : q.id = LostId => q \in S
  BY <1>2, <1>4, <1>5, NamesAre
<1>11. LostApart(Q)
  BY <1>9, <1>10 DEF RowsLaid, LostApart
\* A leaf was one of a row that did not come together, or of one that did and
\* is kept by a conflict, or it is what they have become.
<1>12. ASSUME NEW q \in Q, NEW c \in Cohort(q)
       PROVE  \/ q \in S \ F /\ c \in q.cands
              \/ InConflict(q) /\ \E x \in Repos : c \in Group(F, x) /\ q = RepoRow(Group(F, x), x)
              \/ ~InConflict(q) /\ c = q /\ \E x \in Repos : /\ Group(F, x) # {} /\ q = RepoRow(Group(F, x), x)
                                                             /\ q.id = x /\ q.legacy = OldNames(Group(F, x), x)
  <2>1. CASE q \in S \ F
    BY <1>2, <1>12, <2>1
  <2>2. CASE q \in MadeRows(Groups(F))
    <3>1. PICK x \in Repos : /\ Group(F, x) # {} /\ q = RepoRow(Group(F, x), x) /\ q.id = x
                             /\ InConflict(q) => Cohort(q) = Group(F, x)
                             /\ ~InConflict(q) => Cohort(q) = {q} /\ q.legacy = OldNames(Group(F, x), x)
      BY <1>4, <2>2
    <3>2. CASE InConflict(q)
      BY <1>12, <3>1, <3>2
    <3>3. CASE ~InConflict(q)
      BY <1>12, <3>1, <3>3
    <3> QED
      BY <3>2, <3>3
  <2> QED
    BY <1>5, <2>1, <2>2
\* So it was a leaf, or is what they have become.
<1>21. ASSUME NEW q \in Q, NEW c \in Cohort(q)
       PROVE  \/ \E s \in S : c \in Cohort(s) /\ (IF q \in S \ F THEN s = q ELSE s = c /\ c \in F /\ InConflict(q))
              \/ ~InConflict(q) /\ c = q /\ q.id \in Repos
  <2>1. CASE q \in S \ F
    BY <1>21, <2>1
  <2>2. CASE q \notin S \ F /\ InConflict(q)
    <3>1. PICK x \in Repos : c \in Group(F, x)
      BY <1>12, <1>21, <2>2
    <3>2. c \in F /\ c \in S /\ c \in Cohort(c)
      BY <1>1, <1>6, <3>1
    <3> QED
      BY <2>2, <3>2
  <2>3. CASE q \notin S \ F /\ ~InConflict(q)
    BY <1>12, <1>21, <2>3
  <2> QED
    BY <2>1, <2>2, <2>3
<1>13. ASSUME NEW q1 \in Q, NEW q2 \in Q, NEW c \in Cohort(q1), NEW d \in Cohort(q2), c.id = d.id, c.path = d.path
       PROVE  c = d /\ q1 = q2
  <2>1. CASE q1 \in S \ F /\ q2 \in S \ F
    BY <1>13, <2>1 DEF RowsLaid, LeavesApart
  <2>2. ASSUME NEW q \in S \ F, NEW a \in Cohort(q), NEW k \in Q, NEW e \in Cohort(k), k \notin S \ F, a.id = e.id
        PROVE  FALSE
    <3>1. CASE InConflict(k)
      <4>1. PICK x \in Repos : e \in Group(F, x)
        BY <1>12, <2>2, <3>1
      <4>2. e \in F /\ e \in S /\ e \in Cohort(e) /\ e.path = p
        BY <1>1, <1>6, <4>1
      <4>3. a.path = p /\ q \in S
        BY <1>3
      <4> QED
        BY <2>2, <4>2, <4>3 DEF RowsLaid, LeavesApart
    <3>2. CASE ~InConflict(k)
      <4>0. \/ k \in S \ F /\ e \in k.cands
            \/ InConflict(k) /\ \E x \in Repos : e \in Group(F, x) /\ k = RepoRow(Group(F, x), x)
            \/ ~InConflict(k) /\ e = k /\ \E x \in Repos : /\ Group(F, x) # {} /\ k = RepoRow(Group(F, x), x)
                                                            /\ k.id = x /\ k.legacy = OldNames(Group(F, x), x)
        BY <1>12, <2>2
      <4>1. PICK x \in Repos : Group(F, x) # {} /\ e.id = x
        BY <2>2, <3>2, <4>0
      <4>2. PICK s : s \in Group(F, x)
        BY <4>1
      <4>3. a \in q.cands
        BY <1>2, <2>2
      <4> QED
        BY <1>7, <2>2, <4>1, <4>2, <4>3
    <3> QED
      BY <3>1, <3>2
  <2>3. CASE q1 \notin S \ F /\ q2 \notin S \ F
    <3>1. CASE InConflict(q1) /\ InConflict(q2)
      <4>1. PICK x \in Repos, y \in Repos : /\ c \in Group(F, x) /\ q1 = RepoRow(Group(F, x), x)
                                            /\ d \in Group(F, y) /\ q2 = RepoRow(Group(F, y), y)
        BY <1>12, <2>3, <3>1
      <4>2. c \in F /\ d \in F /\ RepoOf(c.id) = x /\ RepoOf(d.id) = y
        BY <1>6, <4>1
      <4>3. c = d
        BY <1>1, <1>13, <4>2 DEF RowsLaid, LeavesApart
      <4> QED
        BY <4>1, <4>2, <4>3
    <3>2. ASSUME NEW k \in Q, NEW j \in Q, k \notin S \ F, j \notin S \ F, InConflict(k), ~InConflict(j),
                 NEW a \in Cohort(k), NEW e \in Cohort(j), a.id = e.id
          PROVE  FALSE
      <4>1. PICK x \in Repos : a \in Group(F, x) /\ k = RepoRow(Group(F, x), x)
        BY <1>12, <3>2
      <4>2. PICK y \in Repos : e.id = y /\ j = RepoRow(Group(F, y), y)
        BY <1>12, <3>2
      <4>3. RepoOf(a.id) = x /\ RepoOf(y) = y
        BY <1>6, <4>1, NamesAre, RepoOfIs
      <4> QED
        BY <3>2, <4>1, <4>2, <4>3
    <3>3. CASE ~InConflict(q1) /\ ~InConflict(q2)
      BY <1>12, <1>13, <2>3, <3>3
    <3> QED
      BY <1>13, <2>3, <3>1, <3>2, <3>3
  <2> QED
    BY <1>13, <2>1, <2>2, <2>3
<1>14. LeavesApart(Q)
  <2>1. \A r, s \in Q : \A c \in Cohort(r) : \A d \in Cohort(s) :
          c.id = d.id /\ c.path = d.path => c = d /\ r = s
    <3> TAKE q1, q2 \in Q
    <3> TAKE c \in Cohort(q1)
    <3> TAKE d \in Cohort(q2)
    <3> HAVE c.id = d.id /\ c.path = d.path
    <3> QED
      BY <1>13
  <2> QED
    BY <2>1, Zenon DEF LeavesApart
<1>15. ASSUME NEW q1 \in Q, NEW q2 \in Q, NEW c \in Cohort(q1), NEW d \in Cohort(q2), c.legacy # {}, d.id = Alias
       PROVE  FALSE
  <2>1. PICK r \in S : /\ d \in Cohort(r)
                       /\ IF q2 \in S \ F THEN r = q2 ELSE r = d /\ d \in F /\ InConflict(q2)
    BY <1>9, <1>15, <1>21
  <2>2. CASE \E s \in S : c \in Cohort(s)
    BY <1>15, <2>1, <2>2 DEF RowsLaid, AliasMerged
  <2>3. CASE ~ \E s \in S : c \in Cohort(s)
    <3>1. PICK x \in Repos : ~InConflict(q1) /\ q1 = RepoRow(Group(F, x), x) /\ c.legacy = OldNames(Group(F, x), x)
      <4>1. q1 \notin S \ F
        BY <1>15, <2>3
      <4>2. ~InConflict(q1) /\ c = q1
        BY <1>15, <1>21, <2>3
      <4> QED
        BY <1>12, <4>1, <4>2
    <3>2. PICK n : n \in OldNames(Group(F, x), x)
      BY <1>15, <3>1
    <3>3. PICK s \in Group(F, x) : (n = s.id \/ n \in s.legacy) /\ n # x
      BY <3>2 DEF OldNames
    <3>4. s \in F /\ s \in S /\ s \in Cohort(s) /\ s.path = p
      BY <1>1, <1>6
    <3>5. s.legacy = {}
      BY <1>15, <2>1, <3>4 DEF RowsLaid, AliasMerged
    <3>6. s.id = Alias
      BY <1>6, <3>3, <3>5
    <3>7. d.path = p
      BY <1>3, <2>1
    <3>8. s = d /\ s = r
      BY <1>15, <2>1, <3>4, <3>6, <3>7 DEF RowsLaid, LeavesApart
    <3>10. q2 \notin S \ F
      BY <2>1, <3>4, <3>8
    <3>9. InConflict(q2)
      BY <2>1, <3>10
    <3>11. PICK y \in Repos : d \in Group(F, y) /\ q2 = RepoRow(Group(F, y), y)
      BY <1>12, <3>9, <3>10
    <3>12. x = y
      BY <1>6, <3>8, <3>11
    <3> QED
      BY <3>1, <3>9, <3>11, <3>12
  <2> QED
    BY <2>2, <2>3
<1>16. AliasMerged(Q)
  BY <1>15 DEF AliasMerged
<1>17. RowsLaid(Q)
  BY <1>9, <1>11, <1>14, <1>16 DEF RowsLaid
<1>18. KeptHere(Q)
  BY <1>8, <1>17, IdsOnPath
<1>19. NoAlias(S) => NoAlias(Q)
  BY <1>21, <1>9 DEF NoAlias
<1>20. DOMAIN new \subseteq RegistrationIds /\ Leading(Q, new) /\ Caught(Q, new)
  <2>1. PICK made : made = Groups(F) /\ Froms(made) = F
    BY <1>1, GroupsAre
  <2>2. \A m \in made : \E x \in Repos : m.from = Group(F, x) /\ m.from # {} /\ m.row = RepoRow(Group(F, x), x)
    BY <1>1, <2>1, GroupsAre
  <2>3. \A m \in made : m.row \in MadeRows(Groups(F))
    BY <2>1 DEF MadeRows
  <2>4. ASSUME NEW m \in made
        PROVE  \E x \in Repos : /\ m.from = Group(F, x) /\ m.from # {} /\ m.row = RepoRow(Group(F, x), x)
                                /\ m.row.id = x /\ m.row.cands \subseteq m.from /\ Agrees(m.row, x)
    <3>1. PICK x \in Repos : m.from = Group(F, x) /\ m.from # {} /\ m.row = RepoRow(Group(F, x), x)
      BY <2>2
    <3>2. PICK q : q = m.row /\ q = RepoRow(Group(F, x), x)
      BY <3>1
    <3>3. PICK G : G = Group(F, x)
      OBVIOUS
    <3>4. G # {} /\ \A r \in G : IsLeaf(r) /\ RepoOf(r.repo) = x
      BY <1>1, <3>1, <3>3 DEF Group
    <3>5. /\ IsRow(RepoRow(G, x)) /\ RepoRow(G, x).id = x
          /\ InConflict(RepoRow(G, x)) => RepoRow(G, x).cands = G
          /\ ~InConflict(RepoRow(G, x)) => RepoRow(G, x).repo = x
      BY <3>4, RepoRowIs
    <3>6. q.id = x /\ (InConflict(q) => q.cands = G) /\ (~InConflict(q) => q.repo = x /\ q.cands = {})
      BY <3>2, <3>3, <3>5, CohortIs
    <3>7. \A c \in Cohort(q) : RepoOf(c.repo) = x
      BY <3>4, <3>6, CohortIs, NamesAre, RepoOfIs
    <3> QED
      BY <3>1, <3>2, <3>3, <3>6, <3>7 DEF Agrees
  <2>5. \A m \in made : m.from \subseteq LoneRows(S) /\ m.row.cands \subseteq m.from
    BY <1>6, <2>4
  <2>6. \A m \in made : \A r \in m.from : Agrees(m.row, RepoOf(r.repo))
    <3> SUFFICES ASSUME NEW m \in made, NEW r \in m.from PROVE Agrees(m.row, RepoOf(r.repo))
      OBVIOUS
    <3>1. PICK x \in Repos : m.from = Group(F, x) /\ Agrees(m.row, x)
      BY <2>4
    <3>2. RepoOf(r.repo) = x
      BY <3>1 DEF Group
    <3> QED
      BY <3>1, <3>2
  <2>7. \A m \in made : \A q \in S \ Froms(made) : q.id # m.row.id
    BY <1>7, <2>1, <2>4
  <2>8. \A m, k \in made : \A r \in m.from : \A s \in k.from : RepoOf(r.repo) = RepoOf(s.repo) => m = k
    <3> SUFFICES ASSUME NEW m \in made, NEW k \in made, NEW r \in m.from, NEW s \in k.from,
                        RepoOf(r.repo) = RepoOf(s.repo)
                 PROVE  m = k
      OBVIOUS
    <3>1. PICK x \in {RepoOf(t.repo) : t \in F} : m = [row |-> RepoRow(Group(F, x), x), from |-> Group(F, x)]
      BY <2>1 DEF Groups
    <3>2. PICK y \in {RepoOf(t.repo) : t \in F} : k = [row |-> RepoRow(Group(F, y), y), from |-> Group(F, y)]
      BY <2>1 DEF Groups
    <3>3. x = y
      BY <3>1, <3>2 DEF Group
    <3> QED
      BY <3>1, <3>2, <3>3
  <2>9. \A q \in S \ Froms(made) : \A c \in q.cands : \A r \in Froms(made) :
          c.id # r.id /\ (r.legacy # {} => c.id # Alias)
    BY <2>1, <1>1, <1>2 DEF OnPath, RowsLaid, LeavesApart, AliasMerged
  <2>10. \A r \in S : IsRow(r)
    BY DEF RowsLaid
  <2>11. Q = Put(S \ Froms(made), MadeRows(made)) /\ LedBy(made, red, new)
    BY <2>1
  <2> HIDE DEF Ready
  <2> QED
    BY <2>5, <2>6, <2>7, <2>8, <2>9, <2>10, <2>11, ReplacedLeads
<1> QED
  BY <1>8, <1>9, <1>17, <1>18, <1>19, <1>20 DEF Ready

\* One replacement: its row, and the rows that row takes the place of.
One(row, F) == {[row |-> row, from |-> F]}
LEMMA OneMade ==
  ASSUME NEW row, NEW F
  PROVE  /\ Froms(One(row, F)) = F /\ MadeRows(One(row, F)) = {row}
         /\ \A m \in One(row, F) : m.row = row /\ m.from = F
         /\ \A m, k \in One(row, F) : m = k
BY DEF Froms, MadeRows, One

\* Rows on several paths are one conflict of the cache.
LEMMA CloneFoldReady ==
  ASSUME NEW S, NEW red, RowsLaid(S), Led(S, red), \A r \in S : ~InConflict(r),
         \E r, s \in S : r.path # s.path,
         NEW row, row = ConflictRow(S, CloneId, "cache_clone_conflict"),
         NEW made, made = One(row, S),
         NEW Q, NEW new, Q = Put(S \ Froms(made), MadeRows(made)), LedBy(made, red, new)
  PROVE  Ready(Q, new) /\ CloneOnly(Q, {}) /\ (\A q \in Q : q.id # Alias) /\ (NoAlias(S) => NoAlias(Q))
<1>1. \A r \in S : IsLeaf(r) /\ Cohort(r) = {r} /\ r.cands = {} /\ IsRow(r)
  BY CohortIs DEF RowsLaid, IsRow
<1>2. IsRow(row) /\ InConflict(row) /\ row.id = CloneId /\ row.cands = S
  <2>1. PICK kind : kind = "cache_clone_conflict"
    OBVIOUS
  <2>2. kind # "identity_unresolved" /\ \E c, d \in S : c # d
    BY <2>1
  <2>3. CloneId \notin Repos /\ CloneId \in {CloneId, LostId} \union Repos
    BY NamesAre
  <2>4. PICK id : id = CloneId
    OBVIOUS
  <2>5. /\ IsRow(ConflictRow(S, id, kind)) /\ InConflict(ConflictRow(S, id, kind))
        /\ ConflictRow(S, id, kind).id = id /\ ConflictRow(S, id, kind).cands = S
    BY <1>1, <2>2, <2>3, <2>4, ConflictRowIs
  <2> QED
    BY <2>1, <2>4, <2>5
<1>3. Q = {row} /\ Cohort(row) = S
  BY <1>2, OneMade, CohortIs DEF Put
<1>4. RowsLaid(Q)
  <2>1. LostApart(Q)
    BY <1>2, <1>3, NamesAre DEF LostApart
  <2>2. ASSUME NEW c \in S, NEW d \in S
        PROVE  (c.id = d.id /\ c.path = d.path => c = d) /\ (c.legacy # {} => d.id # Alias)
    BY <1>1 DEF RowsLaid, LeavesApart, AliasMerged
  <2>3. LeavesApart(Q) /\ AliasMerged(Q)
    BY <1>3, <2>2 DEF LeavesApart, AliasMerged
  <2> QED
    BY <1>2, <1>3, <2>1, <2>3 DEF RowsLaid
<1>5. KeptHere(Q)
  BY <1>1, <1>2, <1>3, NamesAre DEF KeptHere, IsLeaf
<1>6. DOMAIN new \subseteq RegistrationIds /\ Leading(Q, new) /\ Caught(Q, new)
  <2>1. Caught(S, red)
    BY <1>1 DEF Caught
  <2>2. \A m \in made : m.from \subseteq LoneRows(S) /\ m.row.cands \subseteq m.from
    BY <1>2, OneMade DEF LoneRows
  <2>3. \A m \in made : \A r \in m.from : Agrees(m.row, RepoOf(r.repo))
    BY <1>3, OneMade DEF Agrees, Mixed
  <2>4. S \ Froms(made) = {}
    BY OneMade
  <2>5. \A m, k \in made : m = k
    BY OneMade
  <2> QED
    BY <1>1, <2>1, <2>2, <2>3, <2>4, <2>5, ReplacedLeads
<1>7. CloneOnly(Q, {})
  BY <1>2, <1>3 DEF CloneOnly
<1>8. NoAlias(S) => NoAlias(Q)
  BY <1>1, <1>3 DEF NoAlias
<1> QED
  BY <1>2, <1>3, <1>4, <1>5, <1>6, <1>7, <1>8, NamesAre DEF Ready

\* Facts about the live rows of one path.
LEMMA LiveOnPath ==
  ASSUME NEW S, RowsLaid(S), NEW p, OnPath(S, p), NEW F, F = LoneRows(S)
  PROVE  /\ \A r \in F : r \in S /\ IsLeaf(r) /\ ~InConflict(r) /\ Cohort(r) = {r} /\ r.path = p
         /\ \A r \in S \ F : /\ InConflict(r) /\ Cohort(r) = r.cands /\ r.id \in {LostId} \union Repos
                             /\ \A c \in r.cands : c.path = p /\ c.id \in Labels
         /\ \A r, s \in F : r.id = s.id => r = s
         /\ \A q \in S \ F : \A c \in q.cands : \A r \in F : c.id # r.id /\ (r.legacy # {} => c.id # Alias)
<1>1. \A r \in F : r \in S /\ IsLeaf(r) /\ ~InConflict(r) /\ Cohort(r) = {r} /\ r.path = p
  <2> TAKE r \in F
  <2>1. r \in S /\ ~InConflict(r)
    BY DEF LoneRows
  <2> QED
    BY <2>1, CohortIs DEF RowsLaid, IsRow, OnPath
<1>2. \A r \in S \ F : /\ InConflict(r) /\ Cohort(r) = r.cands /\ r.id \in {LostId} \union Repos
                       /\ \A c \in r.cands : c.path = p /\ c.id \in Labels
  <2> TAKE r \in S \ F
  <2>1. InConflict(r) /\ IsRow(r) /\ r.id # CloneId
    BY DEF LoneRows, RowsLaid, OnPath
  <2>2. \A c \in r.cands : c.path = p
    BY DEF OnPath
  <2>3. Cohort(r) = r.cands
    BY <2>1, CohortIs
  <2> QED
    BY <2>1, <2>2, <2>3 DEF IsRow, IsConflict, IsLeaf
<1>3. \A r, s \in F : r.id = s.id => r = s
  BY <1>1 DEF RowsLaid, LeavesApart
<1>4. ASSUME NEW q \in S \ F, NEW c \in q.cands, NEW r \in F
      PROVE  c.id # r.id /\ (r.legacy # {} => c.id # Alias)
  BY <1>1, <1>2 DEF RowsLaid, LeavesApart, AliasMerged
<1> QED
  BY <1>1, <1>2, <1>3, <1>4

\* Rows of a cache that does not answer are one unresolved cohort.
LEMMA LostFoldReady ==
  ASSUME NEW S, NEW red, RowsLaid(S), Led(S, red), Caught(S, red), NEW p, OnPath(S, p),
         NEW F, F = LoneRows(S), \E c, d \in F : c # d,
         NEW row, row = ConflictRow(F, LostId, "identity_unresolved"),
         NEW made, made = One(row, F),
         NEW Q, NEW new, Q = Put(S \ Froms(made), MadeRows(made)), LedBy(made, red, new)
  PROVE  Ready(Q, new) /\ OnPath(Q, p) /\ (\A q \in Q : q.id # Alias) /\ (NoAlias(S) => NoAlias(Q))
<1>1. \A r \in F : r \in S /\ IsLeaf(r) /\ ~InConflict(r) /\ Cohort(r) = {r} /\ r.path = p
  BY LiveOnPath
<1>2. \A r \in S \ F : /\ InConflict(r) /\ Cohort(r) = r.cands /\ r.id \in {LostId} \union Repos
                       /\ \A c \in r.cands : c.path = p /\ c.id \in Labels
  BY LiveOnPath
<1>3. /\ IsRow(row) /\ InConflict(row) /\ row.id = LostId /\ row.cands = F
      /\ \E r \in F : row.path = r.path
  <2>1. LostId \notin Repos /\ LostId \in {CloneId, LostId} \union Repos
    BY NamesAre
  <2>2. PICK id, kind : id = LostId /\ kind = "identity_unresolved"
    OBVIOUS
  <2>3. /\ IsRow(ConflictRow(F, id, kind)) /\ InConflict(ConflictRow(F, id, kind))
        /\ ConflictRow(F, id, kind).id = id /\ ConflictRow(F, id, kind).cands = F
        /\ \E r \in F : ConflictRow(F, id, kind).path = r.path
    BY <1>1, <2>1, <2>2, ConflictRowIs
  <2> QED
    BY <2>2, <2>3
<1>4. Cohort(row) = F /\ row.path = p
  BY <1>1, <1>3, CohortIs
<1>5. Q = {r \in S \ F : r.id # LostId} \union {row}
  BY OneMade, <1>3 DEF Put
<1>6. \A q \in Q : IsRow(q) /\ q.id # Alias
  BY <1>2, NamesAre, <1>3, <1>5 DEF RowsLaid
<1>7. LostApart(Q)
  BY <1>3, <1>5, <1>6 DEF LostApart
<1>8. ASSUME NEW q \in Q, NEW c \in Cohort(q)
      PROVE  \E s \in S : c \in Cohort(s) /\ IF q = row THEN s = c /\ c \in F ELSE s = q /\ q \in S \ F
  BY <1>1, <1>4, <1>8, <1>5
<1>9. ASSUME NEW q1 \in Q, NEW q2 \in Q, NEW c \in Cohort(q1), NEW d \in Cohort(q2)
      PROVE  c.id = d.id /\ c.path = d.path => c = d /\ q1 = q2
  <2>1. PICK r1 \in S : c \in Cohort(r1) /\ IF q1 = row THEN r1 = c /\ c \in F ELSE r1 = q1 /\ q1 \in S \ F
    BY <1>8
  <2>2. PICK r2 \in S : d \in Cohort(r2) /\ IF q2 = row THEN r2 = d /\ d \in F ELSE r2 = q2 /\ q2 \in S \ F
    BY <1>8
  <2>3. c.id = d.id /\ c.path = d.path => c = d /\ r1 = r2
    BY <2>1, <2>2 DEF RowsLaid, LeavesApart
  <2> QED
    BY <2>1, <2>2, <2>3
<1>10. RowsLaid(Q)
  <2>1. LeavesApart(Q)
    BY <1>9 DEF LeavesApart
  <2>2. AliasMerged(Q)
    <3> SUFFICES ASSUME NEW q1 \in Q, NEW q2 \in Q, NEW c \in Cohort(q1), NEW d \in Cohort(q2), c.legacy # {}
                 PROVE  d.id # Alias
      BY DEF AliasMerged
    <3>1. PICK r1 \in S, r2 \in S : c \in Cohort(r1) /\ d \in Cohort(r2)
      BY <1>8
    <3> QED
      BY <3>1 DEF RowsLaid, AliasMerged
  <2> QED
    BY <1>6, <1>7, <2>1, <2>2 DEF RowsLaid
<1>11. OnPath(Q, p)
  BY <1>1, <1>3, <1>4, <1>5, NamesAre DEF OnPath
<1>12. KeptHere(Q)
  BY <1>10, <1>11, IdsOnPath
<1>13. DOMAIN new \subseteq RegistrationIds /\ Leading(Q, new) /\ Caught(Q, new)
  <2>1. Froms(made) = F /\ (\A m \in made : m.row = row /\ m.from = F) /\ \A m, k \in made : m = k
    BY OneMade
  <2>2. \A m \in made : m.from \subseteq LoneRows(S) /\ m.row.cands \subseteq m.from
    BY <1>3, <2>1
  <2>3. \A m \in made : \A r \in m.from : Agrees(m.row, RepoOf(r.repo))
    BY <1>4, <2>1 DEF Agrees, Mixed
  <2>4. ASSUME NEW q \in S \ F, q.id = LostId
        PROVE  Mixed(row)
    <3>1. PICK c \in F, d \in F : c # d
      OBVIOUS
    <3>2. c.id # Alias /\ d.id # Alias
      BY <1>1, <2>4 DEF RowsLaid, LostApart
    <3>3. c.id # d.id
      BY <3>1, LiveOnPath
    <3>4. RepoOf(c.repo) # RepoOf(d.repo)
      BY <1>1, <3>2, <3>3, RepoOfIs DEF IsLeaf
    <3> QED
      BY <1>4, <3>4 DEF Mixed
  <2>5. \A m \in made : \A q \in S \ Froms(made) : \A x : q.id = m.row.id /\ Agrees(q, x) => Agrees(m.row, x)
    BY <1>3, <2>1, <2>4 DEF Agrees
  <2>6. \A q \in S \ Froms(made) : \A c \in q.cands : \A r \in Froms(made) :
          c.id # r.id /\ (r.legacy # {} => c.id # Alias)
    BY <2>1, LiveOnPath
  <2>7. \A r \in S : IsRow(r)
    BY DEF RowsLaid
  <2> QED
    BY <2>1, <2>2, <2>3, <2>5, <2>6, <2>7, ReplacedLeads
<1>14. NoAlias(S) => NoAlias(Q)
  <2> SUFFICES ASSUME NoAlias(S), NEW q \in Q, NEW c \in Cohort(q) PROVE c.id # Alias
    BY DEF NoAlias
  <2>1. PICK s \in S : c \in Cohort(s)
    BY <1>8
  <2> QED
    BY <2>1 DEF NoAlias
<1> QED
  BY <1>6, <1>10, <1>11, <1>12, <1>13, <1>14 DEF Ready

\* The only row of a cache that does not answer is blocked.
LEMMA BlockedReady ==
  ASSUME NEW S, NEW red, RowsLaid(S), Led(S, red), Caught(S, red), NEW p, OnPath(S, p),
         NEW F, F = LoneRows(S), NEW one \in F, \A r \in F : r = one,
         NEW row, SameRow(one, row), ~row.enabled,
         NEW made, made = One(row, F),
         NEW Q, NEW new, Q = Put(S \ Froms(made), MadeRows(made)), LedBy(made, red, new)
  PROVE  Ready(Q, new) /\ OnPath(Q, p) /\ AliasOff(Q) /\ (NoAlias(S) => NoAlias(Q))
<1>1. one \in S /\ IsLeaf(one) /\ ~InConflict(one) /\ Cohort(one) = {one} /\ one.path = p
  BY LiveOnPath
<1>2. \A r \in S \ F : InConflict(r) /\ r.id \in {LostId} \union Repos
  BY LiveOnPath
<1>3. Froms(made) = F /\ MadeRows(made) = {row} /\ (\A m \in made : m.row = row /\ m.from = F)
        /\ \A m, k \in made : m = k
  BY OneMade
<1>4. \A r \in S \ F : r.id # one.id
  BY <1>1, IdsOnPath
<1>5. Q = (S \ F) \union {row}
  BY <1>3, <1>4 DEF Put, SameRow
<1>6. Redone(S, Q)
  <2>1. \A r \in S \ F : SameRow(r, r) /\ IsRow(r)
    BY <1>2 DEF RowsLaid, SameRow, IsRow, IsConflict
  <2>2. \A r \in S \ F : ~SameRow(r, row) /\ ~SameRow(one, r)
    BY <1>4 DEF SameRow
  <2>3. \A r, s \in S \ F : SameRow(r, s) => r = s
    BY IdsOnPath DEF SameRow
  <2>4. \A r \in S : \E q \in Q : SameRow(r, q)
    BY <1>5, <2>1
  <2>5. \A q \in Q : \E r \in S : SameRow(r, q)
    BY <1>1, <1>5, <2>1
  <2>6. ASSUME NEW r \in S, NEW q1 \in Q, NEW q2 \in Q, SameRow(r, q1), SameRow(r, q2)
        PROVE  q1 = q2
    BY <1>5, <2>2, <2>6, <2>3
  <2> QED
    BY <2>4, <2>5, <2>6 DEF Redone
<1>7. RowsLaid(Q) /\ OnPath(Q, p) /\ (NoAlias(S) => NoAlias(Q))
  BY <1>6, RedoneSound
<1>8. KeptHere(Q)
  BY <1>7, IdsOnPath
<1>9. DOMAIN new \subseteq RegistrationIds /\ Leading(Q, new) /\ Caught(Q, new)
  <2>1. row.cands = {} /\ Cohort(row) = {row} /\ row.repo = one.repo
    BY <1>1, CohortIs DEF SameRow, IsLeaf, InConflict
  <2>2. \A m \in made : m.from \subseteq LoneRows(S) /\ m.row.cands \subseteq m.from
    BY <1>3, <2>1
  <2>3. \A m \in made : \A r \in m.from : Agrees(m.row, RepoOf(r.repo))
    BY <1>3, <2>1 DEF Agrees
  <2>4. \A m \in made : \A q \in S \ Froms(made) : q.id # m.row.id
    BY <1>3, <1>4 DEF SameRow
  <2>5. \A q \in S \ Froms(made) : \A c \in q.cands : \A r \in Froms(made) :
          c.id # r.id /\ (r.legacy # {} => c.id # Alias)
    BY <1>3, LiveOnPath
  <2>6. \A r \in S : IsRow(r)
    BY DEF RowsLaid
  <2>7. \A m \in made : \A q \in S \ Froms(made) : \A x :
          q.id = m.row.id /\ Agrees(q, x) => Agrees(m.row, x)
    BY <2>4
  <2>8. \A m, k \in made : \A r \in m.from : \A s \in k.from : RepoOf(r.repo) = RepoOf(s.repo) => m = k
    BY <1>3
  <2> QED
    BY <2>2, <2>3, <2>5, <2>6, <2>7, <2>8, ReplacedLeads
<1>10. AliasOff(Q)
  BY <1>2, <1>5, NamesAre DEF AliasOff
<1> QED
  BY <1>7, <1>8, <1>9, <1>10 DEF Ready

\* A finite set has more than one element exactly if two of them differ.
LEMMA Several ==
  ASSUME NEW T, IsFiniteSet(T)
  PROVE  Cardinality(T) > 1 <=> \E c, d \in T : c # d
<1>1. ASSUME NEW c \in T, NEW d \in T, c # d
      PROVE  Cardinality(T) > 1
  <2>1. Cardinality({c}) = 1 /\ IsFiniteSet({c})
    BY FS_Singleton
  <2>2. Cardinality({c} \union {d}) = 2
    BY <1>1, <2>1, FS_AddElement
  <2>3. {c} \union {d} \subseteq T
    OBVIOUS
  <2>4. Cardinality({c} \union {d}) <= Cardinality(T)
    BY <2>3, FS_Subset
  <2>5. Cardinality(T) \in Nat
    BY FS_CardinalityType
  <2> QED
    BY <2>2, <2>4, <2>5
<1>2. ASSUME \A c, d \in T : c = d
      PROVE  ~(Cardinality(T) > 1)
  <2>1. T = {} \/ \E c : T = {c}
    BY <1>2
  <2> QED
    BY <2>1, FS_EmptySet, FS_Singleton
<1> QED
  BY <1>1, <1>2

\* A registry in its place that is left as it is has only to be normalized.
LEMMA PlacedReady ==
  ASSUME NEW S, NEW red, NEW gone, RowsLaid(S), Led(S, red), Caught(S, red),
         OnePathed(S, gone) \/ CloneOnly(S, gone)
  PROVE  Ready(S, red)
<1>1. KeptHere(S)
  <2>1. CASE S = {}
    BY <2>1 DEF KeptHere
  <2>2. CASE S # {} /\ OnePathed(S, gone)
    BY <2>2, IdsOnPath DEF OnePathed
  <2>3. CASE CloneOnly(S, gone)
    <3>1. PICK r \in S : S = {r} /\ r.id = CloneId /\ InConflict(r)
      BY <2>3 DEF CloneOnly
    <3>2. \A c \in r.cands : c.id \in Labels
      BY <3>1, CohortIs DEF RowsLaid, IsRow, IsLeaf
    <3> QED
      BY <3>1, <3>2, NamesAre DEF KeptHere
  <2> QED
    BY <2>1, <2>2, <2>3
<1>2. Leading(S, red) /\ DOMAIN red \subseteq RegistrationIds
  BY LedLeads DEF RowsLaid
<1> QED
  BY <1>1, <1>2 DEF Ready

\* The live rows of one path are few.
LEMMA LiveIsFinite ==
  ASSUME NEW S, RowsLaid(S), NEW p, OnPath(S, p), NEW F, F = LoneRows(S)
  PROVE  IsFiniteSet(F)
<1> DEFINE f == [r \in F |-> r.id]
<1>1. f \in Injection(F, Labels)
  <2>1. \A r \in F : r.id \in Labels
    BY LiveOnPath DEF IsLeaf
  <2>2. \A r, s \in F : r.id = s.id => r = s
    BY LiveOnPath
  <2>3. f \in [F -> Labels] /\ \A r, s \in F : f[r] = f[s] => r = s
    BY <2>1, <2>2
  <2> HIDE DEF f
  <2> QED
    BY <2>3 DEF Injection, IsInjective
<1>2. IsFiniteSet(Labels)
  BY NamesAre
<1> HIDE DEF f
<1> QED
  BY <1>1, <1>2, FS_Injection

\* What canonicalization promises of a registry, from one to the next.
Whole(b, e) ==
    /\ IsBook(e) /\ e.retired = b.retired /\ Ready(e.rows, e.redirects)
    /\ OnePathed(e.rows, e.retired) \/ CloneOnly(e.rows, e.retired)
    /\ OnePathed(b.rows, b.retired) => OnePathed(e.rows, e.retired)
    /\ AliasOff(e.rows) /\ (NoAlias(b.rows) => NoAlias(e.rows))

\* Where the live rows of a registry in its place are.
LEMMA LiveIsPlaced ==
  ASSUME NEW b, Laid(b), Placed(b), NEW F, F = LoneRows(b.rows), F # {}
  PROVE  /\ Cardinality({r.path : r \in F}) > 1 =>
               /\ b.retired = {} /\ F = b.rows /\ (\E r, s \in F : r.path # s.path)
               /\ ~OnePathed(b.rows, b.retired)
         /\ ~(Cardinality({r.path : r \in F}) > 1) => \E p \in Paths \ b.retired : OnPath(b.rows, p)
<1>1. \A r \in F : r \in b.rows /\ ~InConflict(r) /\ r.path \in Paths
  <2> TAKE r \in F
  <2>1. r \in b.rows /\ ~InConflict(r)
    BY DEF LoneRows
  <2> QED
    BY <2>1, CohortIs DEF Laid, RowsLaid, IsRow, IsLeaf
<1>2. ~CloneOnly(b.rows, b.retired)
  BY <1>1 DEF CloneOnly
<1>3. PICK T : T = {r.path : r \in F}
  OBVIOUS
<1>4. IsFiniteSet(T)
  BY <1>1, <1>3, ConflictsAssumption, FS_Subset
<1>5. Cardinality(T) > 1 <=> \E r, s \in F : r.path # s.path
  BY <1>4, Several, <1>3
<1>6. ASSUME Cardinality(T) > 1
      PROVE  b.retired = {} /\ F = b.rows /\ (\E r, s \in F : r.path # s.path) /\ ~OnePathed(b.rows, b.retired)
  <2>1. PICK r \in F, s \in F : r.path # s.path
    BY <1>5, <1>6
  <2>2. ~OnePathed(b.rows, b.retired)
    BY <1>1, <2>1 DEF OnePathed, OnPath
  <2>3. RawRows(b.rows, b.redirects, b.retired)
    BY <1>2, <2>2 DEF Placed
  <2> QED
    BY <2>1, <2>2, <2>3 DEF RawRows, LoneRows
<1>7. ASSUME ~(Cardinality(T) > 1)
      PROVE  \E p \in Paths \ b.retired : OnPath(b.rows, p)
  <2>1. CASE OnePathed(b.rows, b.retired)
    BY <1>1, <2>1 DEF OnePathed
  <2>2. CASE RawRows(b.rows, b.redirects, b.retired)
    <3>1. F = b.rows /\ b.retired = {}
      BY <2>2 DEF RawRows, LoneRows
    <3>2. PICK one : one \in F
      OBVIOUS
    <3>3. \A r \in F : r.path = one.path
      BY <1>5, <1>7, <3>2
    <3>4. \A r \in F : r.id # CloneId /\ r.cands = {}
      <4> TAKE r \in F
      <4>1. IsLeaf(r)
        BY <1>1, CohortIs DEF Laid, RowsLaid, IsRow
      <4> QED
        BY <4>1, NamesAre DEF IsLeaf
    <3>5. OnPath(b.rows, one.path)
      BY <3>1, <3>3, <3>4 DEF OnPath
    <3> QED
      BY <1>1, <3>1, <3>2, <3>5
  <2> QED
    BY <1>2, <2>1, <2>2 DEF Placed
<1> QED
  BY <1>3, <1>6, <1>7, Zenon

\* Putting rows together leaves a registry in its place, and no alias where
\* the cache answers.
LEMMA TogetherSound ==
  ASSUME NEW b, Laid(b), Placed(b),
         \A r \in LoneRows(b.rows) : inspection[r.path] = "snapshot" => ~r.enabled
  PROVE  /\ Whole(b, Together(b))
         /\ \A r \in Together(b).rows : r.id = Alias => inspection[r.path] # "ok"
<1> DEFINE Done(e) == Whole(b, e) /\ \A r \in e.rows : r.id = Alias => inspection[r.path] # "ok"
<1>0. IsBook(b) /\ RowsLaid(b.rows) /\ Led(b.rows, b.redirects) /\ Caught(b.rows, b.redirects)
  BY DEF Laid
<1>1. PICK F : F = LoneRows(b.rows)
  OBVIOUS
<1>2. \A r \in b.rows \ F : r.id # Alias
  <2> TAKE r \in b.rows \ F
  <2>1. InConflict(r) /\ IsRow(r)
    BY <1>0, <1>1 DEF LoneRows, RowsLaid
  <2> QED
    BY <2>1, NamesAre DEF IsRow, IsConflict
<1>3. CASE F = {}
  <2>1. Together(b) = b
    <3>1. {r \in b.rows : ~InConflict(r)} = {}
      BY <1>1, <1>3 DEF LoneRows
    <3>2. {r.path : r \in {r \in b.rows : ~InConflict(r)}} = {}
      BY <3>1
    <3>3. Cardinality({r.path : r \in {r \in b.rows : ~InConflict(r)}}) = 0
      BY <3>2, FS_EmptySet, Zenon
    <3>4. ~(0 > 1)
      OBVIOUS
    <3> QED
      BY <3>1, <3>3, <3>4, Zenon DEF Together
  <2>2. \A r \in b.rows : r.id # Alias
    BY <1>2, <1>3
  <2>3. OnePathed(b.rows, b.retired) \/ CloneOnly(b.rows, b.retired)
    BY <1>1, <1>3 DEF Placed, RawRows, OnePathed, LoneRows
  <2>4. Ready(b.rows, b.redirects)
    BY <1>0, <2>3, PlacedReady
  <2> QED
    BY <1>0, <2>1, <2>2, <2>3, <2>4 DEF Whole, AliasOff
<1>4. CASE F # {} /\ Cardinality({r.path : r \in F}) > 1
  <2>1. PICK row, made : row = ConflictRow(F, CloneId, "cache_clone_conflict") /\ made = One(row, F)
    OBVIOUS
  <2>2. Together(b) = Replace(b, made)
    BY <1>1, <1>4, <2>1 DEF Together, FoldTogether, LoneRows, One
  <2>3. PICK e : e = Replace(b, made)
    OBVIOUS
  <2>4. /\ IsBook(e) /\ e.retired = b.retired
        /\ e.rows = Put(b.rows \ Froms(made), MadeRows(made)) /\ LedBy(made, b.redirects, e.redirects)
    BY <1>0, <2>3, ReplaceIs
  <2>5. b.retired = {} /\ F = b.rows /\ (\E r, s \in F : r.path # s.path) /\ ~OnePathed(b.rows, b.retired)
    BY <1>1, <1>4, LiveIsPlaced
  <2>6. PICK S, red, Q, new : S = b.rows /\ red = b.redirects /\ Q = e.rows /\ new = e.redirects
    OBVIOUS
  <2>7. Ready(Q, new) /\ CloneOnly(Q, {}) /\ (\A q \in Q : q.id # Alias) /\ (NoAlias(S) => NoAlias(Q))
    BY <1>0, <1>1, <2>5, <2>6, <2>1, <2>4, CloneFoldReady DEF LoneRows
  <2>8. Done(e)
    BY <2>4, <2>5, <2>6, <2>7 DEF Whole, AliasOff
  <2> QED
    BY <2>2, <2>3, <2>8
<1>5. CASE F # {} /\ ~(Cardinality({r.path : r \in F}) > 1)
  <2>1. PICK p \in Paths \ b.retired : OnPath(b.rows, p)
    BY <1>1, <1>5, LiveIsPlaced
  <2>2. PICK one \in F : one = AnyOf(F)
    BY <1>5 DEF AnyOf
  <2>3. \A r \in F : r.path = p
    BY <1>0, <1>1, <2>1, LiveOnPath
  <2>4. one.path = p
    BY <2>3
  <2>5. \A r \in b.rows : r.path = p
    BY <2>1 DEF OnPath
  <2>6. OnePathed(b.rows, b.retired)
    BY <2>1 DEF OnePathed
  <2>7. Together(b) = IF inspection[p] = "ok" THEN Grouped(b, F)
                      ELSE IF inspection[p] = "snapshot" THEN b
                      ELSE IF Cardinality(F) > 1 THEN FoldTogether(b, F, LostId, "identity_unresolved")
                      ELSE Replace(b, {[row |-> Blocked(one, SilentAs(inspection[p])), from |-> F]})
    BY <1>1, <1>5, <2>2, <2>4, Zenon DEF Together, LoneRows
  <2>8. PICK S, red : S = b.rows /\ red = b.redirects
    OBVIOUS
  <2>9. RowsLaid(S) /\ Led(S, red) /\ Caught(S, red) /\ OnPath(S, p) /\ F = LoneRows(S)
    BY <1>0, <1>1, <2>1, <2>8
  <2>10. CASE inspection[p] = "ok"
    <3>1. PICK made : made = Groups(F)
      OBVIOUS
    <3>2. Together(b) = Replace(b, made)
      BY <2>7, <2>10, <3>1 DEF Grouped, Groups, Group
    <3>3. PICK e : e = Replace(b, made)
      OBVIOUS
    <3>4. /\ IsBook(e) /\ e.retired = b.retired
          /\ e.rows = Put(b.rows \ Froms(made), MadeRows(made)) /\ LedBy(made, b.redirects, e.redirects)
      BY <1>0, <3>3, ReplaceIs
    <3>5. Froms(made) = F
      BY <2>9, <3>1, LiveOnPath, GroupsAre
    <3>6. PICK Q, new : Q = e.rows /\ new = e.redirects
      OBVIOUS
    <3>7. Q = Put(S \ F, MadeRows(Groups(F))) /\ LedBy(Groups(F), red, new)
      BY <2>8, <3>1, <3>4, <3>5, <3>6
    <3>8. Ready(Q, new) /\ OnPath(Q, p) /\ (NoAlias(S) => NoAlias(Q)) /\ \A q \in Q : q.id # Alias
      BY <2>9, <3>7, GroupedReady
    <3>9. Done(e)
      BY <2>1, <2>8, <3>4, <3>6, <3>8 DEF Whole, AliasOff, OnePathed
    <3> QED
      BY <3>2, <3>3, <3>9
  <2>11. CASE inspection[p] = "snapshot"
    <3>1. Together(b) = b
      BY <2>7, <2>11
    <3>2. Ready(b.rows, b.redirects)
      BY <1>0, <2>6, PlacedReady
    <3>3. \A r \in F : ~r.enabled
      BY <1>1, <2>3, <2>11
    <3>4. AliasOff(b.rows)
      BY <1>2, <3>3 DEF AliasOff
    <3> QED
      BY <1>0, <2>5, <2>6, <2>11, <3>1, <3>2, <3>4 DEF Whole
  <2>12. CASE inspection[p] \notin {"ok", "snapshot"} /\ Cardinality(F) > 1
    <3>1. PICK row, made : row = ConflictRow(F, LostId, "identity_unresolved") /\ made = One(row, F)
      OBVIOUS
    <3>2. Together(b) = Replace(b, made)
      BY <2>7, <2>12, <3>1 DEF FoldTogether, One
    <3>3. PICK e : e = Replace(b, made)
      OBVIOUS
    <3>4. /\ IsBook(e) /\ e.retired = b.retired
          /\ e.rows = Put(b.rows \ Froms(made), MadeRows(made)) /\ LedBy(made, b.redirects, e.redirects)
      BY <1>0, <3>3, ReplaceIs
    <3>5. PICK Q, new : Q = e.rows /\ new = e.redirects
      OBVIOUS
    <3>6. Q = Put(S \ Froms(made), MadeRows(made)) /\ LedBy(made, red, new)
      BY <2>8, <3>4, <3>5
    <3>7. \E c, d \in F : c # d
      BY <2>9, <2>12, LiveIsFinite, Several
    <3>8. Ready(Q, new) /\ OnPath(Q, p) /\ (NoAlias(S) => NoAlias(Q)) /\ \A q \in Q : q.id # Alias
      BY <2>9, <3>1, <3>6, <3>7, LostFoldReady
    <3>9. Done(e)
      BY <2>1, <2>8, <3>4, <3>5, <3>8 DEF Whole, AliasOff, OnePathed
    <3> QED
      BY <3>2, <3>3, <3>9
  <2>13. CASE inspection[p] \notin {"ok", "snapshot"} /\ ~(Cardinality(F) > 1)
    <3>1. PICK row, made : row = Blocked(one, SilentAs(inspection[p])) /\ made = One(row, F)
      OBVIOUS
    <3>2. Together(b) = Replace(b, made)
      BY <2>7, <2>13, <3>1 DEF One
    <3>3. PICK e : e = Replace(b, made)
      OBVIOUS
    <3>4. /\ IsBook(e) /\ e.retired = b.retired
          /\ e.rows = Put(b.rows \ Froms(made), MadeRows(made)) /\ LedBy(made, b.redirects, e.redirects)
      BY <1>0, <3>3, ReplaceIs
    <3>5. PICK Q, new : Q = e.rows /\ new = e.redirects
      OBVIOUS
    <3>6. Q = Put(S \ Froms(made), MadeRows(made)) /\ LedBy(made, red, new)
      BY <2>8, <3>4, <3>5
    <3>7. \A r \in F : r = one
      BY <2>9, <2>13, LiveIsFinite, Several
    <3>8. SameRow(one, row) /\ ~row.enabled
      BY <2>9, <2>4, <3>1, InspectedIs DEF LoneRows, RowsLaid
    <3>9. Ready(Q, new) /\ OnPath(Q, p) /\ AliasOff(Q) /\ (NoAlias(S) => NoAlias(Q))
      BY <2>9, <3>1, <3>6, <3>7, <3>8, BlockedReady
    <3>10. Whole(b, e)
      BY <2>1, <2>8, <3>4, <3>5, <3>9 DEF Whole, OnePathed
    <3>11. \A r \in e.rows : inspection[r.path] # "ok"
      BY <2>13, <3>5, <3>9 DEF OnPath
    <3> QED
      BY <3>2, <3>3, <3>10, <3>11
  <2> QED
    BY <2>10, <2>11, <2>12, <2>13
<1> QED
  BY <1>3, <1>4, <1>5

\* What canonicalization makes of a registry.
LEMMA CanonicalSound ==
  ASSUME NEW b, Laid(b), Placed(b)
  PROVE  /\ BookSound(Canonical(b)) /\ Canonical(b).retired = b.retired
         /\ OnePathed(b.rows, b.retired) => OnePathed(Canonical(b).rows, Canonical(b).retired)
         /\ NoAlias(b.rows) => NoAlias(Canonical(b).rows)
         /\ \A r \in Canonical(b).rows : r.id = Alias => inspection[r.path] # "ok"
         /\ DOMAIN Canonical(b).redirects \cap RowIds(Canonical(b).rows) = {}
<1>1. PICK x : x = Expanded(b)
  OBVIOUS
<1>2. Laid(x) /\ Placed(x) /\ Keeps(b, x)
  BY <1>1, ExpandedSound
<1>3. PICK seen, i : /\ seen = {IF InConflict(r) THEN r ELSE Inspected(r) : r \in x.rows}
                     /\ i = [x EXCEPT !.rows = seen]
  OBVIOUS
<1>4. /\ IsBook(i) /\ i.rows = seen /\ i.redirects = x.redirects /\ i.retired = x.retired
  BY <1>2, <1>3 DEF Laid, IsBook
<1>5. Redone(x.rows, seen)
  <2>1. PICK S : S = x.rows /\ RowsLaid(S)
    BY <1>2 DEF Laid
  <2>2. Redone(S, {IF InConflict(r) THEN r ELSE Inspected(r) : r \in S})
    BY <2>1, InspectionRedoes
  <2> QED
    BY <1>3, <2>1, <2>2
<1>6. /\ RowsLaid(seen) /\ Led(seen, x.redirects) /\ Caught(seen, x.redirects)
      /\ NoAlias(x.rows) => NoAlias(seen)
      /\ \A gone : OnePathed(x.rows, gone) => OnePathed(seen, gone)
  <2>1. PICK S, red : S = x.rows /\ red = x.redirects
    OBVIOUS
  <2>2. Redone(S, seen) /\ RowsLaid(S) /\ Led(S, red) /\ Caught(S, red)
    BY <1>2, <1>5, <2>1 DEF Laid
  <2>3. /\ RowsLaid(seen) /\ Led(seen, red) /\ Caught(seen, red)
        /\ NoAlias(S) => NoAlias(seen)
        /\ \A gone : OnePathed(S, gone) => OnePathed(seen, gone)
    BY <2>2, RedoneSound
  <2> QED
    BY <2>1, <2>3
<1>7. \A r \in x.rows : IsRow(r)
  BY <1>2 DEF Laid, RowsLaid
<1>8. \A q \in seen : \E r \in x.rows : SameRow(r, q) /\ (InConflict(q) <=> InConflict(r)) /\ (InConflict(r) => q = r)
  <2> TAKE q \in seen
  <2>1. PICK r \in x.rows : q = IF InConflict(r) THEN r ELSE Inspected(r)
    BY <1>3
  <2>2. CASE InConflict(r)
    BY <1>7, <2>2, <2>1 DEF IsRow, IsConflict, SameRow
  <2>3. CASE ~InConflict(r)
    BY <1>7, <2>1, <2>3, InspectedIs, SameLeaves
  <2> QED
    BY <2>2, <2>3
<1>9. \A r \in LoneRows(seen) : inspection[r.path] = "snapshot" => ~r.enabled
  <2> TAKE q \in LoneRows(seen)
  <2>1. q \in seen /\ ~InConflict(q)
    BY DEF LoneRows
  <2>2. PICK r \in x.rows : q = IF InConflict(r) THEN r ELSE Inspected(r)
    BY <1>3, <2>1
  <2>3. ~InConflict(r) /\ q = Inspected(r)
    BY <2>1, <2>2
  <2>4. SameRow(r, q) /\ (inspection[r.path] = "snapshot" => ~q.enabled)
    BY <1>7, <2>3, InspectedIs
  <2> QED
    BY <2>4 DEF SameRow
<1>10. Laid(i)
  BY <1>4, <1>6 DEF Laid
<1>11. Placed(i)
  <2>1. OnePathed(x.rows, x.retired) => OnePathed(i.rows, i.retired)
    BY <1>4, <1>6
  <2>2. CloneOnly(x.rows, x.retired) => CloneOnly(i.rows, i.retired)
    <3> SUFFICES ASSUME CloneOnly(x.rows, x.retired) PROVE CloneOnly(i.rows, i.retired)
      OBVIOUS
    <3>1. PICK r \in x.rows : x.rows = {r} /\ r.id = CloneId /\ InConflict(r) /\ \E c, d \in r.cands : c.path # d.path
      BY DEF CloneOnly
    <3>2. seen = {r}
      BY <1>3, <3>1
    <3> QED
      BY <1>4, <3>1, <3>2 DEF CloneOnly
  <2>3. RawRows(x.rows, x.redirects, x.retired) => RawRows(i.rows, i.redirects, i.retired)
    BY <1>4, <1>8 DEF RawRows
  <2> QED
    BY <1>2, <2>1, <2>2, <2>3 DEF Placed
<1>12. PICK e : e = Together(i)
  OBVIOUS
<1>13. Whole(i, e) /\ \A r \in e.rows : r.id = Alias => inspection[r.path] # "ok"
  BY <1>4, <1>9, <1>10, <1>11, <1>12, TogetherSound
<1>14. PICK red : red = Normalized(e.redirects, e.rows)
  OBVIOUS
<1>15. PICK out : out = Canonical(b)
  OBVIOUS
<1>17. IsBook(out) /\ out.rows = e.rows /\ out.redirects = red /\ out.retired = e.retired
  BY <1>1, <1>3, <1>12, <1>14, <1>13, <1>15 DEF Canonical, Whole, IsBook
<1>18. Led(e.rows, red) /\ Caught(e.rows, red) /\ DOMAIN red \cap RowIds(e.rows) = {}
  <2>1. PICK S, r0 : S = e.rows /\ r0 = e.redirects
    OBVIOUS
  <2>2. \A r \in S : IsRow(r)
    BY <1>13, <2>1 DEF Whole, Ready, RowsLaid
  <2>3. DOMAIN r0 \subseteq RegistrationIds /\ Leading(S, r0) /\ KeptHere(S) /\ Caught(S, r0)
    BY <1>13, <2>1 DEF Whole, Ready
  <2>4. Led(S, Normalized(r0, S)) /\ Caught(S, Normalized(r0, S))
    BY <2>2, <2>3, NormalizedSound
  <2>5. DOMAIN Normalized(r0, S) \cap RowIds(S) = {}
    BY NormalizedIs
  <2> QED
    BY <1>14, <2>1, <2>4, <2>5
<1>19. BookSound(out)
  BY <1>13, <1>17, <1>18 DEF BookSound, Laid, Whole, Ready
<1>20. out.retired = b.retired
  BY <1>2, <1>4, <1>13, <1>17 DEF Keeps, Whole
<1>21. OnePathed(b.rows, b.retired) => OnePathed(out.rows, out.retired)
  BY <1>2, <1>4, <1>6, <1>13, <1>17 DEF Keeps, Whole
<1>22. NoAlias(b.rows) => NoAlias(out.rows)
  BY <1>2, <1>4, <1>6, <1>13, <1>17 DEF Keeps, Whole
<1> QED
  BY <1>13, <1>15, <1>17, <1>18, <1>19, <1>20, <1>21, <1>22

-----------------------------------------------------------------------------
(* What an operation makes of a registry that is as it should be.            *)

\* A registry is judged by its rows, redirects and retired paths.
LEMMA SameBook ==
  ASSUME NEW b, NEW e, IsBook(e), e.rows = b.rows, e.redirects = b.redirects, e.retired = b.retired
  PROVE  /\ BookSound(b) => BookSound(e) /\ Laid(e) /\ Placed(e)
         /\ \A done : SettledAs(b, done) => SettledAs(e, done)
BY DEF BookSound, Laid, Placed, SettledAs

\* Pruning takes only receipts.
LEMMA PrunedIs ==
  ASSUME NEW b, IsBook(b)
  PROVE  /\ IsBook(Pruned(b)) /\ Pruned(b).rows = b.rows
         /\ Pruned(b).redirects = b.redirects /\ Pruned(b).retired = b.retired
BY DEF Pruned, IsBook

\* Canonicalizing a registry in its place makes one that is as it should be,
\* and keeps what was settled.
LEMMA CanonicalKeeps ==
  ASSUME NEW b, Laid(b), Placed(b), NEW done, SettledAs(b, done)
  PROVE  BookSound(Canonical(b)) /\ SettledAs(Canonical(b), done)
<1>1. PICK e : e = Canonical(b)
  OBVIOUS
<1>2. /\ BookSound(e) /\ e.retired = b.retired
      /\ OnePathed(b.rows, b.retired) => OnePathed(e.rows, e.retired)
      /\ NoAlias(b.rows) => NoAlias(e.rows)
  BY <1>1, CanonicalSound
<1>3. SettledAs(e, done)
  BY <1>2 DEF SettledAs
<1> QED
  BY <1>1, <1>2, <1>3

\* A row is known by its id.
LEMMA BookIds ==
  ASSUME NEW b, BookSound(b)
  PROVE  \A r, s \in b.rows : r.id = s.id => r = s
<1>1. CASE OnePathed(b.rows, b.retired)
  BY <1>1, IdsOnPath DEF BookSound, Laid, OnePathed
<1>2. CASE CloneOnly(b.rows, b.retired)
  BY <1>2 DEF CloneOnly
<1> QED
  BY <1>1, <1>2 DEF BookSound

\* One row is changed in what is not its identity.
LEMMA ChangeRedoes ==
  ASSUME NEW S, RowsLaid(S), \A r, s \in S : r.id = s.id => r = s, NEW id, NEW new,
         \A r \in RowsNamed(S, id) : \E q \in new : SameRow(r, q),
         \A q \in new : \E r \in RowsNamed(S, id) : SameRow(r, q),
         \A q, k \in new : q = k
  PROVE  Redone(S, (S \ RowsNamed(S, id)) \union new)
<1> DEFINE Q == (S \ RowsNamed(S, id)) \union new
<1>1. \A r \in S : SameRow(r, r)
  BY DEF RowsLaid, IsRow, IsConflict, SameRow
<1>2. \A q \in new : q.id = id
  BY DEF SameRow, RowsNamed
<1>3. \A q \in S \ RowsNamed(S, id) : q.id # id
  BY DEF RowsNamed
<1>4. \A r \in S : \E q \in Q : SameRow(r, q)
  BY <1>1
<1>5. \A q \in Q : \E r \in S : SameRow(r, q)
  BY <1>1 DEF RowsNamed
<1>6. ASSUME NEW r \in S, NEW q \in Q, NEW k \in Q, SameRow(r, q), SameRow(r, k)
      PROVE  q = k
  <2>1. q.id = r.id /\ k.id = r.id
    BY <1>6 DEF SameRow
  <2>2. CASE r.id = id
    BY <1>3, <2>1, <2>2
  <2>3. CASE r.id # id
    BY <1>2, <2>1, <2>3
  <2> QED
    BY <2>2, <2>3
<1> HIDE DEF Q
<1>7. Redone(S, Q)
  BY <1>4, <1>5, <1>6 DEF Redone
<1> QED
  BY <1>7 DEF Q

\* A registry keeps its place when rows are changed in that way.
LEMMA RedoneBook ==
  ASSUME NEW b, BookSound(b), NEW e, IsBook(e), e.redirects = b.redirects, e.retired = b.retired,
         Redone(b.rows, e.rows), AliasOff(e.rows), NEW done, SettledAs(b, done)
  PROVE  BookSound(e) /\ SettledAs(e, done)
<1>1. PICK S, red, gone, Q : S = b.rows /\ red = b.redirects /\ gone = b.retired /\ Q = e.rows
  OBVIOUS
<1>2. RowsLaid(S) /\ Led(S, red) /\ Caught(S, red) /\ Redone(S, Q)
  BY <1>1 DEF BookSound, Laid
<1>3. /\ RowsLaid(Q) /\ Led(Q, red) /\ Caught(Q, red)
      /\ NoAlias(S) => NoAlias(Q)
      /\ OnePathed(S, gone) => OnePathed(Q, gone)
  BY <1>2, RedoneSound
<1>4. CloneOnly(S, gone) => CloneOnly(Q, gone)
  <2> SUFFICES ASSUME CloneOnly(S, gone) PROVE CloneOnly(Q, gone)
    OBVIOUS
  <2>1. PICK r \in S : S = {r} /\ r.id = CloneId /\ InConflict(r) /\ \E c, d \in r.cands : c.path # d.path
    BY DEF CloneOnly
  <2>2. PICK q \in Q : SameRow(r, q)
    BY <1>2 DEF Redone
  <2>3. Q = {q}
    BY <1>2, <2>1, <2>2 DEF Redone
  <2> QED
    BY <2>1, <2>2, <2>3 DEF CloneOnly, SameRow, InConflict
<1>5. BookSound(e)
  BY <1>1, <1>3, <1>4 DEF BookSound, Laid
<1>6. SettledAs(e, done)
  BY <1>1, <1>3 DEF SettledAs
<1> QED
  BY <1>5, <1>6

\* A name that leads on leads to a row, and one that does not is its own.
LEMMA ResolveIs ==
  ASSUME NEW S, NEW red, Led(S, red), DOMAIN red \cap RowIds(S) = {}, NEW id
  PROVE  /\ id \notin DOMAIN red => Resolve(red, id) = id
         /\ id \in DOMAIN red => Resolve(red, id) \in RowIds(S)
<1>1. ASSUME NEW k, Hop(red, id) = k, k \notin DOMAIN red
      PROVE  Resolve(red, id) = k
  <2>1. PICK T : T = {k}
    OBVIOUS
  <2>2. Hop(red, id) \in T /\ \A m \in T : Hop(red, m) \in T
    BY <1>1, <2>1 DEF Hop
  <2>3. Resolve(red, id) \in T
    BY <2>2, ResolveStays
  <2> QED
    BY <2>1, <2>3
<1>2. id \notin DOMAIN red => Resolve(red, id) = id
  BY <1>1 DEF Hop
<1>3. ASSUME id \in DOMAIN red
      PROVE  Resolve(red, id) \in RowIds(S)
  BY <1>3, <1>1 DEF Led, RowIds, Hop
<1> QED
  BY <1>2, <1>3

\* An admitted enrolment is the repository's only registration.
LEMMA EnrolledSound ==
  ASSUME NEW b, BookSound(b), NEW done, SettledAs(b, done), DOMAIN b.redirects \cap RowIds(b.rows) = {},
         NEW key, NEW repo \in Repos, NEW p \in Paths, NEW pol,
         \A r \in b.rows : r.id = Alias => r.path # p,
         RowsNamed(b.rows, CloneId) = {}, NEW id, id = Resolve(b.redirects, repo), Admits(b, key, id, p, pol)
  PROVE  BookSound(Enrolled(b, key, id, p, pol)) /\ SettledAs(Enrolled(b, key, id, p, pol), done)
<1>1. PICK S, red, old : S = b.rows /\ red = b.redirects /\ old = RowsNamed(S, id)
  OBVIOUS
<1>2. IsBook(b) /\ RowsLaid(S) /\ Led(S, red) /\ Caught(S, red)
  BY <1>1 DEF BookSound, Laid
<1>3. p \notin b.retired /\ (\A r \in S : r.path = p) /\ \A r \in old : ~InConflict(r)
  BY <1>1 DEF Admits
<1>4. OnPath(S, p)
  BY <1>1, <1>3 DEF BookSound, CloneOnly, RowsNamed, OnePathed, OnPath
<1>5. \A r \in S : r.id # Alias
  BY <1>1, <1>3
<1>6. PICK new : new = IF old = {} THEN {Registration(id, p, pol)}
                       ELSE {IF r.policy = pol /\ r.enabled THEN r
                             ELSE [r EXCEPT !.policy = pol, !.enabled = TRUE, !.gen = @ + 1, !.state = "enrolled"] :
                                r \in old}
  OBVIOUS
<1>7. PICK e, Q : e = Enrolled(b, key, id, p, pol) /\ Q = (S \ old) \union new
  OBVIOUS
<1>8. IsBook(e) /\ e.rows = Q /\ e.redirects = red /\ e.retired = b.retired
  <2>1. e = [b EXCEPT !.rows = Q, !.keys = (key :> [id |-> id, intent |-> <<id, pol>>, path |-> p]) @@ @]
    BY <1>1, <1>6, <1>7 DEF Enrolled
  <2>2. PICK keys : e = [b EXCEPT !.rows = Q, !.keys = keys]
    BY <2>1
  <2> QED
    BY <1>1, <1>2, <2>2 DEF IsBook
<1>9. CASE old = {}
  <2>1. id = repo /\ repo \notin DOMAIN red
    BY <1>1, <1>9, <1>2, ResolveIs DEF RowsNamed, RowIds
  <2>2. PICK row : row = Registration(repo, p, pol) /\ Q = S \union {row}
    BY <1>6, <1>7, <1>9, <2>1
  <2>3. /\ row.id = repo /\ row.path = p /\ row.cands = {} /\ row.legacy = {} /\ row.enabled
        /\ IsLeaf(row) /\ ~InConflict(row) /\ Cohort(row) = {row}
    BY <2>2, NamesAre, CohortIs DEF Registration, RowShape, IsLeaf, InConflict
  <2>4. IsRow(row)
    BY <2>3 DEF IsRow, IsLeaf
  <2>5. ASSUME NEW r \in S, NEW c \in Cohort(r)
        PROVE  c.id # repo
    <3>1. r.id # repo
      BY <1>1, <1>9, <2>1 DEF RowsNamed
    <3>2. CASE InConflict(r)
      BY <1>2, <2>5, <3>2, CohortIs, <2>1, <3>1 DEF Caught
    <3>3. CASE ~InConflict(r)
      BY <2>5, <3>1, <3>3, CohortIs
    <3> QED
      BY <3>2, <3>3
  <2>6. repo # Alias /\ repo # LostId /\ repo # CloneId
    BY NamesAre
  <2>7. LeavesApart(Q)
    <3> SUFFICES ASSUME NEW q \in Q, NEW k \in Q, NEW c \in Cohort(q), NEW d \in Cohort(k),
                        c.id = d.id, c.path = d.path
                 PROVE  c = d /\ q = k
      BY DEF LeavesApart
    <3>1. CASE q = row \/ k = row
      BY <2>2, <2>3, <2>5, <3>1
    <3>2. CASE q # row /\ k # row
      BY <1>2, <2>2, <3>2 DEF RowsLaid, LeavesApart
    <3> QED
      BY <3>1, <3>2
  <2>8. AliasMerged(Q)
    BY <1>2, <2>2, <2>3, <2>6 DEF RowsLaid, AliasMerged
  <2>9. LostApart(Q)
    BY <1>2, <2>2, <2>3, <2>6 DEF RowsLaid, LostApart
  <2>10. RowsLaid(Q)
    BY <1>2, <2>2, <2>4, <2>7, <2>8, <2>9 DEF RowsLaid
  <2>11. Led(Q, red)
    BY <1>2, <2>2 DEF Led
  <2>12. Caught(Q, red)
    BY <1>2, <2>2, <2>3 DEF Caught
  <2>13. OnePathed(Q, b.retired)
    BY <1>3, <1>4, <2>2, <2>3, <2>6 DEF OnePathed, OnPath
  <2>14. AliasOff(Q)
    BY <1>5, <2>2, <2>3, <2>6 DEF AliasOff
  <2>15. NoAlias(S) => NoAlias(Q)
    BY <2>2, <2>3, <2>6 DEF NoAlias
  <2>16. BookSound(e)
    BY <1>8, <2>10, <2>11, <2>12, <2>13, <2>14 DEF BookSound, Laid
  <2>17. SettledAs(e, done)
    BY <1>1, <1>8, <2>13, <2>15 DEF SettledAs
  <2> QED
    BY <1>7, <2>16, <2>17
<1>10. CASE old # {}
  <2>1. PICK r \in old : TRUE
    BY <1>10
  <2>2. old = {r} /\ r \in S /\ RowShape(r) /\ ~InConflict(r)
    BY <1>1, <1>2, <1>4, <2>1, IdsOnPath, <1>3 DEF RowsNamed, RowsLaid, IsRow
  <2>3. PICK q : q = IF r.policy = pol /\ r.enabled THEN r
                     ELSE [r EXCEPT !.policy = pol, !.enabled = TRUE, !.gen = @ + 1, !.state = "enrolled"]
    OBVIOUS
  <2>4. new = {q}
    BY <1>6, <1>10, <2>2, <2>3
  <2>5. SameRow(r, q)
    <3>1. PICK a1, a2, a3, a4, a5, a6, a7, a8, a9, a10 :
             r = [id |-> a1, repo |-> a2, path |-> a3, policy |-> a4, enabled |-> a5, was |-> a6,
                  state |-> a7, gen |-> a8, legacy |-> a9, cands |-> a10]
      BY <2>2 DEF RowShape
    <3>2. CASE r.policy = pol /\ r.enabled
      BY <2>2, <2>3, <3>2 DEF SameRow
    <3>3. CASE ~(r.policy = pol /\ r.enabled)
      <4>1. PICK g : g = r.gen + 1
        OBVIOUS
      <4>2. q = [r EXCEPT !.policy = pol, !.enabled = TRUE, !.gen = g, !.state = "enrolled"]
        BY <2>3, <3>3, <4>1
      <4>3. q = [id |-> a1, repo |-> a2, path |-> a3, policy |-> pol, enabled |-> TRUE, was |-> a6,
                 state |-> "enrolled", gen |-> g, legacy |-> a9, cands |-> a10]
        BY <3>1, <4>2
      <4> QED
        BY <2>2, <3>1, <4>3 DEF SameRow, RowShape
    <3> QED
      BY <3>2, <3>3
  <2>6. Redone(S, Q)
    <3>1. \A s, k \in S : s.id = k.id => s = k
      BY <1>2, <1>4, IdsOnPath
    <3>2. \A s \in RowsNamed(S, id) : \E k \in new : SameRow(s, k)
      BY <1>1, <2>2, <2>4, <2>5
    <3>3. \A k \in new : \E s \in RowsNamed(S, id) : SameRow(s, k)
      BY <1>1, <2>2, <2>4, <2>5
    <3>4. \A k, j \in new : k = j
      BY <2>4
    <3>5. Redone(S, (S \ RowsNamed(S, id)) \union new)
      BY <1>2, <3>1, <3>2, <3>3, <3>4, ChangeRedoes
    <3> QED
      BY <1>1, <1>7, <3>5
  <2>7. AliasOff(Q)
    BY <1>5, <1>7, <2>2, <2>4, <2>5 DEF AliasOff, SameRow
  <2>8. BookSound(e) /\ SettledAs(e, done)
    BY <1>1, <1>8, <2>6, <2>7, RedoneBook
  <2> QED
    BY <1>7, <2>8
<1> QED
  BY <1>9, <1>10

\* A disabled row is the row it was, disabled.
LEMMA DisabledSound ==
  ASSUME NEW b, BookSound(b), NEW done, SettledAs(b, done), NEW id, NEW e,
         e = [b EXCEPT !.rows = (@ \ RowsNamed(b.rows, id)) \union
                 {[r EXCEPT !.enabled = FALSE, !.gen = @ + 1, !.state = "disabled"] : r \in RowsNamed(b.rows, id)}]
  PROVE  BookSound(e) /\ SettledAs(e, done)
<1>1. PICK S, new : /\ S = b.rows
                    /\ new = {[r EXCEPT !.enabled = FALSE, !.gen = @ + 1, !.state = "disabled"] : r \in RowsNamed(S, id)}
  OBVIOUS
<1>2. IsBook(b) /\ RowsLaid(S)
  BY <1>1 DEF BookSound, Laid
<1>3. PICK Q : Q = (S \ RowsNamed(S, id)) \union new
  OBVIOUS
<1>4. IsBook(e) /\ e.rows = Q /\ e.redirects = b.redirects /\ e.retired = b.retired
  BY <1>1, <1>3, <1>2 DEF IsBook
<1>5. ASSUME NEW r \in RowsNamed(S, id), NEW q, q = [r EXCEPT !.enabled = FALSE, !.gen = @ + 1, !.state = "disabled"]
      PROVE  SameRow(r, q) /\ ~q.enabled
  <2>1. PICK a1, a2, a3, a4, a5, a6, a7, a8, a9, a10 :
           r = [id |-> a1, repo |-> a2, path |-> a3, policy |-> a4, enabled |-> a5, was |-> a6,
                state |-> a7, gen |-> a8, legacy |-> a9, cands |-> a10]
    <3>1. RowShape(r)
      BY <1>2 DEF RowsNamed, RowsLaid, IsRow
    <3> QED
      BY <3>1 DEF RowShape
  <2>2. PICK g : q = [r EXCEPT !.enabled = FALSE, !.gen = g, !.state = "disabled"]
    BY <1>5
  <2>3. q = [id |-> a1, repo |-> a2, path |-> a3, policy |-> a4, enabled |-> FALSE, was |-> a6,
             state |-> "disabled", gen |-> g, legacy |-> a9, cands |-> a10]
    BY <2>1, <2>2
  <2> QED
    BY <2>1, <2>3 DEF SameRow, RowShape
<1>6. \A r, s \in S : r.id = s.id => r = s
  BY <1>1, BookIds
<1>7. \A r, s \in RowsNamed(S, id) : r = s
  BY <1>6 DEF RowsNamed
<1>8. Redone(S, (S \ RowsNamed(S, id)) \union new)
  <2>1. \A r \in RowsNamed(S, id) : \E q \in new : SameRow(r, q)
    BY <1>1, <1>5
  <2>2. \A q \in new : \E r \in RowsNamed(S, id) : SameRow(r, q)
    BY <1>1, <1>5
  <2>3. \A q, k \in new : q = k
    BY <1>1, <1>7
  <2> QED
    BY <1>2, <1>6, <2>1, <2>2, <2>3, ChangeRedoes
<1>9. AliasOff(Q)
  BY <1>1, <1>5, <1>3 DEF AliasOff, BookSound
<1> QED
  <2>1. Redone(b.rows, e.rows) /\ AliasOff(e.rows)
    BY <1>1, <1>3, <1>4, <1>8, <1>9
  <2> QED
    BY <1>4, <2>1, RedoneBook

-----------------------------------------------------------------------------
(* What a resolution makes of a registry.                                   *)

\* A candidate that comes back is the registration it was.
LEMMA PromotedIs ==
  ASSUME NEW c, IsLeaf(c), NEW q, q = Promoted(c)
  PROVE  /\ RowShape(q) /\ q.id = c.id /\ q.repo = c.repo /\ q.path = c.path /\ q.legacy = c.legacy /\ q.cands = {}
         /\ IsLeaf(q) /\ IsRow(q) /\ ~InConflict(q) /\ Cohort(q) = {q}
<1>1. PICK a1, a2, a3, a4, a5, a6, a7, a8, a9, a10 :
         c = [id |-> a1, repo |-> a2, path |-> a3, policy |-> a4, enabled |-> a5, was |-> a6,
              state |-> a7, gen |-> a8, legacy |-> a9, cands |-> a10]
  BY DEF IsLeaf, RowShape
<1>2. PICK x : q = [c EXCEPT !.was = FALSE, !.cands = {}, !.state = x]
  BY DEF Promoted
<1>3. q = [id |-> a1, repo |-> a2, path |-> a3, policy |-> a4, enabled |-> a5, was |-> FALSE,
           state |-> x, gen |-> a8, legacy |-> a9, cands |-> {}]
  BY <1>1, <1>2
<1>4. /\ RowShape(q) /\ q.id = c.id /\ q.repo = c.repo /\ q.path = c.path /\ q.legacy = c.legacy /\ q.cands = {}
  BY <1>1, <1>3 DEF RowShape
<1>5. IsLeaf(q) /\ ~InConflict(q)
  BY <1>4 DEF IsLeaf, InConflict
<1> QED
  BY <1>4, <1>5, CohortIs DEF IsRow

\* The selected path of a clone brings its registrations back; the others are
\* retired, and what is back is canonicalized.
LEMMA SelectPathSound ==
  ASSUME NEW b, BookSound(b), CloneOnly(b.rows, b.retired), NEW r \in b.rows, NEW sel \in Selections(r)
  PROVE  /\ BookSound(SelectPath(b, r, sel))
         /\ OnePathed(SelectPath(b, r, sel).rows, SelectPath(b, r, sel).retired)
<1>1. /\ IsBook(b) /\ RowsLaid(b.rows) /\ Led(b.rows, b.redirects)
      /\ b.retired = {} /\ b.rows = {r} /\ r.id = CloneId /\ InConflict(r)
  BY DEF BookSound, Laid, CloneOnly
<1>2. \A c \in r.cands : c \in Cohort(r) /\ IsLeaf(c)
  BY <1>1, CohortIs DEF RowsLaid, IsRow
<1>3. PICK p \in {c.path : c \in r.cands} : sel = {c \in r.cands : c.path = p}
  BY <1>1 DEF Selections
<1>4. p \in Paths /\ sel # {}
  BY <1>2, <1>3 DEF IsLeaf
<1>5. AnyOf(sel) \in sel
  BY <1>4 DEF AnyOf
<1>6. AnyOf(sel).path = p
  BY <1>3, <1>5
<1>7. PICK Q, red, gone : /\ Q = {Promoted(c) : c \in sel}
                          /\ red = [n \in {m \in DOMAIN b.redirects : m # r.id /\ b.redirects[m] # r.id} |-> b.redirects[n]]
                          /\ gone = {c.path : c \in r.cands} \ {p}
  OBVIOUS
<1>8. PICK mid : SelectPath(b, r, sel) = Canonical(mid) /\ IsBook(mid) /\ mid.rows = Q /\ mid.redirects = red /\ mid.retired = gone
  <2> DEFINE owner(k) == {c \in sel : k.id = r.id /\ k.path = AnyOf(sel).path /\ k.intent = <<c.id, c.policy>>}
  <2>1. PICK keys : SelectPath(b, r, sel) = Canonical([b EXCEPT
            !.rows = (@ \ {r}) \union {Promoted(c) : c \in sel},
            !.redirects = red,
            !.retired = @ \union ({c.path : c \in r.cands} \ {AnyOf(sel).path}),
            !.keys = keys])
    BY <1>7 DEF SelectPath
  <2>2. PICK mid : mid = [b EXCEPT
            !.rows = (@ \ {r}) \union {Promoted(c) : c \in sel},
            !.redirects = red,
            !.retired = @ \union ({c.path : c \in r.cands} \ {AnyOf(sel).path}),
            !.keys = keys]
    OBVIOUS
  <2>3. mid = [b EXCEPT !.rows = Q, !.redirects = red, !.retired = gone, !.keys = keys]
    BY <1>1, <1>6, <1>7, <2>2
  <2>4. IsBook(mid) /\ mid.rows = Q /\ mid.redirects = red /\ mid.retired = gone
    BY <1>1, <2>3 DEF IsBook
  <2> QED
    BY <2>1, <2>2, <2>4
<1>9. \A q \in Q : \E c \in r.cands : /\ q = Promoted(c) /\ c \in sel /\ IsRow(q) /\ IsLeaf(q) /\ ~InConflict(q) /\ Cohort(q) = {q}
                                      /\ q.id = c.id /\ q.path = p /\ c.path = p /\ q.legacy = c.legacy /\ q.cands = {}
  BY <1>2, <1>3, <1>7, PromotedIs
<1>10. ASSUME NEW q \in Q, NEW k \in Q
       PROVE  (q.id = k.id => q = k) /\ (q.legacy # {} => k.id # Alias)
  <2>1. PICK c \in r.cands : q = Promoted(c) /\ q.id = c.id /\ c.path = p /\ q.legacy = c.legacy
    BY <1>9
  <2>2. PICK d \in r.cands : k = Promoted(d) /\ k.id = d.id /\ d.path = p
    BY <1>9
  <2>3. c \in Cohort(r) /\ d \in Cohort(r)
    BY <1>2
  <2>4. c.id = d.id => c = d
    BY <1>1, <2>1, <2>2, <2>3 DEF RowsLaid, LeavesApart
  <2>5. c.legacy # {} => d.id # Alias
    BY <1>1, <2>3 DEF RowsLaid, AliasMerged
  <2> QED
    BY <2>1, <2>2, <2>4, <2>5
<1>11. RowsLaid(Q)
  BY <1>9, <1>10, NamesAre DEF LeavesApart, AliasMerged, LostApart, IsLeaf, RowsLaid
<1>12. DOMAIN red = {}
  BY <1>1, <1>7 DEF Led
<1>13. Led(Q, red) /\ Caught(Q, red)
  BY <1>9, <1>12 DEF Led, Caught
<1>14. OnePathed(Q, gone)
  BY <1>9, NamesAre, <1>4, <1>7 DEF OnPath, IsLeaf, OnePathed
<1>15. Laid(mid) /\ Placed(mid) /\ OnePathed(mid.rows, mid.retired)
  BY <1>8, <1>11, <1>13, <1>14 DEF Laid, Placed
<1>16. PICK e : e = Canonical(mid)
  OBVIOUS
<1>17. BookSound(e) /\ OnePathed(e.rows, e.retired)
  BY <1>15, <1>16, CanonicalSound
<1> QED
  BY <1>8, <1>16, <1>17

\* The selected candidate of a cohort of one repository is its registration
\* under every name, and no alias is left.
LEMMA SelectRepoSound ==
  ASSUME NEW b, BookSound(b), NEW r \in b.rows, InConflict(r), r.id # CloneId,
         \A c, d \in r.cands : RepoOf(c.repo) = RepoOf(d.repo), NEW c \in r.cands
  PROVE  /\ BookSound(SelectRepo(b, r, c)) /\ ~NoAlias(b.rows)
         /\ OnePathed(SelectRepo(b, r, c).rows, SelectRepo(b, r, c).retired) /\ NoAlias(SelectRepo(b, r, c).rows)
<1>1. PICK S, red : S = b.rows /\ red = b.redirects
  OBVIOUS
<1>2. IsBook(b) /\ RowsLaid(S) /\ Led(S, red) /\ Caught(S, red)
  BY <1>1 DEF BookSound, Laid
<1>3. PICK p \in Paths \ b.retired : OnPath(S, p)
  BY <1>1 DEF BookSound, OnePathed, CloneOnly
<1>4. PICK m \in r.cands, a \in r.cands : m.id = Main /\ a.id = Alias
  BY <1>1, <1>2, <1>3, TwoNames
<1>5. \A d \in r.cands : d \in Cohort(r) /\ IsLeaf(d) /\ d.path = p
  BY <1>1, <1>2, <1>3, CohortIs DEF RowsLaid, IsRow, OnPath
<1>6. \A q \in S : \A d \in Cohort(q) : d.legacy = {} /\ d.path = p
  BY <1>1, <1>2, <1>3, <1>4, <1>5, CohortIs DEF RowsLaid, AliasMerged, OnPath
<1>7. \A d \in r.cands : RepoOf(d.repo) = Main /\ d.id \in {Main, Alias}
  <2> TAKE d \in r.cands
  <2>1. RepoOf(d.repo) = RepoOf(m.repo) /\ m.repo = Main
    BY <1>4, <1>5 DEF IsLeaf
  <2>2. RepoOf(Main) = Main /\ Main \in Labels
    BY NamesAre, RepoOfIs
  <2>3. d.id = d.repo /\ d.id \in Labels
    BY <1>5 DEF IsLeaf
  <2> QED
    BY <2>1, <2>2, <2>3, RepoOfIs
<1>8. \A q \in S : \A d \in Cohort(q) : d.id \in {Main, Alias} => q = r
  BY <1>6, <1>1, <1>2, <1>4, <1>5 DEF RowsLaid, LeavesApart
<1>9. KeptHere(S) /\ \A q, k \in S : q.id = k.id => q = k
  BY <1>2, <1>3, IdsOnPath
<1>10. \A q \in S : q.id \in {Main, Alias, r.id} => q = r
  BY <1>1, <1>4, <1>9 DEF KeptHere
<1>11. r.id \in {LostId, Main}
  BY <1>1, <1>2, <1>3, NamesAre, RepoConflictIs DEF RowsLaid, IsRow, IsConflict
<1>12. PICK names : names = (UNION {{x.id} \union x.legacy : x \in r.cands}) \union {r.id}
  OBVIOUS
<1>13. names = {Main, Alias, r.id}
  BY <1>1, <1>5, <1>6, <1>7, <1>12, <1>4
<1>14. PICK row : row = [Promoted(c) EXCEPT !.id = Main, !.repo = Main, !.legacy = names \ {Main},
                                            !.gen = TopGeneration(r.cands \union {r}) + 1]
  OBVIOUS
<1>15. /\ IsLeaf(row) /\ IsRow(row) /\ ~InConflict(row) /\ Cohort(row) = {row}
       /\ row.id = Main /\ row.repo = Main /\ row.path = p /\ row.cands = {}
  <2>1. PICK q, g : q = Promoted(c) /\ g = TopGeneration(r.cands \union {r}) + 1
    OBVIOUS
  <2>2. RowShape(q) /\ q.path = p /\ q.cands = {}
    BY <1>5, <2>1, PromotedIs
  <2>3. PICK a1, a2, a3, a4, a5, a6, a7, a8, a9, a10 :
           q = [id |-> a1, repo |-> a2, path |-> a3, policy |-> a4, enabled |-> a5, was |-> a6,
                state |-> a7, gen |-> a8, legacy |-> a9, cands |-> a10]
    BY <2>2 DEF RowShape
  <2>4. row = [q EXCEPT !.id = Main, !.repo = Main, !.legacy = names \ {Main}, !.gen = g]
    BY <1>14, <2>1
  <2>5. row = [id |-> Main, repo |-> Main, path |-> a3, policy |-> a4, enabled |-> a5, was |-> a6,
               state |-> a7, gen |-> g, legacy |-> names \ {Main}, cands |-> a10]
    BY <2>3, <2>4
  <2>6. /\ RowShape(row) /\ row.id = Main /\ row.repo = Main /\ row.path = p /\ row.cands = {}
        /\ row.legacy = names \ {Main}
    BY <2>2, <2>3, <2>5 DEF RowShape
  <2>7. names \ {Main} \subseteq {Alias, LostId}
    BY <1>11, <1>13
  <2>8. IsLeaf(row)
    BY <1>3, <2>6, <2>7, NamesAre DEF IsLeaf
  <2>9. ~InConflict(row) /\ Cohort(row) = {row}
    BY <2>6, CohortIs DEF InConflict
  <2> QED
    BY <2>6, <2>8, <2>9 DEF IsRow
<1>16. PICK Q, led, new : /\ Q = {x \in S : x.id \notin {r.id, Main}} \union {row}
                          /\ led = {n \in DOMAIN red : red[n] \in names} \union (names \ {Main})
                          /\ new = [n \in DOMAIN red \union led |-> IF n \in led THEN Main ELSE red[n]]
  OBVIOUS
<1>17. PICK e : e = SelectRepo(b, r, c)
  OBVIOUS
<1>18. IsBook(e) /\ e.rows = Q /\ e.redirects = Normalized(new, Q) /\ e.retired = b.retired
  <2>1. RepoOf(c.repo) = Main
    BY <1>7
  <2> DEFINE id == RepoOf(c.repo)
  <2> DEFINE nn == (UNION {{x.id} \union x.legacy : x \in r.cands}) \union {r.id}
  <2> DEFINE rr == [Promoted(c) EXCEPT !.id = id, !.repo = id, !.legacy = nn \ {id},
                                       !.gen = TopGeneration(r.cands \union {r}) + 1]
  <2> DEFINE ll == {n \in DOMAIN b.redirects : b.redirects[n] \in nn} \union (nn \ {id})
  <2> DEFINE dd == [n \in DOMAIN b.redirects \union ll |-> IF n \in ll THEN id ELSE b.redirects[n]]
  <2> DEFINE qq == {x \in b.rows : x.id \notin {r.id, id}} \union {rr}
  <2>5. nn = names
    BY <1>12
  <2>6. rr = row
    BY <1>14, <2>1, <2>5
  <2>7. ll = led
    BY <1>1, <1>16, <2>1, <2>5
  <2>8. qq = Q
    BY <1>1, <1>16, <2>1, <2>6
  <2>9. dd = new
    <3> HIDE DEF ll
    <3> QED
      BY <1>1, <1>16, <2>1, <2>7
  <2>10. PICK keys : e = [b EXCEPT !.rows = qq, !.redirects = Normalized(dd, qq), !.keys = keys]
    BY <1>17 DEF SelectRepo
  <2> HIDE DEF qq, dd
  <2>2. e = [b EXCEPT !.rows = Q, !.redirects = Normalized(new, Q), !.keys = keys]
    BY <2>8, <2>9, <2>10
  <2>3. PICK normal : normal = Normalized(new, Q)
    OBVIOUS
  <2>4. e = [b EXCEPT !.rows = Q, !.redirects = normal, !.keys = keys]
    BY <2>2, <2>3
  <2> QED
    BY <1>2, <2>3, <2>4 DEF IsBook
<1>19. \A q \in Q : q = row \/ (q \in S /\ q # r /\ q.id \notin {r.id, Main, Alias})
  BY <1>1, <1>10, <1>16
<1>20. \A q \in S : q # r => q \in Q
  BY <1>10, <1>16
<1>21. ASSUME NEW q \in Q, NEW d \in Cohort(q)
       PROVE  IsRow(q) /\ ((q = row /\ d = row) \/ (q \in S /\ q # r /\ d.id \notin {Main, Alias} /\ d.legacy = {}))
  <2>1. CASE q = row
    BY <1>15, <1>21, <2>1
  <2>2. CASE q # row
    BY <1>19, <2>2, <1>2, <1>6, <1>8, <1>21 DEF RowsLaid
  <2> QED
    BY <2>1, <2>2
<1>22. NoAlias(Q)
  BY <1>15, <1>21, NamesAre DEF NoAlias
<1>23. RowsLaid(Q)
  <2>1. \A q \in Q : IsRow(q)
    BY <1>2, <1>15, <1>19 DEF RowsLaid
  <2>2. LeavesApart(Q)
    BY <1>15, <1>21, <1>2, <1>19 DEF LeavesApart, RowsLaid
  <2>3. AliasMerged(Q)
    BY <1>22 DEF AliasMerged, NoAlias
  <2>4. LostApart(Q)
    BY <1>2, <1>15, <1>19, NamesAre DEF RowsLaid, LostApart
  <2> QED
    BY <2>1, <2>2, <2>3, <2>4 DEF RowsLaid
<1>24. OnPath(Q, p)
  BY <1>3, <1>15, <1>19, NamesAre DEF OnPath
<1>25. KeptHere(Q)
  BY <1>23, <1>24, IdsOnPath
<1>26. DOMAIN new \subseteq RegistrationIds
  BY <1>2, <1>11, <1>13, <1>16, NamesAre DEF Led
<1>27. Leading(Q, new)
  <2> SUFFICES ASSUME NEW x \in Repos, NEW n \in NamesOf(Q, x), n \in DOMAIN new \ RowIds(Q)
               PROVE  new[n] \in NamesOf(Q, x)
    BY DEF Leading
  <2>1. n \in Labels /\ RepoOf(n) = x
    BY DEF NamesOf, RowIds
  <2>2. n \in led => new[n] = Main
    BY <1>16
  <2>3. n \notin led => n \in DOMAIN red /\ new[n] = red[n] /\ red[n] \notin names
    BY <1>16
  <2>4. Main \in Labels /\ RepoOf(Main) = Main /\ RepoOf(Alias) = Main
    BY NamesAre, RepoOfIs DEF RepoOf
  <2>5. Main \in NamesOf(Q, Main)
    BY <2>4 DEF NamesOf
  <2>6. CASE n \in names \ {Main}
    <3>1. n = Alias
      BY <1>11, <1>13, <2>1, <2>6, NamesAre
    <3> QED
      BY <1>16, <2>1, <2>2, <2>4, <2>5, <2>6, <3>1
  <2>7. CASE n \in DOMAIN red
    <3>1. PICK q \in S : q.id = red[n] /\ Agrees(q, x)
      BY <1>2, <2>1, <2>7 DEF Led
    <3>2. CASE q.id \in names
      <4>1. q = r
        BY <1>10, <1>13, <3>2
      <4>2. Cohort(r) = r.cands
        BY CohortIs
      <4>3. x = Main
        BY <1>4, <1>7, <3>1, <4>1, <4>2 DEF Agrees, Mixed
      <4>4. n \in led
        BY <1>16, <2>7, <3>1, <3>2
      <4> QED
        BY <2>2, <2>5, <4>3, <4>4
    <3>3. CASE q.id \notin names
      <4>1. q \in Q
        BY <1>13, <1>20, <3>3
      <4>2. q.id \in NamesOf(Q, x)
        BY <3>1, <4>1 DEF NamesOf
      <4>3. CASE n \in led
        BY <1>16, <2>6, <3>1, <3>3, <4>3
      <4>4. CASE n \notin led
        BY <2>3, <3>1, <4>2, <4>4
      <4> QED
        BY <4>3, <4>4
    <3> QED
      BY <3>2, <3>3
  <2> QED
    BY <1>16, <2>6, <2>7
<1>28. Caught(Q, new)
  <2> SUFFICES ASSUME NEW q \in Q, NEW d \in q.cands, d.id # q.id
               PROVE  d.id \in DOMAIN new /\ new[d.id] = q.id
    BY DEF Caught
  <2>1. q \in S /\ q # r /\ q.id \notin {r.id, Main, Alias}
    BY <1>15, <1>19
  <2>2. d.id \in DOMAIN red /\ red[d.id] = q.id
    BY <1>2, <2>1 DEF Caught
  <2>3. d \in Cohort(q) /\ IsLeaf(d)
    BY <1>2, <2>1, CohortIs DEF InConflict, RowsLaid, IsRow
  <2>4. d.id \notin {Main, Alias, r.id}
    BY <1>8, <1>11, <2>1, <2>3, NamesAre DEF IsLeaf
  <2>5. d.id \notin led
    BY <1>13, <1>16, <2>1, <2>2, <2>4
  <2> QED
    BY <1>16, <2>2, <2>5
<1>29. Led(Q, Normalized(new, Q)) /\ Caught(Q, Normalized(new, Q))
  BY <1>23, <1>25, <1>26, <1>27, <1>28, NormalizedSound DEF RowsLaid
<1>30. OnePathed(Q, b.retired)
  BY <1>3, <1>24 DEF OnePathed
<1>31. AliasOff(Q)
  BY <1>15, <1>19, NamesAre DEF AliasOff
<1>32. BookSound(e)
  BY <1>18, <1>23, <1>29, <1>30, <1>31 DEF BookSound, Laid
<1>33. ~NoAlias(b.rows)
  BY <1>4, <1>5 DEF NoAlias
<1> QED
  BY <1>17, <1>18, <1>22, <1>30, <1>32, <1>33

-----------------------------------------------------------------------------
(* The steps.                                                               *)

\* The parts of the invariant an operation can disturb.
FileHolds == Laid(registryFile) /\ Placed(registryFile) /\ SettledAs(registryFile, resolutions)
BookHolds == daemonUp => BookSound(book) /\ SettledAs(book, resolutions)
AttemptsHold ==
    /\ DOMAIN attempt = Operators
    /\ \A o \in Operators : /\ {"step", "plan"} \subseteq DOMAIN attempt[o]
                            /\ PlanSingle(attempt[o].plan)
                            /\ attempt[o].step = "fenced" => daemonUp /\ ~cacheWriter /\ attempt[o].plan # NoPlan
SettledApart(done) == \A s, t \in done : s = t \/ (s.id # t.id /\ (s.id = CloneId \/ t.id = CloneId))
ResolutionsHold ==
    /\ IsFiniteSet(resolutions) /\ commits = Cardinality(resolutions)
    /\ SettledApart(resolutions)
ConflictsInv == FileHolds /\ BookHolds /\ AttemptsHold /\ ResolutionsHold

\* A saved registry is as it should be.
LEMMA SavedSound ==
  ASSUME NEW b, BookSound(b), NEW done, SettledAs(b, done)
  PROVE  /\ BookSound(Pruned(b)) /\ SettledAs(Pruned(b), done)
         /\ Laid(Pruned(b)) /\ Placed(Pruned(b))
<1>1. PICK e : e = Pruned(b)
  OBVIOUS
<1>2. IsBook(e) /\ e.rows = b.rows /\ e.redirects = b.redirects /\ e.retired = b.retired
  BY <1>1, PrunedIs DEF BookSound, Laid
<1> QED
  BY <1>1, <1>2, SameBook

\* A registry that is as it should be is laid and in its place.
LEMMA SoundIsLaid ==
  ASSUME NEW b, BookSound(b)
  PROVE  Laid(b) /\ Placed(b) /\ IsBook(b)
BY DEF BookSound, Laid, Placed

\* Loading makes the file canonical, and saves what it has made or leaves the
\* daemon down.
LEMMA LoadKeeps == ASSUME ConflictsInv, LoadRegistry PROVE ConflictsInv'
<1>1. UNCHANGED <<inspection, cacheWriter, attempt, resolutions, commits>> /\ ~daemonUp
  BY DEF LoadRegistry
<1>2. AttemptsHold' /\ ResolutionsHold'
  BY <1>1 DEF ConflictsInv, AttemptsHold, ResolutionsHold, PlanSingle
<1>3. CASE RegistrySaved(Canonical(registryFile))
  <2>1. PICK b, e, done : b = registryFile /\ e = Canonical(registryFile) /\ done = resolutions
    OBVIOUS
  <2>2. BookSound(e) /\ SettledAs(e, done)
    BY <2>1, CanonicalKeeps DEF ConflictsInv, FileHolds
  <2>3. BookSound(Pruned(e)) /\ SettledAs(Pruned(e), done) /\ Laid(Pruned(e)) /\ Placed(Pruned(e))
    BY <2>2, SavedSound
  <2>4. book' = Pruned(e) /\ registryFile' = Pruned(e) /\ resolutions' = done
    BY <1>1, <1>3, <2>1 DEF RegistrySaved
  <2> QED
    BY <1>2, <2>3, <2>4 DEF ConflictsInv, FileHolds, BookHolds
<1>4. CASE UNCHANGED <<book, registryFile, daemonUp>>
  BY <1>1, <1>2, <1>4 DEF ConflictsInv, FileHolds, BookHolds
<1> QED
  BY <1>3, <1>4 DEF LoadRegistry

\* A daemon that stops leaves the file, and no apply of its own behind.
LEMMA StopConflictsKeeps == ASSUME ConflictsInv, StopDaemon PROVE ConflictsInv'
<1>1. AttemptsHold'
  <2>1. DOMAIN attempt' = Operators
    BY DEF StopDaemon
  <2>2. \A o \in Operators : {"step", "plan"} \subseteq DOMAIN attempt[o]
    BY DEF ConflictsInv, AttemptsHold
  <2>3. \A o \in Operators : attempt'[o] = [attempt[o] EXCEPT !.step = "idle"]
    BY DEF StopDaemon
  <2>4. \A o \in Operators : /\ {"step", "plan"} \subseteq DOMAIN attempt'[o]
                             /\ attempt'[o].step = "idle" /\ attempt'[o].plan = attempt[o].plan
    BY <2>2, <2>3
  <2>5. \A o \in Operators : PlanSingle(attempt[o].plan)
    BY DEF ConflictsInv, AttemptsHold
  <2> QED
    BY <2>1, <2>4, <2>5 DEF AttemptsHold
<1> QED
  BY <1>1 DEF StopDaemon, ConflictsInv, FileHolds, BookHolds, ResolutionsHold

\* What an enrolment starts from and falls back to.
LEMMA CanonicalBook ==
  ASSUME ConflictsInv, daemonUp, NEW b, b = Canonical(book), NEW done, done = resolutions
  PROVE  BookSound(b) /\ SettledAs(b, done) /\ Laid(b) /\ Placed(b)
<1>1. PICK k : k = book
  OBVIOUS
<1>2. BookSound(k) /\ SettledAs(k, done)
  BY <1>1 DEF ConflictsInv, BookHolds
<1>3. BookSound(Canonical(k)) /\ SettledAs(Canonical(k), done)
  BY <1>2, CanonicalKeeps, SoundIsLaid
<1>4. BookSound(b) /\ SettledAs(b, done)
  BY <1>1, <1>3
<1> QED
  BY <1>4, SoundIsLaid

\* Enrolling puts one more registration beside a canonical registry.
LEMMA EnrolKeeps ==
  ASSUME ~EnrolMidConflict, ConflictsInv, NEW key, NEW repo \in Repos, NEW p \in Paths, NEW pol,
         EnrollRegistration(key, repo, p, pol)
  PROVE  ConflictsInv'
<1>1. UNCHANGED <<daemonUp, inspection, cacheWriter, attempt, resolutions, commits>> /\ daemonUp /\ inspection[p] = "ok"
  BY DEF EnrollRegistration
<1>2. PICK b, done : b = Canonical(book) /\ done = resolutions
  OBVIOUS
<1>3. BookSound(b) /\ SettledAs(b, done)
  BY <1>1, <1>2, CanonicalBook
<1>4. PICK id : id = Resolve(b.redirects, repo)
  OBVIOUS
<1>5. PICK out : /\ out = IF Admits(b, key, id, p, pol) THEN Enrolled(b, key, id, p, pol) ELSE b
                 /\ book' = out /\ registryFile' = out
  BY <1>2, <1>4 DEF EnrollRegistration
<1>6. RowsNamed(b.rows, CloneId) = {}
  BY <1>2 DEF EnrollRegistration
<1>7. BookSound(out) /\ SettledAs(out, done)
  <2>1. CASE Admits(b, key, id, p, pol)
    <3>1. PICK k : k = book
      OBVIOUS
    <3>2. BookSound(k)
      BY <1>1, <3>1 DEF ConflictsInv, BookHolds
    <3>3. Laid(k) /\ Placed(k)
      BY <3>2, SoundIsLaid
    <3>4. b = Canonical(k)
      BY <1>2, <3>1
    <3>5. \A r \in b.rows : r.id = Alias => inspection[r.path] # "ok"
      BY <3>3, <3>4, CanonicalSound
    <3>6. DOMAIN b.redirects \cap RowIds(b.rows) = {}
      BY <3>3, <3>4, CanonicalSound
    <3>7. \A r \in b.rows : r.id = Alias => r.path # p
      BY <1>1, <3>5
    <3>8. BookSound(Enrolled(b, key, id, p, pol)) /\ SettledAs(Enrolled(b, key, id, p, pol), done)
      BY <1>3, <1>4, <1>6, <2>1, <3>6, <3>7, EnrolledSound
    <3> QED
      BY <1>5, <2>1, <3>8
  <2>2. CASE ~Admits(b, key, id, p, pol)
    BY <1>3, <1>5, <2>2
  <2> QED
    BY <2>1, <2>2
<1>8. Laid(out) /\ Placed(out)
  BY <1>7, SoundIsLaid
<1>9. FileHolds' /\ BookHolds'
  BY <1>1, <1>2, <1>5, <1>7, <1>8 DEF FileHolds, BookHolds
<1>10. AttemptsHold' /\ ResolutionsHold'
  BY <1>1 DEF ConflictsInv, AttemptsHold, ResolutionsHold
<1> QED
  BY <1>9, <1>10 DEF ConflictsInv

\* An enrolment that fails leaves the registry that was made canonical for it.
LEMMA EnrolFailsKeeps ==
  ASSUME ConflictsInv, NEW p \in Paths, EnrollRegistrationFails(p)
  PROVE  ConflictsInv'
<1>1. UNCHANGED <<daemonUp, inspection, cacheWriter, attempt, resolutions, commits>> /\ daemonUp
  BY DEF EnrollRegistrationFails
<1>2. PICK b, done : b = Canonical(book) /\ done = resolutions
  OBVIOUS
<1>3. BookSound(b) /\ SettledAs(b, done) /\ Laid(b) /\ Placed(b)
  BY <1>1, <1>2, CanonicalBook
<1>4. book' = b /\ registryFile' = b
  BY <1>2 DEF EnrollRegistrationFails
<1>5. FileHolds' /\ BookHolds'
  BY <1>1, <1>2, <1>3, <1>4 DEF FileHolds, BookHolds
<1>6. AttemptsHold' /\ ResolutionsHold'
  BY <1>1 DEF ConflictsInv, AttemptsHold, ResolutionsHold
<1> QED
  BY <1>5, <1>6 DEF ConflictsInv

\* Disabling a row leaves it where it is.
LEMMA DisableKeeps ==
  ASSUME ConflictsInv, NEW id, DisableRegistration(id)
  PROVE  ConflictsInv'
<1>1. UNCHANGED <<daemonUp, inspection, cacheWriter, attempt, resolutions, commits>> /\ daemonUp
  BY DEF DisableRegistration
<1>2. PICK b, done, name : b = book /\ done = resolutions /\ name = Resolve(book.redirects, id)
  OBVIOUS
<1>3. BookSound(b) /\ SettledAs(b, done)
  BY <1>1, <1>2 DEF ConflictsInv, BookHolds
<1>4. PICK e : /\ e = [b EXCEPT !.rows = (@ \ RowsNamed(b.rows, name)) \union
                  {[r EXCEPT !.enabled = FALSE, !.gen = @ + 1, !.state = "disabled"] : r \in RowsNamed(b.rows, name)}]
               /\ book' = e /\ (registryFile' = e \/ registryFile' = registryFile)
  BY <1>2 DEF DisableRegistration
<1>5. BookSound(e) /\ SettledAs(e, done)
  BY <1>3, <1>4, DisabledSound
<1>6. Laid(e) /\ Placed(e)
  BY <1>5, SoundIsLaid
<1>7. FileHolds'
  BY <1>1, <1>2, <1>4, <1>5, <1>6 DEF ConflictsInv, FileHolds
<1>8. BookHolds'
  BY <1>1, <1>2, <1>4, <1>5 DEF BookHolds
<1>9. AttemptsHold' /\ ResolutionsHold'
  BY <1>1 DEF ConflictsInv, AttemptsHold, ResolutionsHold
<1> QED
  BY <1>7, <1>8, <1>9 DEF ConflictsInv

\* A plan chooses among candidates of one repository, or settles a clone.
LEMMA PlanKeeps ==
  ASSUME ~MixedCohorts, ConflictsInv, NEW o \in Operators, NEW id, PlanConflictResolution(o, id)
  PROVE  ConflictsInv'
<1>1. UNCHANGED <<book, registryFile, daemonUp, inspection, cacheWriter, resolutions, commits>>
      /\ daemonUp /\ attempt[o].step = "idle"
  BY DEF PlanConflictResolution
<1>2. PICK plan \in ResolutionPlans(book, id) :
        /\ plan.id = CloneId \/ Cardinality({RepoOf(c.repo) : c \in plan.cands}) = 1
        /\ attempt' = [attempt EXCEPT ![o].plan = plan]
  BY DEF PlanConflictResolution
<1>3. \E r \in book.rows : InConflict(r) /\ plan.cands = r.cands
  BY <1>2 DEF ResolutionPlans, RowsNamed
<1>4. \A c \in plan.cands : RepoOf(c.repo) \in Repos
  <2>1. PICK r \in book.rows : InConflict(r) /\ plan.cands = r.cands
    BY <1>3
  <2>2. \A c \in r.cands : IsLeaf(c)
    BY <1>1, <2>1, CohortIs DEF ConflictsInv, BookHolds, BookSound, Laid, RowsLaid, IsRow
  <2> QED
    BY <2>1, <2>2, RepoOfIs DEF IsLeaf
<1>5. PlanSingle(plan)
  <2>1. PICK T : T = {RepoOf(c.repo) : c \in plan.cands}
    OBVIOUS
  <2>2. IsFiniteSet(T)
    BY <1>4, <2>1, ConflictsAssumption, FS_Subset
  <2>3. Cardinality(T) = 1 => \A x, y \in T : x = y
    BY <2>2, Several
  <2> QED
    BY <1>2, <2>1, <2>3 DEF PlanSingle
<1>6. AttemptsHold'
  <2>1. DOMAIN attempt = Operators /\ \A i \in Operators : {"step", "plan"} \subseteq DOMAIN attempt[i]
    BY DEF ConflictsInv, AttemptsHold
  <2>2. attempt'[o] = [attempt[o] EXCEPT !.plan = plan] /\ \A i \in Operators \ {o} : attempt'[i] = attempt[i]
    BY <1>2, <2>1
  <2>3. attempt'[o].step = "idle" /\ attempt'[o].plan = plan /\ {"step", "plan"} \subseteq DOMAIN attempt'[o]
    BY <1>1, <2>1, <2>2
  <2>4. DOMAIN attempt' = Operators
    BY <1>2, <2>1
  <2>5. \A i \in Operators : /\ {"step", "plan"} \subseteq DOMAIN attempt'[i]
                             /\ PlanSingle(attempt'[i].plan)
                             /\ attempt'[i].step = "fenced" => daemonUp /\ ~cacheWriter /\ attempt'[i].plan # NoPlan
    BY <1>5, <2>1, <2>2, <2>3 DEF ConflictsInv, AttemptsHold
  <2> QED
    BY <1>1, <2>4, <2>5 DEF AttemptsHold
<1>7. FileHolds' /\ BookHolds' /\ ResolutionsHold'
  BY <1>1 DEF ConflictsInv, FileHolds, BookHolds, ResolutionsHold
<1> QED
  BY <1>6, <1>7 DEF ConflictsInv

\* A step of an attempt that changes how far it has come.
LEMMA StepHolds ==
  ASSUME AttemptsHold, NEW o \in Operators, NEW st,
         attempt' = [attempt EXCEPT ![o].step = st], UNCHANGED <<daemonUp, cacheWriter>>,
         st = "fenced" => daemonUp /\ ~cacheWriter /\ attempt[o].plan # NoPlan
  PROVE  AttemptsHold'
<1>1. DOMAIN attempt = Operators /\ \A i \in Operators : {"step", "plan"} \subseteq DOMAIN attempt[i]
  BY DEF AttemptsHold
<1>2. attempt'[o] = [attempt[o] EXCEPT !.step = st] /\ \A i \in Operators \ {o} : attempt'[i] = attempt[i]
  BY <1>1
<1>3. attempt'[o].step = st /\ attempt'[o].plan = attempt[o].plan /\ {"step", "plan"} \subseteq DOMAIN attempt'[o]
  BY <1>1, <1>2
<1>4. DOMAIN attempt' = Operators
  BY <1>1
<1>5. \A i \in Operators : /\ {"step", "plan"} \subseteq DOMAIN attempt'[i]
                           /\ PlanSingle(attempt'[i].plan)
                           /\ attempt'[i].step = "fenced" => daemonUp /\ ~cacheWriter /\ attempt'[i].plan # NoPlan
  BY <1>1, <1>2, <1>3 DEF AttemptsHold
<1> QED
  BY <1>4, <1>5 DEF AttemptsHold

\* An apply begins behind a fence no writer has passed.
LEMMA BeginKeeps ==
  ASSUME ConflictsInv, NEW o \in Operators, BeginResolution(o)
  PROVE  ConflictsInv'
<1>1. /\ UNCHANGED <<book, registryFile, daemonUp, inspection, cacheWriter, resolutions, commits>>
      /\ daemonUp /\ ~cacheWriter /\ attempt[o].plan # NoPlan
  BY DEF BeginResolution
<1>2. PICK st : attempt' = [attempt EXCEPT ![o].step = st]
  BY DEF BeginResolution
<1>3. AttemptsHold'
  BY <1>1, <1>2, StepHolds DEF ConflictsInv
<1> QED
  BY <1>1, <1>3 DEF ConflictsInv, FileHolds, BookHolds, ResolutionsHold

\* What a committed resolution makes of the registry and of those before it.
LEMMA ResolvedSound ==
  ASSUME NEW b, BookSound(b), NEW done, SettledAs(b, done), IsFiniteSet(done),
         SettledApart(done),
         NEW o, NEW plan, plan # NoPlan, PlanSingle(plan),
         NEW r \in b.rows, InConflict(r), plan.id = r.id, plan.cands = r.cands, plan.sel \in Selections(r)
  PROVE  /\ BookSound(Resolved(b, o, plan)) /\ SettledAs(Resolved(b, o, plan), done \union {plan})
         /\ plan \notin done
         /\ SettledApart(done \union {plan})
<1>1. AnyOf(RowsNamed(b.rows, plan.id)) = r
  BY BookIds DEF RowsNamed, AnyOf
<1>2. PICK out : out = IF plan.id = CloneId THEN SelectPath(b, r, plan.sel) ELSE SelectRepo(b, r, AnyOf(plan.sel))
  OBVIOUS
<1>3. /\ BookSound(out) /\ OnePathed(out.rows, out.retired) /\ (plan.id # CloneId => NoAlias(out.rows))
      /\ \A t \in done : t.id = CloneId /\ plan.id # CloneId
  <2>1. CASE r.id = CloneId
    <3>1. ~OnePathed(b.rows, b.retired)
      BY <2>1 DEF OnePathed, OnPath
    <3>2. CloneOnly(b.rows, b.retired) /\ done = {}
      BY <3>1 DEF BookSound, SettledAs
    <3>3. out = SelectPath(b, r, plan.sel)
      BY <1>2, <2>1
    <3>4. PICK sel : sel = plan.sel /\ sel \in Selections(r)
      OBVIOUS
    <3>5. BookSound(out) /\ OnePathed(out.rows, out.retired)
      BY <3>2, <3>3, <3>4, SelectPathSound
    <3> QED
      BY <2>1, <3>2, <3>5
  <2>2. CASE r.id # CloneId
    <3>1. \A c, d \in r.cands : RepoOf(c.repo) = RepoOf(d.repo)
      BY <2>2 DEF PlanSingle
    <3>2. PICK c \in r.cands : c = AnyOf(plan.sel)
      <4>1. PICK c \in r.cands : plan.sel = {c}
        BY <2>2 DEF Selections
      <4>2. AnyOf({c}) = c
        BY DEF AnyOf
      <4> QED
        BY <4>1, <4>2
    <3>3. out = SelectRepo(b, r, c)
      BY <1>2, <2>2, <3>2
    <3>4. /\ BookSound(out) /\ ~NoAlias(b.rows) /\ OnePathed(out.rows, out.retired) /\ NoAlias(out.rows)
      BY <2>2, <3>1, <3>3, SelectRepoSound
    <3> QED
      BY <2>2, <3>4 DEF SettledAs
  <2> QED
    BY <2>1, <2>2
<1>4. PICK e : e = Resolved(b, o, plan)
  OBVIOUS
<1>5. IsBook(e) /\ e.rows = out.rows /\ e.redirects = out.redirects /\ e.retired = out.retired
  <2>1. PICK answered : e = [out EXCEPT !.receipts = answered]
    BY <1>1, <1>2, <1>4 DEF Resolved
  <2>2. IsBook(out)
    BY <1>3, SoundIsLaid
  <2> QED
    BY <2>1, <2>2 DEF IsBook
<1>6. BookSound(e)
  BY <1>3, <1>5, SameBook
<1>7. SettledAs(e, done \union {plan})
  BY <1>3, <1>5 DEF SettledAs
<1>8. SettledApart(done \union {plan})
  BY <1>3 DEF SettledApart
<1>9. plan \notin done
  BY <1>3
<1> QED
  BY <1>4, <1>6, <1>7, <1>8, <1>9, Zenon

\* What a plan replaces is one row; saved, it is settled for good, and a save
\* that fails changes neither the registry nor its file.
LEMMA ApplyKeeps ==
  ASSUME ConflictsInv, NEW o \in Operators, ApplyConflictResolution(o)
  PROVE  ConflictsInv'
<1>1. UNCHANGED <<daemonUp, inspection, cacheWriter>> /\ attempt[o].step = "fenced"
  BY DEF ApplyConflictResolution
<1>2. daemonUp /\ attempt[o].plan # NoPlan /\ PlanSingle(attempt[o].plan)
  BY <1>1 DEF ConflictsInv, AttemptsHold
<1>3. AttemptsHold'
  <2>1. PICK st : attempt' = [attempt EXCEPT ![o].step = st] /\ st = "idle"
    BY DEF ApplyConflictResolution
  <2> QED
    BY <1>1, <2>1, StepHolds DEF ConflictsInv
<1>4. CASE UNCHANGED <<book, registryFile, resolutions, commits>>
  BY <1>1, <1>3, <1>4 DEF ConflictsInv, FileHolds, BookHolds, ResolutionsHold
<1>5. ASSUME PlanHolds(o), RegistrySaved(Resolved(book, o, attempt[o].plan)),
             resolutions' = resolutions \union {attempt[o].plan}, commits' = commits + 1
      PROVE  ConflictsInv'
  <2>1. PICK b, done, plan : b = book /\ done = resolutions /\ plan = attempt[o].plan
    OBVIOUS
  <2>2. BookSound(b) /\ SettledAs(b, done)
    BY <1>2, <2>1 DEF ConflictsInv, BookHolds
  <2>3. /\ IsFiniteSet(done) /\ commits = Cardinality(done)
        /\ SettledApart(done)
    BY <2>1 DEF ConflictsInv, ResolutionsHold
  <2>4. plan # NoPlan /\ PlanSingle(plan)
    BY <1>2, <2>1
  <2>5. PICK r \in b.rows : InConflict(r) /\ plan.id = r.id /\ plan.cands = r.cands /\ plan.sel \in Selections(r)
    <3>1. plan \in ResolutionPlans(b, plan.id)
      BY <1>5, <2>1 DEF PlanHolds
    <3>2. PICK r \in {x \in RowsNamed(b.rows, Resolve(b.redirects, plan.id)) : InConflict(x)} :
             plan \in {[id |-> r.id, gen |-> r.gen, cands |-> r.cands, sel |-> sel] :
                          sel \in {x \in Selections(r) : \A c \in x : inspection[c.path] = "ok"}}
      BY <3>1 DEF ResolutionPlans
    <3>3. PICK sel \in Selections(r) : plan = [id |-> r.id, gen |-> r.gen, cands |-> r.cands, sel |-> sel]
      BY <3>2
    <3> QED
      BY <3>2, <3>3 DEF RowsNamed
  <2>6. PICK e : e = Resolved(b, o, plan)
    OBVIOUS
  <2>7. /\ BookSound(e) /\ SettledAs(e, done \union {plan}) /\ plan \notin done
        /\ SettledApart(done \union {plan})
    <3>1. BookSound(Resolved(b, o, plan)) /\ SettledAs(Resolved(b, o, plan), done \union {plan})
      BY <2>2, <2>3, <2>4, <2>5, ResolvedSound
    <3>2. plan \notin done /\ SettledApart(done \union {plan})
      BY <2>2, <2>3, <2>4, <2>5, ResolvedSound
    <3> QED
      BY <2>6, <3>1, <3>2, Zenon
  <2>8. PICK more : more = done \union {plan} /\ SettledAs(e, more)
    BY <2>7
  <2>9. BookSound(Pruned(e)) /\ SettledAs(Pruned(e), more) /\ Laid(Pruned(e)) /\ Placed(Pruned(e))
    BY <2>7, <2>8, SavedSound
  <2>10. book' = Pruned(e) /\ registryFile' = Pruned(e) /\ resolutions' = more
    BY <1>5, <2>1, <2>6, <2>8 DEF RegistrySaved
  <2>11. FileHolds' /\ BookHolds'
    BY <2>9, <2>10 DEF FileHolds, BookHolds
  <2>12. IsFiniteSet(more) /\ Cardinality(more) = Cardinality(done) + 1
    BY <2>3, <2>7, <2>8, FS_AddElement
  <2>13. ResolutionsHold'
    BY <1>5, <2>3, <2>7, <2>8, <2>10, <2>12 DEF ResolutionsHold
  <2> QED
    BY <1>3, <2>11, <2>13 DEF ConflictsInv
<1> QED
  BY <1>4, <1>5 DEF ApplyConflictResolution, RegistrySaveFails

\* No cache writer starts behind a fence.
LEMMA WriterKeeps == ASSUME ConflictsInv, WriterStarts \/ WriterEnds PROVE ConflictsInv'
<1>1. UNCHANGED <<book, registryFile, daemonUp, attempt, resolutions, commits>>
  BY DEF WriterStarts, WriterEnds
<1>2. \A o \in Operators : attempt[o].step = "fenced" => ~cacheWriter'
  BY DEF WriterStarts, WriterEnds, WritersFenced
<1> QED
  BY <1>1, <1>2 DEF ConflictsInv, FileHolds, BookHolds, AttemptsHold, ResolutionsHold

\* The file of an earlier release: rows, no redirects, nothing retired.
LEMMA ConflictsInitially == ASSUME ConflictsInit PROVE ConflictsInv
<1>1. PICK rows \in SUBSET {Registration(l, p, pol) : l \in Labels, p \in Paths, pol \in Policies} :
        /\ \A r, s \in rows : r.repo = s.repo /\ r.path = s.path => r = s
        /\ registryFile = Registry(rows)
  BY DEF ConflictsInit
<1>2. PICK b : b = registryFile
  OBVIOUS
<1>3. IsBook(b) /\ b.rows = rows /\ DOMAIN b.redirects = {} /\ b.retired = {}
  BY <1>1, <1>2 DEF Registry, IsBook
<1>4. ASSUME NEW r \in rows
      PROVE  IsRow(r) /\ IsLeaf(r) /\ ~InConflict(r) /\ Cohort(r) = {r} /\ r.id = r.repo /\ r.legacy = {} /\ r.cands = {}
  <2>1. PICK l \in Labels, p \in Paths, pol \in Policies : r = Registration(l, p, pol)
    BY <1>4
  <2>2. RowShape(r) /\ r.id = l /\ r.repo = l /\ r.path = p /\ r.legacy = {} /\ r.cands = {}
    BY <2>1 DEF Registration, RowShape
  <2>3. IsLeaf(r) /\ ~InConflict(r)
    BY <2>2 DEF IsLeaf, InConflict
  <2> QED
    BY <2>2, <2>3, CohortIs DEF IsRow
<1>5. RowsLaid(rows)
  BY <1>1, <1>4, NamesAre DEF LeavesApart, AliasMerged, LostApart, IsLeaf, RowsLaid
<1>6. Led(rows, b.redirects) /\ Caught(rows, b.redirects)
  BY <1>3, <1>4 DEF Led, Caught
<1>7. Laid(b)
  BY <1>3, <1>5, <1>6 DEF Laid
<1>8. Placed(b)
  BY <1>3, <1>4 DEF Placed, RawRows
<1>9. resolutions = {} /\ commits = 0 /\ daemonUp = FALSE /\ attempt = [o \in Operators |-> NotAsked]
  BY DEF ConflictsInit
<1>10. FileHolds /\ BookHolds
  BY <1>2, <1>7, <1>8, <1>9 DEF FileHolds, BookHolds, SettledAs
<1>11. AttemptsHold
  BY <1>9 DEF AttemptsHold, NotAsked, PlanSingle
<1>12. ResolutionsHold
  BY <1>9, FS_EmptySet DEF ResolutionsHold, SettledApart
<1> QED
  BY <1>10, <1>11, <1>12 DEF ConflictsInv

\* Every step keeps the invariant.
LEMMA ConflictsStep ==
  ASSUME ~EnrolMidConflict, ~MixedCohorts, ConflictsInv, [ConflictsNext]_conflictVars
  PROVE  ConflictsInv'
<1>1. CASE UNCHANGED conflictVars
  BY <1>1 DEF conflictVars, ConflictsInv, FileHolds, BookHolds, AttemptsHold, ResolutionsHold
<1>2. CASE LoadRegistry
  BY <1>2, LoadKeeps
<1>3. CASE StopDaemon
  BY <1>3, StopConflictsKeeps
<1>4. CASE MoveCache
  BY <1>4 DEF MoveCache, ConflictsInv, FileHolds, BookHolds, AttemptsHold, ResolutionsHold
<1>5. CASE WriterStarts \/ WriterEnds
  BY <1>5, WriterKeeps
<1>6. ASSUME NEW p \in Paths, EnrollRegistrationFails(p)
      PROVE  ConflictsInv'
  BY <1>6, EnrolFailsKeeps
<1>7. ASSUME NEW k \in EnrolKeys, NEW r \in Repos, NEW p \in Paths, NEW pol \in Policies, EnrollRegistration(k, r, p, pol)
      PROVE  ConflictsInv'
  BY <1>7, EnrolKeeps
<1>8. ASSUME NEW id \in RegistrationIds, DisableRegistration(id)
      PROVE  ConflictsInv'
  BY <1>8, DisableKeeps
<1>9. ASSUME NEW o \in Operators, NEW id \in RegistrationIds, PlanConflictResolution(o, id)
      PROVE  ConflictsInv'
  BY <1>9, PlanKeeps
<1>10. ASSUME NEW o \in Operators, BeginResolution(o)
       PROVE  ConflictsInv'
  BY <1>10, BeginKeeps
<1>11. ASSUME NEW o \in Operators, ApplyConflictResolution(o)
       PROVE  ConflictsInv'
  BY <1>11, ApplyKeeps
<1> QED
  BY <1>1, <1>2, <1>3, <1>4, <1>5, <1>6, <1>7, <1>8, <1>9, <1>10, <1>11 DEF ConflictsNext

\* The invariant is what the property says.
LEMMA SelectedIs == ASSUME ConflictsInv PROVE AuthorityIsSelected
<1>1. ASSUME daemonUp
      PROVE  /\ \A r \in book.rows : r.path \notin book.retired
             /\ \A r, s \in book.rows : ~InConflict(r) => r.path = s.path
             /\ \A r, s \in book.rows : r.id = s.id => r = s
             /\ \A r, s \in book.rows : r.enabled /\ s.enabled /\ RepoOf(r.repo) = RepoOf(s.repo) => r = s
             /\ \A n \in DOMAIN book.redirects :
                   \E r \in book.rows : /\ r.id = book.redirects[n]
                                        /\ n \in Labels /\ ~InConflict(r) => RepoOf(n) = RepoOf(r.repo)
  <2>1. PICK b : b = book
    OBVIOUS
  <2>2. BookSound(b)
    BY <1>1, <2>1 DEF ConflictsInv, BookHolds
  <2>3. RowsLaid(b.rows) /\ Led(b.rows, b.redirects) /\ AliasOff(b.rows)
    BY <2>2 DEF BookSound, Laid
  <2>4. \A r, s \in b.rows : r.id = s.id => r = s
    BY <2>2, BookIds
  <2>5. /\ \A r \in b.rows : r.path \notin b.retired
        /\ \A r, s \in b.rows : ~InConflict(r) => r.path = s.path
    BY <2>2 DEF BookSound, OnePathed, OnPath, CloneOnly
  <2>6. ASSUME NEW r \in b.rows, NEW s \in b.rows, r.enabled, s.enabled, RepoOf(r.repo) = RepoOf(s.repo)
        PROVE  r = s
    <3>1. ~InConflict(r) /\ ~InConflict(s)
      BY <2>3, <2>6 DEF RowsLaid, IsRow, IsConflict
    <3>2. IsLeaf(r) /\ IsLeaf(s)
      BY <2>3, <3>1, CohortIs DEF RowsLaid, IsRow
    <3>3. r.id # Alias /\ s.id # Alias
      BY <2>3, <2>6 DEF AliasOff
    <3>4. r.id = s.id
      BY <2>6, <3>2, <3>3, RepoOfIs DEF IsLeaf
    <3> QED
      BY <2>4, <3>4
  <2>7. ASSUME NEW n \in DOMAIN b.redirects
        PROVE  \E r \in b.rows : /\ r.id = b.redirects[n]
                                 /\ n \in Labels /\ ~InConflict(r) => RepoOf(n) = RepoOf(r.repo)
    <3>1. PICK r \in b.rows : r.id = b.redirects[n] /\ (n \in Labels => Agrees(r, RepoOf(n)))
      BY <2>3, <2>7 DEF Led
    <3>2. n \in Labels /\ ~InConflict(r) => RepoOf(n) = RepoOf(r.repo)
      BY <3>1, CohortIs DEF Agrees, Mixed
    <3> QED
      BY <3>1, <3>2
  <2> QED
    BY <2>1, <2>4, <2>5, <2>6, <2>7
<1>2. OnePath
  BY <1>1 DEF OnePath
<1>3. OneAnswer
  BY <1>1 DEF OneAnswer
<1>4. SettledOnce
  BY DEF ConflictsInv, AttemptsHold, WritersFenced, ResolutionsHold, SettledApart, SettledOnce
<1> QED
  BY <1>2, <1>3, <1>4 DEF AuthorityIsSelected

\* What a conflict is resolved to stands, as long as nothing is enrolled
\* beside a clone conflict and no cohort of several repositories is resolved
\* by hand: one path and one registration for each repository, under all its
\* names, each conflict resolved once and no writer beside it, whatever fails
\* or restarts in between.
THEOREM AuthorityStaysSelected == ~EnrolMidConflict /\ ~MixedCohorts => (ConflictsSpec => []AuthorityIsSelected)
<1> SUFFICES ASSUME ~EnrolMidConflict /\ ~MixedCohorts
             PROVE  ConflictsSpec => []AuthorityIsSelected
  OBVIOUS
<1>1. ConflictsInit => ConflictsInv
  BY ConflictsInitially
<1>2. ConflictsInv /\ [ConflictsNext]_conflictVars => ConflictsInv'
  BY ConflictsStep
<1>3. ConflictsInv => AuthorityIsSelected
  BY SelectedIs
<1> QED
  BY <1>1, <1>2, <1>3, PTL DEF ConflictsSpec
=============================================================================
