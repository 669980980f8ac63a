----------------------- MODULE DocsCancellation_proofs -----------------------
(* What DocsCancellation promises, proved for any number of Cancel calls,  *)
(* start requests, jobs, generations, failed writes and restarts.  Then    *)
(* that the ledger of observations is honest, for any number and size of   *)
(* its segments: what files, memory and a reader miss is told.             *)
EXTENDS DocsCancellation, ObservationLog, FiniteSetTheorems, WellFoundedInduction, TLAPS

-----------------------------------------------------------------------------
(* The inductive invariant.                                                *)

Deciding(c) == caller[c].pc \in {"tombstone", "rollback", "final"}
Asks(c, j) == Deciding(c) /\ caller[c].job = j

\* A job and its worker: what may be cancelled is what is active, a running
\* job has a worker at work, and only shutdown signals a worker whose job is
\* active.
JobSound(j) ==
  /\ j \in cancelable <=> status[j] \in Active
  /\ j \in inflight <=> worker[j] # "none"
  /\ j \in signalled => j \in inflight
  /\ status[j] = "running" => worker[j] \in {"index", "publish"}
  /\ status[j] \in Active /\ j \in signalled => closing
  /\ worker[j] = "publish" => outcome[j] # "none"
  /\ worker[j] # "none" => status[j] # "absent"
  /\ disk[j] = "absent" <=> status[j] = "absent"
  /\ gen[j] <= source
JobsSound == \A j \in Jobs : JobSound(j)

\* A call that decides about a job: the fence it raised stands, in the file
\* too, unless a rebind superseded the job; the worker of a job that was
\* running waits; a call at its last step has its tombstone.
CallSound(c) ==
  Deciding(c) =>
    /\ caller[c].job \in Jobs
    /\ caller[c].prev \in {"queued", "running"}
    /\ status[caller[c].job] \in {"cancelling", "superseded"}
    /\ status[caller[c].job] = "cancelling" =>
         /\ disk[caller[c].job] = "cancelling"
         /\ caller[c].prev = "running" => worker[caller[c].job] \in {"index", "publish"}
    /\ caller[c].pc = "final" => caller[c].job \in ghost.tombstoned

OneDecides ==
  \A c, d \in Callers : Deciding(c) /\ Deciding(d) /\ caller[c].job = caller[d].job => c = d

SomeoneDecides == \A j \in Jobs : status[j] = "cancelling" => \E c \in Callers : Asks(c, j)

CallsSound ==
  /\ \A c \in Callers : CallSound(c)
  /\ OneDecides /\ SomeoneDecides /\ WaitersHaveAnOwner

\* An answered cancellation is over for good: no later write shows its job
\* as active, so none can show it as cancelled but in the file.
AckedSound ==
  \A j \in ghost.acked :
    /\ j \in ghost.tombstoned /\ status[j] \in Terminal /\ disk[j] \in Terminal
    /\ status[j] = "cancelled" => disk[j] = "cancelled"

\* The registry in memory is its file, and speaks of the source as it is.
RegistrySound ==
  /\ admission = admDisk
  /\ admission.disp # "none" => admission.gen = source
  /\ \A r \in Requesters : requester[r].gen <= source
  /\ reconciler.gen <= source

\* A cancellation that went through is kept by both files, or a restart has
\* lost it together with its tombstone, which nobody is left to bring back.
Kept(j) == status[j] = "cancelled" /\ disk[j] \in {"cancelling", "cancelled"} /\ admission.disp # "pending"
Lost(j) ==
  /\ status[j] = "interrupted" /\ disk[j] = "interrupted"
  /\ \A r \in Requesters : requester[r].pc = "bind" => requester[r].job # j
  /\ admission.disp # "pending" /\ reconciler.adm.disp # "pending"
  /\ ~Committed(admission, j)
EndedSound ==
  \A j \in ghost.ended : status[j] # "absent" /\ (gen[j] # source \/ Kept(j) \/ Lost(j))

DocsInv == TypeOK /\ JobsSound /\ CallsSound /\ AckedSound /\ RegistrySound /\ EndedSound

-----------------------------------------------------------------------------
(* Frames.                                                                 *)

\* The jobs a call decides about keep their fence, and no other gets one.
SparesDecisions ==
  /\ UNCHANGED caller /\ ghost.tombstoned \subseteq ghost'.tombstoned
  /\ \A j \in Jobs : (\E c \in Callers : Asks(c, j)) =>
       /\ status'[j] = status[j]
       /\ status[j] = "cancelling" =>
            /\ disk'[j] = "cancelling"
            /\ worker[j] \in {"index", "publish"} => worker'[j] \in {"index", "publish"}
  /\ \A j \in Jobs : status'[j] = "cancelling" => status[j] = "cancelling"

\* A step that spares the decisions keeps what is known of the calls.

LEMMA CallsSpared ==
  ASSUME CallsSound, SparesDecisions
  PROVE  CallsSound'
<1> USE DEF CallsSound, SparesDecisions
<1>1. \A c \in Callers : Deciding(c)' <=> Deciding(c)
  BY DEF Deciding
<1>2. ASSUME NEW c \in Callers PROVE CallSound(c)'
  BY <1>1, <1>2 DEF CallSound, Asks
<1>3. OneDecides' /\ WaitersHaveAnOwner'
  BY <1>1 DEF OneDecides, WaitersHaveAnOwner
<1>4. SomeoneDecides'
  BY <1>1 DEF SomeoneDecides, Asks
<1> QED BY <1>2, <1>3, <1>4

\* What was written of a job that is over says what it says, and nothing
\* else about such a job changes.
DiskFollows == \A j \in Jobs : disk'[j] \in {disk[j], status'[j]}
SparesAcked ==
  /\ DiskFollows
  /\ ghost'.acked \subseteq ghost.acked /\ ghost.tombstoned \subseteq ghost'.tombstoned
  /\ \A j \in Jobs : status[j] \in Terminal /\ j \in ghost'.acked =>
       status'[j] = status[j] \/ status'[j] \in Terminal \ {"cancelled"}
SparesEnded ==
  /\ DiskFollows
  /\ ghost'.ended \subseteq ghost.ended /\ UNCHANGED <<source, admission>>
  /\ \A j \in Jobs : status[j] # "absent" => status'[j] # "absent" /\ gen'[j] = gen[j]
  /\ \A j \in ghost'.ended : gen[j] = source /\ status[j] \in Terminal => status'[j] = status[j]

\* An answered cancellation survives such a step.
LEMMA AckedSpared ==
  ASSUME TypeOK, AckedSound, SparesAcked
  PROVE  AckedSound'
BY DEF AckedSound, SparesAcked, DiskFollows, TypeOK, Terminal

\* Nobody turns up who would bind a job a restart interrupted, or launch it.
NobodyRevives ==
  /\ reconciler'.adm.disp = "pending" => reconciler.adm.disp = "pending"
  /\ \A r \in Requesters : requester'[r].pc = "bind" =>
       \/ requester[r].pc = "bind" /\ requester'[r].job = requester[r].job
       \/ status[requester'[r].job] # "interrupted"

\* So does one that went through.
LEMMA EndedSpared ==
  ASSUME TypeOK, EndedSound, SparesEnded, NobodyRevives
  PROVE  EndedSound'
<1> SUFFICES ASSUME NEW j \in ghost'.ended
             PROVE  (status[j] # "absent" /\ (gen[j] # source \/ Kept(j) \/ Lost(j)))'
  BY DEF EndedSound
<1>1. j \in Jobs /\ j \in ghost.ended /\ status[j] # "absent" /\ (gen[j] # source \/ Kept(j) \/ Lost(j))
  BY DEF EndedSound, SparesEnded, TypeOK
<1>2. status'[j] # "absent" /\ gen'[j] = gen[j] /\ source' = source /\ admission' = admission
  BY <1>1 DEF SparesEnded
<1>3. CASE gen[j] = source
  BY <1>1, <1>3, <1>2 DEF Kept, Lost, Terminal, SparesEnded, DiskFollows, Committed, NobodyRevives
<1> QED BY <1>2, <1>3

\* Actors that do not move revive nothing.
LEMMA ActorsRest ==
  ASSUME UNCHANGED <<requester, reconciler>>
  PROVE  NobodyRevives
BY DEF NobodyRevives

\* A step about one job: the others stay as they are, in memory.
OnlyJob(j) ==
  /\ DiskFollows /\ UNCHANGED <<source, closing>>
  /\ \A k \in Jobs \ {j} :
       /\ status'[k] = status[k] /\ gen'[k] = gen[k] /\ worker'[k] = worker[k] /\ outcome'[k] = outcome[k]
       /\ k \in cancelable' <=> k \in cancelable
       /\ k \in inflight' <=> k \in inflight
       /\ k \in signalled' <=> k \in signalled

\* Such a step need only keep that job sound.
LEMMA OnlyJobMoves ==
  ASSUME TypeOK, JobsSound, NEW j \in Jobs, OnlyJob(j), JobSound(j)'
  PROVE  JobsSound'
<1> SUFFICES ASSUME NEW k \in Jobs \ {j} PROVE JobSound(k)'
  BY DEF JobsSound
<1>1. JobSound(k)
  BY DEF JobsSound
<1>2. disk'[k] \in {disk[k], status[k]}
  BY DEF OnlyJob, DiskFollows
<1> QED BY <1>1, <1>2 DEF JobSound, OnlyJob

\* jobs.json holds what it held or what the manager holds.
LEMMA SavesFollow ==
  ASSUME TypeOK, TrySaveJobs(status') \/ UNCHANGED disk
  PROVE  DiskFollows
BY DEF TrySaveJobs, SaveJobs, JobsSaveFails, DiskFollows

\* Every write that is tried or fails keeps to its bound.
TriesWrite ==
  \/ UNCHANGED used
  \/ used.failures < MaxFailures /\ used' = [used EXCEPT !.failures = @ + 1]
UsedIsTyped == used \in [admissions : 0..MaxAdmissions, cancels : 0..MaxCancels,
                        failures : 0..MaxFailures, restarts : 0..MaxRestarts]

\* The counters keep their type.
LEMMA UsedTyped ==
  ASSUME TypeOK, TriesWrite
  PROVE  UsedIsTyped'
BY DocsConstants DEF TypeOK, TriesWrite, UsedIsTyped

-----------------------------------------------------------------------------
(* The worker goroutine.                                                   *)

\* A step of one job that spares the decisions and the answers, and leaves
\* the registry and the actors alone, keeps the invariant.
LEMMA QuietStep ==
  ASSUME DocsInv, TypeOK', JobsSound', SparesDecisions, SparesAcked, SparesEnded,
         UNCHANGED <<admDisk, requester, reconciler>>
  PROVE  DocsInv'
<1>1. CallsSound' /\ AckedSound' /\ EndedSound'
  BY CallsSpared, AckedSpared, EndedSpared, ActorsRest DEF DocsInv
<1>2. RegistrySound'
  BY DEF DocsInv, RegistrySound, SparesEnded
<1> QED BY <1>1, <1>2 DEF DocsInv

\* The worker takes its job up, or finds it taken from it.
LEMMA BeginStep ==
  ASSUME DocsInv, NEW j \in Jobs, Begin(j)
  PROVE  DocsInv'
<1> USE DEF DocsInv
<1>1. TypeOK'
  <2>0. TriesWrite
    BY DEF TriesWrite, Begin, TrySaveJobs, SaveJobs, JobsSaveFails
  <2>1. UsedIsTyped'
    BY <2>0, UsedTyped
  <2>2. status' \in [Jobs -> Statuses] /\ disk' \in [Jobs -> Statuses]
    BY DEF TypeOK, Begin, TrySaveJobs, SaveJobs, JobsSaveFails, Statuses, Active
  <2>3. worker' = [worker EXCEPT ![j] = "index"] \/ worker' = [worker EXCEPT ![j] = "unwind"]
    BY DEF Begin, Goto
  <2>4. UNCHANGED <<gen, cancelable, signalled, inflight, outcome, admission, admDisk, source, fencing,
                    caller, requester, reconciler, closing, ghost>>
    BY DEF Begin, Goto, admVars, actorVars
  <2> QED BY <2>1, <2>2, <2>3, <2>4 DEF UsedIsTyped, TypeOK
<1>2. DiskFollows
  BY SavesFollow DEF Begin
<1>3. OnlyJob(j) /\ JobSound(j)'
  BY <1>2 DEF OnlyJob, JobSound, JobsSound, Begin, Goto, admVars, TypeOK, Active, DiskFollows
<1>4. SparesDecisions
  BY <1>2 DEF SparesDecisions, DiskFollows, Begin, Goto, actorVars, TypeOK, CallsSound, CallSound, Asks
<1>5. SparesAcked /\ SparesEnded
  BY <1>2 DEF SparesAcked, SparesEnded, Begin, admVars, TypeOK, Terminal
<1> QED BY <1>1, <1>3, <1>4, <1>5, OnlyJobMoves, QuietStep DEF Begin, admVars, actorVars

\* The run of the index ends.
LEMMA IndexStep ==
  ASSUME DocsInv, NEW j \in Jobs, Index(j)
  PROVE  DocsInv'
<1> USE DEF DocsInv
<1>1. TypeOK'
  BY DEF TypeOK, Index, jobVars, admVars, actorVars
<1>2. DiskFollows
  BY DEF DiskFollows, Index, jobVars, TypeOK
<1>3. OnlyJob(j) /\ JobSound(j)'
  BY <1>2 DEF OnlyJob, JobSound, JobsSound, Index, jobVars, admVars, TypeOK
<1>4. SparesDecisions
  BY <1>2 DEF SparesDecisions, Index, jobVars, actorVars, TypeOK, CallsSound, CallSound, Asks
<1>5. SparesAcked /\ SparesEnded
  BY <1>2 DEF SparesAcked, SparesEnded, Index, jobVars, admVars
<1> QED BY <1>1, <1>3, <1>4, <1>5, OnlyJobMoves, QuietStep DEF Index, admVars, actorVars

\* The worker publishes its end unless another was decided.
LEMMA PublishStep ==
  ASSUME DocsInv, NEW j \in Jobs, Publish(j)
  PROVE  DocsInv'
<1> USE DEF DocsInv
<1>0. outcome[j] \in Terminal /\ status[j] # "cancelling"
  BY DEF JobsSound, JobSound, Publish, TypeOK, Terminal
<1>1. TypeOK'
  <2>0. TriesWrite
    BY DEF TriesWrite, Publish, TrySaveJobs, SaveJobs, JobsSaveFails
  <2>1. UsedIsTyped'
    BY <2>0, UsedTyped
  <2> QED BY <1>0, <2>1 DEF UsedIsTyped, TypeOK, Publish, TrySaveJobs, SaveJobs, JobsSaveFails, Goto, admVars, actorVars, Statuses
<1>2. DiskFollows
  BY SavesFollow DEF Publish
<1>3. OnlyJob(j)
  BY <1>2 DEF OnlyJob, Publish, Goto, admVars, TypeOK
<1>4. JobSound(j)'
  BY <1>0, <1>2 DEF JobSound, JobsSound, Publish, Goto, admVars, TypeOK, Active, Terminal, DiskFollows
<1>5. SparesDecisions
  BY <1>0, <1>2 DEF SparesDecisions, DiskFollows, Publish, Goto, actorVars, TypeOK, CallsSound, CallSound, Asks, Terminal
<1>6. SparesAcked /\ SparesEnded
  BY <1>0, <1>2 DEF SparesAcked, SparesEnded, Publish, admVars, TypeOK, Terminal
<1> QED BY <1>1, <1>3, <1>4, <1>5, <1>6, OnlyJobMoves, QuietStep DEF Publish, admVars, actorVars

\* The worker of a job no tombstone is left of fails it.
LEMMA PublishFailureStep ==
  ASSUME DocsInv, NEW j \in Jobs, PublishFailure(j)
  PROVE  DocsInv'
<1> USE DEF DocsInv
<1>1. TypeOK'
  <2>0. TriesWrite
    BY DEF TriesWrite, PublishFailure, TrySaveJobs, SaveJobs, JobsSaveFails
  <2>1. UsedIsTyped'
    BY <2>0, UsedTyped
  <2>2. ghost' \in [tombstoned : SUBSET Jobs, acked : SUBSET Jobs, ended : SUBSET Jobs]
    <3>1. ghost \in [tombstoned : SUBSET Jobs, acked : SUBSET Jobs, ended : SUBSET Jobs]
      BY DEF TypeOK
    <3>2. ghost' \in {ghost, [ghost EXCEPT !.ended = @ \ {j}]}
      BY DEF PublishFailure
    <3> QED BY <3>1, <3>2
  <2>3. status' \in [Jobs -> Statuses]
    BY DEF TypeOK, PublishFailure, Statuses, Terminal
  <2>4. disk' \in [Jobs -> Statuses]
    BY <2>3 DEF TypeOK, PublishFailure, TrySaveJobs, SaveJobs, JobsSaveFails
  <2>5. worker' \in [Jobs -> {"none", "spawned", "index", "publish", "tombstone", "fail", "unwind"}]
    BY DEF TypeOK, PublishFailure, Goto
  <2>6. outcome' = outcome
    BY DEF PublishFailure, Goto
  <2> QED BY <2>1, <2>2, <2>3, <2>4, <2>5, <2>6 DEF UsedIsTyped, TypeOK, PublishFailure, admVars, actorVars
<1>2. DiskFollows
  BY SavesFollow DEF PublishFailure
<1>3. OnlyJob(j) /\ JobSound(j)'
  BY <1>2 DEF OnlyJob, JobSound, JobsSound, PublishFailure, Goto, admVars, TypeOK, Active, DiskFollows
<1>4. SparesDecisions
  BY <1>2 DEF SparesDecisions, DiskFollows, PublishFailure, Goto, actorVars, TypeOK, CallsSound, CallSound, Asks
<1>5. SparesAcked /\ SparesEnded
  BY <1>2 DEF SparesAcked, SparesEnded, PublishFailure, admVars, TypeOK, Terminal
<1> QED BY <1>1, <1>3, <1>4, <1>5, OnlyJobMoves, QuietStep DEF PublishFailure, admVars, actorVars

\* The worker goes.
LEMMA UnwindStep ==
  ASSUME DocsInv, NEW j \in Jobs, Unwind(j)
  PROVE  DocsInv'
<1> USE DEF DocsInv
<1>1. TypeOK'
  BY DEF TypeOK, Unwind, admVars, actorVars
<1>2. DiskFollows
  BY DEF DiskFollows, Unwind, TypeOK
<1>3. OnlyJob(j) /\ JobSound(j)'
  BY <1>2 DEF OnlyJob, JobSound, JobsSound, Unwind, admVars, TypeOK
<1>4. SparesDecisions
  BY <1>2 DEF SparesDecisions, Unwind, actorVars, TypeOK, CallsSound, CallSound, Asks
<1>5. SparesAcked /\ SparesEnded
  BY <1>2 DEF SparesAcked, SparesEnded, Unwind, admVars
<1> QED BY <1>1, <1>3, <1>4, <1>5, OnlyJobMoves, QuietStep DEF Unwind, admVars, actorVars

\* The daemon closes: it signals what is active, and says so.
LEMMA ShutdownStep ==
  ASSUME DocsInv, Shutdown
  PROVE  DocsInv'
<1> USE DEF DocsInv
<1>1. TypeOK'
  BY DEF TypeOK, Shutdown, workerVars, admVars, actorVars
<1>2. DiskFollows
  BY DEF DiskFollows, Shutdown, TypeOK
<1>3. JobsSound'
  BY DEF JobSound, JobsSound, Shutdown, workerVars, admVars, TypeOK
<1>4. SparesDecisions
  BY <1>2 DEF SparesDecisions, Shutdown, workerVars, actorVars, TypeOK, CallsSound, CallSound, Asks
<1>5. SparesAcked /\ SparesEnded
  BY <1>2 DEF SparesAcked, SparesEnded, Shutdown, admVars
<1> QED BY <1>1, <1>3, <1>4, <1>5, QuietStep DEF Shutdown, admVars, actorVars

-----------------------------------------------------------------------------
(* Tombstones.                                                             *)

\* What the registry and the memory of the past may be after a tombstone was
\* written, or was not.
TombstoneTried(j) ==
  /\ WriteTombstone(j) \/ TombstoneFails(j)
  /\ UNCHANGED <<jobVars, source, fencing, requester, reconciler>>

\* Neither takes back what was answered.
LEMMA TombstoneKeeps ==
  ASSUME DocsInv, NEW j \in Jobs, status[j] # "interrupted", TombstoneTried(j)
  PROVE  /\ admission' \in Admissions /\ admDisk' \in Admissions /\ UsedIsTyped'
         /\ ghost' \in [tombstoned : SUBSET Jobs, acked : SUBSET Jobs, ended : SUBSET Jobs]
         /\ ghost.tombstoned \subseteq ghost'.tombstoned
         /\ AckedSound' /\ RegistrySound' /\ EndedSound'
<1> USE DEF DocsInv
<1>1. /\ UNCHANGED <<status, gen, disk, source, requester, reconciler>>
      /\ ghost'.acked = ghost.acked /\ ghost'.ended = ghost.ended
      /\ ghost' = [ghost EXCEPT !.tombstoned = @ \cup {j}] \/ ghost' = ghost
  BY DEF TombstoneTried, WriteTombstone, TombstoneFails, jobVars, TypeOK
<1>2. ghost' \in [tombstoned : SUBSET Jobs, acked : SUBSET Jobs, ended : SUBSET Jobs]
      /\ ghost.tombstoned \subseteq ghost'.tombstoned
  BY <1>1 DEF TypeOK
<1>3. \/ UNCHANGED <<admission, admDisk>>
      \/ /\ admission' = [admission EXCEPT !.disp = "cancelled", !.job = j]
         /\ admDisk' = admission' /\ admission.disp # "none"
  BY DEF TombstoneTried, WriteTombstone, TombstoneFails, SaveAdmission, AdmissionSaveFails, Matches
<1>4. admission' \in Admissions /\ admDisk' \in Admissions
  <2>1. admission \in Admissions /\ admDisk \in Admissions /\ j \in 0..MaxJobs
    BY DocsConstants DEF TypeOK, Jobs
  <2>2. [admission EXCEPT !.disp = "cancelled", !.job = j] \in Admissions
    BY <2>1 DEF Admissions
  <2> QED BY <1>3, <2>1, <2>2
<1>5. UsedIsTyped'
  BY UsedTyped DEF TombstoneTried, WriteTombstone, TombstoneFails, SaveAdmission, AdmissionSaveFails,
         TriesWrite
<1>6. AckedSound'
  BY <1>1, <1>2 DEF AckedSound
<1>7. RegistrySound'
  BY <1>1, <1>3 DEF RegistrySound, TypeOK, Admissions
<1>8. EndedSound'
  <2> SUFFICES ASSUME NEW k \in ghost.ended, gen[k] = source
               PROVE  (Kept(k) \/ Lost(k))'
    BY <1>1 DEF EndedSound
  <2>1. Kept(k) => Kept(k)'
    BY <1>1, <1>3 DEF Kept, TypeOK, Admissions
  <2>2. Lost(k) => Lost(k)'
    BY <1>1, <1>3 DEF Lost, Committed, TypeOK, Admissions
  <2> QED BY <2>1, <2>2 DEF EndedSound
<1> QED BY <1>2, <1>4, <1>5, <1>6, <1>7, <1>8

\* The worker looks for the tombstone of the job it found cancelled.
LEMMA PublishTombstoneStep ==
  ASSUME DocsInv, NEW j \in Jobs, PublishTombstone(j)
  PROVE  DocsInv'
<1> USE DEF DocsInv
<1>1. UNCHANGED <<jobVars, source, fencing, closing, outcome, caller, requester, reconciler>>
      /\ \E p \in {"unwind", "fail"} : worker' = [worker EXCEPT ![j] = p]
      /\ worker[j] = "tombstone"
  BY DEF PublishTombstone, Goto, actorVars
<1>2. CASE TombstoneTried(j) /\ status[j] = "cancelled"
  <2>1. /\ admission' \in Admissions /\ admDisk' \in Admissions /\ UsedIsTyped'
        /\ ghost' \in [tombstoned : SUBSET Jobs, acked : SUBSET Jobs, ended : SUBSET Jobs]
        /\ ghost.tombstoned \subseteq ghost'.tombstoned
        /\ AckedSound' /\ RegistrySound' /\ EndedSound'
    BY <1>2, TombstoneKeeps
  <2>2. TypeOK'
    BY <1>1, <2>1 DEF TypeOK, jobVars, UsedIsTyped
  <2>3. JobsSound'
    BY <1>1 DEF TypeOK, jobVars, JobsSound, JobSound
  <2>4. CallsSound'
    BY <1>1, <2>1, CallsSpared DEF SparesDecisions, jobVars, TypeOK, CallsSound, CallSound, Asks
  <2> QED BY <2>1, <2>2, <2>3, <2>4
<1>3. CASE UNCHANGED <<admission, admDisk, used, ghost>>
  <2>1. TypeOK'
    BY <1>1, <1>3 DEF TypeOK, jobVars
  <2>2. JobsSound'
    BY <1>1 DEF TypeOK, jobVars, JobsSound, JobSound
  <2>3. SparesDecisions /\ SparesAcked /\ SparesEnded
    BY <1>1, <1>3 DEF SparesDecisions, SparesAcked, SparesEnded, DiskFollows, jobVars, TypeOK, CallsSound, CallSound, Asks
  <2> QED BY <1>1, <1>3, <2>1, <2>2, <2>3, QuietStep
<1> QED BY <1>1, <1>2, <1>3 DEF PublishTombstone, TombstoneTried

-----------------------------------------------------------------------------
(* The Cancel calls.                                                       *)

\* A call joins a decision, or raises the fence of its own.
LEMMA CancelBeginStep ==
  ASSUME DocsInv, NEW c \in Callers, NEW j \in Jobs, CancelBegin(c, j)
  PROVE  DocsInv'
<1> USE DEF DocsInv
<1>0. /\ UNCHANGED <<gen, cancelable, signalled, inflight, workerVars, admVars, requester, reconciler, closing>>
      /\ caller[c].pc = "idle" /\ j \in cancelable /\ status[j] \in Active
      /\ used' = [used EXCEPT !.cancels = @ + 1] /\ used.cancels < MaxCancels
  BY DEF CancelBegin, JobsSound, JobSound
<1>1. UsedIsTyped'
  BY <1>0, DocsConstants DEF UsedIsTyped, TypeOK
<1>2. CASE /\ status[j] = "cancelling"
           /\ caller' = [caller EXCEPT ![c] = [IdleCaller EXCEPT !.pc = "waiting", !.job = j]]
           /\ UNCHANGED <<status, disk, ghost>>
  <2> DEFINE k == [IdleCaller EXCEPT !.pc = "waiting", !.job = j]
  <2>1. caller' = [caller EXCEPT ![c] = k]
    BY <1>2
  <2>2. k \in [pc : {"idle", "waiting", "tombstone", "rollback", "final"}, job : 0..MaxJobs, prev : Statuses]
    <3>1. j \in 0..MaxJobs /\ "absent" \in Statuses
      BY DocsConstants DEF Statuses, Jobs
    <3> QED BY <3>1 DEF IdleCaller
  <2>3. k.pc = "waiting" /\ k.job = j
    BY DEF IdleCaller
  <2> HIDE DEF k
  <2>4. TypeOK'
    BY <2>1, <2>2, <1>0, <1>1, <1>2 DEF TypeOK, workerVars, admVars, UsedIsTyped
  <2>5. JobsSound' /\ AckedSound' /\ RegistrySound' /\ EndedSound'
    <3>1. JobsSound'
      BY <1>0, <1>2 DEF workerVars, admVars, JobsSound, JobSound
    <3>2. AckedSound' /\ RegistrySound'
      BY <1>0, <1>2 DEF admVars, AckedSound, RegistrySound
    <3>3. EndedSound'
      BY <1>0, <1>2 DEF admVars, EndedSound, Kept, Lost, Committed
    <3> QED BY <3>1, <3>2, <3>3
  <2>6. \A d \in Callers : (Deciding(d)' <=> Deciding(d)) /\ (Deciding(d) => caller'[d] = caller[d])
    BY <1>0, <2>1, <2>3 DEF Deciding, TypeOK
  <2>7. \A d \in Callers : CallSound(d)'
    BY <1>0, <1>2, <2>6 DEF CallsSound, CallSound, workerVars
  <2>8. OneDecides' /\ SomeoneDecides'
    BY ZenonT(60), <1>0, <1>2, <2>6 DEF CallsSound, OneDecides, SomeoneDecides, Asks
  <2>9. WaitersHaveAnOwner'
    <3>1. PICK d \in Callers : Asks(d, j)
      BY <1>2 DEF CallsSound, SomeoneDecides
    <3>2. \A e \in Callers \ {c} : caller'[e] = caller[e]
      BY <2>1 DEF TypeOK
    <3>3. caller'[c].job = j
      BY <2>1, <2>3 DEF TypeOK
    <3>4. c # d /\ caller[d].pc \in {"tombstone", "rollback", "final"} /\ caller[d].job = j
      BY <1>0, <3>1 DEF Asks, Deciding
    <3>5. ASSUME NEW e \in Callers \ {c}, caller[e].pc = "waiting"
          PROVE  \E f \in Callers \ {c} : caller[f].job = caller[e].job /\ caller[f].pc \in {"tombstone", "rollback", "final"}
      BY <3>5, <1>0 DEF CallsSound, WaitersHaveAnOwner
    <3> QED BY <3>2, <3>3, <3>4, <3>5 DEF WaitersHaveAnOwner
  <2> QED BY <2>4, <2>5, <2>7, <2>8, <2>9 DEF CallsSound
<1>3. CASE /\ status[j] # "cancelling"
           /\ status' = [status EXCEPT ![j] = "cancelling"]
           /\ disk' = status'
           /\ caller' = [caller EXCEPT ![c] = [pc |-> "tombstone", job |-> j, prev |-> status[j]]]
           /\ ghost' = [ghost EXCEPT !.acked = @ \ {j}]
  <2> DEFINE k == [pc |-> "tombstone", job |-> j, prev |-> status[j]]
  <2>1. caller' = [caller EXCEPT ![c] = k]
    BY <1>3
  <2>2. k \in [pc : {"idle", "waiting", "tombstone", "rollback", "final"}, job : 0..MaxJobs, prev : Statuses]
    <3>0. status \in [Jobs -> Statuses]
      BY DEF TypeOK
    <3>1. j \in 0..MaxJobs /\ status[j] \in Statuses
      BY <3>0, DocsConstants DEF Jobs
    <3>2. \A b \in 0..MaxJobs, d \in Statuses : [pc |-> "tombstone", job |-> b, prev |-> d]
            \in [pc : {"idle", "waiting", "tombstone", "rollback", "final"}, job : 0..MaxJobs, prev : Statuses]
      OBVIOUS
    <3> QED BY <3>1, <3>2
  <2>3. k.pc = "tombstone" /\ k.job = j /\ k.prev = status[j]
    OBVIOUS
  <2> HIDE DEF k
  <2>4. /\ status'[j] = "cancelling" /\ \A i \in Jobs \ {j} : status'[i] = status[i]
        /\ disk' = status' /\ status' \in [Jobs -> Statuses]
        /\ caller'[c] = k /\ \A e \in Callers \ {c} : caller'[e] = caller[e]
        /\ ghost'.acked \subseteq ghost.acked /\ j \notin ghost'.acked
        /\ ghost'.tombstoned = ghost.tombstoned /\ ghost'.ended = ghost.ended
    BY <1>3, <2>1 DEF TypeOK, Statuses, Active
  <2>5. ghost' \in [tombstoned : SUBSET Jobs, acked : SUBSET Jobs, ended : SUBSET Jobs]
    BY <1>3 DEF TypeOK
  <2>6. TypeOK'
    BY <1>0, <1>1, <2>1, <2>2, <2>4, <2>5 DEF TypeOK, workerVars, admVars, UsedIsTyped
  <2>7. JobsSound'
    BY <1>0, <2>4 DEF workerVars, admVars, JobsSound, JobSound, Active
  <2>8. AckedSound'
    BY ZenonT(60), <2>4 DEF AckedSound, TypeOK, Terminal
  <2>9. RegistrySound'
    BY <1>0 DEF admVars, RegistrySound
  <2>10. EndedSound'
    BY <1>0, <2>4, EndedSpared, ActorsRest DEF SparesEnded, DiskFollows, admVars, TypeOK, Active, Terminal
  <2>11. \A e \in Callers : Deciding(e) => caller[e].job # j
    BY <1>0, <1>3 DEF CallsSound, CallSound, Active
  <2>12. Deciding(c)' /\ \A e \in Callers \ {c} : Deciding(e)' <=> Deciding(e)
    BY <2>3, <2>4 DEF Deciding
  <2>13. ASSUME NEW e \in Callers PROVE CallSound(e)'
    <3>1. CASE e = c
      BY <1>0, <1>3, <2>3, <2>4, <3>1 DEF Active, JobsSound, JobSound, CallSound, workerVars
    <3>2. CASE e # c
      BY <1>0, <2>4, <2>11, <2>12, <3>2 DEF CallsSound, CallSound, workerVars
    <3> QED BY <3>1, <3>2
  <2>14. OneDecides'
    BY <2>3, <2>4, <2>11, <2>12 DEF CallsSound, OneDecides
  <2>15. SomeoneDecides'
    BY <1>0, <2>3, <2>4, <2>12 DEF CallsSound, SomeoneDecides, Asks, Deciding
  <2>16. WaitersHaveAnOwner'
    BY <1>0, <2>3, <2>4 DEF CallsSound, WaitersHaveAnOwner
  <2> QED BY <2>6, <2>7, <2>8, <2>9, <2>10, <2>13, <2>14, <2>15, <2>16 DEF CallsSound
<1> QED BY <1>2, <1>3 DEF CancelBegin

\* The tombstone of a decision: the call goes on to its last step, or back.
LEMMA CancelTombstoneStep ==
  ASSUME DocsInv, NEW c \in Callers, CancelTombstone(c)
  PROVE  DocsInv'
<1> USE DEF DocsInv
<1> DEFINE j == caller[c].job
<1>1. /\ UNCHANGED <<jobVars, workerVars, source, fencing, requester, reconciler, closing>>
      /\ Deciding(c) /\ j \in Jobs /\ status[j] # "interrupted" /\ TombstoneTried(j)
  BY DEF CancelTombstone, Deciding, CallsSound, CallSound, TombstoneTried
<1>2. /\ admission' \in Admissions /\ admDisk' \in Admissions /\ UsedIsTyped'
      /\ ghost' \in [tombstoned : SUBSET Jobs, acked : SUBSET Jobs, ended : SUBSET Jobs]
      /\ ghost.tombstoned \subseteq ghost'.tombstoned
      /\ AckedSound' /\ RegistrySound' /\ EndedSound'
  <2> HIDE DEF j
  <2> QED BY <1>1, TombstoneKeeps
<1>3. /\ \E p \in {"final", "rollback"} : caller' = [caller EXCEPT ![c].pc = p]
      /\ caller' = [caller EXCEPT ![c].pc = "final"] => j \in ghost'.tombstoned
      /\ caller'[c].pc = "final" => j \in ghost'.tombstoned
  BY DEF CancelTombstone, WriteTombstone, TypeOK
<1>4. /\ \A e \in Callers : caller'[e].job = caller[e].job /\ caller'[e].prev = caller[e].prev
      /\ \A e \in Callers \ {c} : caller'[e].pc = caller[e].pc
      /\ caller'[c].pc \in {"final", "rollback"}
      /\ caller' \in [Callers -> [pc : {"idle", "waiting", "tombstone", "rollback", "final"},
                                  job : 0..MaxJobs, prev : Statuses]]
  BY <1>3 DEF TypeOK
<1>5. TypeOK'
  BY <1>1, <1>2, <1>4 DEF TypeOK, jobVars, workerVars, UsedIsTyped
<1>6. JobsSound'
  BY <1>1 DEF JobsSound, JobSound, jobVars, workerVars
<1>7. \A e \in Callers : (Deciding(e)' <=> Deciding(e)) /\ (caller'[e].pc = "waiting" <=> caller[e].pc = "waiting")
  BY <1>1, <1>4 DEF Deciding
<1>8. UNCHANGED <<status, disk, worker>>
  BY <1>1 DEF jobVars, workerVars
<1>9. ASSUME NEW e \in Callers PROVE CallSound(e)'
  BY <1>2, <1>3, <1>4, <1>7, <1>8 DEF CallsSound, CallSound
<1>10. OneDecides' /\ SomeoneDecides'
  BY <1>4, <1>7, <1>8 DEF CallsSound, OneDecides, SomeoneDecides, Asks
<1>11. WaitersHaveAnOwner'
  BY <1>4, <1>7 DEF CallsSound, Deciding, WaitersHaveAnOwner
<1> QED BY <1>2, <1>5, <1>6, <1>9, <1>10, <1>11 DEF CallsSound

\* A decision is closed: its call and those that joined it are answered, and
\* nobody else decided about its job.
LEMMA DecisionEnds ==
  ASSUME DocsInv, NEW c \in Callers, Deciding(c), Resolve(c), DiskFollows, UNCHANGED worker,
         ghost.tombstoned \subseteq ghost'.tombstoned,
         \A i \in Jobs \ {caller[c].job} : status'[i] = status[i],
         status'[caller[c].job] # "cancelling"
  PROVE  /\ CallsSound'
         /\ caller' \in [Callers -> [pc : {"idle", "waiting", "tombstone", "rollback", "final"},
                                     job : 0..MaxJobs, prev : Statuses]]
<1> USE DEF DocsInv
<1>1. \A e \in Callers : Asks(e, caller[c].job) => e = c
  BY DEF CallsSound, OneDecides, Asks
<1>2. IdleCaller.pc = "idle"
      /\ IdleCaller \in [pc : {"idle", "waiting", "tombstone", "rollback", "final"}, job : 0..MaxJobs, prev : Statuses]
  BY DocsConstants DEF Statuses, IdleCaller
<1>3. \A e \in Callers :
        IF e = c \/ (caller[e].pc = "waiting" /\ caller[e].job = caller[c].job)
          THEN caller'[e] = IdleCaller ELSE caller'[e] = caller[e]
  BY DEF Resolve
<1>4. caller' \in [Callers -> [pc : {"idle", "waiting", "tombstone", "rollback", "final"},
                               job : 0..MaxJobs, prev : Statuses]]
  BY <1>2 DEF Resolve, TypeOK
<1>5. \A e \in Callers : (Deciding(e)' <=> Deciding(e) /\ e # c) /\ (Deciding(e)' => caller'[e] = caller[e])
  BY <1>2, <1>3 DEF Deciding
<1>6. \A e \in Callers : Deciding(e) /\ e # c => caller[e].job \in Jobs \ {caller[c].job}
  BY <1>1 DEF CallsSound, CallSound, Asks
<1>7. ASSUME NEW e \in Callers PROVE CallSound(e)'
  BY <1>5, <1>6, <1>7 DEF CallsSound, CallSound, DiskFollows
<1>8. OneDecides'
  BY <1>5 DEF CallsSound, OneDecides
<1>9. SomeoneDecides'
  <2> SUFFICES ASSUME NEW i \in Jobs, status'[i] = "cancelling" PROVE \E e \in Callers : Asks(e, i)'
    BY DEF SomeoneDecides
  <2>1. i # caller[c].job /\ status[i] = "cancelling"
    OBVIOUS
  <2>2. PICK e \in Callers : Asks(e, i)
    BY <2>1 DEF CallsSound, SomeoneDecides
  <2> QED BY <1>5, <2>1, <2>2 DEF Asks
<1>10. WaitersHaveAnOwner'
  <2> SUFFICES ASSUME NEW e \in Callers, caller'[e].pc = "waiting"
               PROVE  \E d \in Callers : caller'[d].job = caller'[e].job
                         /\ caller'[d].pc \in {"tombstone", "rollback", "final"}
    BY DEF WaitersHaveAnOwner
  <2>1. caller'[e] = caller[e] /\ caller[e].job # caller[c].job
    BY <1>2, <1>3
  <2>2. PICK d \in Callers : caller[d].job = caller[e].job /\ caller[d].pc \in {"tombstone", "rollback", "final"}
    BY <2>1 DEF CallsSound, WaitersHaveAnOwner
  <2>3. caller'[d] = caller[d]
    BY <1>3, <2>1, <2>2
  <2> QED BY <2>1, <2>2, <2>3
<1> QED BY <1>4, <1>7, <1>8, <1>9, <1>10 DEF CallsSound

\* A tombstone that failed: the job is what it was.
LEMMA CancelRollbackStep ==
  ASSUME DocsInv, NEW c \in Callers, CancelRollback(c)
  PROVE  DocsInv'
<1> USE DEF DocsInv
<1>0. PICK j \in Jobs : j = caller[c].job
  BY DEF CancelRollback, Deciding, CallsSound, CallSound
<1>1. /\ UNCHANGED <<gen, cancelable, signalled, inflight, workerVars, admVars, requester, reconciler, closing, ghost>>
      /\ Deciding(c) /\ j \in Jobs /\ Resolve(c)
      /\ caller[c].prev \in {"queued", "running"}
      /\ \/ status[j] = "cancelling" /\ status' = [status EXCEPT ![j] = caller[c].prev] /\ TrySaveJobs(status')
         \/ status[j] = "superseded" /\ UNCHANGED <<status, disk, used>>
  BY <1>0 DEF CancelRollback, Deciding, CallsSound, CallSound
<1>2. DiskFollows
  BY <1>1, SavesFollow
<1>3. UsedIsTyped'
  BY <1>1, UsedTyped DEF TriesWrite, TrySaveJobs, SaveJobs, JobsSaveFails
<1>4. /\ \A i \in Jobs \ {j} : status'[i] = status[i]
      /\ status[j] = "cancelling" => status'[j] = caller[c].prev
      /\ status[j] # "cancelling" => status'[j] = status[j]
      /\ status' \in [Jobs -> Statuses] /\ disk' \in [Jobs -> Statuses]
  <2>1. caller[c].prev \in Statuses /\ status \in [Jobs -> Statuses] /\ disk \in [Jobs -> Statuses]
    BY <1>1 DEF TypeOK, Statuses, Active
  <2>2. disk' = status' \/ disk' = disk
    BY <1>1 DEF TrySaveJobs, SaveJobs, JobsSaveFails
  <2> QED BY <1>1, <2>1, <2>2
<1>5. CallsSound' /\ caller' \in [Callers -> [pc : {"idle", "waiting", "tombstone", "rollback", "final"},
                                              job : 0..MaxJobs, prev : Statuses]]
  BY <1>1, <1>4, <1>2, <1>0, DecisionEnds DEF workerVars
<1>6. TypeOK'
  BY <1>1, <1>3, <1>4, <1>5 DEF TypeOK, workerVars, admVars, UsedIsTyped
<1>7. JobsSound'
  <2>1. OnlyJob(j)
    BY <1>1, <1>2, <1>4 DEF OnlyJob, workerVars, admVars
  <2>2. caller[c].prev = "running" /\ status[j] = "cancelling" => worker[j] \in {"index", "publish"}
    BY <1>0, <1>1 DEF CallsSound, CallSound
  <2>3. JobSound(j)'
    BY <1>1, <1>2, <1>4, <2>2 DEF JobsSound, JobSound, DiskFollows, workerVars, admVars, Active
  <2> QED BY <1>1, <2>1, <2>3, OnlyJobMoves
<1>8. AckedSound' /\ EndedSound'
  BY <1>1, <1>2, <1>4, AckedSpared, EndedSpared, ActorsRest DEF SparesAcked, Terminal, SparesEnded, admVars,
         TypeOK
<1>9. RegistrySound'
  BY <1>1 DEF RegistrySound, admVars
<1> QED BY <1>5, <1>6, <1>7, <1>8, <1>9

\* The decision: what is answered is in both files, or in one that outlives
\* the other.
LEMMA CancelFinalStep ==
  ASSUME DocsInv, NEW c \in Callers, CancelFinal(c)
  PROVE  DocsInv'
<1> USE DEF DocsInv
<1>0. PICK j \in Jobs : j = caller[c].job
  BY DEF CancelFinal, Deciding, CallsSound, CallSound
<1>1. /\ UNCHANGED <<gen, inflight, workerVars, admVars, requester, reconciler, closing>>
      /\ Deciding(c) /\ j \in Jobs /\ Resolve(c) /\ j \in ghost.tombstoned
      /\ signalled' = signalled \cup ({j} \cap inflight)
      /\ SaveJobs(status') \/ JobsSaveFails
  BY <1>0 DEF CancelFinal, Deciding, CallsSound, CallSound
<1>2. \/ /\ status[j] = "cancelling" /\ status' = [status EXCEPT ![j] = "cancelled"]
         /\ cancelable' = cancelable \ {j} /\ disk[j] = "cancelling"
      \/ status[j] = "superseded" /\ status' = status /\ cancelable' = cancelable
  BY <1>0, <1>1 DEF CancelFinal, Deciding, CallsSound, CallSound
<1>3. DiskFollows /\ UsedIsTyped'
  BY <1>1, SavesFollow, UsedTyped DEF TriesWrite, TrySaveJobs, SaveJobs, JobsSaveFails
<1>4. /\ \A i \in Jobs \ {j} : status'[i] = status[i]
      /\ status[j] = "cancelling" => status'[j] = "cancelled"
      /\ status[j] # "cancelling" => status'[j] = "superseded" /\ status[j] = "superseded"
      /\ status' \in [Jobs -> Statuses] /\ disk' \in [Jobs -> Statuses]
      /\ disk' = status' \/ disk' = disk
  BY <1>1, <1>2 DEF TypeOK, SaveJobs, JobsSaveFails, Statuses, Terminal
<1>5. /\ ghost'.tombstoned = ghost.tombstoned
      /\ \/ ghost'.acked = ghost.acked
         \/ status[j] = "cancelling" /\ disk' = status' /\ ghost'.acked = ghost.acked \cup {j}
      /\ \/ ghost'.ended = ghost.ended
         \/ status[j] = "cancelling" /\ Committed(admission, j) /\ ghost'.ended = ghost.ended \cup {j}
      /\ ghost' \in [tombstoned : SUBSET Jobs, acked : SUBSET Jobs, ended : SUBSET Jobs]
  <2>1. \/ /\ disk' = status'
           /\ ghost' = [ghost EXCEPT
                !.acked = IF status[j] = "cancelling" THEN @ \cup {j} ELSE @,
                !.ended = IF status[j] = "cancelling" /\ Committed(admission, j) THEN @ \cup {j} ELSE @]
        \/ ghost' = [ghost EXCEPT
             !.ended = IF status[j] = "cancelling" /\ Committed(admission, j) THEN @ \cup {j} ELSE @]
    BY <1>0 DEF CancelFinal, SaveJobs
  <2> DEFINE A == IF status[j] = "cancelling" THEN ghost.acked \cup {j} ELSE ghost.acked
             E == IF status[j] = "cancelling" /\ Committed(admission, j) THEN ghost.ended \cup {j} ELSE ghost.ended
  <2>2. ghost \in [tombstoned : SUBSET Jobs, acked : SUBSET Jobs, ended : SUBSET Jobs]
    BY DEF TypeOK
  <2>3. A \subseteq Jobs /\ E \subseteq Jobs
    BY <2>2
  <2>4. (disk' = status' /\ ghost' = [ghost EXCEPT !.acked = A, !.ended = E]) \/ ghost' = [ghost EXCEPT !.ended = E]
    BY <2>1
  <2> HIDE DEF A, E
  <2>5. /\ ghost'.tombstoned = ghost.tombstoned /\ ghost'.ended = E
        /\ ghost'.acked = ghost.acked \/ (ghost'.acked = A /\ disk' = status')
        /\ ghost' \in [tombstoned : SUBSET Jobs, acked : SUBSET Jobs, ended : SUBSET Jobs]
    BY <2>2, <2>3, <2>4
  <2> QED BY <2>5 DEF A, E
<1>6. CallsSound' /\ caller' \in [Callers -> [pc : {"idle", "waiting", "tombstone", "rollback", "final"},
                                              job : 0..MaxJobs, prev : Statuses]]
  BY <1>1, <1>4, <1>5, <1>3, <1>0, DecisionEnds DEF workerVars
<1>7. TypeOK'
  BY <1>1, <1>2, <1>3, <1>4, <1>5, <1>6 DEF TypeOK, workerVars, admVars, UsedIsTyped
<1>8. JobsSound'
  BY <1>1, <1>2, <1>3, <1>4, OnlyJobMoves DEF OnlyJob, workerVars, admVars, JobsSound, JobSound,
         DiskFollows, Active
<1>9. AckedSound'
  <2> SUFFICES ASSUME NEW i \in ghost'.acked
               PROVE  /\ i \in ghost'.tombstoned /\ status'[i] \in Terminal /\ disk'[i] \in Terminal
                      /\ status'[i] = "cancelled" => disk'[i] = "cancelled"
    BY DEF AckedSound
  <2>1. CASE i = j /\ disk' = status' /\ status[j] = "cancelling"
    BY <1>1, <1>4, <1>5, <2>1 DEF Terminal
  <2>2. CASE i \in ghost.acked
    BY <2>2, <1>3, <1>4, <1>5 DEF AckedSound, TypeOK, DiskFollows, Terminal
  <2> QED BY <1>5, <2>1, <2>2
<1>10. EndedSound'
  <2> SUFFICES ASSUME NEW i \in ghost'.ended
               PROVE  (status[i] # "absent" /\ (gen[i] # source \/ Kept(i) \/ Lost(i)))'
    BY DEF EndedSound
  <2>1. UNCHANGED <<gen, source, admission, requester, reconciler>>
    BY <1>1 DEF admVars
  <2>2. CASE i = j /\ status[j] = "cancelling" /\ Committed(admission, j)
    BY <1>1, <1>2, <1>4, <2>2, <2>1 DEF Kept, Committed
  <2>3. CASE i \in ghost.ended
    <3>1. i \in Jobs /\ status[i] # "absent" /\ (gen[i] # source \/ Kept(i) \/ Lost(i))
      BY <2>3 DEF EndedSound, TypeOK
    <3>2. status'[i] # "absent" /\ disk'[i] \in {disk[i], status'[i]}
      BY <1>3, <1>4, <3>1 DEF DiskFollows
    <3>3. CASE gen[i] # source
      BY <2>1, <3>2, <3>3
    <3>4. CASE Kept(i)
      BY <1>4, <3>1, <3>4, <2>1, <3>2 DEF Kept
    <3>5. CASE Lost(i)
      BY <1>4, <3>1, <3>5, <2>1, <3>2 DEF Lost, Committed
    <3> QED BY <3>1, <3>3, <3>4, <3>5
  <2> QED BY <1>5, <2>2, <2>3
<1>11. RegistrySound'
  BY <1>1 DEF RegistrySound, admVars
<1> QED BY <1>6, <1>7, <1>8, <1>9, <1>10, <1>11

-----------------------------------------------------------------------------
(* Requests, rebinds and the reconciler.                                   *)

\* A fresh admission forgets what was cancelled of the source as it is.
LEMMA RegisterStep ==
  ASSUME DocsInv, NEW r \in Requesters, Register(r)
  PROVE  DocsInv'
<1> USE DEF DocsInv
<1>1. /\ UNCHANGED <<status, gen, disk, cancelable, signalled, inflight, worker, outcome, source, fencing,
                     caller, reconciler, closing>>
      /\ admission' = [disp |-> "pending", gen |-> source, job |-> 0] /\ admDisk' = admission'
      /\ requester' = [requester EXCEPT ![r] = [pc |-> "start", gen |-> source, job |-> 0]]
  BY DEF Register, jobVars, workerVars
<1>2. source \in 0..MaxGen /\ 0 \in 0..MaxJobs
  BY DocsConstants DEF TypeOK, Gens
<1>3. admission' \in Admissions /\ admDisk' \in Admissions
  BY <1>1, <1>2 DEF Admissions
<1>4. requester' \in [Requesters -> [pc : {"idle", "start", "bind"}, gen : 0..MaxGen, job : 0..MaxJobs]]
  BY <1>1, <1>2 DEF TypeOK
<1>5. /\ ghost' \in [tombstoned : SUBSET Jobs, acked : SUBSET Jobs, ended : SUBSET Jobs]
      /\ ghost'.tombstoned = ghost.tombstoned /\ ghost'.acked = ghost.acked
      /\ \A j \in ghost'.ended : j \in ghost.ended /\ gen[j] # source
  BY DEF Register, TypeOK
<1>6. UsedIsTyped'
  BY DocsConstants DEF Register, TypeOK, UsedIsTyped
<1>7. TypeOK'
  BY <1>1, <1>3, <1>4, <1>5, <1>6 DEF TypeOK, UsedIsTyped
<1>8. JobsSound' /\ AckedSound'
  BY <1>1, <1>5 DEF JobsSound, JobSound, AckedSound
<1>9. CallsSound'
  BY <1>1, <1>5, CallsSpared DEF SparesDecisions, CallsSound, CallSound, Asks
<1>10. RegistrySound'
  BY <1>2, <1>1 DEF RegistrySound, TypeOK
<1>11. EndedSound'
  BY <1>1, <1>5 DEF EndedSound
<1> QED BY <1>7, <1>8, <1>9, <1>10, <1>11

\* An entry that gets a job is not the tombstone of a job that lost its own.
LEMMA BindStep ==
  ASSUME DocsInv, NEW r \in Requesters, Bind(r)
  PROVE  DocsInv'
<1> USE DEF DocsInv
<1>1. /\ UNCHANGED <<status, gen, disk, cancelable, signalled, inflight, worker, outcome, source, fencing,
                     caller, reconciler, closing, ghost>>
      /\ requester[r].pc = "bind" /\ requester' = [requester EXCEPT ![r] = IdleRequester]
      /\ \/ UNCHANGED <<admission, admDisk>>
         \/ admission' = [admission EXCEPT !.job = requester[r].job] /\ admDisk' = admission'
  BY DEF Bind, jobVars, workerVars, SaveAdmission, AdmissionSaveFails
<1>2. requester[r].job \in 0..MaxJobs /\ IdleRequester.pc = "idle" /\ IdleRequester.gen = 0
      /\ IdleRequester \in [pc : {"idle", "start", "bind"}, gen : 0..MaxGen, job : 0..MaxJobs]
  BY DocsConstants DEF TypeOK, IdleRequester
<1>3. admission' \in Admissions /\ admDisk' \in Admissions
  BY <1>1, <1>2 DEF Admissions, TypeOK
<1>4. requester' \in [Requesters -> [pc : {"idle", "start", "bind"}, gen : 0..MaxGen, job : 0..MaxJobs]]
  BY <1>1, <1>2 DEF TypeOK
<1>5. UsedIsTyped'
  BY UsedTyped DEF Bind, SaveAdmission, AdmissionSaveFails, TriesWrite
<1>6. TypeOK'
  BY <1>1, <1>3, <1>4, <1>5 DEF TypeOK, UsedIsTyped
<1>7. JobsSound' /\ AckedSound'
  BY <1>1 DEF JobsSound, JobSound, AckedSound
<1>8. CallsSound'
  BY <1>1, CallsSpared DEF SparesDecisions, CallsSound, CallSound, Asks
<1>9. \A q \in Requesters : requester'[q] = requester[q] \/ (q = r /\ requester'[q] = IdleRequester)
  BY <1>1 DEF TypeOK
<1>10. RegistrySound'
  BY DocsConstants, <1>1, <1>2, <1>9 DEF TypeOK, Gens, RegistrySound, Admissions
<1>11. EndedSound'
  <2> SUFFICES ASSUME NEW j \in ghost.ended, gen[j] = source PROVE (Kept(j) \/ Lost(j))'
    BY <1>1 DEF EndedSound
  <2>1. admission'.disp = admission.disp
    BY <1>1 DEF TypeOK, Admissions
  <2>2. Kept(j) => Kept(j)'
    BY <1>1, <2>1 DEF Kept
  <2>3. Lost(j) => Lost(j)'
    BY <1>1, <1>2, <1>9, <2>1 DEF Lost, Committed, TypeOK, Admissions
  <2> QED BY <2>2, <2>3 DEF EndedSound
<1> QED BY <1>6, <1>7, <1>8, <1>10, <1>11

\* The source gets a new generation; nothing of it was cancelled yet.
LEMMA RebindStep ==
  ASSUME DocsInv, Rebind
  PROVE  DocsInv'
<1> USE DEF DocsInv
<1>1. /\ UNCHANGED <<status, gen, disk, cancelable, signalled, inflight, worker, outcome,
                     caller, requester, reconciler, closing, used>>
      /\ source < MaxGen /\ source' = source + 1 /\ fencing' = fencing \cup {source}
      /\ admission' = None /\ admDisk' = None
      /\ source \in Gens /\ source' \in Gens /\ {source, source'} \subseteq Nat
  BY DocsConstants DEF Rebind, jobVars, workerVars, actorVars, SaveAdmission, TypeOK, Gens
<1>2. None \in Admissions /\ None.disp = "none"
  BY DocsConstants DEF None, Admissions
<1>3. /\ ghost' \in [tombstoned : SUBSET Jobs, acked : SUBSET Jobs, ended : SUBSET Jobs]
      /\ ghost'.tombstoned = ghost.tombstoned /\ ghost'.acked = ghost.acked
      /\ \A j \in ghost'.ended : j \in ghost.ended /\ gen[j] # source
  BY DEF Rebind, TypeOK
<1>4. TypeOK'
  BY <1>1, <1>2, <1>3 DEF TypeOK
<1>5. \A j \in Jobs : gen[j] \in Nat /\ gen[j] <= source /\ gen[j] <= source'
  BY <1>1, DocsConstants DEF JobsSound, JobSound, TypeOK
<1>6. JobsSound' /\ AckedSound'
  BY <1>1, <1>5, <1>3 DEF JobsSound, JobSound, AckedSound
<1>7. CallsSound'
  BY <1>1, <1>3, CallsSpared DEF SparesDecisions, CallsSound, CallSound, Asks
<1>8. RegistrySound'
  BY DocsConstants, <1>1, <1>2 DEF TypeOK, RegistrySound
<1>9. EndedSound'
  BY <1>1, <1>3, <1>5 DEF EndedSound, TypeOK
<1> QED BY <1>4, <1>6, <1>7, <1>8, <1>9

\* The jobs of a replaced generation are superseded, the decided ones too.
LEMMA FenceStep ==
  ASSUME DocsInv, NEW g \in Gens, FenceGeneration(g)
  PROVE  DocsInv'
<1> USE DEF DocsInv
<1>1. /\ UNCHANGED <<gen, inflight, worker, outcome, admission, admDisk, source, caller, requester, reconciler,
                     closing, ghost>>
      /\ fencing' = fencing \ {g}
      /\ status' = [j \in Jobs |-> IF j \in ActiveWith(g) THEN "superseded" ELSE status[j]]
      /\ signalled' = signalled \cup (ActiveWith(g) \cap cancelable \cap inflight)
      /\ cancelable' = cancelable \ ActiveWith(g)
      /\ TrySaveJobs(status')
  BY DEF FenceGeneration, workerVars, actorVars
<1>2. \A j \in Jobs : /\ j \in ActiveWith(g) => status[j] \in Active /\ status'[j] = "superseded"
                      /\ j \notin ActiveWith(g) => status'[j] = status[j]
  BY <1>1 DEF ActiveWith
<1>3. DiskFollows /\ UsedIsTyped'
  BY <1>1, SavesFollow, UsedTyped DEF TriesWrite, TrySaveJobs, SaveJobs, JobsSaveFails
<1>4. TypeOK'
  <2>1. status' \in [Jobs -> Statuses]
    BY <1>1 DEF TypeOK, Statuses, Terminal
  <2>2. disk' = status' \/ disk' = disk
    BY <1>1 DEF TrySaveJobs, SaveJobs, JobsSaveFails
  <2>3. signalled' \subseteq Jobs /\ cancelable' \subseteq Jobs /\ fencing' \subseteq Gens
    BY <1>1 DEF TypeOK, ActiveWith
  <2> QED BY <1>1, <1>3, <2>1, <2>2, <2>3 DEF TypeOK, UsedIsTyped
<1>5. JobsSound'
  <2> SUFFICES ASSUME NEW j \in Jobs PROVE JobSound(j)'
    BY DEF JobsSound
  <2>1. JobSound(j) /\ disk'[j] \in {disk[j], status'[j]}
    BY <1>3 DEF JobsSound, DiskFollows
  <2>2. CASE j \in ActiveWith(g)
    BY <1>1, <1>2, <2>1, <2>2 DEF JobSound, Active
  <2>3. CASE j \notin ActiveWith(g)
    BY <1>1, <1>2, <2>1, <2>3 DEF JobSound
  <2> QED BY <2>2, <2>3
<1>6. CallsSound'
  <2>1. \A c \in Callers : Deciding(c)' <=> Deciding(c)
    BY <1>1 DEF Deciding
  <2>2. ASSUME NEW c \in Callers PROVE CallSound(c)'
    BY <1>1, <1>2, <1>3, <2>1 DEF CallsSound, CallSound, DiskFollows
  <2>3. OneDecides' /\ WaitersHaveAnOwner'
    BY <1>1, <2>1 DEF CallsSound, OneDecides, WaitersHaveAnOwner
  <2>4. SomeoneDecides'
    BY <1>1, <1>2, <2>1 DEF CallsSound, SomeoneDecides, Asks
  <2> QED BY <2>2, <2>3, <2>4 DEF CallsSound
<1>7. AckedSound' /\ EndedSound'
  BY <1>1, <1>2, <1>3, AckedSpared, EndedSpared, ActorsRest DEF SparesAcked, Terminal, Active, SparesEnded,
         TypeOK
<1>8. RegistrySound'
  BY <1>1 DEF RegistrySound
<1> QED BY <1>4, <1>5, <1>6, <1>7, <1>8

\* A job begins a life: a new one, or one that no call and no file decided.
Spawned(j) ==
  /\ inflight = {} /\ status[j] \in {"absent", "interrupted", "failed"}
  /\ status' = [status EXCEPT ![j] = "queued"] /\ disk' = status'
  /\ cancelable' = cancelable \cup {j} /\ inflight' = inflight \cup {j}
  /\ worker' = [worker EXCEPT ![j] = "spawned"]
  /\ gen' \in [Jobs -> 0..MaxGen] /\ gen'[j] <= source /\ \A k \in Jobs \ {j} : gen'[k] = gen[k]
  /\ status[j] # "absent" => gen'[j] = gen[j]
  /\ UNCHANGED <<signalled, outcome, admission, admDisk, source, fencing, caller, closing, used>>
  /\ ghost' = [ghost EXCEPT !.acked = @ \ {j}]

\* It disturbs nothing that was decided.
LEMMA SpawnKeeps ==
  ASSUME DocsInv, NEW j \in Jobs, Spawned(j), NobodyRevives, j \in ghost.ended => gen[j] # source \/ ~Lost(j),
         requester' \in [Requesters -> [pc : {"idle", "start", "bind"}, gen : 0..MaxGen, job : 0..MaxJobs]],
         reconciler' \in [pc : {"idle", "look", "complete", "launch"}, adm : Admissions, gen : 0..MaxGen],
         RegistrySound'
  PROVE  DocsInv'
<1> USE DEF DocsInv
<1>1. /\ status'[j] = "queued" /\ \A k \in Jobs \ {j} : status'[k] = status[k]
      /\ status' \in [Jobs -> Statuses] /\ disk' = status'
      /\ worker' \in [Jobs -> {"none", "spawned", "index", "publish", "tombstone", "fail", "unwind"}]
      /\ worker'[j] = "spawned" /\ \A k \in Jobs \ {j} : worker'[k] = worker[k]
  BY DEF Spawned, TypeOK, Statuses, Active
<1>2. /\ ghost'.tombstoned = ghost.tombstoned /\ ghost'.ended = ghost.ended
      /\ ghost'.acked = ghost.acked \ {j}
      /\ ghost' \in [tombstoned : SUBSET Jobs, acked : SUBSET Jobs, ended : SUBSET Jobs]
  BY DEF Spawned, TypeOK
<1>3. DiskFollows
  BY <1>1 DEF DiskFollows
<1>4. TypeOK'
  <2>1. cancelable' \subseteq Jobs /\ inflight' \subseteq Jobs
    BY DEF Spawned, TypeOK
  <2> QED BY ZenonT(60), <1>1, <1>2, <2>1 DEF TypeOK, Spawned
<1>5. JobsSound'
  BY <1>1, <1>3, OnlyJobMoves DEF OnlyJob, Spawned, JobsSound, JobSound, Active
<1>6. CallsSound'
  BY <1>1, <1>2, CallsSpared DEF SparesDecisions, Spawned, CallsSound, CallSound, Asks
<1>7. AckedSound'
  BY <1>1, <1>2, <1>3, AckedSpared DEF SparesAcked, Spawned
<1>8. EndedSound'
  BY <1>1, <1>2, <1>3, EndedSpared DEF EndedSound, Kept, Spawned, SparesEnded
<1> QED BY <1>4, <1>5, <1>6, <1>7, <1>8

\* A request is refused, joins the work that is there, or starts it.
LEMMA StartRequestStep ==
  ASSUME DocsInv, NEW r \in Requesters, StartRequest(r)
  PROVE  DocsInv'
<1> USE DEF DocsInv
<1> DEFINE RequesterSet == [pc : {"idle", "start", "bind"}, gen : 0..MaxGen, job : 0..MaxJobs]
<1>1. requester[r].gen \in 0..MaxGen /\ requester[r].gen <= source /\ requester[r] \in RequesterSet
  BY DEF TypeOK, RegistrySound
<1>2. UNCHANGED <<admission, admDisk, source, fencing, caller, reconciler, closing, ghost>>
  BY DEF StartRequest, admVars
<1>3. IdleRequester \in RequesterSet /\ IdleRequester.pc = "idle" /\ IdleRequester.gen = 0
  BY DocsConstants DEF IdleRequester
<1>4. source \in Nat
  BY DocsConstants DEF TypeOK, Gens
<1>5. CASE requester' = [requester EXCEPT ![r] = IdleRequester] /\ UNCHANGED <<jobVars, workerVars, used>>
  <2>1. /\ \A q \in Requesters : requester'[q] = requester[q] \/ requester'[q] = IdleRequester
        /\ requester' \in [Requesters -> RequesterSet]
    BY <1>3, <1>5 DEF TypeOK
  <2>2. TypeOK' /\ JobsSound' /\ RegistrySound'
    BY <1>2, <1>5, <2>1, <1>3, <1>4 DEF TypeOK, jobVars, workerVars, JobsSound, JobSound, RegistrySound
  <2>3. SparesDecisions /\ SparesAcked /\ SparesEnded
    BY <1>2, <1>5 DEF SparesDecisions, SparesAcked, SparesEnded, DiskFollows, jobVars, workerVars, CallsSound, CallSound, Asks
  <2>4. NobodyRevives
    BY <1>2, <1>3, <2>1 DEF NobodyRevives
  <2> QED BY <2>2, <2>3, <2>4, CallsSpared, AckedSpared, EndedSpared
<1>6. ASSUME NEW j \in Jobs, requester' = [requester EXCEPT ![r].pc = "bind", ![r].job = j],
             status[j] # "interrupted"
      PROVE  requester' \in [Requesters -> RequesterSet] /\ NobodyRevives /\ RegistrySound'
  <2>1. /\ \A q \in Requesters \ {r} : requester'[q] = requester[q]
        /\ requester'[r].pc = "bind" /\ requester'[r].job = j /\ requester'[r].gen = requester[r].gen
        /\ requester' \in [Requesters -> RequesterSet]
    <3>1. j \in 0..MaxJobs
      BY DocsConstants DEF Jobs
    <3>2. requester \in [Requesters -> RequesterSet]
      BY DEF TypeOK
    <3> HIDE DEF DocsInv
    <3> QED BY <1>6, <3>1, <3>2
  <2>2. NobodyRevives
    BY <1>2, <1>6, <2>1 DEF NobodyRevives
  <2>3. RegistrySound'
    BY <1>1, <1>2, <2>1 DEF RegistrySound
  <2> QED BY <2>1, <2>2, <2>3
<1>7. ASSUME NEW j \in Jobs, status[j] \in Active, UNCHANGED <<jobVars, workerVars, used>>,
             requester' = [requester EXCEPT ![r].pc = "bind", ![r].job = j]
      PROVE  DocsInv'
  <2>1. requester' \in [Requesters -> RequesterSet] /\ NobodyRevives /\ RegistrySound'
    BY <1>6, <1>7 DEF Active
  <2>2. TypeOK'
    BY <1>2, <1>7, <2>1 DEF TypeOK, jobVars, workerVars
  <2>3. JobsSound'
    BY <1>2, <1>7 DEF JobsSound, JobSound, jobVars, workerVars
  <2>4. SparesDecisions /\ SparesAcked /\ SparesEnded
    BY <1>2, <1>7 DEF SparesDecisions, SparesAcked, SparesEnded, DiskFollows, jobVars, workerVars, CallsSound, CallSound, Asks
  <2> QED BY <2>1, <2>2, <2>3, <2>4, CallsSpared, AckedSpared, EndedSpared
<1>8. ASSUME NEW j \in Jobs, AllIdle, CreateJob(j, requester[r].gen),
             requester' = [requester EXCEPT ![r].pc = "bind", ![r].job = j]
      PROVE  DocsInv'
  <2>1. status[j] = "absent"
    <3>1. j \in Nat
      BY DocsConstants DEF Jobs
    <3>2. j \in Unused <=> j >= j
      BY <1>8 DEF CreateJob
    <3> QED BY <3>1, <3>2 DEF Unused
  <2>2. requester' \in [Requesters -> RequesterSet] /\ NobodyRevives /\ RegistrySound'
    BY <1>6, <1>8, <2>1
  <2>3. j \notin ghost.acked /\ ~Lost(j)
    BY <2>1 DEF AckedSound, Lost, Terminal
  <2>4. Spawned(j)
    <3>1. gen' \in [Jobs -> 0..MaxGen] /\ gen'[j] <= source /\ \A k \in Jobs \ {j} : gen'[k] = gen[k]
      BY <1>1, <1>8 DEF CreateJob, TypeOK
    <3>2. ghost' = [ghost EXCEPT !.acked = @ \ {j}]
      BY <2>3, <1>2 DEF TypeOK
    <3> QED BY <1>2, <1>8, <2>1, <3>1, <3>2 DEF Spawned, CreateJob, AllIdle, SaveJobs
  <2>5. reconciler' \in [pc : {"idle", "look", "complete", "launch"}, adm : Admissions, gen : 0..MaxGen]
    BY <1>2 DEF TypeOK
  <2> QED BY <2>2, <2>3, <2>4, <2>5, SpawnKeeps
<1> QED BY <1>5, <1>7, <1>8 DEF StartRequest, ActiveWith

\* What the pass itself does to nobody: it reads, and goes on or ends.
LEMMA PassMoves ==
  ASSUME DocsInv, UNCHANGED <<jobVars, workerVars, source, fencing, caller, requester, closing, ghost>>,
         reconciler' \in [pc : {"idle", "look", "complete", "launch"}, adm : Admissions, gen : 0..MaxGen],
         reconciler'.gen <= source,
         reconciler'.adm.disp = "pending" => reconciler.adm.disp = "pending" \/ admission.disp = "pending",
         \/ UNCHANGED <<admission, admDisk>>
         \/ admission' = None /\ admDisk' = None,
         TriesWrite
  PROVE  DocsInv'
<1> USE DEF DocsInv
<1>1. None \in Admissions /\ None.disp = "none"
  BY DocsConstants DEF None, Admissions
<1>2. UsedIsTyped'
  BY UsedTyped
<1>3. TypeOK'
  BY <1>1, <1>2 DEF TypeOK, UsedIsTyped, jobVars, workerVars
<1>4. JobsSound' /\ AckedSound'
  BY DEF JobsSound, JobSound, AckedSound, jobVars, workerVars
<1>5. CallsSound'
  BY CallsSpared DEF SparesDecisions, CallsSound, CallSound, Asks, jobVars, workerVars
<1>6. RegistrySound'
  BY <1>1 DEF RegistrySound
<1>7. EndedSound'
  BY <1>1 DEF EndedSound, jobVars, Kept, Lost, Committed
<1> QED BY <1>3, <1>4, <1>5, <1>6, <1>7

\* The pass reads the admission, looks, and drops what was served or is stale.
LEMMA PassStep ==
  ASSUME DocsInv, PassRead \/ PassLook \/ PassComplete \/ PassStale
  PROVE  DocsInv'
<1> USE DEF DocsInv
<1> DEFINE PassSet == [pc : {"idle", "look", "complete", "launch"}, adm : Admissions, gen : 0..MaxGen]
<1>1. None \in Admissions /\ None.disp = "none" /\ source \in 0..MaxGen /\ source <= source
  BY DocsConstants DEF None, Admissions, TypeOK, Gens
<1>2. IdlePass \in PassSet /\ IdlePass.gen <= source /\ IdlePass.adm.disp = "none"
  BY <1>1, DocsConstants DEF IdlePass
<1>3. reconciler \in PassSet /\ reconciler.gen <= source
  BY DEF TypeOK, RegistrySound
<1>4. UNCHANGED <<jobVars, workerVars, source, fencing, caller, requester, closing, ghost>>
  BY DEF PassRead, PassLook, PassComplete, PassStale, admVars
<1>5. /\ UNCHANGED <<admission, admDisk>> \/ (admission' = None /\ admDisk' = None)
      /\ TriesWrite
  BY DEF PassRead, PassLook, PassComplete, PassStale, admVars, DropAdmission, SaveAdmission, AdmissionSaveFails, TriesWrite
<1>6. \/ reconciler' = [pc |-> "look", adm |-> admission, gen |-> source]
      \/ reconciler' = IdlePass
      \/ \E p \in {"complete", "launch"} : reconciler' = [reconciler EXCEPT !.pc = p]
      \/ reconciler' = [reconciler EXCEPT !.pc = "launch", !.adm = None]
  BY DEF PassRead, PassLook, PassComplete, PassStale
<1>7. /\ reconciler' \in PassSet /\ reconciler'.gen <= source
      /\ reconciler'.adm.disp = "pending" => reconciler.adm.disp = "pending" \/ admission.disp = "pending"
  <2>1. CASE reconciler' = [pc |-> "look", adm |-> admission, gen |-> source]
    BY <1>1, <2>1 DEF TypeOK
  <2>2. CASE reconciler' = IdlePass
    BY <1>2, <2>2
  <2>3. CASE \E p \in {"complete", "launch"} : reconciler' = [reconciler EXCEPT !.pc = p]
    BY <1>3, <2>3
  <2>4. CASE reconciler' = [reconciler EXCEPT !.pc = "launch", !.adm = None]
    BY <1>1, <1>3, <2>4
  <2> QED BY <1>6, <2>1, <2>2, <2>3, <2>4
<1> HIDE DEF PassSet
<1> QED BY <1>4, <1>5, <1>7, PassMoves DEF PassSet

\* What the pass launches is not what a restart took from a cancellation: the
\* admission it read was pending.
LEMMA PassLaunchStep ==
  ASSUME DocsInv, PassLaunch
  PROVE  DocsInv'
<1> USE DEF DocsInv
<1>1. None \in Admissions /\ None.disp = "none" /\ source \in Nat
  BY DocsConstants DEF None, Admissions, TypeOK, Gens
<1>2. /\ IdlePass \in [pc : {"idle", "look", "complete", "launch"}, adm : Admissions, gen : 0..MaxGen]
      /\ IdlePass.gen <= source /\ IdlePass.adm.disp = "none"
  BY <1>1, DocsConstants DEF IdlePass
<1>3. reconciler' = IdlePass /\ UNCHANGED <<admission, admDisk, source, fencing, caller, requester, closing>>
  BY DEF PassLaunch, admVars
<1>4. NobodyRevives /\ RegistrySound'
      /\ reconciler' \in [pc : {"idle", "look", "complete", "launch"}, adm : Admissions, gen : 0..MaxGen]
      /\ requester' \in [Requesters -> [pc : {"idle", "start", "bind"}, gen : 0..MaxGen, job : 0..MaxJobs]]
  BY <1>2, <1>3 DEF NobodyRevives, RegistrySound, TypeOK
<1>5. CASE UNCHANGED <<jobVars, workerVars, used, ghost>>
  BY <1>2, <1>3, <1>5, PassMoves DEF TriesWrite
<1>6. ASSUME NEW j \in Jobs, j = RecoveryJob(reconciler.adm), Resumable(j, reconciler.gen), AllIdle, Resume(j),
             ghost' = [ghost EXCEPT !.acked = @ \ {j}]
      PROVE  DocsInv'
  <2>1. reconciler.adm.disp = "pending"
    BY <1>6, DocsConstants DEF RecoveryJob, Jobs
  <2>2. ~Lost(j)
    BY <2>1 DEF Lost
  <2>3. Spawned(j)
    BY <1>6, <1>3 DEF Resume, TypeOK, JobsSound, JobSound, Spawned, Resumable, AllIdle, SaveJobs
  <2> QED BY <1>4, <2>2, <2>3, SpawnKeeps
<1>7. ASSUME NEW j \in Jobs, AllIdle, CreateJob(j, reconciler.gen), UNCHANGED ghost
      PROVE  DocsInv'
  <2>1. status[j] = "absent"
    <3>1. j \in Nat
      BY DocsConstants DEF Jobs
    <3>2. j \in Unused <=> j >= j
      BY <1>7 DEF CreateJob
    <3> QED BY <3>1, <3>2 DEF Unused
  <2>2. j \notin ghost.acked /\ ~Lost(j)
    BY <2>1 DEF AckedSound, Lost, Terminal
  <2>3. Spawned(j)
    <3>1. gen' \in [Jobs -> 0..MaxGen] /\ gen'[j] <= source /\ \A k \in Jobs \ {j} : gen'[k] = gen[k]
      BY <1>7 DEF TypeOK, RegistrySound, CreateJob
    <3>2. ghost' = [ghost EXCEPT !.acked = @ \ {j}]
      BY <2>2, <1>7 DEF TypeOK
    <3> QED BY <1>3, <1>7, <2>1, <3>1, <3>2 DEF Spawned, CreateJob, AllIdle, SaveJobs
  <2> QED BY <1>4, <2>2, <2>3, SpawnKeeps
<1> QED BY <1>5, <1>6, <1>7 DEF PassLaunch

-----------------------------------------------------------------------------
(* The daemon.                                                             *)

\* A new life takes a decision it finds in both files as made, and forgets a
\* decision it finds in one.
LEMMA RestartStep ==
  ASSUME DocsInv, Restart
  PROVE  DocsInv'
<1> USE DEF DocsInv
<1>1. /\ admission' = admDisk /\ UNCHANGED <<gen, admDisk, source, ghost>>
      /\ status' = [j \in Jobs |->
           IF disk[j] = "cancelling" /\ Committed(admDisk, j) THEN "cancelled"
           ELSE IF disk[j] \in Active THEN "interrupted" ELSE disk[j]]
      /\ disk' = status' /\ cancelable' = {} /\ signalled' = {} /\ inflight' = {} /\ fencing' = {}
      /\ worker' = [j \in Jobs |-> "none"] /\ outcome' = [j \in Jobs |-> "none"]
      /\ caller' = [c \in Callers |-> IdleCaller]
      /\ requester' = [r \in Requesters |-> IdleRequester]
      /\ reconciler' = IdlePass /\ closing' = FALSE
  BY DEF Restart
<1>2. IdleCaller \in [pc : {"idle", "waiting", "tombstone", "rollback", "final"}, job : 0..MaxJobs, prev : Statuses]
      /\ IdleCaller.pc = "idle"
  BY DocsConstants DEF Statuses, IdleCaller
<1>3. None \in Admissions /\ None.disp = "none" /\ source \in Nat
  BY DocsConstants DEF None, Admissions, TypeOK, Gens
<1>4. /\ IdlePass \in [pc : {"idle", "look", "complete", "launch"}, adm : Admissions, gen : 0..MaxGen]
      /\ IdlePass.gen <= source /\ IdlePass.adm.disp = "none"
      /\ IdleRequester \in [pc : {"idle", "start", "bind"}, gen : 0..MaxGen, job : 0..MaxJobs]
      /\ IdleRequester.pc = "idle" /\ IdleRequester.gen <= source
  BY <1>3, DocsConstants DEF IdlePass, IdleRequester
<1>5. \A j \in Jobs :
        /\ disk[j] \in Statuses /\ disk'[j] = status'[j]
        /\ disk[j] = "cancelling" /\ Committed(admDisk, j) => status'[j] = "cancelled"
        /\ disk[j] \in Active /\ ~(disk[j] = "cancelling" /\ Committed(admDisk, j)) => status'[j] = "interrupted"
        /\ disk[j] \notin Active => status'[j] = disk[j]
  BY <1>1 DEF TypeOK, Active
<1>6. \A j \in Jobs : status'[j] \in Statuses \ Active /\ (status'[j] = "absent" <=> disk[j] = "absent")
  BY <1>5 DEF Statuses, Active, Terminal
<1>7. TypeOK'
  <2>1. status' \in [Jobs -> Statuses] /\ disk' \in [Jobs -> Statuses]
    BY <1>1, <1>6
  <2>2. UsedIsTyped'
    BY DocsConstants DEF Restart, TypeOK, UsedIsTyped
  <2>3. /\ caller' \in [Callers -> [pc : {"idle", "waiting", "tombstone", "rollback", "final"},
                                    job : 0..MaxJobs, prev : Statuses]]
        /\ requester' \in [Requesters -> [pc : {"idle", "start", "bind"}, gen : 0..MaxGen, job : 0..MaxJobs]]
    BY <1>1, <1>2, <1>4
  <2> QED BY <1>1, <1>4, <2>1, <2>2, <2>3 DEF TypeOK, UsedIsTyped
<1>8. JobsSound'
  BY <1>1, <1>5, <1>6 DEF JobsSound, JobSound, Active
<1>9. CallsSound'
  BY <1>1, <1>2, <1>6 DEF Active, CallsSound, CallSound, Deciding, OneDecides, SomeoneDecides,
         WaitersHaveAnOwner
<1>10. AckedSound'
  BY <1>1, <1>5 DEF AckedSound, TypeOK, Terminal, Active
<1>11. RegistrySound'
  BY <1>1, <1>4 DEF RegistrySound
<1>12. EndedSound'
  <2> SUFFICES ASSUME NEW j \in ghost.ended
               PROVE  (status[j] # "absent" /\ (gen[j] # source \/ Kept(j) \/ Lost(j)))'
    BY <1>1 DEF EndedSound
  <2>1. j \in Jobs /\ status[j] # "absent" /\ (gen[j] # source \/ Kept(j) \/ Lost(j))
    BY DEF EndedSound, TypeOK
  <2>2. status'[j] # "absent"
    BY <1>6, <2>1 DEF JobsSound, JobSound
  <2>3. admission' = admission /\ Committed(admission, j)' = Committed(admDisk, j)
    BY <1>1 DEF RegistrySound, Committed
  <2>4. CASE Kept(j)
    BY <1>5, <2>1, <2>4, <1>1, <1>4, <2>2, <2>3 DEF Kept, Active, Lost
  <2>5. CASE Lost(j)
    BY <1>5, <2>1, <2>5, <1>1, <1>4, <2>2, <2>3 DEF Lost, Active, RegistrySound
  <2> QED BY <1>1, <2>1, <2>2, <2>4, <2>5
<1> QED BY <1>7, <1>8, <1>9, <1>10, <1>11, <1>12

-----------------------------------------------------------------------------
(* The theorems.                                                           *)

\* At first there is no job, no admission and nobody asks.
LEMMA DocsInvInit == Init => DocsInv
<1> SUFFICES ASSUME Init PROVE DocsInv
  OBVIOUS
<1> USE DEF Init
<1>1. /\ None \in Admissions /\ None.disp = "none" /\ "absent" \in Statuses
      /\ IdleCaller \in [pc : {"idle", "waiting", "tombstone", "rollback", "final"}, job : 0..MaxJobs, prev : Statuses]
      /\ IdleRequester \in [pc : {"idle", "start", "bind"}, gen : 0..MaxGen, job : 0..MaxJobs]
      /\ 1 \in Gens /\ 0 \in 0..MaxGen
  BY DocsConstants DEF Statuses, Gens, None, Admissions, IdleCaller, IdleRequester
<1>2. IdlePass \in [pc : {"idle", "look", "complete", "launch"}, adm : Admissions, gen : 0..MaxGen]
      /\ IdlePass.gen = 0 /\ IdleRequester.gen = 0 /\ IdleCaller.pc = "idle"
  BY <1>1 DEF IdlePass, IdleRequester, IdleCaller
<1>3. TypeOK
  <2>1. /\ status \in [Jobs -> Statuses] /\ disk \in [Jobs -> Statuses] /\ gen \in [Jobs -> 0..MaxGen]
        /\ worker \in [Jobs -> {"none", "spawned", "index", "publish", "tombstone", "fail", "unwind"}]
        /\ outcome \in [Jobs -> {"none", "succeeded", "failed", "superseded", "cancelled"}]
    BY <1>1
  <2>2. /\ caller \in [Callers -> [pc : {"idle", "waiting", "tombstone", "rollback", "final"},
                                  job : 0..MaxJobs, prev : Statuses]]
        /\ requester \in [Requesters -> [pc : {"idle", "start", "bind"}, gen : 0..MaxGen, job : 0..MaxJobs]]
    BY <1>1
  <2>3. used \in [admissions : 0..MaxAdmissions, cancels : 0..MaxCancels,
                  failures : 0..MaxFailures, restarts : 0..MaxRestarts]
    BY DocsConstants
  <2>4. ghost \in [tombstoned : SUBSET Jobs, acked : SUBSET Jobs, ended : SUBSET Jobs]
    OBVIOUS
  <2> QED BY <1>1, <1>2, <2>1, <2>2, <2>3, <2>4 DEF TypeOK
<1>4. JobsSound
  BY DEF JobsSound, JobSound, Active
<1>5. CallsSound
  BY <1>2 DEF CallsSound, CallSound, Deciding, OneDecides, SomeoneDecides, WaitersHaveAnOwner
<1>6. AckedSound /\ RegistrySound /\ EndedSound
  BY <1>1, <1>2 DEF AckedSound, RegistrySound, EndedSound
<1> QED BY <1>3, <1>4, <1>5, <1>6 DEF DocsInv

\* Every step keeps the invariant.
LEMMA DocsInvStep == DocsInv /\ [Next]_vars => DocsInv'
<1> SUFFICES ASSUME DocsInv, [Next]_vars PROVE DocsInv'
  OBVIOUS
<1>1. CASE UNCHANGED vars
  BY <1>1, PassMoves DEF vars, admVars, actorVars, DocsInv, TypeOK, RegistrySound, TriesWrite
<1>2. ASSUME NEW r \in Requesters, Register(r) \/ StartRequest(r) \/ Bind(r) PROVE DocsInv'
  BY <1>2, RegisterStep, StartRequestStep, BindStep
<1>3. ASSUME NEW j \in Jobs, \/ Begin(j) \/ Index(j) \/ Publish(j)
                             \/ PublishTombstone(j) \/ PublishFailure(j) \/ Unwind(j)
      PROVE  DocsInv'
  BY <1>3, BeginStep, IndexStep, PublishStep, PublishTombstoneStep, PublishFailureStep, UnwindStep
<1>4. ASSUME NEW c \in Callers, \/ \E j \in Jobs : CancelBegin(c, j)
                                \/ CancelTombstone(c) \/ CancelRollback(c) \/ CancelFinal(c)
      PROVE  DocsInv'
  BY <1>4, CancelBeginStep, CancelTombstoneStep, CancelRollbackStep, CancelFinalStep
<1>5. CASE Rebind \/ \E g \in Gens : FenceGeneration(g)
  BY <1>5, RebindStep, FenceStep
<1>6. CASE PassRead \/ PassLook \/ PassComplete \/ PassLaunch \/ PassStale
  BY <1>6, PassStep, PassLaunchStep
<1>7. CASE Shutdown \/ Restart
  BY <1>7, ShutdownStep, RestartStep
<1> QED BY <1>1, <1>2, <1>3, <1>4, <1>5, <1>6, <1>7 DEF Next

\* The invariant says what the properties say.
LEMMA DocsInvSays == DocsInv => JobIsControlled /\ CancellationIsKept
<1> SUFFICES ASSUME DocsInv PROVE JobIsControlled /\ CancellationIsKept
  OBVIOUS
<1> USE DEF DocsInv
<1>1. CancellingIsOwned
  <2> SUFFICES ASSUME NEW j \in Jobs, status[j] = "cancelling"
               PROVE  Cardinality({c \in Callers : caller[c].job = j /\
                         caller[c].pc \in {"tombstone", "rollback", "final"}}) = 1
    BY DEF CancellingIsOwned
  <2>1. PICK c \in Callers : Asks(c, j)
    BY DEF CallsSound, SomeoneDecides
  <2>2. {d \in Callers : caller[d].job = j /\ caller[d].pc \in {"tombstone", "rollback", "final"}} = {c}
    BY <2>1 DEF CallsSound, OneDecides, Asks, Deciding
  <2> QED BY <2>2, FS_Singleton
<1>2. RunningKeepsItsWorker
  BY DEF RunningKeepsItsWorker, JobsSound, JobSound, Active
<1>3. AckedIsDurable
  BY DEF AckedIsDurable, AckedSound
<1>4. EndedSurvivesRestart
  BY DEF EndedSurvivesRestart, RegistrySound, Committed, EndedSound, Kept, Lost
<1> QED BY <1>1, <1>2, <1>3, <1>4 DEF JobIsControlled, DecisionsAreOwned, CallsSound, CancellationIsKept

\* THEOREM. The invariant holds in every behaviour.
THEOREM DocsSound == Spec => []DocsInv
  BY DocsInvInit, DocsInvStep, PTL DEF Spec

\* THEOREM. The job manager and the admission registry keep their types
\* (TypeOK), whoever cancels, requests, rebinds, fails or restarts.
THEOREM DocsTyped == Spec => []TypeOK
<1>1. DocsInv => TypeOK
  BY DEF DocsInv
<1> QED BY <1>1, DocsSound, PTL

\* THEOREM. A cancelling job has exactly one call that will close the
\* decision, those who joined wait for such a call, and a running job keeps a
\* worker that nobody but shutdown signalled (JobIsControlled; jobs.go Cancel).
THEOREM JobsAreControlled == Spec => []JobIsControlled
  BY DocsSound, DocsInvSays, PTL

\* THEOREM. An answered cancellation is in both files, and one that went
\* through is cancelled in every later life that still finds its tombstone
\* (CancellationIsKept; jobs.go Cancel and LoadAndMarkInterrupted).
THEOREM CancellationsAreKept == Spec => []CancellationIsKept
  BY DocsSound, DocsInvSays, PTL

-----------------------------------------------------------------------------
(* The ledger of observations.                                             *)

Up == {"running", "closing", "sealing", "closed"}
Entries == [seq : Nat \ {0}, id : Nat]
Metas == [found : BOOLEAN, gen : Nat, seq : Nat, epoch : Nat, partial : BOOLEAN, clean : BOOLEAN, torn : BOOLEAN]
Files == [Segments -> Seq(Entries)]
Coverages == [state : {"initializing", "ready", "partial"}, epoch : Nat]
Counters == [emits : Nat, boots : Nat, faults : Nat, ids : Nat, gens : Nat]
Readers == [cursor : [gen : Nat, epoch : Nat, pos : Nat], state : {"none", "initializing", "ready", "partial"},
            skipped : BOOLEAN]
Writings == [seq : Nat \ {0}, id : Nat, then : {"first", "queue", "seal"}]
Publications == [gen : Nat \ {0}, seq : Nat \ {0}, id : Nat]

MemoryTyped ==
    /\ life \in {"down", "initializing"} \union Up /\ stored \in BOOLEAN
    /\ first \in 0..2 /\ backlog \in Seq(Nat) /\ Len(backlog) <= MaxBacklog /\ pendingLoss \in Nat
    /\ coverage \in Coverages
    /\ generation \in Nat /\ sequence \in Nat
    /\ events \subseteq Entries /\ IsFiniteSet(events) /\ Cardinality(events) <= Slots * SegmentSize
    /\ writing # NoEvent => writing \in Writings
    /\ storageFailed \in BOOLEAN /\ unwound \in BOOLEAN /\ reserved \in Nat /\ state \in Metas
FilesTyped ==
    /\ stateLeaf \in Metas /\ segments \in Files /\ manifest \in Files
    /\ \A i \in Segments : Len(segments[i]) <= SegmentSize
GhostsTyped ==
    /\ reader \in Readers
    /\ published \subseteq Publications /\ lost \in BOOLEAN
    /\ spent \in Counters

\* What the process is at, and whose the state leaf is.
LifeSound ==
    /\ life \notin Up => ~stored /\ writing = NoEvent /\ events = {}
    /\ life \in {"closing", "sealing", "closed"} => pendingLoss = 0
    /\ life \in Up => coverage.state # "initializing" /\ generation # 0 /\ generation <= spent.gens
    /\ life \in Up /\ ~stored => stateLeaf.gen < generation
    /\ stored => stateLeaf.gen = generation /\ state.gen = generation /\ state.found /\ ~state.torn
    /\ stored /\ life # "closed" => stateLeaf.found /\ ~stateLeaf.clean
    /\ stateLeaf.clean => stateLeaf.found /\ (stored /\ coverage.state = "partial" => stateLeaf.partial)
    /\ stateLeaf.found => stateLeaf.gen # 0
    /\ stateLeaf.gen <= spent.gens /\ \A p \in published : p.gen <= spent.gens
WritingSound ==
    writing # NoEvent =>
        /\ life \in {"running", "closing"} /\ writing.seq = sequence
        /\ writing.then = "queue" => backlog # <<>>
        /\ writing.then = "first" => first > 0
        /\ writing.then = "seal" => life = "closing"

\* Numbers go up: those published under the generation, and those a sealed leaf promises.
Taken(q) == q <= sequence /\ (writing # NoEvent => q < writing.seq)
NumbersSound ==
    /\ NumbersAreUnique
    /\ life \in Up => \A p \in published : p.gen = generation => Taken(p.seq)
    /\ stateLeaf.clean => \A p \in published : p.gen = stateLeaf.gen => p.seq <= stateLeaf.seq

\* Every loss is told, by the coverage or by the files.
FilesTell ==
    \/ stateLeaf.torn \/ stateLeaf.partial \/ (stateLeaf.found /\ ~stateLeaf.clean)
    \/ stateLeaf.clean /\ segments # manifest
LossSound ==
    /\ stored /\ lost => coverage.state = "partial" \/ pendingLoss > 0
    /\ (~stored \/ life = "closed") /\ lost => FilesTell
    /\ stateLeaf.clean => \A i \in Segments : Len(segments[i]) <= Len(manifest[i])

\* What is on disk: numbers below the next, one entry to a number, that of its publication.
DiskSound ==
    /\ \E b \in Nat : \A e \in OnDisk : e.seq <= b
    /\ stored => \A e \in OnDisk : Taken(e.seq)
    /\ \A e, d \in OnDisk : e.seq = d.seq => e = d
    /\ \A e \in OnDisk, p \in published : p.gen = stateLeaf.gen /\ p.seq = e.seq => e.id = p.id
\* The place of a segment in the ring that ends with t.
Place(t, i) == IF i > t THEN i - t ELSE i + Slots - t
Ring(t) == \A i, j \in Segments : Place(t, i) < Place(t, j) =>
               \A e \in ToSet(segments[i]), d \in ToSet(segments[j]) : e.seq < d.seq
RingSound == \E t \in Segments : Ring(t)
\* Without faults the files have all of the generation from their first event on.
FilesComplete ==
    spent.faults = 0 /\ (stored \/ stateLeaf.clean) =>
        \A p \in published : p.gen = stateLeaf.gen /\ Entry(p.seq, p.id) \notin OnDisk =>
            OnDisk # {} /\ \A e \in OnDisk : p.seq < e.seq

\* What is retained in memory, and what may be missing from it.
EventsSound ==
    /\ life \in Up => \A e \in events : Taken(e.seq)
    /\ \A e, d \in events : e.seq = d.seq => e = d
    /\ life \in Up => \A p \in published :
           p.gen = generation /\ Entry(p.seq, p.id) \notin events
             /\ (events = {} \/ \E e \in events : e.seq <= p.seq)
           => coverage.state = "partial" /\ spent.faults > 0
ReaderSound ==
    /\ NothingSkipped
    /\ reader.cursor.gen <= spent.gens
    /\ reader.state = "partial" =>
         /\ life \in Up /\ generation = reader.cursor.gen => coverage.state = "partial"
         /\ stateLeaf.clean /\ stateLeaf.gen = reader.cursor.gen => stateLeaf.partial

LogInv == /\ MemoryTyped /\ FilesTyped /\ GhostsTyped /\ LifeSound /\ WritingSound /\ NumbersSound /\ LossSound
          /\ DiskSound /\ RingSound /\ FilesComplete /\ EventsSound /\ ReaderSound

-----------------------------------------------------------------------------
(* Frames *)

\* Losses that are folded in show.
LEMMA FoldedIs ==
  ASSUME NEW c \in Coverages, pendingLoss \in Nat
  PROVE  /\ Folded(c) \in Coverages
         /\ Folded(c).state = IF pendingLoss = 0 THEN c.state ELSE "partial"
         /\ LosesOne(c) \in Coverages /\ LosesOne(c).state = "partial"
BY DEF Folded, LosesOne, Coverages

\* Files that nobody touches.
LEMMA FilesStand ==
  ASSUME LogInv, UNCHANGED <<segments, manifest, stateLeaf>>
  PROVE  /\ FilesTyped' /\ RingSound' /\ OnDisk' = OnDisk /\ (FilesTell => FilesTell')
         /\ stateLeaf.clean => \A i \in Segments : Len(segments'[i]) <= Len(manifest'[i])
<1>1. FilesTyped'
  BY DEF LogInv, FilesTyped
<1>2. RingSound'
  BY DEF LogInv, RingSound, Ring
<1>3. OnDisk' = OnDisk
  BY DEF OnDisk
<1>4. FilesTell => FilesTell'
  BY DEF FilesTell
<1>5. stateLeaf.clean => \A i \in Segments : Len(segments'[i]) <= Len(manifest'[i])
  BY DEF LogInv, LossSound
<1> QED
  BY <1>1, <1>2, <1>3, <1>4, <1>5

\* A reader that does nothing: its words stay true as long as coverage does not
\* recover and a sealed leaf says what its predecessor said.
LEMMA ReaderStands ==
  ASSUME LogInv, reader' = reader, spent' \in Counters, spent'.gens >= spent.gens, spent'.faults >= spent.faults,
         life' \in Up => \/ life \in Up /\ generation' = generation
                            /\ (coverage.state = "partial" => coverage'.state = "partial")
                         \/ generation' > spent.gens
                         \/ stateLeaf.clean /\ generation' = stateLeaf.gen /\ (stateLeaf.partial => coverage'.state = "partial"),
         stateLeaf'.clean => \/ stateLeaf.clean /\ stateLeaf'.gen = stateLeaf.gen /\ stateLeaf'.partial = stateLeaf.partial
                             \/ /\ life \in Up /\ stateLeaf'.gen = generation
                                /\ coverage.state = "partial" => stateLeaf'.partial
  PROVE  ReaderSound'
<1>1. /\ reader \in Readers /\ spent \in Counters
      /\ reader.cursor.gen \in Nat /\ spent.gens \in Nat /\ spent'.gens \in Nat
      /\ spent.faults \in Nat /\ spent'.faults \in Nat
  BY DEF LogInv, GhostsTyped, Readers, Counters
<1>2. NothingSkipped'
  BY <1>1 DEF LogInv, ReaderSound, NothingSkipped
<1>3. reader.cursor.gen <= spent'.gens
  BY <1>1 DEF LogInv, ReaderSound
<1>4. ASSUME reader.state = "partial", life' \in Up, generation' = reader.cursor.gen PROVE coverage'.state = "partial"
  BY <1>1, <1>4 DEF LogInv, ReaderSound
<1>5. ASSUME reader.state = "partial", stateLeaf'.clean, stateLeaf'.gen = reader.cursor.gen PROVE stateLeaf'.partial
  BY <1>1, <1>5 DEF LogInv, ReaderSound
<1> QED
  BY <1>2, <1>3, <1>4, <1>5 DEF ReaderSound

\* The collector between two events: coverage may only get worse.
Between ==
    /\ UNCHANGED <<generation, sequence, events, writing, stored, state, reserved, storageFailed, first, stateLeaf, segments, manifest, published>>
    /\ coverage' \in Coverages /\ pendingLoss' \in Nat
    /\ coverage'.state = coverage.state \/ coverage'.state = "partial"
    /\ life = "closed" => coverage' = coverage
    /\ life' = life \/ (life = "running" /\ life' = "closing")
    /\ life' \in {"closing", "sealing", "closed"} => pendingLoss' = 0
    /\ unwound' \in BOOLEAN /\ backlog' \in Seq(Nat) /\ Len(backlog') <= MaxBacklog
    /\ backlog # <<>> => backlog' # <<>>
    /\ spent' \in Counters /\ spent'.gens = spent.gens /\ spent'.faults = spent.faults
    /\ lost' \in BOOLEAN /\ (~stored => lost' = lost) /\ (life = "closed" => lost' = lost)
    /\ stored /\ lost' => coverage'.state = "partial" \/ pendingLoss' > 0

\* Whatever makes coverage no better than it was, and writes nothing.
LEMMA BetweenKeeps ==
  ASSUME LogInv, Between, reader' \in Readers, ReaderSound'
  PROVE  LogInv'
<1>1. FilesTyped' /\ RingSound' /\ OnDisk' = OnDisk /\ (FilesTell => FilesTell')
  BY FilesStand DEF Between
<1>2. MemoryTyped'
  BY DEF LogInv, MemoryTyped, Between, Up
<1>3. GhostsTyped'
  BY DEF LogInv, GhostsTyped, Between
<1>4. LifeSound'
  BY DEF LogInv, LifeSound, Between, Up
<1>5. WritingSound'
  BY DEF LogInv, WritingSound, Between
<1>6. NumbersSound'
  BY DEF LogInv, NumbersSound, NumbersAreUnique, Taken, Between, Up
<1>7. LossSound'
  BY <1>1 DEF LogInv, LossSound, Between
<1>8. DiskSound'
  BY <1>1 DEF LogInv, DiskSound, Taken, Between
<1>9. FilesComplete'
  BY <1>1 DEF LogInv, FilesComplete, Between
<1>10. EventsSound'
  BY DEF LogInv, EventsSound, Taken, Between, Up
<1> QED
  BY <1>1, <1>2, <1>3, <1>4, <1>5, <1>6, <1>7, <1>8, <1>9, <1>10 DEF LogInv

\* Natural numbers have a least one among them.
LEMMA LeastNumber ==
  ASSUME NEW S \in SUBSET Nat, S # {}
  PROVE  Min(S) \in S /\ \A k \in S : Min(S) <= k
<1> DEFINE R == {ss \in Nat \X Nat : ss[1] < ss[2]}
<1>1. IsWellFoundedOn(R, Nat)
  BY NatLessThanWellFounded DEF OpToRel
<1> HIDE DEF R
<1>2. PICK x \in S : \A y \in S : ~ (<<y, x>> \in R)
  BY <1>1, WFMin
<1>3. \A y \in S : y < x => <<y, x>> \in R
  BY DEF R
<1>4. \A y \in S : ~(y < x)
  BY <1>2, <1>3
<1>5. \A y \in S : x <= y
  BY <1>4
<1> QED
  BY <1>5 DEF Min

\* Where a snapshot starts: at the first event that is retained.
LEMMA EarliestIs ==
  ASSUME LogInv
  PROVE  Earliest \in Nat \ {0} /\ (events = {} \/ \E e \in events : e.seq = Earliest)
<1>1. CASE events = {}
  BY <1>1 DEF Earliest
<1>2. CASE events # {}
  <2> DEFINE S == {e.seq : e \in events}
  <2>1. S \in SUBSET (Nat \ {0}) /\ S # {} /\ S \in SUBSET Nat
    BY <1>2 DEF LogInv, MemoryTyped, Entries
  <2>2. Min(S) \in S
    BY <2>1, LeastNumber
  <2>3. Earliest = Min(S)
    BY <1>2 DEF Earliest
  <2> QED
    BY <2>1, <2>2, <2>3
<1> QED
  BY <1>1, <1>2

\* A page from a place that is retained: if an event is missing, coverage says so.
LEMMA PageIs ==
  ASSUME LogInv, life \in Up, NEW from \in Nat, NEW skipped \in BOOLEAN, Page(from, skipped),
         events = {} \/ (\E e \in events : e.seq <= from + 1),
         skipped => coverage.state = "partial" /\ spent.faults > 0,
         UNCHANGED <<published, generation, spent, stateLeaf, life, stored>>
  PROVE  reader' \in Readers /\ ReaderSound' /\ coverage' = Folded(coverage) /\ pendingLoss' = 0
<1> DEFINE later == {e.seq : e \in {x \in events : x.seq > from}}
           upto == IF later = {} THEN from ELSE Min(later)
           missed == \E p \in published :
                      /\ p.gen = generation /\ from < p.seq /\ p.seq <= upto
                      /\ Entry(p.seq, p.id) \notin events
           c == Folded(coverage)
<1>1. /\ reader' = [cursor |-> [gen |-> generation, epoch |-> c.epoch, pos |-> upto],
                    state |-> c.state, skipped |-> skipped \/ missed]
      /\ coverage' = c /\ pendingLoss' = 0
  BY DEF Page
<1>2. /\ coverage \in Coverages /\ pendingLoss \in Nat /\ generation \in Nat /\ events \subseteq Entries
      /\ published \subseteq Publications /\ spent \in Counters
  BY DEF LogInv, MemoryTyped, GhostsTyped
<1>3. c \in Coverages /\ c.state = IF pendingLoss = 0 THEN coverage.state ELSE "partial"
  BY <1>2, FoldedIs
<1>4. upto \in Nat
  <2>1. later \in SUBSET Nat
    BY <1>2 DEF Entries
  <2>2. later # {} => Min(later) \in later
    BY <2>1, LeastNumber
  <2> HIDE DEF later
  <2> QED
    BY <2>1, <2>2
<1> HIDE DEF upto
<1>5. missed => coverage.state = "partial" /\ spent.faults > 0
  BY <1>2 DEF Publications, Entries, LogInv, EventsSound
<1> HIDE DEF missed, c
<1>6. /\ reader' \in Readers /\ reader'.cursor.gen = generation /\ reader'.state = c.state
      /\ reader'.skipped = (skipped \/ missed)
  <2>1. skipped \/ missed \in BOOLEAN
    BY DEF missed
  <2>2. [gen |-> generation, epoch |-> c.epoch, pos |-> upto] \in [gen : Nat, epoch : Nat, pos : Nat]
    BY <1>2, <1>3, <1>4 DEF Coverages
  <2>3. c.state \in {"none", "initializing", "ready", "partial"}
    BY <1>3 DEF Coverages
  <2> QED
    BY <1>1, <2>1, <2>2, <2>3 DEF Readers
<1>7. NothingSkipped'
  BY <1>3, <1>5, <1>6 DEF NothingSkipped
<1>8. reader'.cursor.gen <= spent'.gens
  BY <1>6 DEF LogInv, LifeSound
<1>9. ASSUME reader'.state = "partial", stateLeaf'.clean, stateLeaf'.gen = generation PROVE stateLeaf'.partial
  BY <1>2, <1>9, <1>3, <1>6 DEF LogInv, LifeSound, FilesTyped, Metas
<1>10. reader'.state = "partial" /\ life' \in Up /\ generation' = reader'.cursor.gen => coverage'.state = "partial"
  BY <1>1, <1>6
<1>11. reader'.state = "partial" /\ stateLeaf'.clean /\ stateLeaf'.gen = reader'.cursor.gen => stateLeaf'.partial
  BY <1>6, <1>9
<1>12. ReaderSound'
  BY <1>7, <1>8, <1>10, <1>11 DEF ReaderSound
<1>13. coverage' = Folded(coverage)
  BY <1>1 DEF c
<1> QED
  BY <1>1, <1>6, <1>12, <1>13

-----------------------------------------------------------------------------
(* The actions *)

\* What is spent on an emission, an identity, a boot, a fault, a generation.
LEMMA SpentIs ==
  ASSUME NEW s \in Counters
  PROVE  /\ [s EXCEPT !.emits = @ + 1, !.ids = @ + 1] \in Counters
         /\ [s EXCEPT !.emits = @ + 1, !.ids = @ + 1].gens = s.gens
         /\ [s EXCEPT !.emits = @ + 1, !.ids = @ + 1].faults = s.faults
         /\ [s EXCEPT !.ids = @ + 1] \in Counters
         /\ [s EXCEPT !.ids = @ + 1].gens = s.gens /\ [s EXCEPT !.ids = @ + 1].faults = s.faults
         /\ [s EXCEPT !.boots = @ + 1] \in Counters
         /\ [s EXCEPT !.boots = @ + 1].gens = s.gens /\ [s EXCEPT !.boots = @ + 1].faults = s.faults
         /\ [s EXCEPT !.faults = @ + 1] \in Counters
         /\ [s EXCEPT !.faults = @ + 1].gens = s.gens /\ [s EXCEPT !.faults = @ + 1].faults = s.faults + 1
<1>1. /\ s.emits \in Nat /\ s.ids \in Nat /\ s.boots \in Nat /\ s.faults \in Nat /\ s.gens \in Nat
  BY DEF Counters
<1>2. [s EXCEPT !.emits = @ + 1, !.ids = @ + 1] = [[s EXCEPT !.emits = @ + 1] EXCEPT !.ids = s.ids + 1]
  BY DEF Counters
<1>3. [s EXCEPT !.emits = @ + 1] \in Counters /\ [s EXCEPT !.emits = @ + 1].gens = s.gens
      /\ [s EXCEPT !.emits = @ + 1].faults = s.faults
  BY <1>1 DEF Counters
<1>4. \A t \in Counters : /\ [t EXCEPT !.ids = s.ids + 1] \in Counters
                         /\ [t EXCEPT !.ids = s.ids + 1].gens = t.gens
                         /\ [t EXCEPT !.ids = s.ids + 1].faults = t.faults
  BY <1>1 DEF Counters
<1>5. /\ [s EXCEPT !.boots = @ + 1] \in Counters
      /\ [s EXCEPT !.boots = @ + 1].gens = s.gens /\ [s EXCEPT !.boots = @ + 1].faults = s.faults
  BY <1>1 DEF Counters
<1>6. /\ [s EXCEPT !.faults = @ + 1] \in Counters
      /\ [s EXCEPT !.faults = @ + 1].gens = s.gens /\ [s EXCEPT !.faults = @ + 1].faults = s.faults + 1
  BY <1>1 DEF Counters
<1>7. /\ [s EXCEPT !.emits = @ + 1, !.ids = @ + 1] \in Counters
      /\ [s EXCEPT !.emits = @ + 1, !.ids = @ + 1].gens = s.gens
      /\ [s EXCEPT !.emits = @ + 1, !.ids = @ + 1].faults = s.faults
  BY <1>2, <1>3, <1>4
<1> QED
  BY <1>4, <1>5, <1>6, <1>7

\* Producers, the request to close and readers leave what is published alone.
LEMMA LogQuietStep ==
  ASSUME LogInv, Emit \/ EmitContended \/ Close \/ Snapshot \/ Follow
  PROVE  LogInv'
<1>1. /\ coverage \in Coverages /\ pendingLoss \in Nat /\ backlog \in Seq(Nat) /\ Len(backlog) <= MaxBacklog
      /\ spent \in Counters /\ reader \in Readers /\ lost \in BOOLEAN /\ unwound \in BOOLEAN
      /\ generation \in Nat
  BY DEF LogInv, MemoryTyped, GhostsTyped
<1>2. /\ Folded(coverage) \in Coverages
      /\ Folded(coverage).state = IF pendingLoss = 0 THEN coverage.state ELSE "partial"
      /\ Folded(coverage) \in Coverages => LosesOne(Folded(coverage)) \in Coverages /\ LosesOne(Folded(coverage)).state = "partial"
  BY <1>1, FoldedIs
<1>3. LosesOne(Folded(coverage)) \in Coverages /\ LosesOne(Folded(coverage)).state = "partial"
  BY <1>2
<1>4. pendingLoss = 0 => Folded(coverage) = coverage
  BY DEF Folded
<1>5. stored /\ lost => Folded(coverage).state = "partial"
  BY <1>1, <1>2 DEF LogInv, LossSound
<1>6. CASE Emit
  <2>1. /\ life \in {"initializing", "running"} /\ spent' = [spent EXCEPT !.emits = @ + 1, !.ids = @ + 1]
        /\ pendingLoss' = 0
        /\ UNCHANGED <<life, stored, first, generation, sequence, events, writing, storageFailed, unwound, reserved, state, fileVars, reader, published>>
    BY <1>6 DEF Emit
  <2>2. \/ coverage' = LosesOne(Folded(coverage)) /\ lost' = (lost \/ Counts) /\ UNCHANGED backlog
        \/ /\ coverage' = Folded(coverage) /\ backlog' = Append(backlog, spent.ids + 1) /\ UNCHANGED lost
           /\ Len(backlog) < MaxBacklog
    BY <1>1, <1>6, LogBounds DEF Emit
  <2>3. /\ backlog' \in Seq(Nat) /\ Len(backlog') <= MaxBacklog /\ (backlog # <<>> => backlog' # <<>>)
    <3>1. spent.ids + 1 \in Nat /\ MaxBacklog \in Nat
      BY <1>1, LogBounds DEF Counters
    <3>2. CASE UNCHANGED backlog
      BY <1>1, <3>2
    <3>3. CASE backlog' = Append(backlog, spent.ids + 1) /\ Len(backlog) < MaxBacklog
      BY <1>1, <3>1, <3>3
    <3> QED
      BY <2>2, <3>2, <3>3
  <2>4. spent' \in Counters /\ spent'.gens = spent.gens /\ spent'.faults = spent.faults
    BY <1>1, <2>1, SpentIs
  <2>5. /\ lost' \in BOOLEAN /\ (~stored => lost' = lost) /\ (stored /\ lost' => coverage'.state = "partial")
        /\ coverage' \in Coverages /\ (coverage'.state = coverage.state \/ coverage'.state = "partial")
    <3>1. CASE coverage' = LosesOne(Folded(coverage)) /\ lost' = (lost \/ Counts)
      BY <1>1, <1>3, <3>1 DEF Counts
    <3>2. CASE coverage' = Folded(coverage) /\ UNCHANGED lost
      BY <1>1, <1>2, <1>5, <3>2
    <3> QED
      BY <2>2, <3>1, <3>2
  <2>6. Between
    BY <1>1, <2>1, <2>3, <2>4, <2>5 DEF Between, fileVars
  <2>7. ReaderSound'
    BY <1>1, <2>1, <2>4, <2>5, ReaderStands DEF fileVars, Up, Counters
  <2> QED
    BY <1>1, <2>1, <2>6, <2>7, BetweenKeeps
<1>7. CASE EmitContended
  <2>1. /\ life \in {"initializing", "running"} /\ spent' = [spent EXCEPT !.emits = @ + 1, !.ids = @ + 1]
        /\ pendingLoss' = pendingLoss + 1 /\ lost' = (lost \/ Counts)
        /\ UNCHANGED <<life, stored, first, backlog, coverage, generation, sequence, events, writing, storageFailed, unwound, reserved, state, fileVars, reader, published>>
    BY <1>7 DEF EmitContended
  <2>2. spent' \in Counters /\ spent'.gens = spent.gens /\ spent'.faults = spent.faults
    BY <1>1, <2>1, SpentIs
  <2>3. pendingLoss' \in Nat /\ pendingLoss' > 0 /\ lost' \in BOOLEAN /\ (~stored => lost' = lost)
    BY <1>1, <2>1 DEF Counts
  <2>4. Between
    BY <1>1, <2>1, <2>2, <2>3 DEF Between, fileVars
  <2>5. ReaderSound'
    BY <1>1, <2>1, <2>2, ReaderStands DEF fileVars, Up, Counters
  <2> QED
    BY <1>1, <2>1, <2>4, <2>5, BetweenKeeps
<1>8. CASE Close
  BY <1>8, <1>1, <1>2, <1>5, ReaderStands, BetweenKeeps DEF Close, Between, fileVars, Up, Counters
<1>9. ASSUME UNCHANGED <<life, stored, first, backlog, generation, sequence, events, writing, storageFailed, unwound, reserved, state, fileVars, published, lost, spent>>,
             life \in Up, coverage' = Folded(coverage), pendingLoss' = 0
      PROVE  Between
  BY <1>1, <1>2, <1>4, <1>5, <1>9 DEF Between, fileVars, LogInv, LifeSound
<1>10. CASE Snapshot
  <2>1. /\ life \in Up /\ Page(Earliest - 1, FALSE)
        /\ UNCHANGED <<life, stored, first, backlog, generation, sequence, events, writing, storageFailed, unwound, reserved, state, fileVars, published, lost, spent>>
    BY <1>10 DEF Snapshot, Readable, Up
  <2>2. PICK from \in Nat : from = Earliest - 1
    BY EarliestIs
  <2>3. events = {} \/ \E e \in events : e.seq <= from + 1
    BY <2>2, EarliestIs
  <2>4. Page(from, FALSE) /\ stateLeaf' = stateLeaf
    BY <2>1, <2>2 DEF fileVars
  <2>5. reader' \in Readers /\ ReaderSound' /\ coverage' = Folded(coverage) /\ pendingLoss' = 0
    BY <2>1, <2>3, <2>4, PageIs
  <2> QED
    BY <1>9, <2>1, <2>5, BetweenKeeps
<1>11. CASE Follow
  <2>1. /\ life \in Up
        /\ UNCHANGED <<life, stored, first, backlog, generation, sequence, events, writing, storageFailed, unwound, reserved, state, fileVars, published, lost, spent>>
        /\ \/ Continues /\ Page(reader.cursor.pos, reader.skipped)
           \/ /\ reader' = [cursor |-> NoCursor, state |-> "none", skipped |-> FALSE]
              /\ coverage' = Folded(coverage) /\ pendingLoss' = 0
    BY <1>11 DEF Follow, Readable, Up
  <2>2. CASE Continues /\ Page(reader.cursor.pos, reader.skipped)
    <3>1. PICK from \in Nat : from = reader.cursor.pos
      BY <1>1 DEF Readers
    <3>2. from + 1 >= Earliest /\ reader.cursor.gen = generation
      BY <2>2, <3>1 DEF Continues
    <3>3. events = {} \/ \E e \in events : e.seq <= from + 1
      BY <3>2, EarliestIs
    <3>4. reader.skipped \in BOOLEAN /\ (reader.skipped => coverage.state = "partial" /\ spent.faults > 0)
      BY <1>1, <2>1, <3>2 DEF LogInv, ReaderSound, NothingSkipped, Readers
    <3>5. Page(from, reader.skipped) /\ stateLeaf' = stateLeaf
      BY <2>1, <2>2, <3>1 DEF fileVars
    <3>6. reader' \in Readers /\ ReaderSound' /\ coverage' = Folded(coverage) /\ pendingLoss' = 0
      BY <2>1, <3>3, <3>4, <3>5, PageIs
    <3> QED
      BY <1>9, <2>1, <3>6, BetweenKeeps
  <2>3. CASE /\ reader' = [cursor |-> NoCursor, state |-> "none", skipped |-> FALSE]
             /\ coverage' = Folded(coverage) /\ pendingLoss' = 0
    BY <2>3, <1>1, <2>1, <1>9, BetweenKeeps DEF NoCursor, Readers, ReaderSound, NothingSkipped, Counters
  <2> QED
    BY <2>1, <2>2, <2>3
<1> QED
  BY <1>6, <1>7, <1>8, <1>10, <1>11

\* A number is taken for the event that will be published next.
TakesNumber ==
    /\ writing = NoEvent /\ life \in {"running", "closing"} /\ sequence' = sequence + 1
    /\ writing' \in Writings /\ writing'.seq = sequence + 1
    /\ writing'.then = "queue" => backlog # <<>>
    /\ writing'.then = "first" => first > 0
    /\ writing'.then = "seal" => life = "closing"
    /\ coverage' \in Coverages /\ pendingLoss' = 0
    /\ coverage'.state = coverage.state \/ coverage'.state = "partial"
    /\ stored /\ lost => coverage'.state = "partial"
    /\ state' \in Metas /\ (stored => state'.gen = state.gen /\ state'.found = state.found /\ state'.torn = state.torn)
    /\ UNCHANGED <<life, stored, first, backlog, generation, events, storageFailed, unwound, reserved, fileVars, reader, published, lost>>
    /\ spent' \in Counters /\ spent'.gens = spent.gens /\ spent'.faults = spent.faults

\* The files hold entries.
LEMMA OnDiskIs ==
  ASSUME segments \in Files
  PROVE  OnDisk \subseteq Entries /\ \A i \in Segments : ToSet(segments[i]) \subseteq OnDisk
<1>1. \A i \in Segments : segments[i] \in Seq(Entries)
  BY DEF Files
<1>2. \A i \in Segments : ToSet(segments[i]) \subseteq Entries
  BY <1>1 DEF ToSet
<1> QED
  BY <1>2 DEF OnDisk

\* The number that is taken is above all of the generation so far.
LEMMA TakesNumberKeeps ==
  ASSUME LogInv, TakesNumber
  PROVE  LogInv'
<1>0. UNCHANGED <<segments, manifest, stateLeaf>>
  BY DEF TakesNumber, fileVars
<1>1. FilesTyped' /\ RingSound' /\ OnDisk' = OnDisk /\ (FilesTell => FilesTell')
  BY <1>0, FilesStand
<1>2. sequence \in Nat /\ events \subseteq Entries /\ published \subseteq Publications
  BY DEF LogInv, MemoryTyped, GhostsTyped
<1>3. MemoryTyped'
  BY <1>2 DEF LogInv, MemoryTyped, TakesNumber, Up
<1>4. GhostsTyped'
  BY DEF LogInv, GhostsTyped, TakesNumber
<1>5. LifeSound'
  BY <1>0 DEF LogInv, LifeSound, TakesNumber, Up
<1>6. WritingSound'
  BY DEF LogInv, WritingSound, TakesNumber
\* Every number so far is below the one that is taken.
<1>7. \A q \in Nat : Taken(q) => Taken(q)'
  BY <1>2 DEF Taken, TakesNumber
<1>8. NumbersSound'
  BY <1>0, <1>2, <1>7 DEF LogInv, NumbersSound, NumbersAreUnique, TakesNumber, Publications
<1>9. LossSound'
  BY <1>0, <1>1 DEF LogInv, LossSound, TakesNumber
<1>10. DiskSound'
  BY OnDiskIs, <1>1, <1>7, <1>0 DEF LogInv, FilesTyped, Entries, DiskSound, TakesNumber
<1>11. FilesComplete'
  BY <1>0, <1>1 DEF LogInv, FilesComplete, TakesNumber
<1>12. EventsSound'
  BY <1>2, <1>7 DEF LogInv, EventsSound, TakesNumber, Entries
<1>13. ReaderSound'
  BY <1>0, ReaderStands DEF LogInv, GhostsTyped, Counters, TakesNumber, Up
<1> QED
  BY <1>1, <1>3, <1>4, <1>5, <1>6, <1>8, <1>9, <1>10, <1>11, <1>12, <1>13 DEF LogInv

\* The first events of a boot, those of the queue, and the last.
LEMMA WriteStep ==
  ASSUME LogInv, WriteFirst \/ WriteNext \/ LastEvent
  PROVE  LogInv'
<1>1. /\ coverage \in Coverages /\ pendingLoss \in Nat /\ backlog \in Seq(Nat) /\ spent \in Counters
      /\ state \in Metas /\ sequence \in Nat /\ spent.ids + 1 \in Nat
  BY DEF LogInv, MemoryTyped, GhostsTyped, Counters
<1>2. /\ Folded(coverage) \in Coverages
      /\ Folded(coverage).state = IF pendingLoss = 0 THEN coverage.state ELSE "partial"
      /\ LosesOne(coverage) \in Coverages /\ LosesOne(coverage).state = "partial"
  BY <1>1, FoldedIs
<1>3. stored /\ lost => Folded(coverage).state = "partial"
  BY <1>1, <1>2 DEF LogInv, LossSound
<1>4. \A c \in Coverages : LET m == [state EXCEPT !.epoch = c.epoch, !.partial = c.state # "ready"] IN
        m \in Metas /\ m.gen = state.gen /\ m.found = state.found /\ m.torn = state.torn
  BY <1>1 DEF Metas, Coverages
<1>5. ASSUME NEW c \in Coverages,
             state' = IF stored THEN [state EXCEPT !.epoch = c.epoch, !.partial = c.state # "ready"] ELSE state
      PROVE  state' \in Metas /\ (stored => state'.gen = state.gen /\ state'.found = state.found /\ state'.torn = state.torn)
  BY <1>1, <1>4, <1>5
<1>6. ASSUME NEW id \in Nat, NEW then \in {"first", "queue"}, BeginWrite(id, then)
      PROVE  /\ writing = NoEvent /\ sequence' = sequence + 1 /\ writing' \in Writings
             /\ writing'.seq = sequence + 1 /\ writing'.then = then
             /\ coverage' = Folded(coverage) /\ pendingLoss' = 0
             /\ state' \in Metas
             /\ (stored => state'.gen = state.gen /\ state'.found = state.found /\ state'.torn = state.torn)
  <2>1. /\ writing = NoEvent /\ sequence' = sequence + 1 /\ coverage' = Folded(coverage) /\ pendingLoss' = 0
        /\ writing' = [seq |-> sequence + 1, id |-> id, then |-> then]
        /\ state' = IF stored THEN [state EXCEPT !.epoch = Folded(coverage).epoch, !.partial = Folded(coverage).state # "ready"] ELSE state
    BY <1>6 DEF BeginWrite
  <2>2. writing' \in Writings /\ writing'.seq = sequence + 1 /\ writing'.then = then
    BY <1>1, <2>1 DEF Writings
  <2> QED
    BY <1>2, <1>5, <2>1, <2>2
<1>7. CASE WriteFirst
  BY <1>7, <1>1, SpentIs, <1>2, <1>3, <1>6, TakesNumberKeeps DEF WriteFirst, TakesNumber
<1>8. CASE WriteNext
  BY <1>8, <1>1, <1>2, <1>3, <1>6, TakesNumberKeeps DEF WriteNext, TakesNumber
<1>9. CASE LastEvent
  <2> DEFINE c == IF unwound THEN coverage ELSE LosesOne(coverage)
  <2>1. /\ life = "closing" /\ writing = NoEvent
        /\ writing' = [seq |-> sequence + 1, id |-> spent.ids + 1, then |-> "seal"] /\ sequence' = sequence + 1
        /\ coverage' = c /\ pendingLoss' = pendingLoss
        /\ state' = IF stored THEN [state EXCEPT !.epoch = c.epoch, !.partial = c.state # "ready"] ELSE state
        /\ spent' = [spent EXCEPT !.ids = @ + 1]
        /\ UNCHANGED <<life, stored, first, backlog, generation, events, storageFailed, unwound, reserved, fileVars, reader, published, lost>>
    BY <1>9 DEF LastEvent
  <2>2. spent' \in Counters /\ spent'.gens = spent.gens /\ spent'.faults = spent.faults
    BY <1>1, <2>1, SpentIs
  <2>3. pendingLoss = 0
    BY <2>1 DEF LogInv, LifeSound
  <2>4. c \in Coverages /\ (c.state = coverage.state \/ c.state = "partial") /\ (stored /\ lost => c.state = "partial")
    BY <1>1, <1>2, <1>3, <2>3
  <2> HIDE DEF c
  <2>5. writing' \in Writings /\ writing'.seq = sequence + 1 /\ writing'.then = "seal"
    BY <1>1, <2>1 DEF Writings
  <2>6. state' \in Metas /\ (stored => state'.gen = state.gen /\ state'.found = state.found /\ state'.torn = state.torn)
    BY <1>5, <2>1, <2>4
  <2>7. TakesNumber
    BY <2>1, <2>2, <2>3, <2>4, <2>5, <2>6 DEF TakesNumber
  <2> QED
    BY <2>7, TakesNumberKeeps
<1> QED
  BY <1>7, <1>8, <1>9
-----------------------------------------------------------------------------
(* Starts and ends of the process *)

\* A new collector has nothing yet; the files are as they were.
LEMMA NewCollectorStep ==
  ASSUME LogInv, NewCollector
  PROVE  LogInv'
<1>1. /\ life = "down" /\ life' = "initializing" /\ spent' = [spent EXCEPT !.boots = @ + 1]
      /\ first' = 0 /\ backlog' = <<>> /\ pendingLoss' = 0 /\ coverage' = [state |-> "initializing", epoch |-> 0]
      /\ generation' = 0 /\ sequence' = 0 /\ events' = {} /\ writing' = NoEvent
      /\ storageFailed' = FALSE /\ unwound' = FALSE /\ reserved' = 0 /\ stored' = FALSE
      /\ UNCHANGED <<state, segments, manifest, stateLeaf, reader, published, lost>>
  BY DEF NewCollector, fileVars
<1>2. spent \in Counters /\ spent.gens \in Nat /\ spent.faults \in Nat /\ state \in Metas
  BY DEF LogInv, GhostsTyped, MemoryTyped, Counters
<1>3. spent' \in Counters /\ spent'.gens = spent.gens /\ spent'.faults = spent.faults
  BY <1>1, <1>2, SpentIs
<1>4. ~stored
  BY <1>1 DEF LogInv, LifeSound, Up
<1>5. FilesTyped' /\ RingSound' /\ OnDisk' = OnDisk /\ (FilesTell => FilesTell')
  BY <1>1, FilesStand
<1>6. MemoryTyped'
  <2>1. coverage' \in Coverages /\ backlog' \in Seq(Nat) /\ Len(backlog') = 0
    BY <1>1 DEF Coverages
  <2>2. IsFiniteSet({}) /\ Cardinality({}) = 0
    BY FS_EmptySet
  <2>3. 0 <= MaxBacklog /\ 0 <= Slots * SegmentSize
    BY LogBounds
  <2>4. events' \subseteq Entries /\ IsFiniteSet(events') /\ Cardinality(events') <= Slots * SegmentSize
    BY <1>1, <2>2, <2>3
  <2>5. /\ first' \in 0..2 /\ Len(backlog') <= MaxBacklog /\ pendingLoss' \in Nat
        /\ generation' \in Nat /\ sequence' \in Nat /\ reserved' \in Nat
    BY <1>1, <2>1, <2>3
  <2>6. stored' \in BOOLEAN /\ storageFailed' \in BOOLEAN /\ unwound' \in BOOLEAN /\ state' \in Metas
    BY <1>1, <1>2
  <2>7. life' \in {"down", "initializing"} \union Up
    BY <1>1
  <2> QED
    BY <1>1, <2>1, <2>4, <2>5, <2>6, <2>7 DEF MemoryTyped
<1>7. GhostsTyped'
  BY <1>1, <1>3 DEF LogInv, GhostsTyped
<1>8. LifeSound'
  BY <1>1, <1>3, <1>4 DEF LogInv, LifeSound, Up
<1>9. WritingSound'
  BY <1>1 DEF WritingSound
<1>10. NumbersSound'
  BY <1>1 DEF LogInv, NumbersSound, NumbersAreUnique, Up
<1>11. LossSound'
  BY <1>1, <1>4, <1>5 DEF LogInv, LossSound
<1>12. DiskSound'
  BY <1>1, <1>5 DEF LogInv, DiskSound
<1>13. FilesComplete'
  BY <1>1, <1>3, <1>5 DEF LogInv, FilesComplete
<1>14. EventsSound'
  BY <1>1 DEF EventsSound, Up
<1>15. ReaderSound'
  BY <1>1, <1>2, <1>3, ReaderStands DEF Up
<1> QED
  BY <1>5, <1>6, <1>7, <1>8, <1>9, <1>10, <1>11, <1>12, <1>13, <1>14, <1>15 DEF LogInv

\* A collector that cannot open its ledger goes on under a new generation.
LEMMA OpenFailsStep ==
  ASSUME LogInv, OpenFails
  PROVE  LogInv'
<1>1. /\ life = "initializing" /\ life' = "running" /\ stored' = FALSE /\ generation' = spent.gens + 1
      /\ coverage' = LosesOne(Folded(coverage)) /\ pendingLoss' = 0 /\ first' = 1
      /\ spent' = [spent EXCEPT !.gens = @ + 1, !.faults = @ + 1]
      /\ UNCHANGED <<backlog, sequence, events, writing, storageFailed, unwound, reserved, state, segments, manifest, stateLeaf, reader, published, lost>>
  BY DEF OpenFails, fileVars
<1>2. /\ spent \in Counters /\ spent.gens \in Nat /\ spent.faults \in Nat
      /\ coverage \in Coverages /\ pendingLoss \in Nat /\ stateLeaf \in Metas /\ published \subseteq Publications
      /\ stateLeaf.gen \in Nat
  BY DEF LogInv, GhostsTyped, MemoryTyped, FilesTyped, Counters, Metas
<1>3. spent' \in Counters /\ spent'.gens = spent.gens + 1 /\ spent'.faults = spent.faults + 1
  <2>1. [spent EXCEPT !.gens = @ + 1] \in Counters /\ [spent EXCEPT !.gens = @ + 1].gens = spent.gens + 1
        /\ [spent EXCEPT !.gens = @ + 1].faults = spent.faults
    BY <1>2 DEF Counters
  <2>2. spent' = [[spent EXCEPT !.gens = @ + 1] EXCEPT !.faults = spent.faults + 1]
    BY <1>1, <1>2 DEF Counters
  <2>3. \A t \in Counters : /\ [t EXCEPT !.faults = spent.faults + 1] \in Counters
                            /\ [t EXCEPT !.faults = spent.faults + 1].gens = t.gens
                            /\ [t EXCEPT !.faults = spent.faults + 1].faults = spent.faults + 1
    BY <1>2 DEF Counters
  <2> QED
    BY <2>1, <2>2, <2>3
<1>4. ~stored /\ writing = NoEvent /\ events = {}
  BY <1>1 DEF LogInv, LifeSound, Up
<1>5. FilesTyped' /\ RingSound' /\ OnDisk' = OnDisk /\ (FilesTell => FilesTell')
  BY <1>1, FilesStand
<1>6. coverage' \in Coverages /\ coverage'.state = "partial"
  BY <1>2, FoldedIs, <1>1
<1>7. MemoryTyped'
  <2>1. first' \in 0..2 /\ pendingLoss' \in Nat /\ generation' \in Nat
    BY <1>1, <1>2
  <2>2. life' \in {"down", "initializing"} \union Up /\ stored' \in BOOLEAN
    BY <1>1 DEF Up
  <2> QED
    BY <1>1, <1>6, <2>1, <2>2 DEF LogInv, MemoryTyped
<1>8. GhostsTyped'
  BY <1>1, <1>3 DEF LogInv, GhostsTyped
<1>9. \A p \in published : p.gen \in Nat /\ p.gen <= spent.gens
  BY <1>2 DEF LogInv, LifeSound, Publications
<1>10. LifeSound'
  BY <1>1, <1>2, <1>3, <1>9, <1>6, <1>4 DEF LogInv, LifeSound, Up
<1>11. WritingSound'
  BY <1>1, <1>4 DEF WritingSound
<1>12. NumbersSound'
  BY <1>1, <1>2, <1>9 DEF LogInv, NumbersSound, NumbersAreUnique
<1>13. LossSound'
  BY <1>1, <1>4, <1>5 DEF LogInv, LossSound
<1>14. DiskSound'
  BY <1>1, <1>5 DEF LogInv, DiskSound
<1>15. FilesComplete'
  BY <1>2, <1>3 DEF FilesComplete
<1>16. EventsSound'
  BY <1>1, <1>2, <1>9, <1>4 DEF EventsSound
<1>17. ReaderSound'
  BY <1>1, <1>2, <1>3, ReaderStands
<1> QED
  BY <1>5, <1>7, <1>8, <1>10, <1>11, <1>12, <1>13, <1>14, <1>15, <1>16, <1>17 DEF LogInv

\* A segment that is cut short keeps the beginning of what it had.
Cut(i, n) == segments' = [segments EXCEPT ![i] = SubSeq(@, 1, n)]

\* A cut drops entries of one segment, and keeps the others whole.
LEMMA CutIs ==
  ASSUME LogInv, NEW i \in Segments, NEW n \in 0..Len(segments[i]), Cut(i, n)
  PROVE  /\ segments' \in Files /\ Len(segments'[i]) = n
         /\ \A j \in Segments : Len(segments'[j]) <= Len(segments[j]) /\ ToSet(segments'[j]) \subseteq ToSet(segments[j])
         /\ OnDisk' \subseteq OnDisk
<1>1. segments \in Files /\ \A j \in Segments : segments[j] \in Seq(Entries)
  BY DEF LogInv, FilesTyped, Files
<1>2. /\ segments' = [segments EXCEPT ![i] = SubSeq(segments[i], 1, n)]
      /\ segments'[i] = SubSeq(segments[i], 1, n) /\ \A j \in Segments : j # i => segments'[j] = segments[j]
  BY <1>1 DEF Cut, Files
<1>3. n \in Nat /\ n <= Len(segments[i])
  BY <1>1
<1>4. /\ SubSeq(segments[i], 1, n) \in Seq(Entries) /\ Len(SubSeq(segments[i], 1, n)) = n
      /\ \A k \in 1..n : SubSeq(segments[i], 1, n)[k] = segments[i][k]
  BY <1>1, <1>3
<1>5. segments' \in Files
  BY <1>1, <1>2, <1>4 DEF Files
<1>6. ToSet(segments'[i]) \subseteq ToSet(segments[i])
  BY <1>1, <1>2, <1>4, <1>3 DEF ToSet
<1>7. \A j \in Segments : Len(segments'[j]) <= Len(segments[j]) /\ ToSet(segments'[j]) \subseteq ToSet(segments[j])
  <2> SUFFICES ASSUME NEW j \in Segments
               PROVE  Len(segments'[j]) <= Len(segments[j]) /\ ToSet(segments'[j]) \subseteq ToSet(segments[j])
    OBVIOUS
  <2>1. CASE j = i
    BY <1>2, <1>3, <1>4, <1>6, <2>1
  <2>2. CASE j # i
    BY <1>1, <1>2, <2>2
  <2> QED
    BY <2>1, <2>2
<1>8. OnDisk' \subseteq OnDisk
  BY <1>7 DEF OnDisk
<1> QED
  BY <1>2, <1>4, <1>5, <1>7, <1>8

\* Files that only lose entries stay in the order of the ring.
LEMMA FewerFiles ==
  ASSUME LogInv, segments' \in Files, manifest' = manifest,
         \A j \in Segments : Len(segments'[j]) <= Len(segments[j]) /\ ToSet(segments'[j]) \subseteq ToSet(segments[j])
  PROVE  /\ RingSound' /\ OnDisk' \subseteq OnDisk
         /\ \A j \in Segments : Len(segments'[j]) <= SegmentSize
         /\ stateLeaf.clean => \A j \in Segments : Len(segments'[j]) <= Len(manifest'[j])
<1>1. RingSound'
  <2>1. PICK t \in Segments : Ring(t)
    BY DEF LogInv, RingSound
  <2>2. Ring(t)'
    BY <2>1 DEF Ring
  <2> QED
    BY <2>2 DEF RingSound
<1>2. OnDisk' \subseteq OnDisk
  BY DEF OnDisk
<1>3. \A j \in Segments : Len(segments'[j]) \in Nat /\ Len(segments[j]) \in Nat /\ Len(manifest[j]) \in Nat
  BY DEF LogInv, FilesTyped, Files
<1>4. \A j \in Segments : Len(segments'[j]) <= SegmentSize
  BY <1>3, LogBounds DEF LogInv, FilesTyped
<1>5. stateLeaf.clean => \A j \in Segments : Len(segments'[j]) <= Len(manifest'[j])
  BY <1>3 DEF LogInv, LossSound
<1> QED
  BY <1>1, <1>2, <1>4, <1>5

\* The process is gone.
LEMMA LeavesIs ==
  ASSUME Leaves
  PROVE  /\ life' = "down" /\ ~stored' /\ writing' = NoEvent /\ events' = {}
         /\ MemoryTyped' /\ WritingSound' /\ EventsSound'
<1>1. /\ life' = "down" /\ events' = {} /\ first' = 0 /\ backlog' = <<>> /\ writing' = NoEvent /\ pendingLoss' = 0
      /\ coverage' = [state |-> "initializing", epoch |-> 0] /\ generation' = 0 /\ sequence' = 0 /\ stored' = FALSE
      /\ storageFailed' = FALSE /\ unwound' = FALSE /\ reserved' = 0 /\ state' = NoMeta
  BY DEF Leaves
<1>2. coverage' \in Coverages /\ backlog' \in Seq(Nat) /\ Len(backlog') = 0 /\ state' \in Metas
  BY <1>1 DEF NoMeta, Metas, Coverages
<1>3. events' \subseteq Entries /\ IsFiniteSet(events') /\ Cardinality(events') <= Slots * SegmentSize
  BY LogBounds, <1>1, FS_EmptySet
<1>4. /\ first' \in 0..2 /\ Len(backlog') <= MaxBacklog /\ pendingLoss' \in Nat
      /\ generation' \in Nat /\ sequence' \in Nat /\ reserved' \in Nat
  BY <1>1, <1>2, LogBounds
<1>5. stored' \in BOOLEAN /\ storageFailed' \in BOOLEAN /\ unwound' \in BOOLEAN
  BY <1>1
<1>6. MemoryTyped'
  BY <1>1, <1>2, <1>3, <1>4, <1>5 DEF MemoryTyped
<1>7. WritingSound' /\ EventsSound'
  BY <1>1 DEF WritingSound, EventsSound, Up
<1> QED
  BY <1>1, <1>6, <1>7

\* A process that is gone leaves its files to the next one.
LEMMA GoneKeeps ==
  ASSUME LogInv, Leaves, UNCHANGED <<manifest, reader, published, spent>>,
         segments' \in Files, lost' \in BOOLEAN, stateLeaf' \in Metas,
         stateLeaf'.clean = stateLeaf.clean, stateLeaf'.gen = stateLeaf.gen, stateLeaf'.seq = stateLeaf.seq,
         stateLeaf'.found = stateLeaf.found, stateLeaf'.partial = stateLeaf.partial,
         \A j \in Segments : Len(segments'[j]) <= Len(segments[j]) /\ ToSet(segments'[j]) \subseteq ToSet(segments[j]),
         stateLeaf.clean => segments' = segments,
         lost' => FilesTell'
  PROVE  LogInv'
<1>1. /\ life' = "down" /\ ~stored' /\ writing' = NoEvent /\ events' = {}
      /\ MemoryTyped' /\ WritingSound' /\ EventsSound'
  BY LeavesIs
<1>2. /\ RingSound' /\ OnDisk' \subseteq OnDisk
      /\ \A j \in Segments : Len(segments'[j]) <= SegmentSize
      /\ stateLeaf.clean => \A j \in Segments : Len(segments'[j]) <= Len(manifest'[j])
  BY FewerFiles
<1>3. FilesTyped'
  BY <1>2 DEF LogInv, FilesTyped
<1>4. GhostsTyped'
  BY DEF LogInv, GhostsTyped
<1>5. LifeSound'
  BY <1>1 DEF LogInv, LifeSound, Up
<1>6. NumbersSound'
  BY <1>1 DEF LogInv, NumbersSound, NumbersAreUnique, Up
<1>7. LossSound'
  BY <1>1, <1>2 DEF LossSound
<1>8. DiskSound'
  BY <1>1, <1>2 DEF LogInv, DiskSound
<1>9. FilesComplete'
  BY <1>1 DEF OnDisk, LogInv, FilesComplete
<1>10. ReaderSound'
  BY <1>1, ReaderStands DEF LogInv, GhostsTyped, Counters, Up
<1> QED
  BY <1>1, <1>2, <1>3, <1>4, <1>5, <1>6, <1>7, <1>8, <1>9, <1>10 DEF LogInv

\* After its close.
LEMMA ExitStep ==
  ASSUME LogInv, Exit
  PROVE  LogInv'
<1>1. life = "closed" /\ Leaves /\ UNCHANGED <<segments, manifest, stateLeaf, reader, published, lost, spent>>
  BY DEF Exit, fileVars
<1>2. lost' => FilesTell'
  BY <1>1, FilesStand DEF LogInv, LossSound
<1>3. \A j \in Segments : Len(segments[j]) <= Len(segments[j])
  BY DEF LogInv, FilesTyped, Files
<1> QED
  BY <1>1, <1>2, <1>3, GoneKeeps DEF LogInv, FilesTyped, GhostsTyped

\* At any other time.
LEMMA CrashStep ==
  ASSUME LogInv, Crash
  PROVE  LogInv'
<1>1. /\ life \in {"initializing", "running", "closing", "sealing"} /\ Leaves
      /\ UNCHANGED <<manifest, reader, published, spent>>
      /\ lost' = (lost \/ (stored /\ (first > 0 \/ backlog # <<>> \/ writing # NoEvent \/ segments' # segments)))
      /\ lost' \in BOOLEAN
  BY DEF Crash, LogInv, GhostsTyped
<1>a. PICK i \in Segments : \E n \in 0..Len(segments[i]) :
        segments' = IF stored THEN [segments EXCEPT ![i] = SubSeq(@, 1, n)] ELSE segments
  BY DEF Crash
<1>2. PICK n \in 0..Len(segments[i]) :
        segments' = IF stored THEN [segments EXCEPT ![i] = SubSeq(@, 1, n)] ELSE segments
  BY <1>a
<1>3. PICK torn \in BOOLEAN : stateLeaf' = [stateLeaf EXCEPT !.torn = @ \/ torn]
  BY DEF Crash
<1>4. /\ stateLeaf' \in Metas /\ stateLeaf'.clean = stateLeaf.clean /\ stateLeaf'.gen = stateLeaf.gen
      /\ stateLeaf'.seq = stateLeaf.seq /\ stateLeaf'.found = stateLeaf.found /\ stateLeaf'.partial = stateLeaf.partial
      /\ (stateLeaf.torn => stateLeaf'.torn)
  <2>1. stateLeaf \in Metas /\ stateLeaf.torn \in BOOLEAN
    BY DEF LogInv, FilesTyped, Metas
  <2>2. PICK b \in BOOLEAN : b = (stateLeaf.torn \/ torn)
    BY <2>1
  <2>3. stateLeaf' = [stateLeaf EXCEPT !.torn = b]
    BY <1>3, <2>2
  <2>4. /\ stateLeaf' \in Metas /\ stateLeaf'.clean = stateLeaf.clean /\ stateLeaf'.gen = stateLeaf.gen
        /\ stateLeaf'.seq = stateLeaf.seq /\ stateLeaf'.found = stateLeaf.found /\ stateLeaf'.partial = stateLeaf.partial
        /\ stateLeaf'.torn = b
    BY <2>1, <2>3 DEF Metas
  <2> QED
    BY <2>2, <2>4
<1>5. stored => stateLeaf.found /\ ~stateLeaf.clean
  BY <1>1 DEF LogInv, LifeSound
<1>6. CASE stored
  BY <1>2, <1>6, CutIs, <1>4, <1>5, <1>1, GoneKeeps DEF Cut, FilesTell
<1>7. CASE ~stored
  <2>1. segments' = segments /\ (lost' => lost)
    BY <1>2, <1>7, <1>1
  <2>2. segments' \in Files /\ \A j \in Segments : Len(segments[j]) <= Len(segments[j])
    BY <2>1 DEF LogInv, FilesTyped, Files
  <2>3. lost' => FilesTell'
    BY <1>1, <1>4, <1>7, <2>1 DEF LogInv, LossSound, FilesTell
  <2> QED
    BY <1>1, <1>4, <2>1, <2>2, <2>3, GoneKeeps
<1> QED
  BY <1>6, <1>7

\* Files are damaged while no process runs: a clean leaf no longer agrees with them.
LEMMA DamageStep ==
  ASSUME LogInv, Damage
  PROVE  LogInv'
<1>1. /\ life = "down" /\ stateLeaf.found /\ spent' = [spent EXCEPT !.faults = @ + 1]
      /\ UNCHANGED <<life, stored, first, backlog, pendingLoss, coverage, generation, sequence, events, writing, storageFailed, unwound, reserved, state, manifest, reader, published>>
  BY DEF Damage, memVars
<1>2. /\ spent \in Counters /\ spent.faults \in Nat /\ spent.gens \in Nat /\ stateLeaf \in Metas
      /\ segments \in Files /\ manifest \in Files /\ published \subseteq Publications
  BY DEF LogInv, GhostsTyped, FilesTyped, Counters
<1>3. spent' \in Counters /\ spent'.gens = spent.gens /\ spent'.faults = spent.faults + 1
  BY <1>1, <1>2, SpentIs
<1>4. ~stored /\ writing = NoEvent /\ events = {}
  BY <1>1 DEF LogInv, LifeSound, Up
<1>5. \/ \E i \in Segments : \E n \in 0..(Len(segments[i]) - 1) :
            segments' = [segments EXCEPT ![i] = SubSeq(@, 1, n)] /\ lost' = TRUE /\ UNCHANGED stateLeaf
      \/ stateLeaf' = [NoMeta EXCEPT !.torn = TRUE] /\ UNCHANGED <<segments, lost>>
  BY DEF Damage
<1>6. MemoryTyped' /\ WritingSound'
  BY <1>1, <1>4 DEF LogInv, MemoryTyped, WritingSound
<1>7. FilesComplete' /\ EventsSound'
  BY <1>1, <1>2, <1>3, <1>4 DEF FilesComplete, EventsSound, Up
<1>8. CASE \E i \in Segments : \E n \in 0..(Len(segments[i]) - 1) :
            segments' = [segments EXCEPT ![i] = SubSeq(@, 1, n)] /\ lost' = TRUE /\ UNCHANGED stateLeaf
  <2>1. PICK i \in Segments : \E n \in 0..(Len(segments[i]) - 1) :
            segments' = [segments EXCEPT ![i] = SubSeq(@, 1, n)] /\ lost' = TRUE /\ UNCHANGED stateLeaf
    BY <1>8
  <2>2. PICK n \in 0..(Len(segments[i]) - 1) :
            segments' = [segments EXCEPT ![i] = SubSeq(@, 1, n)] /\ lost' = TRUE /\ UNCHANGED stateLeaf
    BY <2>1
  <2>3. Len(segments[i]) \in Nat /\ Len(manifest[i]) \in Nat /\ n \in 0..Len(segments[i]) /\ n < Len(segments[i])
    BY <1>2, <2>2 DEF Files
  <2>4. Cut(i, n)
    BY <2>2 DEF Cut
  <2>5. /\ segments' \in Files /\ Len(segments'[i]) = n
        /\ \A j \in Segments : Len(segments'[j]) <= Len(segments[j]) /\ ToSet(segments'[j]) \subseteq ToSet(segments[j])
    BY <2>3, <2>4, CutIs
  <2>6. /\ RingSound' /\ OnDisk' \subseteq OnDisk
        /\ \A j \in Segments : Len(segments'[j]) <= SegmentSize
        /\ stateLeaf.clean => \A j \in Segments : Len(segments'[j]) <= Len(manifest'[j])
    BY <1>1, <2>5, FewerFiles
  <2>7. FilesTell'
    BY <2>3, <2>5, <1>1, <2>2 DEF LogInv, LossSound, FilesTell
  <2>8. FilesTyped' /\ GhostsTyped'
    BY <1>1, <1>3, <2>2, <2>5, <2>6 DEF LogInv, FilesTyped, GhostsTyped
  <2>9. LifeSound'
    BY <1>1, <1>3, <1>4, <2>2 DEF LogInv, LifeSound, Up
  <2>10. NumbersSound'
    BY <1>1, <2>2 DEF LogInv, NumbersSound, NumbersAreUnique, Up
  <2>11. LossSound'
    BY <1>1, <1>4, <2>2, <2>6, <2>7 DEF LossSound
  <2>12. DiskSound'
    BY <1>1, <1>4, <2>2, <2>6 DEF LogInv, DiskSound
  <2>13. ReaderSound'
    BY <1>1, <1>2, <1>3, <2>2, ReaderStands DEF Up
  <2> QED
    BY <1>6, <1>7, <2>6, <2>8, <2>9, <2>10, <2>11, <2>12, <2>13 DEF LogInv
<1>9. CASE stateLeaf' = [NoMeta EXCEPT !.torn = TRUE] /\ UNCHANGED <<segments, lost>>
  <2>1. stateLeaf' \in Metas /\ stateLeaf'.torn /\ stateLeaf'.gen = 0 /\ ~stateLeaf'.clean /\ ~stateLeaf'.found
    BY <1>9 DEF NoMeta, Metas
  <2>2. OnDisk' = OnDisk /\ RingSound'
    BY <1>9 DEF OnDisk, LogInv, RingSound, Ring
  <2>3. \A p \in published : p.gen # 0
    BY <1>2 DEF Publications
  <2>4. FilesTyped' /\ GhostsTyped'
    BY <1>1, <1>3, <1>9, <2>1 DEF LogInv, FilesTyped, GhostsTyped
  <2>5. LifeSound'
    BY <1>2, <1>3, <2>1, <1>1, <1>4 DEF LogInv, LifeSound, Up
  <2>6. NumbersSound'
    BY <1>1, <2>1 DEF LogInv, NumbersSound, NumbersAreUnique, Up
  <2>7. LossSound'
    BY <1>1, <1>4, <2>1 DEF LossSound, FilesTell
  <2>8. DiskSound'
    BY <1>1, <1>4, <2>1, <2>2, <2>3 DEF LogInv, DiskSound
  <2>9. ReaderSound'
    BY <1>1, <1>2, <1>3, <2>1, ReaderStands DEF Up
  <2> QED
    BY <1>6, <1>7, <2>2, <2>4, <2>5, <2>6, <2>7, <2>8, <2>9 DEF LogInv
<1> QED
  BY <1>5, <1>8, <1>9

\* The last checkpoint of a boot says of coverage what the boot knows.
LEMMA SealStep ==
  ASSUME LogInv, NEW fails \in {"none", "manifest", "checkpoint"}, Seal(fails)
  PROVE  LogInv'
<1> DEFINE c == IF fails = "none" THEN coverage ELSE LosesOne(coverage)
           final == Meta(generation, sequence, c.epoch, c.state # "ready", unwound /\ ~storageFailed /\ fails = "none")
<1>1. /\ life = "sealing" /\ life' = "closed" /\ coverage' = c
      /\ \/ fails = "none" /\ UNCHANGED spent
         \/ fails # "none" /\ stored /\ spent' = [spent EXCEPT !.faults = @ + 1]
      /\ UNCHANGED <<stored, first, backlog, pendingLoss, generation, sequence, events, writing, storageFailed, unwound, reserved, segments, reader, published, lost>>
  BY DEF Seal
<1>2. IF stored
      THEN /\ manifest' = (IF fails = "manifest" THEN manifest ELSE segments)
           /\ state' = final
           /\ stateLeaf' = (IF fails = "checkpoint" THEN stateLeaf ELSE final)
      ELSE UNCHANGED <<manifest, state, stateLeaf>>
  BY DEF Seal
<1>3. /\ spent \in Counters /\ spent.faults \in Nat /\ spent.gens \in Nat /\ stateLeaf \in Metas /\ state \in Metas
      /\ segments \in Files /\ manifest \in Files /\ coverage \in Coverages /\ generation \in Nat /\ sequence \in Nat
      /\ unwound \in BOOLEAN /\ storageFailed \in BOOLEAN /\ pendingLoss \in Nat
  BY DEF LogInv, GhostsTyped, FilesTyped, MemoryTyped, Counters
<1>4. spent' \in Counters /\ spent'.gens = spent.gens /\ spent'.faults >= spent.faults
  <2>1. CASE UNCHANGED spent
    BY <1>3, <2>1
  <2>2. CASE spent' = [spent EXCEPT !.faults = @ + 1]
    <3>1. spent' \in Counters /\ spent'.gens = spent.gens /\ spent'.faults = spent.faults + 1
      BY <1>3, <2>2, SpentIs
    <3> QED
      BY <1>3, <3>1
  <2> QED
    BY <1>1, <2>1, <2>2
<1>5. pendingLoss = 0 /\ writing = NoEvent
  BY <1>1 DEF LogInv, LifeSound, WritingSound
<1>6. c \in Coverages /\ (c.state = coverage.state \/ c.state = "partial")
  BY <1>3, FoldedIs
<1>7. (c.state # "ready") \in BOOLEAN /\ (unwound /\ ~storageFailed /\ fails = "none") \in BOOLEAN
  OBVIOUS
<1>8. /\ final \in Metas /\ final.gen = generation /\ final.seq = sequence /\ final.found /\ ~final.torn
      /\ final.partial = (c.state # "ready") /\ (final.clean => fails = "none")
  BY <1>3, <1>6, <1>7 DEF Meta, Metas, Coverages
<1> HIDE DEF final, c
<1>9. stored => /\ stateLeaf.gen = generation /\ stateLeaf.found /\ ~stateLeaf.clean
                /\ state.gen = generation
  BY <1>1 DEF LogInv, LifeSound
<1>10. stored => /\ stateLeaf'.gen = generation /\ stateLeaf'.found
                 /\ (stateLeaf'.clean => stateLeaf' = final /\ manifest' = segments)
  BY <1>2, <1>8, <1>9
<1>11. stateLeaf'.gen = stateLeaf.gen /\ stateLeaf' \in Metas /\ manifest' \in Files /\ state' \in Metas
  BY <1>2, <1>3, <1>8, <1>9
<1>12. ~stored => UNCHANGED <<manifest, state, stateLeaf>>
  BY <1>2
<1>13. OnDisk' = OnDisk /\ RingSound'
  BY <1>1 DEF OnDisk, LogInv, RingSound, Ring
<1>14. MemoryTyped'
  BY <1>1, <1>6, <1>11 DEF LogInv, MemoryTyped, Up
<1>15. FilesTyped' /\ GhostsTyped'
  BY <1>1, <1>4, <1>11 DEF LogInv, FilesTyped, GhostsTyped
<1>16. LifeSound'
  <2>1. life \in Up /\ life' \in Up
    BY <1>1 DEF Up
  <2>2. coverage'.state # "initializing" /\ generation' # 0 /\ generation' <= spent'.gens
    BY <1>1, <1>4, <1>6, <2>1 DEF LogInv, LifeSound
  <2>3. stateLeaf'.clean => stateLeaf'.found /\ (stored' /\ coverage'.state = "partial" => stateLeaf'.partial)
    BY <1>1, <1>8, <1>10, <1>12 DEF LogInv, LifeSound
  <2>4. stored' => stateLeaf'.gen = generation' /\ state'.gen = generation' /\ state'.found /\ ~state'.torn
    BY <1>1, <1>2, <1>8, <1>10
  <2>5. stateLeaf'.found => stateLeaf'.gen # 0
    BY <1>1, <1>10, <1>12, <2>1 DEF LogInv, LifeSound
  <2>6. life' \in Up /\ ~stored' => stateLeaf'.gen < generation'
    BY <1>1, <1>12, <2>1 DEF LogInv, LifeSound
  <2>7. stateLeaf'.gen <= spent'.gens /\ \A p \in published' : p.gen <= spent'.gens
    BY <1>1, <1>4, <1>11 DEF LogInv, LifeSound
  <2> QED
    BY <1>1, <1>5, <2>1, <2>2, <2>3, <2>4, <2>5, <2>6, <2>7 DEF LifeSound
<1>17. WritingSound'
  BY <1>1, <1>5 DEF WritingSound
<1>18. NumbersSound'
  BY <1>1, <1>5, <1>8, <1>10, <1>12 DEF Up, LogInv, NumbersSound, Taken, NumbersAreUnique
<1>19. LossSound'
  <2>1. stored /\ lost => c.state = "partial"
    BY <1>3, <1>5, <1>6 DEF LogInv, LossSound
  <2>2. stored /\ lost => FilesTell'
    BY <1>2, <1>9, <1>8, <2>1 DEF FilesTell
  <2>3. ~stored /\ lost => FilesTell'
    BY <1>1, <1>12 DEF LogInv, LossSound, FilesTell
  <2>4. stateLeaf'.clean => \A i \in Segments : Len(segments'[i]) <= Len(manifest'[i])
    BY <1>3, <1>1, <1>10, <1>12 DEF Files, LogInv, LossSound
  <2> QED
    BY <1>1, <2>1, <2>2, <2>3, <2>4 DEF LossSound
<1>20. DiskSound'
  BY <1>1, <1>5, <1>11, <1>13 DEF LogInv, DiskSound, Taken
<1>21. FilesComplete'
  BY <1>3, <1>4, <1>1, <1>12, <1>11, <1>13 DEF Counters, LogInv, FilesComplete
<1>22. EventsSound'
  BY <1>1, <1>3, <1>4, <1>6, <1>5 DEF Up, Counters, LogInv, EventsSound, Taken
<1>23. ReaderSound'
  <2>1. life \in Up
    BY <1>1 DEF Up
  <2>2. coverage.state = "partial" => coverage'.state = "partial"
    BY <1>1, <1>6
  <2>3. stateLeaf'.clean => \/ stateLeaf.clean /\ stateLeaf'.gen = stateLeaf.gen /\ stateLeaf'.partial = stateLeaf.partial
                            \/ /\ life \in Up /\ stateLeaf'.gen = generation
                               /\ coverage.state = "partial" => stateLeaf'.partial
    BY <1>1, <1>8, <1>10, <1>12, <2>1, <2>2
  <2>4. spent'.gens >= spent.gens
    BY <1>3, <1>4
  <2> QED
    BY <1>1, <1>4, <2>1, <2>2, <2>3, <2>4, ReaderStands
<1> QED
  BY <1>13, <1>14, <1>15, <1>16, <1>17, <1>18, <1>19, <1>20, <1>21, <1>22, <1>23 DEF LogInv

-----------------------------------------------------------------------------
(* openStorage *)

\* Natural numbers below a bound have a greatest one among them.
LEMMA GreatestNumber ==
  ASSUME NEW S \in SUBSET Nat, S # {}, NEW b \in Nat, \A k \in S : k <= b
  PROVE  Max(S) \in S /\ \A k \in S : k <= Max(S)
<1> DEFINE B == {m \in Nat : \A k \in S : k <= m}
<1>1. B \in SUBSET Nat /\ B # {}
  OBVIOUS
<1>2. PICK m \in Nat : m = Min(B) /\ m \in B /\ \A x \in B : m <= x
  BY <1>1, LeastNumber
<1>3. m \in S
  <2> SUFFICES ASSUME m \notin S PROVE FALSE
    OBVIOUS
  <2>1. \A k \in S : k <= m /\ k # m /\ k \in Nat
    BY <1>2
  <2>2. PICK k \in S : TRUE
    OBVIOUS
  <2>3. m - 1 \in Nat
    BY <2>1, <2>2
  <2>4. \A x \in S : x <= m - 1
    BY <1>2, <2>1
  <2>5. m - 1 \in B
    BY <2>3, <2>4
  <2> QED
    BY <1>2, <2>3, <2>5
<1>4. \A k \in S : k <= m
  BY <1>2
<1>5. \A y \in S : m >= y
  BY <1>4
<1>6. Max(S) \in S /\ \A y \in S : Max(S) >= y
  BY <1>3, <1>5 DEF Max
<1> QED
  BY <1>6

\* The highest number in the files.
LEMMA ObservedIs ==
  ASSUME LogInv
  PROVE  /\ Observed \in Nat /\ \A e \in OnDisk : e.seq <= Observed
         /\ Observed = 0 \/ \E e \in OnDisk : e.seq = Observed
<1> DEFINE S == {0} \union {e.seq : e \in OnDisk}
<1>1. OnDisk \subseteq Entries
  BY OnDiskIs DEF LogInv, FilesTyped
<1>2. PICK b \in Nat : \A e \in OnDisk : e.seq <= b
  BY DEF LogInv, DiskSound
<1>3. S \in SUBSET Nat /\ S # {}
  BY <1>1 DEF Entries
<1>4. \A k \in S : k <= b
  BY <1>2
<1>5. Max(S) \in S /\ \A k \in S : k <= Max(S)
  BY <1>3, <1>4, GreatestNumber
<1>6. Observed = Max(S)
  BY DEF Observed
<1> QED
  BY <1>3, <1>5, <1>6

\* What the files hold is bounded by their number and their size.
LEMMA CountOnDisk ==
  ASSUME LogInv
  PROVE  IsFiniteSet(OnDisk) /\ Cardinality(OnDisk) <= Slots * SegmentSize
<1>1. Slots \in Nat /\ Slots > 0 /\ SegmentSize \in Nat
  BY LogBounds
<1> DEFINE P == Segments \X (1..SegmentSize)
           R == {x \in P : x[2] <= Len(segments[x[1]])}
           f == [x \in R |-> segments[x[1]][x[2]]]
<1>2. \A i \in Segments : segments[i] \in Seq(Entries) /\ Len(segments[i]) <= SegmentSize
  BY DEF LogInv, FilesTyped, Files
<1>3. IsFiniteSet(P) /\ Cardinality(P) = Slots * SegmentSize
  <2>1. IsFiniteSet(Segments) /\ Cardinality(Segments) = Slots
    BY <1>1, FS_Interval DEF Segments
  <2>2. IsFiniteSet(1..SegmentSize) /\ Cardinality(1..SegmentSize) = SegmentSize
    BY <1>1, FS_Interval
  <2> QED
    BY <2>1, <2>2, FS_Product
<1>4. IsFiniteSet(R) /\ Cardinality(R) <= Cardinality(P)
  BY <1>3, FS_Subset
<1>5. f \in Surjection(R, OnDisk)
  <2>1. f \in [R -> OnDisk]
    BY <1>2 DEF ToSet, OnDisk
  <2>2. \A e \in OnDisk : \E x \in R : f[x] = e
    <3> SUFFICES ASSUME NEW e \in OnDisk PROVE \E x \in R : segments[x[1]][x[2]] = e
      OBVIOUS
    <3>1. PICK i \in Segments : e \in ToSet(segments[i])
      BY DEF OnDisk
    <3>2. PICK k \in 1..Len(segments[i]) : e = segments[i][k]
      BY <1>2, <3>1 DEF ToSet
    <3>3. k \in 1..SegmentSize
      BY <1>1, <1>2, <3>2
    <3>4. <<i, k>> \in R
      BY <3>2, <3>3
    <3> QED
      BY <3>2, <3>4
  <2> QED
    BY <2>1, <2>2 DEF Surjection
<1>6. IsFiniteSet(OnDisk) /\ Cardinality(OnDisk) <= Cardinality(R)
  BY <1>4, <1>5, FS_Surjection
<1>7. Cardinality(OnDisk) \in Nat /\ Cardinality(R) \in Nat /\ Cardinality(P) \in Nat
  BY <1>3, <1>4, <1>6, FS_CardinalityType
<1> HIDE DEF P, R
<1>8. Cardinality(OnDisk) <= Cardinality(P)
  BY <1>4, <1>6, <1>7
<1> QED
  BY <1>3, <1>6, <1>8

\* What openStorage says: a generation of its own unless the leaf was sealed, and
\* partial coverage if anything may be missing.
Fresh == ~stateLeaf.found \/ Unclean

\* The state that openStorage publishes.
LEMMA RecoveredIs ==
  ASSUME LogInv
  PROVE  /\ Recovered \in Metas /\ Recovered.found /\ ~Recovered.clean /\ ~Recovered.torn
         /\ Fresh => Recovered.gen = spent.gens + 1
         /\ ~Fresh => stateLeaf.clean /\ Recovered.gen = stateLeaf.gen /\ stateLeaf.gen # 0
         /\ stateLeaf.seq <= Recovered.seq /\ Observed <= Recovered.seq
         /\ (stateLeaf.partial \/ NewLoss \/ Unclean) => Recovered.partial
<1>1. /\ stateLeaf \in Metas /\ spent.gens \in Nat /\ stateLeaf.gen \in Nat /\ stateLeaf.seq \in Nat /\ stateLeaf.epoch \in Nat
      /\ Observed \in Nat
  BY ObservedIs DEF LogInv, FilesTyped, GhostsTyped, Counters, Metas
<1>2. PICK g \in Nat : g = IF Fresh THEN spent.gens + 1 ELSE stateLeaf.gen
  BY <1>1
<1>3. PICK q \in Nat : q = Max({stateLeaf.seq, Observed}) /\ stateLeaf.seq <= q /\ Observed <= q
  <2>1. PICK b \in Nat : stateLeaf.seq <= b /\ Observed <= b
    BY <1>1
  <2>2. /\ Max({stateLeaf.seq, Observed}) \in {stateLeaf.seq, Observed}
        /\ \A k \in {stateLeaf.seq, Observed} : k <= Max({stateLeaf.seq, Observed})
    BY <1>1, <2>1, GreatestNumber
  <2> QED
    BY <1>1, <2>2
<1>4. PICK ep \in Nat : ep = IF Fresh \/ NewLoss THEN stateLeaf.epoch + 1 ELSE stateLeaf.epoch
  BY <1>1
<1>5. PICK pa \in BOOLEAN : pa = (stateLeaf.partial \/ NewLoss \/ (Fresh /\ (Unclean \/ OnDisk # {})))
  OBVIOUS
<1>6. Recovered = Meta(g, q, ep, pa, FALSE)
  BY <1>2, <1>3, <1>4, <1>5 DEF Recovered, Fresh
<1>7. /\ Recovered \in Metas /\ Recovered.found /\ ~Recovered.clean /\ ~Recovered.torn
      /\ Recovered.gen = g /\ Recovered.seq = q /\ Recovered.partial = pa
  BY <1>6 DEF Meta, Metas
<1>8. (stateLeaf.partial \/ NewLoss \/ Unclean) => pa
  BY <1>5 DEF Fresh
<1>9. ~Fresh => stateLeaf.clean /\ stateLeaf.gen # 0
  BY <1>1 DEF Fresh, Unclean, LogInv, LifeSound
<1> QED
  BY <1>2, <1>3, <1>7, <1>8, <1>9

\* An event the files miss, below or between what they have, is told.
LEMMA MissingIsTold ==
  ASSUME LogInv, ~Fresh, NEW p \in published, p.gen = stateLeaf.gen, Entry(p.seq, p.id) \notin OnDisk,
         OnDisk = {} \/ \E e \in OnDisk : e.seq <= p.seq
  PROVE  Recovered.partial /\ spent.faults > 0
<1>1. stateLeaf.clean /\ (stateLeaf.partial \/ NewLoss => Recovered.partial)
  BY RecoveredIs
<1>2. p \in Publications /\ OnDisk \subseteq Entries /\ spent.faults \in Nat /\ stateLeaf.seq \in Nat
  BY OnDiskIs DEF LogInv, GhostsTyped, FilesTyped, Counters, Metas
<1>3. p.seq \in Nat /\ p.seq > 0 /\ \A e \in OnDisk : e.seq \in Nat
  BY <1>2 DEF Publications, Entries
<1>4. spent.faults > 0
  <2>1. ASSUME spent.faults = 0 PROVE FALSE
    BY <1>1, <2>1, <1>3 DEF LogInv, FilesComplete
  <2> QED
    BY <1>2, <2>1
<1>5. p.seq <= stateLeaf.seq
  BY <1>1 DEF LogInv, NumbersSound
<1>6. \A e \in OnDisk : e.seq # p.seq
  BY <1>2 DEF LogInv, DiskSound, Entry, Entries
<1>7. CASE \A e \in OnDisk : e.seq <= p.seq
  <2>1. Observed < p.seq /\ Observed \in Nat
    BY <1>3, <1>6, <1>7, ObservedIs
  <2>2. Behind
    BY <1>1, <1>2, <1>3, <1>5, <2>1 DEF Behind
  <2> QED
    BY <1>1, <1>4, <2>2 DEF NewLoss
<1>8. CASE \E e \in OnDisk : e.seq > p.seq
  <2>1. PICK d \in OnDisk : d.seq < p.seq
    <3>1. \E e \in OnDisk : e.seq <= p.seq
      BY <1>8
    <3>2. PICK e \in OnDisk : e.seq <= p.seq
      BY <3>1
    <3> QED
      BY <1>3, <1>6, <3>2
  <2> DEFINE S == {e.seq : e \in {x \in OnDisk : x.seq > p.seq}}
  <2>2. S \in SUBSET Nat /\ S # {}
    BY <1>3, <1>8
  <2>3. PICK m \in S : \A k \in S : m <= k
    BY <2>2, LeastNumber
  <2>4. PICK e \in OnDisk : e.seq = m /\ e.seq > p.seq
    BY <2>3
  <2>5. \A x \in OnDisk : x.seq > p.seq => e.seq <= x.seq
    BY <2>3, <2>4
  <2> HIDE DEF S
  <2>6. \A x \in OnDisk : x.seq + 1 # e.seq
    <3> SUFFICES ASSUME NEW x \in OnDisk, x.seq + 1 = e.seq PROVE FALSE
      OBVIOUS
    <3>1. x.seq \in Nat /\ e.seq \in Nat /\ p.seq \in Nat /\ x.seq # p.seq /\ e.seq > p.seq
      BY <1>3, <1>6, <2>4
    <3>2. x.seq > p.seq
      BY <3>1
    <3>3. e.seq <= x.seq
      BY <2>5, <3>2
    <3> QED
      BY <3>1, <3>3
  <2>7. d.seq < e.seq
    BY <1>3, <2>1, <2>4
  <2>8. Gap
    BY <2>6, <2>7 DEF Gap
  <2> QED
    BY <1>1, <1>4, <2>8 DEF NewLoss
<1>9. \/ \A e \in OnDisk : e.seq <= p.seq
      \/ \E e \in OnDisk : e.seq > p.seq
  BY <1>3
<1> QED
  BY <1>7, <1>8, <1>9

\* The ledger is opened: what is missing from the files is told by coverage.
LEMMA OpenStorageStep ==
  ASSUME LogInv, OpenStorage
  PROVE  LogInv'
<1>1. /\ life = "initializing" /\ state' = Recovered /\ stateLeaf' = Recovered /\ life' = "running" /\ stored' = TRUE
      /\ generation' = Recovered.gen /\ sequence' = Recovered.seq /\ events' = OnDisk
      /\ pendingLoss' = 0
      /\ spent' = [spent EXCEPT !.gens = IF Recovered.gen > @ THEN @ + 1 ELSE @]
      /\ first' = (IF Unclean THEN 2 ELSE 1)
      /\ UNCHANGED <<backlog, writing, storageFailed, unwound, reserved, segments, manifest, reader, published, lost>>
  BY DEF OpenStorage
<1>2. coverage' = [state |-> IF Recovered.partial \/ pendingLoss > 0 \/ coverage.state = "partial" THEN "partial" ELSE "ready",
                   epoch |-> Folded(coverage).epoch + Recovered.epoch]
  BY DEF OpenStorage
<1>3. /\ spent \in Counters /\ spent.gens \in Nat /\ spent.faults \in Nat /\ coverage \in Coverages /\ pendingLoss \in Nat
      /\ published \subseteq Publications /\ OnDisk \subseteq Entries /\ stateLeaf \in Metas /\ stateLeaf.gen \in Nat
      /\ stateLeaf.seq \in Nat
  BY OnDiskIs DEF LogInv, GhostsTyped, MemoryTyped, FilesTyped, Counters, Metas
<1>4. /\ Recovered \in Metas /\ Recovered.found /\ ~Recovered.clean /\ ~Recovered.torn
      /\ (Fresh => Recovered.gen = spent.gens + 1)
      /\ (~Fresh => stateLeaf.clean /\ Recovered.gen = stateLeaf.gen /\ stateLeaf.gen # 0)
      /\ stateLeaf.seq <= Recovered.seq /\ Observed <= Recovered.seq
      /\ (stateLeaf.partial \/ NewLoss \/ Unclean => Recovered.partial)
  BY RecoveredIs
<1>5. Recovered.gen \in Nat /\ Recovered.seq \in Nat /\ Recovered.epoch \in Nat
  BY <1>4 DEF Metas
<1>6. ~stored /\ writing = NoEvent /\ events = {} /\ stateLeaf.gen <= spent.gens
      /\ \A p \in published : p.gen <= spent.gens
  BY <1>1 DEF LogInv, LifeSound, Up
<1>7. coverage' \in Coverages /\ coverage'.state # "initializing" /\ (Recovered.partial => coverage'.state = "partial")
  <2>1. Folded(coverage).epoch + Recovered.epoch \in Nat
    BY <1>3, <1>5, FoldedIs DEF Coverages
  <2>2. PICK w \in {"partial", "ready"} :
          w = IF Recovered.partial \/ pendingLoss > 0 \/ coverage.state = "partial" THEN "partial" ELSE "ready"
    OBVIOUS
  <2>3. coverage' = [state |-> w, epoch |-> Folded(coverage).epoch + Recovered.epoch]
    BY <1>2, <2>2
  <2> QED
    BY <2>1, <2>2, <2>3 DEF Coverages
<1>8. spent' \in Counters /\ spent'.faults = spent.faults /\ spent'.gens >= spent.gens /\ generation' <= spent'.gens
      /\ generation' # 0
  <2>1. PICK g \in Nat : g = IF Recovered.gen > spent.gens THEN spent.gens + 1 ELSE spent.gens
    BY <1>3
  <2>2. spent' = [spent EXCEPT !.gens = g]
    BY <1>1, <2>1
  <2>3. spent' \in Counters /\ spent'.faults = spent.faults /\ spent'.gens = g
    BY <1>3, <2>1, <2>2 DEF Counters
  <2>4. Recovered.gen <= g /\ g >= spent.gens /\ Recovered.gen # 0
    BY <1>3, <1>4, <1>5, <1>6, <2>1
  <2> QED
    BY <1>1, <2>3, <2>4
<1>9. \A p \in published : p.gen = generation' => ~Fresh /\ p.gen = stateLeaf.gen /\ p.seq <= stateLeaf.seq
  BY <1>3, <1>6, <1>1, <1>4 DEF Publications, LogInv, NumbersSound
<1>10. RingSound' /\ OnDisk' = OnDisk
  BY <1>1 DEF OnDisk, LogInv, RingSound, Ring
<1>11. MemoryTyped'
  BY <1>1, <1>3, CountOnDisk, <1>5, <1>4, <1>7 DEF Up, LogInv, MemoryTyped
<1>12. FilesTyped' /\ GhostsTyped'
  BY <1>1, <1>4, <1>8 DEF LogInv, FilesTyped, GhostsTyped
<1>13. LifeSound'
  BY <1>3, <1>6, <1>8, <1>1, <1>4, <1>7 DEF Publications, Counters, LifeSound, Up
<1>14. WritingSound'
  BY <1>1, <1>6 DEF WritingSound
\* The numbers so far are below the next one.
<1>15. /\ \A e \in OnDisk : Taken(e.seq)'
       /\ \A p \in published : p.gen = generation' => Taken(p.seq)'
  <2>1. \A e \in OnDisk : e.seq <= sequence'
    BY <1>3, ObservedIs, <1>1, <1>4, <1>5 DEF Entries
  <2>2. \A p \in published : p.gen = generation' => p.seq <= sequence'
    BY <1>1, <1>3, <1>4, <1>5, <1>9 DEF Publications
  <2> QED
    BY <1>1, <1>6, <2>1, <2>2 DEF Taken
<1>16. NumbersSound'
  BY <1>1, <1>4, <1>15 DEF LogInv, NumbersSound, NumbersAreUnique
<1>17. LossSound'
  <2>1. lost => coverage'.state = "partial"
    BY <1>6, <1>4, <1>7 DEF LogInv, LossSound, FilesTell, NewLoss, Differs, Unclean
  <2> QED
    BY <1>1, <1>4, <2>1 DEF LossSound
<1>18. DiskSound'
  BY <1>1, <1>9, <1>10, <1>15 DEF LogInv, DiskSound
<1>19. FilesComplete'
  BY <1>1, <1>4, <1>8, <1>9, <1>10 DEF LogInv, FilesComplete
<1>20. EventsSound'
  <2>1. \A e, d \in events' : e.seq = d.seq => e = d
    BY <1>1 DEF LogInv, DiskSound
  <2>2. ASSUME NEW p \in published, p.gen = generation', Entry(p.seq, p.id) \notin events',
               events' = {} \/ \E e \in events' : e.seq <= p.seq
        PROVE  coverage'.state = "partial" /\ spent'.faults > 0
    BY <1>9, <2>2, <1>1, MissingIsTold, <1>7, <1>8
  <2> QED
    BY <1>1, <1>15, <2>1, <2>2 DEF EventsSound
<1>21. ReaderSound'
  BY <1>1, <1>3, <1>4, <1>7, <1>8, ReaderStands
<1> QED
  BY <1>10, <1>11, <1>12, <1>13, <1>14, <1>16, <1>17, <1>18, <1>19, <1>20, <1>21 DEF LogInv

-----------------------------------------------------------------------------
(* storage.append *)

\* The last number of a segment.
LEMMA LastSeqIs ==
  ASSUME NEW s \in Seq(Entries)
  PROVE  LastSeq(s) \in Nat /\ (s = <<>> => LastSeq(s) = 0)
         /\ (s # <<>> => LastSeq(s) > 0 /\ \E e \in ToSet(s) : e.seq = LastSeq(s))
<1>1. CASE s = <<>>
  BY <1>1 DEF LastSeq
<1>2. CASE s # <<>>
  <2>1. Len(s) \in DOMAIN s /\ s[Len(s)] \in Entries
    BY <1>2
  <2> QED
    BY <1>2, <2>1 DEF LastSeq, ToSet, Entries
<1> QED
  BY <1>1, <1>2

\* The segment that takes the next event is the newest of the ring.
LEMMA SlotIs ==
  ASSUME LogInv
  PROVE  Slot \in Segments /\ Ring(Slot)
<1>1. \A i \in Segments : segments[i] \in Seq(Entries)
  BY DEF LogInv, FilesTyped, Files
<1>2. \A i \in Segments : /\ LastSeq(segments[i]) \in Nat
                          /\ segments[i] = <<>> => LastSeq(segments[i]) = 0
                          /\ segments[i] # <<>> => /\ LastSeq(segments[i]) > 0
                                                   /\ \E e \in ToSet(segments[i]) : e.seq = LastSeq(segments[i])
  BY <1>1, LastSeqIs
<1>3. Slot \in Segments /\ \A j \in Segments : LastSeq(segments[j]) <= LastSeq(segments[Slot])
  <2> DEFINE S == {LastSeq(segments[i]) : i \in Segments}
  <2>1. PICK b \in Nat : \A e \in OnDisk : e.seq <= b
    BY DEF LogInv, DiskSound
  <2>2. \A k \in S : k <= b
    <3> SUFFICES ASSUME NEW i \in Segments PROVE LastSeq(segments[i]) <= b
      OBVIOUS
    <3>1. CASE segments[i] = <<>>
      BY <1>2, <2>1, <3>1
    <3>2. CASE segments[i] # <<>>
      <4>1. PICK e \in ToSet(segments[i]) : e.seq = LastSeq(segments[i])
        BY <1>2, <3>2
      <4>2. e \in OnDisk
        BY <4>1 DEF OnDisk
      <4> QED
        BY <2>1, <4>1, <4>2
    <3> QED
      BY <3>1, <3>2
  <2>3. S \in SUBSET Nat /\ S # {}
    BY <1>2, LogBounds DEF Segments
  <2>4. Max(S) \in S /\ \A k \in S : k <= Max(S)
    BY <2>1, <2>2, <2>3, GreatestNumber
  <2>5. \E i \in Segments : \A j \in Segments : LastSeq(segments[j]) <= LastSeq(segments[i])
    BY <2>4
  <2> QED
    BY <2>5 DEF Slot
<1>4. PICK t \in Segments : Ring(t)
  BY DEF LogInv, RingSound
<1>5. PICK s \in Segments : s = Slot
  BY <1>3
<1>6. \A j \in Segments : Place(t, s) < Place(t, j) => segments[j] = <<>>
  <2> SUFFICES ASSUME NEW j \in Segments, Place(t, s) < Place(t, j), segments[j] # <<>> PROVE FALSE
    OBVIOUS
  <2>1. PICK d \in ToSet(segments[j]) : d.seq = LastSeq(segments[j]) /\ d.seq > 0
    BY <1>2
  <2>2. LastSeq(segments[j]) <= LastSeq(segments[s])
    BY <1>3, <1>5
  <2>3. segments[s] # <<>>
    BY <1>2, <2>1, <2>2
  <2>4. PICK e \in ToSet(segments[s]) : e.seq = LastSeq(segments[s])
    BY <1>2, <2>3
  <2>5. e.seq < d.seq
    BY <1>4, <2>1, <2>4 DEF Ring
  <2> QED
    BY <1>2, <2>1, <2>2, <2>4, <2>5
<1>7. ASSUME NEW i \in Segments, NEW j \in Segments, Place(s, i) < Place(s, j),
             ~(Place(t, s) < Place(t, i)), ~(Place(t, s) < Place(t, j))
      PROVE  Place(t, i) < Place(t, j)
  BY <1>7, LogBounds DEF Place, Segments
<1>8. Ring(s)
  BY <1>6, <1>7, <1>4 DEF Ring, ToSet
<1> QED
  BY <1>5, <1>8

\* The segment after the last is the first; the one after the newest is the oldest.
LEMMA IntoIs ==
  ASSUME LogInv
  PROVE  /\ Into \in Segments /\ (~Rotates => Into = Slot)
         /\ Rotates => \A j \in Segments : j # Into => Place(Slot, Into) < Place(Slot, j)
         /\ \A i, j \in Segments : i # Into /\ Place(Into, i) < Place(Into, j) => j = Into \/ Place(Slot, i) < Place(Slot, j)
         /\ \A j \in Segments : ~(Place(Into, Into) < Place(Into, j))
<1>1. PICK s \in Segments : s = Slot
  BY SlotIs
<1>2. s \in Nat /\ s < Slots /\ Slots \in Nat /\ Slots > 1
  BY LogBounds DEF Segments
<1>3. (s + 1) % Slots = IF s = Slots - 1 THEN 0 ELSE s + 1
  BY <1>2
<1>4. CASE Rotates
  <2>1. PICK n \in Segments : n = Into /\ n = IF s = Slots - 1 THEN 0 ELSE s + 1
    BY <1>1, <1>2, <1>3, <1>4 DEF Into, Segments
  <2>2. \A j \in Segments : j # n => Place(s, n) < Place(s, j)
    BY <1>2, <2>1 DEF Place, Segments
  <2>3. \A i, j \in Segments : i # n /\ Place(n, i) < Place(n, j) => j = n \/ Place(s, i) < Place(s, j)
    BY <1>2, <2>1 DEF Place, Segments
  <2>4. \A j \in Segments : ~(Place(n, n) < Place(n, j))
    BY <1>2, <2>1 DEF Place, Segments
  <2> QED
    BY <1>1, <1>4, <2>1, <2>2, <2>3, <2>4
<1>5. CASE ~Rotates
  BY <1>1, <1>5, <1>2 DEF Into, Place, Segments
<1> QED
  BY <1>4, <1>5

\* The segments once the oldest has given way, if the newest was full.
LEMMA EmptiedIs ==
  ASSUME LogInv
  PROVE  /\ Emptied \in Files /\ Len(Emptied[Into]) < SegmentSize
         /\ \A j \in Segments : Len(Emptied[j]) <= SegmentSize
         /\ \A j \in Segments : j # Into => Emptied[j] = segments[j]
         /\ ToSet(Emptied[Into]) \subseteq ToSet(segments[Into])
         /\ ~Rotates => Emptied = segments
<1>1. segments \in Files /\ \A j \in Segments : segments[j] \in Seq(Entries) /\ Len(segments[j]) <= SegmentSize
  BY DEF LogInv, FilesTyped, Files
<1>2. PICK n \in Segments : n = Into /\ (~Rotates => n = Slot)
  BY IntoIs
<1>3. SegmentSize \in Nat /\ SegmentSize > 0
  BY LogBounds
<1>4. CASE Rotates
  <2>1. Emptied = [segments EXCEPT ![n] = <<>>]
    BY <1>2, <1>4 DEF Emptied
  <2>2. Emptied[n] = <<>> /\ \A j \in Segments : j # n => Emptied[j] = segments[j]
    BY <1>1, <2>1 DEF Files
  <2>3. <<>> \in Seq(Entries) /\ Len(<<>>) = 0 /\ ToSet(<<>>) = {}
    BY DEF ToSet
  <2>4. Emptied \in Files
    BY <1>1, <2>1, <2>3 DEF Files
  <2>5. \A j \in Segments : Len(Emptied[j]) <= SegmentSize
    BY <1>1, <1>3, <2>2, <2>3
  <2>6. Len(Emptied[n]) < SegmentSize /\ ToSet(Emptied[n]) \subseteq ToSet(segments[n])
    BY <1>3, <2>2, <2>3
  <2> QED
    BY <1>2, <1>4, <2>2, <2>4, <2>5, <2>6
<1>5. CASE ~Rotates
  BY <1>5, <1>1, <1>2, <1>3 DEF Emptied, Rotates
<1> QED
  BY <1>4, <1>5

\* An append keeps the ring in order, and drops nothing but the oldest.
AppendsTo(e) ==
    /\ \A x \in OnDisk : x.seq < e.seq
    /\ segments' = Emptied \/ segments' = [Emptied EXCEPT ![Into] = Append(@, e)]

\* Where the entry goes, and what gives way to it.
LEMMA AppendIs ==
  ASSUME LogInv, NEW e \in Entries, AppendsTo(e)
  PROVE  /\ segments' \in Files /\ \A j \in Segments : Len(segments'[j]) <= SegmentSize
         /\ RingSound' /\ OnDisk' \subseteq OnDisk \union {e}
         /\ \A x \in OnDisk \ OnDisk' : \A d \in OnDisk' : x.seq < d.seq
         /\ segments' = [Emptied EXCEPT ![Into] = Append(@, e)] => e \in OnDisk'
<1>1. PICK n \in Segments : n = Into
  BY IntoIs
<1>2. /\ Emptied \in Files /\ Len(Emptied[n]) < SegmentSize
      /\ \A j \in Segments : Len(Emptied[j]) <= SegmentSize
      /\ \A j \in Segments : j # n => Emptied[j] = segments[j]
      /\ ToSet(Emptied[n]) \subseteq ToSet(segments[n])
      /\ ~Rotates => Emptied = segments
  BY <1>1, EmptiedIs
<1>3. /\ Rotates => \A j \in Segments : j # n => Place(Slot, n) < Place(Slot, j)
      /\ \A i, j \in Segments : i # n /\ Place(n, i) < Place(n, j) => j = n \/ Place(Slot, i) < Place(Slot, j)
      /\ \A j \in Segments : ~(Place(n, n) < Place(n, j))
  BY <1>1, IntoIs
<1>4. PICK s \in Segments : s = Slot /\ Ring(s)
  BY SlotIs
<1>5. SegmentSize \in Nat /\ Emptied[n] \in Seq(Entries) /\ Len(Emptied[n]) \in Nat
  BY <1>2, LogBounds DEF Files
<1>6. /\ Append(Emptied[n], e) \in Seq(Entries) /\ Len(Append(Emptied[n], e)) = Len(Emptied[n]) + 1
      /\ ToSet(Append(Emptied[n], e)) = ToSet(Emptied[n]) \union {e}
  <2>1. /\ Append(Emptied[n], e) \in Seq(Entries) /\ Len(Append(Emptied[n], e)) = Len(Emptied[n]) + 1
        /\ \A k \in 1..Len(Emptied[n]) : Append(Emptied[n], e)[k] = Emptied[n][k]
        /\ Append(Emptied[n], e)[Len(Emptied[n]) + 1] = e
    BY <1>5
  <2>2. /\ DOMAIN Append(Emptied[n], e) = 1..(Len(Emptied[n]) + 1)
        /\ DOMAIN Emptied[n] = 1..Len(Emptied[n])
    BY <1>5, <2>1
  <2>3. 1..(Len(Emptied[n]) + 1) = 1..Len(Emptied[n]) \union {Len(Emptied[n]) + 1}
    BY <1>5
  <2> QED
    BY <2>1, <2>2, <2>3 DEF ToSet
<1>7. /\ segments' \in Files /\ \A j \in Segments : Len(segments'[j]) <= SegmentSize
      /\ \A j \in Segments : j # n => segments'[j] = segments[j]
      /\ ToSet(segments'[n]) \subseteq ToSet(Emptied[n]) \union {e}
      /\ ToSet(Emptied[n]) \subseteq ToSet(segments'[n])
      /\ segments' = [Emptied EXCEPT ![n] = Append(@, e)] => e \in ToSet(segments'[n])
  <2>1. CASE segments' = Emptied
    BY <1>2, <1>6, <2>1 DEF Files
  <2>2. CASE segments' = [Emptied EXCEPT ![n] = Append(@, e)]
    <3>1. /\ segments'[n] = Append(Emptied[n], e)
          /\ \A j \in Segments : j # n => segments'[j] = Emptied[j]
      BY <1>2, <2>2 DEF Files
    <3>2. segments' \in Files
      BY <1>2, <1>6, <2>2 DEF Files
    <3>3. \A j \in Segments : Len(segments'[j]) <= SegmentSize
      BY <1>2, <1>5, <1>6, <3>1
    <3> QED
      BY <1>2, <1>6, <3>1, <3>2, <3>3
  <2> QED
    BY <1>1, <2>1, <2>2 DEF AppendsTo
<1>8. OnDisk' \subseteq OnDisk \union {e}
  BY <1>2, <1>7 DEF OnDisk
<1>9. \A j \in Segments : \A x \in ToSet(segments[j]) : x \in OnDisk /\ x.seq < e.seq
  BY DEF AppendsTo, OnDisk
<1>10. RingSound'
  <2>1. ASSUME NEW i \in Segments, NEW j \in Segments, Place(n, i) < Place(n, j),
               NEW x \in ToSet(segments'[i]), NEW d \in ToSet(segments'[j])
        PROVE  x.seq < d.seq
    <3>1. i # n
      BY <1>3, <2>1
    <3>2. x \in ToSet(segments[i]) /\ x.seq < e.seq
      BY <1>7, <1>9, <3>1
    <3>3. CASE j = n /\ d = e
      BY <3>2, <3>3
    <3>4. CASE j = n /\ d \in ToSet(Emptied[n])
      <4>1. ~Rotates
        <5>1. ASSUME Rotates PROVE FALSE
          BY <1>1, <5>1, <3>4 DEF Emptied, LogInv, FilesTyped, Files, ToSet
        <5> QED
          BY <5>1
      <4>2. n = s /\ d \in ToSet(segments[s])
        BY <1>1, <1>2, <1>4, <3>4, <4>1, IntoIs
      <4> QED
        BY <1>4, <2>1, <3>2, <3>4, <4>2 DEF Ring
    <3>5. CASE j # n
      BY <1>3, <1>4, <1>7, <2>1, <3>1, <3>5, <3>2 DEF Ring
    <3> QED
      BY <1>7, <3>3, <3>4, <3>5
  <2>2. Ring(n)'
    BY <2>1 DEF Ring
  <2> QED
    BY <2>2 DEF RingSound
<1>11. \A x \in OnDisk \ OnDisk' : \A d \in OnDisk' : x.seq < d.seq
  <2> SUFFICES ASSUME NEW x \in OnDisk, x \notin OnDisk', NEW d \in OnDisk' PROVE x.seq < d.seq
    OBVIOUS
  <2>1. PICK i \in Segments : x \in ToSet(segments[i])
    BY DEF OnDisk
  <2>2. x \notin ToSet(segments'[i])
    BY DEF OnDisk
  <2>3. i = n
    BY <1>7, <2>1, <2>2
  <2>4. Rotates
    BY <1>2, <1>7, <2>1, <2>2, <2>3
  <2>5. Emptied[n] = <<>>
    BY <1>1, <2>4 DEF Emptied, LogInv, FilesTyped, Files
  <2>6. PICK j \in Segments : d \in ToSet(segments'[j])
    BY DEF OnDisk
  <2>7. CASE j = n
    <3>0. ToSet(Emptied[n]) = {}
      BY <2>5 DEF ToSet
    <3>1. d = e
      BY <1>7, <2>6, <2>7, <3>0
    <3> QED
      BY <1>9, <2>1, <3>1
  <2>8. CASE j # n
    BY <1>3, <1>4, <1>7, <2>4, <2>6, <2>8, <2>1, <2>3 DEF Ring
  <2> QED
    BY <2>7, <2>8
<1>12. segments' = [Emptied EXCEPT ![n] = Append(@, e)] => e \in OnDisk'
  BY <1>7 DEF OnDisk
<1> QED
  BY <1>1, <1>7, <1>8, <1>10, <1>11, <1>12

\* What is retained fits, has the new event, and drops nothing but the oldest.
LEMMA RetainedIs ==
  ASSUME LogInv, NEW e \in Entries, NEW evicted \in Nat, evicted < e.seq, \A x \in events : x.seq < e.seq
  PROVE  /\ e \in Retained(evicted, e) /\ Retained(evicted, e) \subseteq events \union {e}
         /\ IsFiniteSet(Retained(evicted, e)) /\ Cardinality(Retained(evicted, e)) <= Slots * SegmentSize
         /\ \A x \in events \ Retained(evicted, e) : \A d \in Retained(evicted, e) : x.seq < d.seq
<1>1. /\ events \subseteq Entries /\ IsFiniteSet(events)
      /\ \A x, y \in events : x.seq = y.seq => x = y
  BY DEF LogInv, MemoryTyped, EventsSound
<1>2. PICK N \in Nat : N = Slots * SegmentSize /\ N > 0
  BY LogBounds
<1> DEFINE kept == {x \in events : x.seq > evicted} \union {e}
           above(x) == {y \in kept : y.seq > x.seq}
           R == {x \in kept : Cardinality(above(x)) < N}
           f == [x \in R |-> Cardinality(above(x))]
<1>3. R = Retained(evicted, e)
  BY <1>2 DEF Retained
<1>4. IsFiniteSet(kept) /\ kept \subseteq events \union {e} /\ kept \subseteq Entries
  BY <1>1, FS_Subset, FS_AddElement
<1>5. \A x \in kept : x.seq \in Nat
  BY <1>4 DEF Entries
<1>6. \A x, y \in kept : x.seq = y.seq => x = y
  BY <1>1 DEF Entries
<1>7. \A x \in kept : IsFiniteSet(above(x)) /\ Cardinality(above(x)) \in Nat
  <2> SUFFICES ASSUME NEW x \in kept PROVE IsFiniteSet(above(x)) /\ Cardinality(above(x)) \in Nat
    OBVIOUS
  <2>1. above(x) \in SUBSET kept
    OBVIOUS
  <2> HIDE DEF kept, above
  <2> QED
    BY <1>4, <2>1, FS_Subset, FS_CardinalityType
\* The newer an event, the fewer are above it.
<1>8. \A x, y \in kept : x.seq < y.seq => Cardinality(above(y)) < Cardinality(above(x))
  <2> SUFFICES ASSUME NEW x \in kept, NEW y \in kept, x.seq < y.seq PROVE Cardinality(above(y)) < Cardinality(above(x))
    OBVIOUS
  <2>1. above(y) \in SUBSET above(x) /\ y \in above(x) /\ y \notin above(y)
    BY <1>5
  <2>2. IsFiniteSet(above(x)) /\ Cardinality(above(x)) \in Nat /\ Cardinality(above(y)) \in Nat
    BY <1>7
  <2> HIDE DEF above, kept
  <2>3. Cardinality(above(y)) <= Cardinality(above(x)) /\ Cardinality(above(x)) # Cardinality(above(y))
    BY <2>1, <2>2, FS_Subset
  <2> QED
    BY <2>2, <2>3
<1>9. e \in R
  BY <1>1, FS_EmptySet, <1>2 DEF Entries
<1>10. IsFiniteSet(R) /\ Cardinality(R) <= N
  <2>1. /\ IsFiniteSet(0..(N - 1))
        /\ Cardinality(0..(N - 1)) = N
    <3> HIDE DEF kept, R
    <3>0. 0 \in Int /\ N - 1 \in Int
      BY <1>2
    <3>1. /\ IsFiniteSet(0..(N - 1))
          /\ Cardinality(0..(N - 1)) = IF 0 > N - 1 THEN 0 ELSE (N - 1) - 0 + 1
      BY <3>0, FS_Interval
    <3> QED
      BY <1>2, <3>1
  <2>2. f \in Injection(R, 0..(N - 1))
    <3>1. f \in [R -> 0..(N - 1)]
      BY <1>2, <1>7
    <3>2. \A x, y \in R : f[x] = f[y] => x = y
      <4> SUFFICES ASSUME NEW x \in R, NEW y \in R, x # y PROVE f[x] # f[y]
        OBVIOUS
      <4>1. x \in kept /\ y \in kept /\ f[x] = Cardinality(above(x)) /\ f[y] = Cardinality(above(y))
        OBVIOUS
      <4>2. x.seq < y.seq \/ y.seq < x.seq
        BY <1>5, <1>6, <4>1
      <4>3. Cardinality(above(x)) \in Nat /\ Cardinality(above(y)) \in Nat
        BY <1>7, <4>1
      <4> HIDE DEF kept, above, f, R
      <4> QED
        BY <1>8, <4>1, <4>2, <4>3
    <3> HIDE DEF f, R
    <3> QED
      BY <3>1, <3>2 DEF Injection, IsInjective
  <2> HIDE DEF f, R
  <2> QED
    BY <2>1, <2>2, FS_Injection
<1>11. \A x \in events \ R : \A d \in R : x.seq < d.seq
  <2> SUFFICES ASSUME NEW x \in events, x \notin R, NEW d \in R PROVE x.seq < d.seq
    OBVIOUS
  <2>0. x.seq \in Nat /\ d.seq \in Nat /\ d \in kept /\ e.seq \in Nat /\ Cardinality(above(d)) < N
    BY <1>1, <1>5 DEF Entries
  <2>1. CASE x.seq <= evicted
    BY <1>1, <2>0, <2>1
  <2>2. CASE x.seq > evicted
    <3>1. x \in kept /\ ~(Cardinality(above(x)) < N)
      BY <2>2
    <3>2. x.seq # d.seq
      BY <1>6, <2>0, <3>1
    <3>3. ~(d.seq < x.seq)
      <4>1. ASSUME d.seq < x.seq PROVE FALSE
        <5>1. Cardinality(above(x)) < Cardinality(above(d))
          BY <1>8, <2>0, <3>1, <4>1
        <5>2. Cardinality(above(x)) \in Nat /\ Cardinality(above(d)) \in Nat
          BY <1>7, <2>0, <3>1
        <5> HIDE DEF kept, above, R
        <5> QED
          BY <1>2, <2>0, <3>1, <5>1, <5>2
      <4> QED
        BY <4>1
    <3> QED
      BY <2>0, <3>2, <3>3
  <2> QED
    BY <2>0, <2>1, <2>2
<1>12. R \subseteq events \union {e}
  BY <1>4
<1> HIDE DEF R
<1> QED
  BY <1>2, <1>3, <1>9, <1>10, <1>11, <1>12

\* An event is published: appended to the newest segment, or its loss is told.
LEMMA FinishWriteStep ==
  ASSUME LogInv, NEW result \in {"ok", "unreserved", "unwritten", "unmirrored"}, FinishWrite(result)
  PROVE  LogInv'
<1> DEFINE e == Entry(writing.seq, writing.id)
           ev == IF stored /\ Rotates /\ result # "unreserved" THEN LastSeq(segments[Into]) ELSE 0
           new == [gen |-> generation, seq |-> writing.seq, id |-> writing.id]
<1>1. /\ writing # NoEvent /\ writing' = NoEvent
      /\ events' = Retained(ev, e) /\ published' = published \union {new} /\ lost' = (lost \/ result # "ok")
      /\ coverage' = (IF result = "ok" THEN coverage ELSE LosesOne(coverage))
      /\ storageFailed' = (IF result = "ok" THEN storageFailed /\ ~stored ELSE TRUE)
      /\ backlog' = (IF writing.then = "queue" THEN Tail(backlog) ELSE backlog)
      /\ first' = (IF writing.then = "first" THEN first - 1 ELSE first)
      /\ life' = (IF writing.then = "seal" THEN "sealing" ELSE life)
      /\ UNCHANGED <<stored, pendingLoss, generation, sequence, unwound, manifest, reader>>
  BY DEF FinishWrite, Entry
<1>2. \/ result = "ok" /\ UNCHANGED spent
      \/ result # "ok" /\ stored /\ spent' = [spent EXCEPT !.faults = @ + 1]
  BY DEF FinishWrite
<1>3. IF stored /\ NeedsReserve /\ result # "unreserved"
      THEN state' = Reservation /\ stateLeaf' = Reservation /\ reserved' = Reservation.seq
      ELSE UNCHANGED <<state, stateLeaf, reserved>>
  BY DEF FinishWrite
<1>4. \/ (~stored \/ result = "unreserved") /\ segments' = segments
      \/ stored /\ result = "unwritten" /\ segments' = Emptied
      \/ stored /\ result \in {"ok", "unmirrored"} /\ segments' = [Emptied EXCEPT ![Into] = Append(@, e)]
  BY DEF FinishWrite
<1>5. /\ spent \in Counters /\ spent.faults \in Nat /\ spent.gens \in Nat /\ stateLeaf \in Metas /\ state \in Metas
      /\ segments \in Files /\ coverage \in Coverages /\ generation \in Nat /\ sequence \in Nat /\ pendingLoss \in Nat
      /\ writing \in Writings /\ writing.seq \in Nat \ {0} /\ writing.id \in Nat /\ writing.then \in {"first", "queue", "seal"}
      /\ events \subseteq Entries /\ published \subseteq Publications /\ reserved \in Nat
      /\ stored \in BOOLEAN /\ lost \in BOOLEAN /\ storageFailed \in BOOLEAN
  BY <1>1 DEF LogInv, GhostsTyped, FilesTyped, MemoryTyped, Counters, Writings
<1>6. /\ life \in {"running", "closing"} /\ writing.seq = sequence
      /\ (writing.then = "queue" => backlog # <<>>) /\ (writing.then = "first" => first > 0)
      /\ (writing.then = "seal" => life = "closing")
  BY <1>1 DEF LogInv, WritingSound
<1>7. /\ life \in Up /\ life' \in {"running", "closing", "sealing"} /\ life' \in Up
      /\ (life' \in {"closing", "sealing"} => pendingLoss = 0)
  BY <1>1, <1>6 DEF Up, LogInv, LifeSound
<1>8. /\ coverage.state # "initializing" /\ generation # 0 /\ generation <= spent.gens
      /\ (~stored => stateLeaf.gen < generation)
      /\ (stored => /\ stateLeaf.gen = generation /\ stateLeaf.found /\ ~stateLeaf.clean
                    /\ state.gen = generation /\ state.found /\ ~state.torn)
  BY <1>6, <1>7 DEF LogInv, LifeSound
<1>9. e \in Entries /\ e.seq = writing.seq /\ e.id = writing.id
  BY <1>5 DEF Entry, Entries
<1>10. new \in Publications /\ new.gen = generation /\ new.seq = writing.seq /\ new.id = writing.id
       /\ Entry(new.seq, new.id) = e
  BY <1>5, <1>8 DEF Publications
<1> HIDE DEF e, new
\* What is numbered so far comes before the event, and the event is the last.
<1>a. PICK w \in Nat : w = writing.seq
  BY <1>5
<1>11. /\ \A q \in Nat : Taken(q) => q < writing.seq /\ Taken(q)'
       /\ Taken(w)'
  BY <1>1, <1>6, <1>a, <1>5 DEF Taken
<1>12. /\ \A x \in events : x.seq \in Nat /\ Taken(x.seq)
       /\ stored => \A x \in OnDisk : Taken(x.seq)
       /\ OnDisk \subseteq Entries /\ \A x \in OnDisk : x.seq \in Nat
       /\ \A p \in published : p.seq \in Nat /\ (p.gen = generation => Taken(p.seq))
  BY <1>5, OnDiskIs, <1>7 DEF LogInv, EventsSound, DiskSound, NumbersSound, Entries, Publications
<1>13. /\ spent' \in Counters /\ spent'.gens = spent.gens /\ spent'.faults >= spent.faults
       /\ (result # "ok" => spent'.faults > 0) /\ (spent'.faults = 0 => spent.faults = 0)
       /\ (spent.faults > 0 => spent'.faults > 0)
  <2>1. CASE result = "ok" /\ UNCHANGED spent
    BY <1>5, <2>1
  <2>2. CASE result # "ok" /\ spent' = [spent EXCEPT !.faults = @ + 1]
    <3>1. spent' \in Counters /\ spent'.gens = spent.gens /\ spent'.faults = spent.faults + 1
      BY <1>5, <2>2, SpentIs
    <3> QED
      BY <1>5, <3>1
  <2> QED
    BY <1>2, <2>1, <2>2
<1>14. /\ coverage' \in Coverages /\ (coverage'.state = coverage.state \/ coverage'.state = "partial")
       /\ (result # "ok" => coverage'.state = "partial")
  BY <1>1, <1>5, FoldedIs
<1>15. /\ stateLeaf' \in Metas /\ state' \in Metas /\ reserved' \in Nat /\ stateLeaf'.gen = stateLeaf.gen
       /\ (stored => /\ stateLeaf'.found /\ ~stateLeaf'.clean
                     /\ state'.gen = generation /\ state'.found /\ ~state'.torn)
       /\ (~stored => UNCHANGED <<state, stateLeaf>>)
  <2>1. CASE stored /\ NeedsReserve /\ result # "unreserved"
    <3>1. writing.seq + Ahead \in Nat
      BY <1>5, LogBounds
    <3>2. Reservation = [[state EXCEPT !.seq = writing.seq + Ahead] EXCEPT !.clean = FALSE]
      BY <1>5 DEF Reservation, Metas
    <3>a. \A k \in Nat : /\ [state EXCEPT !.seq = k] \in Metas /\ [state EXCEPT !.seq = k].gen = state.gen
                          /\ [state EXCEPT !.seq = k].found = state.found /\ [state EXCEPT !.seq = k].torn = state.torn
      BY <1>5 DEF Metas
    <3>3. PICK m \in Metas : /\ m = [state EXCEPT !.seq = writing.seq + Ahead]
                             /\ m.gen = state.gen /\ m.found = state.found /\ m.torn = state.torn
      BY <3>1, <3>a
    <3>4. /\ [m EXCEPT !.clean = FALSE] \in Metas /\ [m EXCEPT !.clean = FALSE].gen = m.gen
          /\ [m EXCEPT !.clean = FALSE].found = m.found /\ [m EXCEPT !.clean = FALSE].torn = m.torn
          /\ ~[m EXCEPT !.clean = FALSE].clean
      BY <3>3 DEF Metas
    <3>5. /\ Reservation \in Metas /\ Reservation.gen = generation /\ Reservation.found /\ ~Reservation.torn
          /\ ~Reservation.clean
      BY <1>8, <2>1, <3>2, <3>3, <3>4
    <3>6. Reservation.seq \in Nat
      BY <3>5 DEF Metas
    <3> QED
      BY <1>3, <1>8, <2>1, <3>5, <3>6
  <2>2. CASE ~(stored /\ NeedsReserve /\ result # "unreserved")
    BY <1>3, <2>2, <1>5, <1>8
  <2> QED
    BY <2>1, <2>2
<1>16. /\ segments' \in Files /\ \A j \in Segments : Len(segments'[j]) <= SegmentSize
       /\ RingSound' /\ OnDisk' \subseteq OnDisk \union {e}
       /\ \A x \in OnDisk \ OnDisk' : \A d \in OnDisk' : x.seq < d.seq
       /\ stored /\ result = "ok" => e \in OnDisk'
       /\ ~stored => OnDisk' = OnDisk /\ segments' = segments
  <2>1. CASE segments' = segments /\ (~stored \/ result = "unreserved")
    BY <2>1 DEF OnDisk, LogInv, RingSound, Ring, FilesTyped
  <2>2. CASE stored /\ result \in {"unwritten", "ok", "unmirrored"}
             /\ (segments' = Emptied \/ segments' = [Emptied EXCEPT ![Into] = Append(@, e)])
             /\ (result = "ok" => segments' = [Emptied EXCEPT ![Into] = Append(@, e)])
    BY <1>9, <1>11, <1>12, <2>2, AppendIs DEF AppendsTo
  <2> QED
    BY <1>4, <2>1, <2>2
<1>17. /\ e \in events' /\ events' \subseteq events \union {e}
       /\ IsFiniteSet(events') /\ Cardinality(events') <= Slots * SegmentSize
       /\ \A x \in events \ events' : \A d \in events' : x.seq < d.seq
  <2>1. ev \in Nat /\ ev < e.seq
    <3>1. CASE stored
      <4>1. PICK n \in Segments : n = Into
        BY IntoIs
      <4>2. segments[n] \in Seq(Entries)
        BY <1>5 DEF Files
      <4>3. CASE segments[n] = <<>>
        BY <4>3, <1>5, <1>9, <4>1 DEF LastSeq
      <4>4. CASE segments[n] # <<>>
        <5>1. LastSeq(segments[n]) \in Nat /\ \E x \in ToSet(segments[n]) : x.seq = LastSeq(segments[n])
          BY <4>2, <4>4, LastSeqIs
        <5>2. PICK x \in OnDisk : x.seq = LastSeq(segments[n])
          BY <5>1 DEF OnDisk
        <5>3. LastSeq(segments[n]) < writing.seq
          BY <1>11, <1>12, <3>1, <5>2
        <5> QED
          BY <1>5, <1>9, <4>1, <5>1, <5>3
      <4> QED
        BY <4>3, <4>4
    <3>2. CASE ~stored
      BY <1>5, <1>9, <3>2
    <3> QED
      BY <3>1, <3>2
  <2>2. \A x \in events : x.seq < e.seq
    BY <1>9, <1>11, <1>12
  <2> HIDE DEF ev
  <2> QED
    BY <1>1, <1>9, <2>1, <2>2, RetainedIs
<1> HIDE DEF ev
<1>18. MemoryTyped'
  <2>1. backlog' \in Seq(Nat) /\ Len(backlog') <= MaxBacklog
    <3>1. backlog \in Seq(Nat) /\ Len(backlog) <= MaxBacklog /\ MaxBacklog \in Nat
      BY LogBounds DEF LogInv, MemoryTyped
    <3>2. CASE writing.then = "queue"
      BY <1>6, <3>1, <3>2, <1>1
    <3>3. CASE writing.then # "queue"
      BY <1>1, <3>1, <3>3
    <3> QED
      BY <3>2, <3>3
  <2>2. first' \in 0..2
    BY <1>1, <1>6 DEF LogInv, MemoryTyped
  <2>3. storageFailed' \in BOOLEAN
    BY <1>1, <1>5
  <2>4. events' \subseteq Entries
    BY <1>5, <1>9, <1>17
  <2>5. life' \in {"down", "initializing"} \union Up /\ writing' = NoEvent /\ unwound' \in BOOLEAN
    BY <1>1, <1>7 DEF LogInv, MemoryTyped
  <2> QED
    BY <1>1, <1>5, <1>14, <1>15, <1>17, <2>1, <2>2, <2>3, <2>4, <2>5 DEF MemoryTyped
<1>19. FilesTyped'
  BY <1>1, <1>15, <1>16 DEF LogInv, FilesTyped
<1>20. GhostsTyped'
  BY <1>1, <1>5, <1>10, <1>13 DEF LogInv, GhostsTyped
<1>21. LifeSound'
  <2>1. \A p \in published' : p.gen <= spent'.gens
    BY <1>1, <1>8, <1>10, <1>13 DEF LogInv, LifeSound
  <2>2. stateLeaf'.found => stateLeaf'.gen # 0
    BY <1>8, <1>15 DEF LogInv, LifeSound
  <2>3. stateLeaf'.gen <= spent'.gens
    BY <1>13, <1>15 DEF LogInv, LifeSound
  <2>4. stateLeaf'.clean => stateLeaf'.found /\ (stored' /\ coverage'.state = "partial" => stateLeaf'.partial)
    BY <1>1, <1>15 DEF LogInv, LifeSound
  <2> QED
    BY <1>1, <1>7, <1>8, <1>13, <1>14, <1>15, <2>1, <2>2, <2>3, <2>4 DEF LifeSound
<1>22. WritingSound'
  BY <1>1 DEF WritingSound
<1>23. NumbersSound'
  <2>1. NumbersAreUnique'
    BY <1>5, <1>11, <1>12, <1>1, <1>10 DEF NumbersAreUnique, LogInv, NumbersSound
  <2>2. \A p \in published' : p.gen = generation' => Taken(p.seq)'
    BY <1>1, <1>10, <1>a, <1>11, <1>12
  <2>3. stateLeaf'.clean => \A p \in published' : p.gen = stateLeaf'.gen => p.seq <= stateLeaf'.seq
    BY <1>15, <1>1, <1>5, <1>8, <1>10 DEF Metas, LogInv, NumbersSound
  <2> QED
    BY <2>1, <2>2, <2>3 DEF NumbersSound
<1>24. LossSound'
  <2>1. stored' /\ lost' => coverage'.state = "partial" \/ pendingLoss' > 0
    BY <1>1, <1>14 DEF LogInv, LossSound
  <2>2. ~stored /\ lost' => FilesTell'
    BY <1>1, <1>2, <1>15, <1>16 DEF LogInv, LossSound, FilesTell
  <2>3. stateLeaf'.clean => \A i \in Segments : Len(segments'[i]) <= Len(manifest'[i])
    BY <1>1, <1>15, <1>16 DEF LogInv, LossSound
  <2> QED
    BY <1>1, <1>7, <2>1, <2>2, <2>3 DEF LossSound
<1>25. DiskSound'
  <2>1. \E b \in Nat : \A x \in OnDisk' : x.seq <= b
    <3>1. PICK b \in Nat : \A x \in OnDisk : x.seq <= b
      BY DEF LogInv, DiskSound
    <3>2. \A x \in OnDisk' : x.seq <= b + writing.seq
      BY <1>5, <1>9, <1>12, <1>16, <3>1
    <3> QED
      BY <1>5, <3>2
  <2>2. stored' => \A x \in OnDisk' : Taken(x.seq)'
    BY <1>1, <1>9, <1>a, <1>11, <1>12, <1>16
  <2>3. \A x, d \in OnDisk' : x.seq = d.seq => x = d
    <3> SUFFICES ASSUME NEW x \in OnDisk', NEW d \in OnDisk', x.seq = d.seq PROVE x = d
      OBVIOUS
    <3>1. CASE x \in OnDisk /\ d \in OnDisk
      BY <3>1 DEF LogInv, DiskSound
    <3>2. CASE ~(x \in OnDisk /\ d \in OnDisk)
      BY <1>5, <1>11, <1>12, <1>9, <1>16, <3>2
    <3> QED
      BY <3>1, <3>2
  <2>4. \A x \in OnDisk', p \in published' : p.gen = stateLeaf'.gen /\ p.seq = x.seq => x.id = p.id
    <3> SUFFICES ASSUME NEW x \in OnDisk', NEW p \in published', p.gen = stateLeaf.gen, p.seq = x.seq
                 PROVE  x.id = p.id
      BY <1>15
    <3>1. CASE ~stored
      BY <1>1, <1>5, <1>8, <1>10, <1>16, <3>1 DEF Metas, LogInv, DiskSound
    <3>2. CASE stored
      <4>1. (\A y \in OnDisk : y.seq # writing.seq) /\ (\A y \in published : y.gen = generation => y.seq # writing.seq)
        BY <1>5, <1>11, <1>12, <3>2
      <4>2. CASE x \in OnDisk
        BY <1>1, <1>10, <4>1, <4>2 DEF LogInv, DiskSound
      <4>3. CASE x = e
        BY <1>1, <1>8, <1>9, <1>10, <3>2, <4>1, <4>3
      <4> QED
        BY <1>16, <4>2, <4>3
    <3> QED
      BY <3>1, <3>2
  <2> QED
    BY <2>1, <2>2, <2>3, <2>4 DEF DiskSound
<1>26. FilesComplete'
  <2> SUFFICES ASSUME spent'.faults = 0, stored' \/ stateLeaf'.clean,
                      NEW p \in published', p.gen = stateLeaf'.gen, Entry(p.seq, p.id) \notin OnDisk'
               PROVE  OnDisk' # {} /\ \A x \in OnDisk' : p.seq < x.seq
    BY DEF FilesComplete
  <2>1. result = "ok" /\ spent.faults = 0
    BY <1>13
  <2>2. CASE stored
    <3>1. e \in OnDisk'
      BY <1>16, <2>1, <2>2
    <3>2. p \in published /\ p.gen = generation
      BY <1>1, <1>8, <1>10, <1>15, <2>2, <3>1
    <3>3. p.seq < e.seq
      BY <1>9, <1>11, <1>12, <3>2
    <3>4. CASE Entry(p.seq, p.id) \in OnDisk
      BY <1>16, <3>4, <3>1 DEF Entry
    <3>5. CASE Entry(p.seq, p.id) \notin OnDisk
      BY <1>8, <2>1, <2>2, <3>2, <3>5, <1>16, <3>1, <3>3 DEF LogInv, FilesComplete
    <3> QED
      BY <3>4, <3>5
  <2>3. CASE ~stored
    BY <1>1, <1>15, <2>3, <1>5, <1>8, <1>10, <1>16, <2>1 DEF Metas, LogInv, FilesComplete
  <2> QED
    BY <2>2, <2>3
<1>27. EventsSound'
  <2>1. \A x \in events' : Taken(x.seq)'
    BY <1>9, <1>a, <1>11, <1>12, <1>17
  <2>2. \A x, d \in events' : x.seq = d.seq => x = d
    BY <1>5, <1>11, <1>12, <1>9, <1>17 DEF LogInv, EventsSound
  <2>3. ASSUME NEW p \in published', p.gen = generation', Entry(p.seq, p.id) \notin events',
               events' = {} \/ \E x \in events' : x.seq <= p.seq
        PROVE  coverage'.state = "partial" /\ spent'.faults > 0
    <3>1. p \in published /\ p.gen = generation
      BY <1>1, <1>10, <1>17, <2>3
    <3>2. PICK d \in events' : d.seq <= p.seq
      BY <1>17, <2>3
    <3>3. p.seq \in Nat /\ p.seq < writing.seq /\ d.seq \in Nat
      BY <1>5, <1>9, <1>11, <1>12, <1>17, <3>1
    <3>4. d \in events
      BY <1>5, <1>9, <1>17, <3>2, <3>3
    <3>5. Entry(p.seq, p.id) \notin events
      <4>1. ASSUME Entry(p.seq, p.id) \in events PROVE FALSE
        BY <1>17, <2>3, <4>1, <3>2, <3>3 DEF Entry
      <4> QED
        BY <4>1
    <3>6. coverage.state = "partial" /\ spent.faults > 0
      BY <1>7, <3>1, <3>2, <3>4, <3>5 DEF LogInv, EventsSound
    <3> QED
      BY <1>13, <1>14, <3>6
  <2> QED
    BY <2>1, <2>2, <2>3 DEF EventsSound
<1>28. ReaderSound'
  BY <1>14, <1>15, <1>5, <1>13, <1>1, <1>7, ReaderStands
<1> QED
  BY <1>16, <1>18, <1>19, <1>20, <1>21, <1>22, <1>23, <1>24, <1>25, <1>26, <1>27, <1>28 DEF LogInv

-----------------------------------------------------------------------------
(* Theorems *)

\* A first start finds no files and no generation.
LEMMA LogStarts == LogInit => LogInv
<1> SUFFICES ASSUME LogInit PROVE LogInv
  OBVIOUS
<1>1. /\ life = "down" /\ stored = FALSE /\ first = 0 /\ backlog = <<>> /\ pendingLoss = 0
      /\ coverage = [state |-> "initializing", epoch |-> 0]
      /\ generation = 0 /\ sequence = 0 /\ events = {} /\ writing = NoEvent
      /\ storageFailed = FALSE /\ unwound = FALSE /\ reserved = 0
      /\ state = NoMeta /\ stateLeaf = NoMeta
      /\ segments = [i \in Segments |-> <<>>] /\ manifest = [i \in Segments |-> <<>>]
      /\ reader = [cursor |-> NoCursor, state |-> "none", skipped |-> FALSE]
      /\ published = {} /\ lost = FALSE
      /\ spent = [emits |-> 0, boots |-> 0, faults |-> 0, ids |-> 0, gens |-> 0]
  BY DEF LogInit
<1>2. /\ NoMeta \in Metas /\ ~NoMeta.clean /\ ~NoMeta.found /\ NoMeta.gen = 0
  BY DEF NoMeta, Metas
<1>3. /\ reader \in Readers /\ reader.cursor.gen = 0 /\ ~reader.skipped /\ reader.state = "none"
      /\ spent \in Counters /\ spent.gens = 0
  BY <1>1 DEF NoCursor, Readers, Counters
<1>4. /\ segments \in Files /\ manifest \in Files
      /\ \A i \in Segments : segments[i] = <<>> /\ Len(segments[i]) = 0 /\ ToSet(segments[i]) = {}
  BY <1>1 DEF Files, ToSet
<1>5. OnDisk = {}
  BY <1>4 DEF OnDisk
<1>6. MemoryTyped
  <2>1. coverage \in Coverages /\ backlog \in Seq(Nat) /\ Len(backlog) = 0
    BY <1>1 DEF Coverages
  <2>2. events \subseteq Entries /\ IsFiniteSet(events) /\ Cardinality(events) <= Slots * SegmentSize
    BY LogBounds, <1>1, FS_EmptySet
  <2>3. first \in 0..2 /\ Len(backlog) <= MaxBacklog /\ pendingLoss \in Nat
        /\ generation \in Nat /\ sequence \in Nat /\ reserved \in Nat
    BY <1>1, <2>1, LogBounds
  <2>4. stored \in BOOLEAN /\ storageFailed \in BOOLEAN /\ unwound \in BOOLEAN
    BY <1>1
  <2> QED
    BY <1>1, <1>2, <2>1, <2>2, <2>3, <2>4 DEF MemoryTyped
<1>7. FilesTyped /\ GhostsTyped
  <2>1. \A i \in Segments : Len(segments[i]) <= SegmentSize
    BY <1>4, LogBounds
  <2>2. lost \in BOOLEAN /\ published \subseteq Publications
    BY <1>1
  <2> QED
    BY <1>1, <1>2, <1>3, <1>4, <2>1, <2>2 DEF FilesTyped, GhostsTyped
<1>8. LifeSound /\ WritingSound /\ NumbersSound /\ EventsSound
  BY <1>1, <1>2, <1>3 DEF LifeSound, WritingSound, NumbersSound, NumbersAreUnique, EventsSound, Up
<1>9. LossSound /\ FilesComplete
  BY <1>1, <1>2 DEF LossSound, FilesComplete
<1>10. DiskSound
  BY <1>1, <1>5 DEF DiskSound
<1>11. RingSound
  <2>1. PICK t \in Segments : TRUE
    BY LogBounds DEF Segments
  <2>2. Ring(t)
    BY <1>4 DEF Ring
  <2> QED
    BY <2>2 DEF RingSound
<1>12. ReaderSound
  BY <1>3 DEF ReaderSound, NothingSkipped
<1> QED
  BY <1>6, <1>7, <1>8, <1>9, <1>10, <1>11, <1>12 DEF LogInv

\* Every step of the ledger.
LEMMA LogStays == LogInv /\ [LogNext]_logVars => LogInv'
<1> SUFFICES ASSUME LogInv, [LogNext]_logVars PROVE LogInv'
  OBVIOUS
<1>1. CASE NewCollector
  BY <1>1, NewCollectorStep
<1>2. CASE Emit \/ EmitContended \/ Close \/ Snapshot \/ Follow
  BY <1>2, LogQuietStep
<1>3. CASE OpenStorage
  BY <1>3, OpenStorageStep
<1>4. CASE OpenFails
  BY <1>4, OpenFailsStep
<1>5. CASE WriteFirst \/ WriteNext \/ LastEvent
  BY <1>5, WriteStep
<1>6. CASE \E o \in {"ok", "unreserved", "unwritten", "unmirrored"} : FinishWrite(o)
  BY <1>6, FinishWriteStep
<1>7. CASE \E f \in {"none", "manifest", "checkpoint"} : Seal(f)
  BY <1>7, SealStep
<1>8. CASE Exit
  BY <1>8, ExitStep
<1>9. CASE Crash
  BY <1>9, CrashStep
<1>10. CASE Damage
  BY <1>10, DamageStep
<1>11. CASE UNCHANGED logVars
  <2>1. UNCHANGED <<life, stored, first, backlog, pendingLoss, coverage, generation, sequence, events, writing, storageFailed, unwound, reserved, state, stateLeaf, segments, manifest, reader, published, lost, spent>>
    BY <1>11 DEF logVars, memVars, fileVars
  <2>2. Between
    BY <2>1 DEF Between, LogInv, MemoryTyped, GhostsTyped, LifeSound, LossSound
  <2>3. reader' \in Readers /\ ReaderSound'
    BY <2>1 DEF LogInv, GhostsTyped, ReaderSound, NothingSkipped
  <2> QED
    BY <2>2, <2>3, BetweenKeeps
<1> QED
  BY <1>1, <1>2, <1>3, <1>4, <1>5, <1>6, <1>7, <1>8, <1>9, <1>10, <1>11 DEF LogNext

\* The invariant of the ledger, for every number and size of its segments.
THEOREM LogInvHolds == LogSpec => []LogInv
BY LogStarts, LogStays, PTL DEF LogSpec

\* A number names one event of its generation, whatever crashed and whatever
\* the files lost: the reservation of storage.append and the recovery of
\* openStorage.
THEOREM NumbersStayUnique == LogSpec => []NumbersAreUnique
<1>1. LogInv => NumbersAreUnique
  BY DEF LogInv, NumbersSound
<1> QED
  BY <1>1, LogInvHolds, PTL

\* The ledger never claims continuous coverage after an unclean restart,
\* rotation or loss, and a reader that follows its cursor misses nothing it is
\* not told of.
THEOREM LedgerStaysHonest == LogSpec => []LedgerIsHonest
<1>1. LogInv => LogTypeOK
  BY DEF LogInv, FilesTyped, MemoryTyped, Metas, Coverages, LogTypeOK, Up
<1>2. LogInv => NumbersAreUnique /\ NothingSkipped
  BY DEF LogInv, NumbersSound, ReaderSound
<1>3. LogInv => ReadyIsComplete
  BY DEF LogInv, LossSound, ReadyIsComplete
<1>4. LogInv => LedgerIsHonest
  BY <1>1, <1>2, <1>3 DEF LedgerIsHonest
<1> QED
  BY <1>4, LogInvHolds, PTL
=============================================================================
