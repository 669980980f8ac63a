-------------------------- MODULE WriterLane_proofs --------------------------
(***************************************************************************)
(* The safety of the cache writer lane for any jobs, retry budget, number  *)
(* of restarts and persistence failures.  Mutual exclusion does not come   *)
(* from one lock: two syncs exclude one another by the commit queue, a     *)
(* sync and an exclusive worker or direct writer by the reservation check, *)
(* and the commits of the recovery goroutine, whose job is not active, by  *)
(* the recovery fence.  The inductive invariant names each of these.       *)
(***************************************************************************)
EXTENDS WriterLane, TLAPS

\* The worker holds the turn and has published "committing".
Committing(j) == pc[j] \in {"reserved", "commit"}

\* Which program points the two kinds of worker reach.
PcShape ==
  /\ \A j \in Writers : pc[j] \in {"none", "spawned", "work", "unwind"}
  /\ \A j \in Syncs : pc[j] # "work"

\* Every goroutine is inflight, except the commit that recovery runs itself.
WorkersInflight == \A j \in Jobs : pc[j] # "none" /\ j # inline => j \in inflight

\* An interrupted sync job has no goroutine other than the inline commit.
InterruptedIdle ==
  \A j \in Syncs : status[j] = "interrupted" /\ j # inline => pc[j] = "none"

InlinePCs == {"staged", "queued", "reserved", "commit", "after", "backoff", "finish"}

\* The inline commit runs on an interrupted job, behind the recovery fence.
InlineFenced ==
  inline # NoJob =>
    /\ recFence
    /\ boot = "recovering"
    /\ status[inline] = "interrupted"
    /\ pc[inline] \in InlinePCs

\* While recovery has jobs left to decide, its fence is up; under the fence no
\* direct writer and no mutation fence exist.
RecoveryFenced ==
  /\ boot = "recovering" /\ (\E j \in Syncs : status[j] = "interrupted") => recFence
  /\ recFence => fence = "none" /\ ~direct

\* A waiting or committing worker is in the queue.
Queued(j) == \E i \in 1..Len(queue) : queue[i] = j
WaitersQueued == \A j \in Syncs : pc[j] \in {"queued", "reserved", "commit"} => Queued(j)

\* A committing worker heads the queue and shows that it commits.
CommitterHeads ==
  \A j \in Syncs : Committing(j) => /\ queue # <<>>
                                    /\ Head(queue) = j
                                    /\ phase[j] = "committing"

\* An exclusive worker is alone, from admission until it has unwound.
WriterAlone ==
  /\ \A j, k \in Writers : pc[j] # "none" /\ pc[k] # "none" => j = k
  /\ \A j \in Writers, k \in Syncs : pc[j] # "none" => ~Committing(k)

DirectAlone ==
  direct => /\ \A j \in Writers : pc[j] = "none"
            /\ \A j \in Syncs : ~Committing(j)

ClearFenceAlone ==
  fence = "clear" => ~direct /\ \A j \in Jobs : pc[j] = "none" /\ ~Live(j)

\* A worker that may still commit has not spent its retry budget.
AttemptBounded ==
  \A j \in Syncs : pc[j] \in {"staged", "queued", "reserved", "commit", "after", "backoff"}
                     => attempt[j] <= MaxRetries

Bookkeeping == /\ PcShape /\ WorkersInflight /\ InterruptedIdle
               /\ InlineFenced /\ RecoveryFenced /\ AttemptBounded
Exclusion == WaitersQueued /\ CommitterHeads /\ WriterAlone /\ DirectAlone /\ ClearFenceAlone

IInv == TypeOK /\ Bookkeeping /\ Exclusion

-----------------------------------------------------------------------------
\* What removeSyncCommitWaiter does to the queue: it stays a queue of syncs,
\* nobody else leaves it, and another head stays the head.
LEMMA DequeuedFacts ==
  ASSUME queue \in Seq(Syncs), NEW j \in Syncs, Queued(j)
  PROVE  /\ Dequeued(j) \in Seq(Syncs)
         /\ \A k \in Syncs : k # j /\ Queued(k)
              => \E i \in 1..Len(Dequeued(j)) : Dequeued(j)[i] = k
         /\ queue # <<>> /\ Head(queue) # j
              => Dequeued(j) # <<>> /\ Head(Dequeued(j)) = Head(queue)
<1> DEFINE at == CHOOSE i \in 1..Len(queue) : queue[i] = j
           n == Len(queue)
           front == SubSeq(queue, 1, at - 1)
           back == SubSeq(queue, at + 1, n)
           new == front \o back
<1>1. at \in 1..n /\ queue[at] = j
  BY DEF Queued
<1> n \in Nat /\ \A i \in 1..n : queue[i] \in Syncs
  OBVIOUS
<1> HIDE DEF at
<1>2. front \in Seq(Syncs) /\ Len(front) = at - 1 /\ \A i \in 1..(at - 1) : front[i] = queue[i]
  BY <1>1
<1>3. back \in Seq(Syncs) /\ Len(back) = n - at /\ \A i \in 1..(n - at) : back[i] = queue[at + i]
  BY <1>1
<1> HIDE DEF front, back
<1>4. /\ new \in Seq(Syncs)
      /\ Len(new) = n - 1
      /\ \A i \in 1..(n - 1) : new[i] = IF i < at THEN queue[i] ELSE queue[i + 1]
  <2>1. new \in Seq(Syncs) /\ Len(new) = Len(front) + Len(back)
    BY <1>2, <1>3
  <2>2. Len(new) = n - 1
    BY <2>1, <1>1, <1>2, <1>3
  <2>3. ASSUME NEW i \in 1..(n - 1), i < at  PROVE new[i] = queue[i]
    BY <2>3, <1>1, <1>2, <1>3
  <2>4. ASSUME NEW i \in 1..(n - 1), ~(i < at)  PROVE new[i] = queue[i + 1]
    BY <2>4, <1>1, <2>1, <2>2, <1>2, <1>3
  <2> QED
    BY <2>1, <2>2, <2>3, <2>4
<1>5. Dequeued(j) = new
  BY DEF Dequeued, at, front, back
<1> HIDE DEF new
<1>6. ASSUME NEW k \in Syncs, k # j, NEW i \in 1..n, queue[i] = k
      PROVE  \E h \in 1..Len(new) : new[h] = k
  <2>1. CASE i < at
    BY <2>1, <1>1, <1>4, <1>6
  <2>2. CASE i > at
    <3>1. i - 1 \in 1..(n - 1) /\ ~(i - 1 < at) /\ (i - 1) + 1 = i
      BY <2>2, <1>1
    <3> QED
      BY <3>1, <1>4, <1>6
  <2> QED
    BY <2>1, <2>2, <1>1, <1>6
<1>7. ASSUME queue # <<>>, Head(queue) # j
      PROVE  new # <<>> /\ Head(new) = Head(queue)
  BY <1>7, <1>1, <1>4
<1> QED
  BY <1>4, <1>5, <1>6, <1>7 DEF Queued

-----------------------------------------------------------------------------
\* The invariant holds initially.
LEMMA InitIInv == Init => IInv
<1> SUFFICES ASSUME Init PROVE IInv
  OBVIOUS
<1>1. TypeOK
  <2>1. /\ queue \in Seq(Syncs)
        /\ restarts \in 0..MaxRestarts
        /\ attempt \in [Syncs -> 0..(MaxRetries + 1)]
    BY ConstantsAssumption DEF Init
  <2> QED
    BY <2>1 DEF Init, TypeOK, Statuses, Phases, PCs, Outcomes
<1>2. Bookkeeping
  BY ConstantsAssumption DEF Init, Jobs, Bookkeeping, PcShape, WorkersInflight,
     InterruptedIdle, InlineFenced, RecoveryFenced, AttemptBounded, InlinePCs
<1>3. Exclusion
  BY ConstantsAssumption DEF Init, Jobs, Exclusion, WaitersQueued, Queued, CommitterHeads,
     Committing, WriterAlone, DirectAlone, ClearFenceAlone
<1> QED
  BY <1>1, <1>2, <1>3 DEF IInv

-----------------------------------------------------------------------------
(* Steps of a sync worker.  Such a step moves its own job from one program *)
(* point to another and leaves the entries of all other jobs alone; what it *)
(* does to the invariant depends on little more than the point it reaches. *)

OwnStep(j, label) ==
  /\ pc' = [pc EXCEPT ![j] = label]
  /\ \A k \in Jobs \ {j} : status'[k] = status[k]
  /\ \A k \in Syncs \ {j} : phase'[k] = phase[k] /\ attempt'[k] = attempt[k]
  /\ status'[j] = "interrupted" => status[j] = "interrupted"
  /\ j = inline => status'[j] = status[j] /\ label \in InlinePCs
  /\ UNCHANGED <<inflight, direct, fence, recFence, boot, inline>>

\* The worker gives up its place in the queue, or keeps the queue as it is.
QueueLeft(j) == queue' = queue \/ (Queued(j) /\ queue' = Dequeued(j))

\* The bookkeeping survives any step of a running sync worker that keeps its
\* retry budget while it may still commit.
LEMMA OwnStepBookkeeping ==
  ASSUME IInv, NEW j \in Syncs, NEW label \in PCs \ {"none", "work"},
         OwnStep(j, label), pc[j] # "none", j = inline => pc[j] \in InlinePCs,
         label \in {"staged", "queued", "reserved", "commit", "after", "backoff"}
           => attempt'[j] <= MaxRetries
  PROVE  Bookkeeping'
<1> USE ConstantsAssumption
<1>1. PcShape'
  BY DEF IInv, TypeOK, Bookkeeping, PcShape, OwnStep, Jobs, PCs
<1>2. WorkersInflight'
  BY DEF IInv, TypeOK, Bookkeeping, WorkersInflight, OwnStep, Jobs
<1>3. InterruptedIdle'
  BY DEF IInv, TypeOK, Bookkeeping, InterruptedIdle, OwnStep, Jobs
<1>4. InlineFenced'
  BY DEF IInv, TypeOK, Bookkeeping, InlineFenced, OwnStep, Jobs
<1>5. RecoveryFenced'
  BY DEF IInv, TypeOK, Bookkeeping, RecoveryFenced, OwnStep, Jobs
<1>6. AttemptBounded'
  BY DEF IInv, TypeOK, Bookkeeping, AttemptBounded, OwnStep, Jobs
<1> QED
  BY <1>1, <1>2, <1>3, <1>4, <1>5, <1>6 DEF Bookkeeping

\* A step that neither waits nor commits afterwards frees its turn to nobody's
\* harm: exclusion holds whichever place in the queue it gave up.
LEMMA OwnStepExclusion ==
  ASSUME IInv, NEW j \in Syncs, NEW label \in PCs \ {"queued", "reserved", "commit"},
         OwnStep(j, label), QueueLeft(j), pc[j] # "none",
         pc[j] \notin {"queued", "reserved", "commit"} => queue' = queue
  PROVE  Exclusion'
<1> USE ConstantsAssumption
<1>1. \A k \in Syncs : pc'[k] \in {"queued", "reserved", "commit"} => k # j /\ pc'[k] = pc[k]
  BY DEF IInv, TypeOK, OwnStep, Jobs
<1>2. queue \in Seq(Syncs)
  BY DEF IInv, TypeOK
<1>3. WaitersQueued'
  <2> SUFFICES ASSUME NEW k \in Syncs, pc'[k] \in {"queued", "reserved", "commit"}
               PROVE  Queued(k)'
    BY DEF WaitersQueued
  <2>1. k # j /\ Queued(k)
    BY <1>1 DEF IInv, Exclusion, WaitersQueued
  <2>2. CASE queue' = queue
    BY <2>1, <2>2 DEF Queued
  <2>3. CASE Queued(j) /\ queue' = Dequeued(j)
    BY <2>1, <2>3, <1>2, DequeuedFacts DEF Queued
  <2> QED
    BY <2>2, <2>3 DEF QueueLeft
<1>4. CommitterHeads'
  <2> SUFFICES ASSUME NEW k \in Syncs, pc'[k] \in {"reserved", "commit"}
               PROVE  queue' # <<>> /\ Head(queue') = k /\ phase'[k] = "committing"
    BY DEF CommitterHeads, Committing
  <2>1. k # j /\ queue # <<>> /\ Head(queue) = k /\ phase[k] = "committing"
    BY <1>1 DEF IInv, Exclusion, CommitterHeads, Committing
  <2>2. phase'[k] = "committing"
    BY <2>1 DEF OwnStep
  <2>3. CASE queue' = queue
    BY <2>1, <2>2, <2>3
  <2>4. CASE Queued(j) /\ queue' = Dequeued(j)
    BY <2>1, <2>2, <2>4, <1>2, DequeuedFacts
  <2> QED
    BY <2>3, <2>4 DEF QueueLeft
<1>5. WriterAlone' /\ DirectAlone'
  BY <1>1 DEF IInv, TypeOK, Exclusion, WriterAlone, DirectAlone, Committing, OwnStep, Jobs
<1>6. ClearFenceAlone'
  BY DEF IInv, Exclusion, ClearFenceAlone, OwnStep, Jobs
<1> QED
  BY <1>3, <1>4, <1>5, <1>6 DEF Exclusion

-----------------------------------------------------------------------------
(* The actions of a sync worker, in the order of the code.                 *)

\* A sync worker that starts fetching (runSyncJob) holds no lane yet.
LEMMA BeginSyncStep == ASSUME IInv, NEW j \in Syncs, BeginSync(j) PROVE IInv'
<1>1. /\ pc[j] # "none"
      /\ j = inline => pc[j] \in InlinePCs
  BY ConstantsAssumption DEF IInv, Bookkeeping, InlineFenced, Jobs, HasTurn, BeginSync
<1>2. PICK label \in {"fetch"} : OwnStep(j, label)
  BY ConstantsAssumption, <1>1 DEF IInv, TypeOK, Jobs, PCs, InlinePCs, OwnStep, laneVars,
     bootVars, BeginSync, Goto, Show
<1>3. TypeOK'
  <2>1. (status \in [Jobs -> Statuses])'
    BY ConstantsAssumption DEF IInv, TypeOK, Jobs, Statuses, BeginSync, Goto, Show
  <2>2. (phase \in [Syncs -> Phases])'
    BY ConstantsAssumption DEF IInv, TypeOK, Jobs, Phases, BeginSync, Goto, Show
  <2>3. (pc \in [Jobs -> PCs])'
    BY <1>2 DEF IInv, TypeOK, OwnStep, PCs
  <2> QED
    BY <2>1, <2>2, <2>3 DEF IInv, TypeOK, laneVars, bootVars, BeginSync
<1>4. label \in {"staged", "backoff", "after"} => attempt'[j] <= MaxRetries
  BY ConstantsAssumption, <1>2 DEF IInv, TypeOK, Jobs, Bookkeeping, AttemptBounded, OwnStep,
     BeginSync, Goto, Show
<1>5. /\ QueueLeft(j)
      /\ pc[j] \notin {"queued", "reserved", "commit"} => queue' = queue
  BY DEF QueueLeft, HasTurn, BeginSync
<1>6. Bookkeeping'
  BY <1>1, <1>2, <1>4, OwnStepBookkeeping DEF PCs
<1>7. Exclusion'
  BY <1>1, <1>2, <1>5, OwnStepExclusion DEF PCs
<1> QED
  BY <1>3, <1>6, <1>7 DEF IInv

\* Staging a batch, scheduling a retry or giving up (runDurableCollection) touches no lane.
LEMMA FetchedStep == ASSUME IInv, NEW j \in Syncs, Fetched(j) PROVE IInv'
<1>1. /\ pc[j] # "none"
      /\ j = inline => pc[j] \in InlinePCs
  BY ConstantsAssumption DEF IInv, Bookkeeping, InlineFenced, Jobs, HasTurn, Fetched
<1>2. PICK label \in {"fetch", "staged", "finish"} : OwnStep(j, label)
  BY ConstantsAssumption, <1>1 DEF IInv, TypeOK, Jobs, PCs, InlinePCs, OwnStep, laneVars,
     bootVars, Fetched, Goto, Show, Report
<1>3. TypeOK'
  <2>1. (phase \in [Syncs -> Phases])'
    BY ConstantsAssumption DEF IInv, TypeOK, Jobs, Phases, Fetched, Goto, Show, Report
  <2>2. (attempt \in [Syncs -> 0..(MaxRetries + 1)])'
    <3>1. PICK n \in 0..(MaxRetries + 1) : attempt' = [attempt EXCEPT ![j] = n]
      BY ConstantsAssumption DEF IInv, TypeOK, Bookkeeping, AttemptBounded, Fetched, Goto,
         Show, Report
    <3> QED
      BY <3>1 DEF IInv, TypeOK
  <2>3. (checkpoint \subseteq Syncs)'
    BY ConstantsAssumption DEF IInv, TypeOK, Jobs, Fetched, Goto, Show, Report
  <2>4. (pc \in [Jobs -> PCs])'
    BY <1>2 DEF IInv, TypeOK, OwnStep, PCs
  <2>5. (outcome \in [Jobs -> Outcomes])'
    BY ConstantsAssumption DEF IInv, TypeOK, Jobs, Outcomes, Fetched, Goto, Show, Report
  <2> QED
    BY <2>1, <2>2, <2>3, <2>4, <2>5 DEF IInv, TypeOK, laneVars, bootVars, Fetched
<1>4. label \in {"staged", "backoff", "after"} => attempt'[j] <= MaxRetries
  BY ConstantsAssumption, <1>2 DEF IInv, TypeOK, Jobs, Bookkeeping, AttemptBounded, OwnStep,
     Fetched, Goto, Show, Report
<1>5. /\ QueueLeft(j)
      /\ pc[j] \notin {"queued", "reserved", "commit"} => queue' = queue
  BY DEF QueueLeft, HasTurn, Fetched
<1>6. Bookkeeping'
  BY <1>1, <1>2, <1>4, OwnStepBookkeeping DEF PCs
<1>7. Exclusion'
  BY <1>1, <1>2, <1>5, OwnStepExclusion DEF PCs
<1> QED
  BY <1>3, <1>6, <1>7 DEF IInv

\* Joining the FIFO of commit turns gives the job exactly one place in the queue.
LEMMA JoinQueueStep == ASSUME IInv, NEW j \in Syncs, JoinQueue(j) PROVE IInv'
<1>q. queue \in Seq(Syncs)
  BY DEF IInv, TypeOK
<1>1. /\ pc[j] = "staged" /\ pc[j] # "none"
      /\ j = inline => pc[j] \in InlinePCs
  BY ConstantsAssumption DEF IInv, Bookkeeping, InlineFenced, Jobs, HasTurn, JoinQueue
<1>2. \/ OwnStep(j, "queued")
      \/ OwnStep(j, "finish")
  BY ConstantsAssumption, <1>1 DEF IInv, TypeOK, Jobs, PCs, InlinePCs, OwnStep, laneVars,
     bootVars, JoinQueue, Goto, Show, Report
<1>3. TypeOK'
  <2>1. (phase \in [Syncs -> Phases])'
    BY ConstantsAssumption DEF IInv, TypeOK, Jobs, Phases, JoinQueue, Goto, Show, Report
  <2>2. (pc \in [Jobs -> PCs])'
    BY <1>2 DEF IInv, TypeOK, OwnStep, PCs
  <2>3. (outcome \in [Jobs -> Outcomes])'
    BY ConstantsAssumption DEF IInv, TypeOK, Jobs, Outcomes, JoinQueue, Goto, Show, Report
  <2>4. (queue \in Seq(Syncs))'
    BY <1>q DEF JoinQueue
  <2> QED
    BY <2>1, <2>2, <2>3, <2>4 DEF IInv, TypeOK, laneVars, bootVars, JoinQueue
<1>4. attempt'[j] <= MaxRetries
  BY <1>1 DEF IInv, Bookkeeping, AttemptBounded, JoinQueue
<1>5. Bookkeeping'
  BY <1>1, <1>2, <1>4, OwnStepBookkeeping DEF PCs
<1>6. ASSUME OwnStep(j, "finish") PROVE Exclusion'
  <2>1. pc'[j] = "finish"
    BY <1>6 DEF IInv, TypeOK, OwnStep, Jobs
  <2>2. /\ QueueLeft(j)
        /\ pc[j] \notin {"queued", "reserved", "commit"} => queue' = queue
    BY <2>1, <1>1, ConstantsAssumption DEF IInv, TypeOK, Jobs, QueueLeft, JoinQueue, Goto,
       Show, Report
  <2> QED
    BY <1>6, <1>1, <2>2, OwnStepExclusion DEF PCs
<1>7. ASSUME OwnStep(j, "queued") PROVE Exclusion'
  <2>1. pc'[j] = "queued" /\ \A k \in Jobs \ {j} : pc'[k] = pc[k]
    BY <1>7 DEF IInv, TypeOK, OwnStep, Jobs
  <2>2. queue' = Append(queue, j)
    BY <2>1, ConstantsAssumption DEF IInv, TypeOK, JoinQueue, Goto, Report, Jobs
  <2>3. /\ Len(queue') = Len(queue) + 1
        /\ queue'[Len(queue) + 1] = j
        /\ \A i \in 1..Len(queue) : queue'[i] = queue[i]
        /\ queue # <<>> => queue' # <<>> /\ Head(queue') = Head(queue)
    BY <1>q, <2>2
  <2>4. WaitersQueued'
    <3> SUFFICES ASSUME NEW k \in Syncs, pc'[k] \in {"queued", "reserved", "commit"}
                 PROVE  \E i \in 1..Len(queue') : queue'[i] = k
      BY DEF WaitersQueued, Queued
    <3>1. CASE k = j
      BY <1>q, <2>3, <3>1
    <3>2. CASE k # j
      <4>1. PICK i \in 1..Len(queue) : queue[i] = k
        BY <2>1, <3>2 DEF IInv, Exclusion, WaitersQueued, Queued, Jobs
      <4> QED
        BY <1>q, <2>3, <4>1
    <3> QED
      BY <3>1, <3>2
  <2>5. CommitterHeads'
    BY <2>1, <2>3, <1>7 DEF CommitterHeads, Committing, IInv, Exclusion, Jobs, OwnStep
  <2>6. WriterAlone' /\ DirectAlone'
    BY <2>1, <1>7, ConstantsAssumption
       DEF IInv, Exclusion, WriterAlone, DirectAlone, Committing, OwnStep, Jobs
  <2>7. ClearFenceAlone'
    BY <1>1, <1>7 DEF IInv, Exclusion, ClearFenceAlone, OwnStep, Jobs
  <2> QED
    BY <2>4, <2>5, <2>6, <2>7 DEF Exclusion
<1>8. Exclusion'
  BY <1>2, <1>6, <1>7
<1> QED
  BY <1>3, <1>5, <1>8 DEF IInv

\* A cancelled waiter leaves the queue, and only its own place in it.
LEMMA LeaveQueueStep == ASSUME IInv, NEW j \in Syncs, LeaveQueue(j) PROVE IInv'
<1>q. queue \in Seq(Syncs) /\ Queued(j)
  BY DEF IInv, TypeOK, Exclusion, WaitersQueued, HasTurn, LeaveQueue
<1>d. Dequeued(j) \in Seq(Syncs)
  BY <1>q, DequeuedFacts
<1>1. /\ pc[j] # "none"
      /\ j = inline => pc[j] \in InlinePCs
  BY ConstantsAssumption DEF IInv, Bookkeeping, InlineFenced, Jobs, HasTurn, LeaveQueue
<1>2. PICK label \in {"finish"} : OwnStep(j, label)
  BY ConstantsAssumption, <1>1 DEF IInv, TypeOK, Jobs, PCs, InlinePCs, OwnStep, laneVars,
     bootVars, LeaveQueue, Goto, Report
<1>3. TypeOK'
  <2>1. (pc \in [Jobs -> PCs])'
    BY <1>2 DEF IInv, TypeOK, OwnStep, PCs
  <2>2. (outcome \in [Jobs -> Outcomes])'
    BY ConstantsAssumption DEF IInv, TypeOK, Jobs, Outcomes, LeaveQueue, Goto, Report
  <2>3. (queue \in Seq(Syncs))'
    BY ConstantsAssumption, <1>d DEF IInv, TypeOK, Jobs, LeaveQueue, Goto, Report
  <2> QED
    BY <2>1, <2>2, <2>3 DEF IInv, TypeOK, laneVars, bootVars, LeaveQueue
<1>4. label \in {"staged", "backoff", "after"} => attempt'[j] <= MaxRetries
  BY ConstantsAssumption, <1>2 DEF IInv, TypeOK, Jobs, Bookkeeping, AttemptBounded, OwnStep,
     LeaveQueue, Goto, Report
<1>5. /\ QueueLeft(j)
      /\ pc[j] \notin {"queued", "reserved", "commit"} => queue' = queue
  BY <1>q DEF QueueLeft, HasTurn, LeaveQueue
<1>6. Bookkeeping'
  BY <1>1, <1>2, <1>4, OwnStepBookkeeping DEF PCs
<1>7. Exclusion'
  BY <1>1, <1>2, <1>5, OwnStepExclusion DEF PCs
<1> QED
  BY <1>3, <1>6, <1>7 DEF IInv

\* A refused reservation gives up the turn and is still within the retry budget.
LEMMA ReserveRefusedStep == ASSUME IInv, NEW j \in Syncs, ReserveRefused(j) PROVE IInv'
<1>q. queue \in Seq(Syncs) /\ Queued(j)
  BY DEF IInv, TypeOK, Exclusion, WaitersQueued, HasTurn, ReserveRefused
<1>d. Dequeued(j) \in Seq(Syncs)
  BY <1>q, DequeuedFacts
<1>1. /\ pc[j] # "none"
      /\ j = inline => pc[j] \in InlinePCs
  BY ConstantsAssumption DEF IInv, Bookkeeping, InlineFenced, Jobs, HasTurn, ReserveRefused
<1>2. PICK label \in {"backoff", "finish"} : OwnStep(j, label)
  BY ConstantsAssumption, <1>1 DEF IInv, TypeOK, Jobs, PCs, InlinePCs, OwnStep, laneVars,
     bootVars, ReserveRefused, Goto, Show, Report, Park, HasTurn
<1>3. TypeOK'
  <2>1. (phase \in [Syncs -> Phases])'
    <3>1. PICK s \in Phases : phase' = phase \/ phase' = [phase EXCEPT ![j] = s]
      BY DEF IInv, TypeOK, Phases, ReserveRefused, Goto, Show, Report, Park
    <3> QED
      BY <3>1 DEF IInv, TypeOK
  <2>2. (attempt \in [Syncs -> 0..(MaxRetries + 1)])'
    <3>1. PICK n \in 0..(MaxRetries + 1) : attempt' = [attempt EXCEPT ![j] = n]
      BY ConstantsAssumption DEF IInv, TypeOK, Bookkeeping, AttemptBounded, ReserveRefused,
         Goto, Show, Report, Park, HasTurn
    <3> QED
      BY <3>1 DEF IInv, TypeOK
  <2>3. (pc \in [Jobs -> PCs])'
    BY <1>2 DEF IInv, TypeOK, OwnStep, PCs
  <2>4. (outcome \in [Jobs -> Outcomes])'
    BY ConstantsAssumption DEF IInv, TypeOK, Jobs, Outcomes, ReserveRefused, Goto, Show,
       Report, Park, HasTurn
  <2>5. (queue \in Seq(Syncs))'
    BY ConstantsAssumption, <1>d DEF IInv, TypeOK, Jobs, ReserveRefused, Goto, Show, Report,
       Park, HasTurn
  <2> QED
    BY <2>1, <2>2, <2>3, <2>4, <2>5 DEF IInv, TypeOK, laneVars, bootVars, ReserveRefused
<1>4. label \in {"staged", "backoff", "after"} => attempt'[j] <= MaxRetries
  BY ConstantsAssumption, <1>2 DEF IInv, TypeOK, Jobs, Bookkeeping, AttemptBounded, OwnStep,
     ReserveRefused, Goto, Show, Report, Park, HasTurn
<1>5. /\ QueueLeft(j)
      /\ pc[j] \notin {"queued", "reserved", "commit"} => queue' = queue
  BY <1>q DEF QueueLeft, HasTurn, ReserveRefused
<1>6. Bookkeeping'
  BY <1>1, <1>2, <1>4, OwnStepBookkeeping DEF PCs
<1>7. Exclusion'
  BY <1>1, <1>2, <1>5, OwnStepExclusion DEF PCs
<1> QED
  BY <1>3, <1>6, <1>7 DEF IInv

\* tryReserveSyncCommit publishes "committing" only when nobody else reserves the lane.
LEMMA ReserveStep == ASSUME IInv, NEW j \in Syncs, Reserve(j) PROVE IInv'
<1>q. queue \in Seq(Syncs) /\ Queued(j)
  BY DEF IInv, TypeOK, Exclusion, WaitersQueued, HasTurn, Reserve
<1>d. Dequeued(j) \in Seq(Syncs)
  BY <1>q, DequeuedFacts
<1>1. /\ pc[j] = "queued" /\ pc[j] # "none"
      /\ j = inline => pc[j] \in InlinePCs
  BY ConstantsAssumption DEF IInv, Bookkeeping, InlineFenced, Jobs, HasTurn, Reserve
<1>2. \/ OwnStep(j, "reserved")
      \/ OwnStep(j, "finish")
  BY ConstantsAssumption, <1>1 DEF IInv, TypeOK, Jobs, PCs, InlinePCs, OwnStep, laneVars,
     bootVars, Reserve, Goto, Show, Report, HasTurn
<1>3. TypeOK'
  <2>1. (phase \in [Syncs -> Phases])'
    BY ConstantsAssumption DEF IInv, TypeOK, Jobs, Phases, Reserve, Goto, Show, Report,
       HasTurn
  <2>2. (pc \in [Jobs -> PCs])'
    BY <1>2 DEF IInv, TypeOK, OwnStep, PCs
  <2>3. (outcome \in [Jobs -> Outcomes])'
    BY ConstantsAssumption DEF IInv, TypeOK, Jobs, Outcomes, Reserve, Goto, Show, Report,
       HasTurn
  <2>4. (queue \in Seq(Syncs))'
    BY ConstantsAssumption, <1>d DEF IInv, TypeOK, Jobs, Reserve, Goto, Show, Report,
       HasTurn
  <2> QED
    BY <2>1, <2>2, <2>3, <2>4 DEF IInv, TypeOK, laneVars, bootVars, Reserve
<1>4. attempt'[j] <= MaxRetries
  BY <1>1 DEF IInv, Bookkeeping, AttemptBounded, Reserve
<1>5. Bookkeeping'
  BY <1>1, <1>2, <1>4, OwnStepBookkeeping DEF PCs
<1>6. ASSUME OwnStep(j, "finish") PROVE Exclusion'
  <2>1. pc'[j] = "finish"
    BY <1>6 DEF IInv, TypeOK, OwnStep, Jobs
  <2>2. /\ QueueLeft(j)
        /\ pc[j] \notin {"queued", "reserved", "commit"} => queue' = queue
    BY <2>1, <1>1, <1>q, ConstantsAssumption DEF IInv, TypeOK, Jobs, QueueLeft, Reserve,
       Goto, Show, Report, HasTurn
  <2> QED
    BY <1>6, <1>1, <2>2, OwnStepExclusion DEF PCs
<1>7. ASSUME OwnStep(j, "reserved") PROVE Exclusion'
  <2>1. pc'[j] = "reserved" /\ \A k \in Jobs \ {j} : pc'[k] = pc[k]
    BY <1>7 DEF IInv, TypeOK, OwnStep, Jobs
  <2>2. queue' = queue /\ queue # <<>> /\ Head(queue) = j /\ phase'[j] = "committing"
    BY <2>1, ConstantsAssumption DEF IInv, TypeOK, Reserve, HasTurn, Goto, Report, Show,
       Jobs
  <2>3. ~direct /\ \A k \in Writers : pc[k] = "none"
    BY ConstantsAssumption DEF IInv, Bookkeeping, WorkersInflight, InlineFenced, TypeOK,
       Reserve, ReserveBlocked, Reserves, Live, Jobs
  <2>4. WaitersQueued'
    BY <1>q, <2>1, <2>2 DEF IInv, Exclusion, WaitersQueued, Queued, Jobs
  <2>5. CommitterHeads'
    BY <2>1, <2>2, <1>7 DEF IInv, Exclusion, CommitterHeads, Committing, OwnStep, Jobs
  <2>6. WriterAlone' /\ DirectAlone'
    BY <2>1, <2>3, <1>7, ConstantsAssumption
       DEF IInv, Exclusion, WriterAlone, DirectAlone, Committing, OwnStep, Jobs
  <2>7. ClearFenceAlone'
    BY <1>1, <1>7 DEF IInv, Exclusion, ClearFenceAlone, OwnStep, Jobs
  <2> QED
    BY <2>4, <2>5, <2>6, <2>7 DEF Exclusion
<1>8. Exclusion'
  BY <1>2, <1>6, <1>7
<1> QED
  BY <1>3, <1>5, <1>8 DEF IInv

\* Journalling the reserved commit keeps the reservation or rolls it back whole.
LEMMA JournalCommittingStep == ASSUME IInv, NEW j \in Syncs, JournalCommitting(j) PROVE IInv'
<1>q. queue \in Seq(Syncs) /\ Queued(j)
  BY DEF IInv, TypeOK, Exclusion, WaitersQueued, HasTurn, JournalCommitting
<1>d. Dequeued(j) \in Seq(Syncs)
  BY <1>q, DequeuedFacts
<1>1. /\ pc[j] = "reserved" /\ pc[j] # "none"
      /\ j = inline => pc[j] \in InlinePCs
  BY ConstantsAssumption DEF IInv, Bookkeeping, InlineFenced, Jobs, HasTurn,
     JournalCommitting
<1>2. \/ OwnStep(j, "commit")
      \/ OwnStep(j, "finish")
  BY ConstantsAssumption, <1>1 DEF IInv, TypeOK, Jobs, PCs, InlinePCs, OwnStep, laneVars,
     bootVars, JournalCommitting, Goto, Show, Report, ParkedPhase
<1>3. TypeOK'
  <2>1. (phase \in [Syncs -> Phases])'
    BY ConstantsAssumption DEF IInv, TypeOK, Jobs, Phases, JournalCommitting, Goto, Show,
       Report, ParkedPhase
  <2>2. (pc \in [Jobs -> PCs])'
    BY <1>2 DEF IInv, TypeOK, OwnStep, PCs
  <2>3. (outcome \in [Jobs -> Outcomes])'
    BY ConstantsAssumption DEF IInv, TypeOK, Jobs, Outcomes, JournalCommitting, Goto, Show,
       Report, ParkedPhase
  <2>4. (queue \in Seq(Syncs))'
    BY ConstantsAssumption, <1>d DEF IInv, TypeOK, Jobs, JournalCommitting, Goto, Show,
       Report, ParkedPhase
  <2> QED
    BY <2>1, <2>2, <2>3, <2>4 DEF IInv, TypeOK, laneVars, bootVars, JournalCommitting
<1>4. attempt'[j] <= MaxRetries
  BY <1>1 DEF IInv, Bookkeeping, AttemptBounded, JournalCommitting
<1>5. Bookkeeping'
  BY <1>1, <1>2, <1>4, OwnStepBookkeeping DEF PCs
<1>6. ASSUME OwnStep(j, "finish") PROVE Exclusion'
  <2>1. pc'[j] = "finish"
    BY <1>6 DEF IInv, TypeOK, OwnStep, Jobs
  <2>2. /\ QueueLeft(j)
        /\ pc[j] \notin {"queued", "reserved", "commit"} => queue' = queue
    BY <2>1, <1>1, <1>q, ConstantsAssumption DEF IInv, TypeOK, Jobs, QueueLeft,
       JournalCommitting, Goto, Show, Report, ParkedPhase
  <2> QED
    BY <1>6, <1>1, <2>2, OwnStepExclusion DEF PCs
<1>7. ASSUME OwnStep(j, "commit") PROVE Exclusion'
  <2>1. pc'[j] = "commit" /\ \A k \in Jobs \ {j} : pc'[k] = pc[k]
    BY <1>7 DEF IInv, TypeOK, OwnStep, Jobs
  <2>2. queue' = queue /\ queue # <<>> /\ Head(queue) = j /\ phase'[j] = "committing"
    BY <2>1, ConstantsAssumption DEF IInv, TypeOK, JournalCommitting, Goto, Report, Jobs,
       Exclusion, CommitterHeads, Committing
  <2>3. WaitersQueued'
    BY <1>q, <2>1, <2>2 DEF IInv, Exclusion, WaitersQueued, Queued, Jobs
  <2>4. CommitterHeads'
    BY <2>1, <2>2, <1>7 DEF IInv, Exclusion, CommitterHeads, Committing, OwnStep, Jobs
  <2>5. WriterAlone' /\ DirectAlone'
    BY <2>1, <1>1, <1>7, ConstantsAssumption
       DEF IInv, Exclusion, WriterAlone, DirectAlone, Committing, OwnStep, Jobs
  <2>6. ClearFenceAlone'
    BY <1>1, <1>7 DEF IInv, Exclusion, ClearFenceAlone, OwnStep, Jobs
  <2> QED
    BY <2>3, <2>4, <2>5, <2>6 DEF Exclusion
<1>8. Exclusion'
  BY <1>2, <1>6, <1>7
<1> QED
  BY <1>3, <1>5, <1>8 DEF IInv

\* The turn is released when the commit returns, while the job still shows "committing".
LEMMA CommitReturnsStep == ASSUME IInv, NEW j \in Syncs, CommitReturns(j) PROVE IInv'
<1>q. queue \in Seq(Syncs) /\ Queued(j)
  BY DEF IInv, TypeOK, Exclusion, WaitersQueued, HasTurn, CommitReturns
<1>d. Dequeued(j) \in Seq(Syncs)
  BY <1>q, DequeuedFacts
<1>1. /\ pc[j] # "none"
      /\ j = inline => pc[j] \in InlinePCs
  BY ConstantsAssumption DEF IInv, Bookkeeping, InlineFenced, Jobs, HasTurn, CommitReturns
<1>2. PICK label \in {"after"} : OwnStep(j, label)
  BY ConstantsAssumption, <1>1 DEF IInv, TypeOK, Jobs, PCs, InlinePCs, OwnStep, laneVars,
     bootVars, CommitReturns, Goto
<1>3. TypeOK'
  <2>1. (pc \in [Jobs -> PCs])'
    BY <1>2 DEF IInv, TypeOK, OwnStep, PCs
  <2>2. (outcome \in [Jobs -> Outcomes])'
    BY ConstantsAssumption DEF IInv, TypeOK, Jobs, Outcomes, CommitReturns, Goto
  <2>3. (queue \in Seq(Syncs))'
    BY ConstantsAssumption, <1>d DEF IInv, TypeOK, Jobs, CommitReturns, Goto
  <2> QED
    BY <2>1, <2>2, <2>3 DEF IInv, TypeOK, laneVars, bootVars, CommitReturns
<1>4. label \in {"staged", "backoff", "after"} => attempt'[j] <= MaxRetries
  BY ConstantsAssumption, <1>2 DEF IInv, TypeOK, Jobs, Bookkeeping, AttemptBounded, OwnStep,
     CommitReturns, Goto
<1>5. /\ QueueLeft(j)
      /\ pc[j] \notin {"queued", "reserved", "commit"} => queue' = queue
  BY <1>q DEF QueueLeft, HasTurn, CommitReturns
<1>6. Bookkeeping'
  BY <1>1, <1>2, <1>4, OwnStepBookkeeping DEF PCs
<1>7. Exclusion'
  BY <1>1, <1>2, <1>5, OwnStepExclusion DEF PCs
<1> QED
  BY <1>3, <1>6, <1>7 DEF IInv

\* Publishing the result of a commit ends the reservation.
LEMMA PublishCommitStep == ASSUME IInv, NEW j \in Syncs, PublishCommit(j) PROVE IInv'
<1>1. /\ pc[j] # "none"
      /\ j = inline => pc[j] \in InlinePCs
  BY ConstantsAssumption DEF IInv, Bookkeeping, InlineFenced, Jobs, HasTurn, PublishCommit
<1>2. PICK label \in {"finish", "backoff"} : OwnStep(j, label)
  BY ConstantsAssumption, <1>1 DEF IInv, TypeOK, Jobs, PCs, InlinePCs, OwnStep, laneVars,
     bootVars, PublishCommit, Goto, Show, Report, Park
<1>3. TypeOK'
  <2>1. (phase \in [Syncs -> Phases])'
    BY ConstantsAssumption DEF IInv, TypeOK, Jobs, Phases, PublishCommit, Goto, Show,
       Report, Park
  <2>2. (attempt \in [Syncs -> 0..(MaxRetries + 1)])'
    <3>1. PICK n \in 0..(MaxRetries + 1) : attempt' = [attempt EXCEPT ![j] = n]
      BY ConstantsAssumption DEF IInv, TypeOK, Bookkeeping, AttemptBounded, PublishCommit,
         Goto, Show, Report, Park
    <3> QED
      BY <3>1 DEF IInv, TypeOK
  <2>3. (pc \in [Jobs -> PCs])'
    BY <1>2 DEF IInv, TypeOK, OwnStep, PCs
  <2>4. (outcome \in [Jobs -> Outcomes])'
    BY ConstantsAssumption DEF IInv, TypeOK, Jobs, Outcomes, PublishCommit, Goto, Show,
       Report, Park
  <2> QED
    BY <2>1, <2>2, <2>3, <2>4 DEF IInv, TypeOK, laneVars, bootVars, PublishCommit
<1>4. label \in {"staged", "backoff", "after"} => attempt'[j] <= MaxRetries
  BY ConstantsAssumption, <1>2 DEF IInv, TypeOK, Jobs, Bookkeeping, AttemptBounded, OwnStep,
     PublishCommit, Goto, Show, Report, Park
<1>5. /\ QueueLeft(j)
      /\ pc[j] \notin {"queued", "reserved", "commit"} => queue' = queue
  BY DEF QueueLeft, HasTurn, PublishCommit
<1>6. Bookkeeping'
  BY <1>1, <1>2, <1>4, OwnStepBookkeeping DEF PCs
<1>7. Exclusion'
  BY <1>1, <1>2, <1>5, OwnStepExclusion DEF PCs
<1> QED
  BY <1>3, <1>6, <1>7 DEF IInv

\* A backoff ends with a new try or, when cancelled, with the rejection of the stage.
LEMMA BackoffEndsStep == ASSUME IInv, NEW j \in Syncs, BackoffEnds(j) PROVE IInv'
<1>1. /\ pc[j] # "none"
      /\ j = inline => pc[j] \in InlinePCs
  BY ConstantsAssumption DEF IInv, Bookkeeping, InlineFenced, Jobs, HasTurn, BackoffEnds
<1>2. PICK label \in {"staged", "finish"} : OwnStep(j, label)
  BY ConstantsAssumption, <1>1 DEF IInv, TypeOK, Jobs, PCs, InlinePCs, OwnStep, laneVars,
     bootVars, BackoffEnds, Goto, Show, Report
<1>3. TypeOK'
  <2>1. (phase \in [Syncs -> Phases])'
    BY ConstantsAssumption DEF IInv, TypeOK, Jobs, Phases, BackoffEnds, Goto, Show, Report
  <2>2. (pc \in [Jobs -> PCs])'
    BY <1>2 DEF IInv, TypeOK, OwnStep, PCs
  <2>3. (outcome \in [Jobs -> Outcomes])'
    BY ConstantsAssumption DEF IInv, TypeOK, Jobs, Outcomes, BackoffEnds, Goto, Show, Report
  <2> QED
    BY <2>1, <2>2, <2>3 DEF IInv, TypeOK, laneVars, bootVars, BackoffEnds
<1>4. label \in {"staged", "backoff", "after"} => attempt'[j] <= MaxRetries
  BY ConstantsAssumption, <1>2 DEF IInv, TypeOK, Jobs, Bookkeeping, AttemptBounded, OwnStep,
     BackoffEnds, Goto, Show, Report
<1>5. /\ QueueLeft(j)
      /\ pc[j] \notin {"queued", "reserved", "commit"} => queue' = queue
  BY DEF QueueLeft, HasTurn, BackoffEnds
<1>6. Bookkeeping'
  BY <1>1, <1>2, <1>4, OwnStepBookkeeping DEF PCs
<1>7. Exclusion'
  BY <1>1, <1>2, <1>5, OwnStepExclusion DEF PCs
<1> QED
  BY <1>3, <1>6, <1>7 DEF IInv

\* The terminal status of a sync job ends whatever it reserved.
LEMMA FinishStep == ASSUME IInv, NEW j \in Syncs, Finish(j) PROVE IInv'
<1>1. /\ pc[j] # "none"
      /\ j = inline => pc[j] \in InlinePCs
  BY ConstantsAssumption DEF IInv, Bookkeeping, InlineFenced, Jobs, HasTurn, Finish
<1>2. PICK label \in {"unwind"} : OwnStep(j, label)
  BY ConstantsAssumption, <1>1 DEF IInv, TypeOK, Jobs, PCs, InlinePCs, OwnStep, laneVars,
     bootVars, Finish, Goto
<1>3. TypeOK'
  <2>1. (status \in [Jobs -> Statuses])'
    BY ConstantsAssumption DEF IInv, TypeOK, Jobs, Statuses, Finish, Goto
  <2>2. (checkpoint \subseteq Syncs)'
    BY ConstantsAssumption DEF IInv, TypeOK, Jobs, Finish, Goto
  <2>3. (pc \in [Jobs -> PCs])'
    BY <1>2 DEF IInv, TypeOK, OwnStep, PCs
  <2>4. (outcome \in [Jobs -> Outcomes])'
    BY ConstantsAssumption DEF IInv, TypeOK, Jobs, Outcomes, Finish, Goto
  <2> QED
    BY <2>1, <2>2, <2>3, <2>4 DEF IInv, TypeOK, laneVars, bootVars, Finish
<1>4. label \in {"staged", "backoff", "after"} => attempt'[j] <= MaxRetries
  BY ConstantsAssumption, <1>2 DEF IInv, TypeOK, Jobs, Bookkeeping, AttemptBounded, OwnStep,
     Finish, Goto
<1>5. /\ QueueLeft(j)
      /\ pc[j] \notin {"queued", "reserved", "commit"} => queue' = queue
  BY DEF QueueLeft, HasTurn, Finish
<1>6. Bookkeeping'
  BY <1>1, <1>2, <1>4, OwnStepBookkeeping DEF PCs
<1>7. Exclusion'
  BY <1>1, <1>2, <1>5, OwnStepExclusion DEF PCs
<1> QED
  BY <1>3, <1>6, <1>7 DEF IInv

-----------------------------------------------------------------------------
(* Requests, direct writer, mutation fence, exclusive workers, recovery.   *)

\* Admission (createCoalescedJobWithIntent) lets an exclusive writer in only when the lane is free.
LEMMA AdmitStep == ASSUME IInv, NEW j \in Jobs, Admit(j) PROVE IInv'
<1>1. TypeOK'
  BY ConstantsAssumption DEF IInv, TypeOK, Statuses, Phases, PCs, Outcomes, Jobs, Admit,
     Goto, AdmissionOpen, LaneBusy, Reserves, Live, Active, laneVars, bootVars, workerVars
<1>2. Bookkeeping'
  BY ConstantsAssumption DEF IInv, TypeOK, Jobs, Bookkeeping, PcShape, WorkersInflight,
     InterruptedIdle, InlineFenced, RecoveryFenced, AttemptBounded, InlinePCs, Admit, Goto,
     AdmissionOpen, LaneBusy, Reserves, Live, Active, laneVars, bootVars, workerVars
<1>3. Exclusion'
  BY <1>2, ConstantsAssumption DEF IInv, TypeOK, Jobs, Bookkeeping, PcShape,
     WorkersInflight, InterruptedIdle, InlineFenced, RecoveryFenced, AttemptBounded, InlinePCs,
     Exclusion, WaitersQueued, Queued, CommitterHeads, Committing, WriterAlone, DirectAlone,
     ClearFenceAlone, Live, Active, Admit, Goto, AdmissionOpen, LaneBusy, Reserves, Live,
     Active, laneVars, bootVars, workerVars
<1> QED
  BY <1>1, <1>2, <1>3 DEF IInv

\* Reviving a documentation job checks the lane like a fresh admission.
LEMMA ResumeDocsStep == ASSUME IInv, NEW j \in Jobs, ResumeDocs(j) PROVE IInv'
<1>1. TypeOK'
  BY ConstantsAssumption DEF IInv, TypeOK, Statuses, Phases, PCs, Outcomes, Jobs,
     ResumeDocs, Goto, AdmissionOpen, LaneBusy, Reserves, Live, Active, laneVars, bootVars,
     workerVars
<1>2. Bookkeeping'
  BY ConstantsAssumption DEF IInv, TypeOK, Jobs, Bookkeeping, PcShape, WorkersInflight,
     InterruptedIdle, InlineFenced, RecoveryFenced, AttemptBounded, InlinePCs, ResumeDocs,
     Goto, AdmissionOpen, LaneBusy, Reserves, Live, Active, laneVars, bootVars, workerVars
<1>3. Exclusion'
  BY <1>2, ConstantsAssumption DEF IInv, TypeOK, Jobs, Bookkeeping, PcShape,
     WorkersInflight, InterruptedIdle, InlineFenced, RecoveryFenced, AttemptBounded, InlinePCs,
     Exclusion, WaitersQueued, Queued, CommitterHeads, Committing, WriterAlone, DirectAlone,
     ClearFenceAlone, Live, Active, ResumeDocs, Goto, AdmissionOpen, LaneBusy, Reserves, Live,
     Active, laneVars, bootVars, workerVars
<1> QED
  BY <1>1, <1>2, <1>3 DEF IInv

\* Cancelling a sync or RAG job only cancels its context.
LEMMA CancelStep == ASSUME IInv, NEW j \in Jobs, Cancel(j) PROVE IInv'
<1>1. TypeOK'
  BY ConstantsAssumption DEF IInv, TypeOK, Statuses, Phases, PCs, Outcomes, Jobs, Cancel,
     Active, laneVars, bootVars, workerVars
<1>2. Bookkeeping'
  BY ConstantsAssumption DEF IInv, TypeOK, Jobs, Bookkeeping, PcShape, WorkersInflight,
     InterruptedIdle, InlineFenced, RecoveryFenced, AttemptBounded, InlinePCs, Cancel, Active,
     laneVars, bootVars, workerVars
<1>3. Exclusion'
  BY <1>2, ConstantsAssumption DEF IInv, TypeOK, Jobs, Bookkeeping, PcShape,
     WorkersInflight, InterruptedIdle, InlineFenced, RecoveryFenced, AttemptBounded, InlinePCs,
     Exclusion, WaitersQueued, Queued, CommitterHeads, Committing, WriterAlone, DirectAlone,
     ClearFenceAlone, Live, Active, Cancel, Active, laneVars, bootVars, workerVars
<1> QED
  BY <1>1, <1>2, <1>3 DEF IInv

\* A documentation job made terminal under its goroutine still counts as inflight.
LEMMA EndDocsStep == ASSUME IInv, NEW j \in Jobs, EndDocs(j) PROVE IInv'
<1>1. TypeOK'
  BY ConstantsAssumption DEF IInv, TypeOK, Statuses, Phases, PCs, Outcomes, Jobs, EndDocs,
     Active, laneVars, bootVars, workerVars
<1>2. Bookkeeping'
  BY ConstantsAssumption DEF IInv, TypeOK, Jobs, Bookkeeping, PcShape, WorkersInflight,
     InterruptedIdle, InlineFenced, RecoveryFenced, AttemptBounded, InlinePCs, EndDocs, Active,
     laneVars, bootVars, workerVars
<1>3. Exclusion'
  BY <1>2, ConstantsAssumption DEF IInv, TypeOK, Jobs, Bookkeeping, PcShape,
     WorkersInflight, InterruptedIdle, InlineFenced, RecoveryFenced, AttemptBounded, InlinePCs,
     Exclusion, WaitersQueued, Queued, CommitterHeads, Committing, WriterAlone, DirectAlone,
     ClearFenceAlone, Live, Active, EndDocs, Active, laneVars, bootVars, workerVars
<1> QED
  BY <1>1, <1>2, <1>3 DEF IInv

\* Shutdown closes admission and cancels every context.
LEMMA ShutdownStep == ASSUME IInv, Shutdown PROVE IInv'
<1>1. TypeOK'
  BY ConstantsAssumption DEF IInv, TypeOK, Statuses, Phases, PCs, Outcomes, Jobs, Shutdown,
     laneVars, bootVars, workerVars
<1>2. Bookkeeping'
  BY ConstantsAssumption DEF IInv, TypeOK, Jobs, Bookkeeping, PcShape, WorkersInflight,
     InterruptedIdle, InlineFenced, RecoveryFenced, AttemptBounded, InlinePCs, Shutdown,
     laneVars, bootVars, workerVars
<1>3. Exclusion'
  BY <1>2, ConstantsAssumption DEF IInv, TypeOK, Jobs, Bookkeeping, PcShape,
     WorkersInflight, InterruptedIdle, InlineFenced, RecoveryFenced, AttemptBounded, InlinePCs,
     Exclusion, WaitersQueued, Queued, CommitterHeads, Committing, WriterAlone, DirectAlone,
     ClearFenceAlone, Live, Active, Shutdown, laneVars, bootVars, workerVars
<1> QED
  BY <1>1, <1>2, <1>3 DEF IInv

\* A direct writer begins only when nobody reserves the lane.
LEMMA BeginDirectStep == ASSUME IInv, BeginDirect PROVE IInv'
<1>1. TypeOK'
  BY ConstantsAssumption DEF IInv, TypeOK, Statuses, Phases, PCs, Outcomes, Jobs,
     BeginDirect, AdmissionOpen, LaneBusy, Reserves, Live, laneVars, bootVars, workerVars
<1>2. Bookkeeping'
  BY ConstantsAssumption DEF IInv, TypeOK, Jobs, Bookkeeping, PcShape, WorkersInflight,
     InterruptedIdle, InlineFenced, RecoveryFenced, AttemptBounded, InlinePCs, BeginDirect,
     AdmissionOpen, LaneBusy, Reserves, Live, laneVars, bootVars, workerVars
<1>3. Exclusion'
  BY <1>2, ConstantsAssumption DEF IInv, TypeOK, Jobs, Bookkeeping, PcShape,
     WorkersInflight, InterruptedIdle, InlineFenced, RecoveryFenced, AttemptBounded, InlinePCs,
     Exclusion, WaitersQueued, Queued, CommitterHeads, Committing, WriterAlone, DirectAlone,
     ClearFenceAlone, Live, Active, BeginDirect, AdmissionOpen, LaneBusy, Reserves, Live,
     laneVars, bootVars, workerVars
<1> QED
  BY <1>1, <1>2, <1>3 DEF IInv

\* A direct writer that ends frees the lane.
LEMMA EndDirectStep == ASSUME IInv, EndDirect PROVE IInv'
<1>1. TypeOK'
  BY ConstantsAssumption DEF IInv, TypeOK, Statuses, Phases, PCs, Outcomes, Jobs, EndDirect,
     laneVars, bootVars, workerVars
<1>2. Bookkeeping'
  BY ConstantsAssumption DEF IInv, TypeOK, Jobs, Bookkeeping, PcShape, WorkersInflight,
     InterruptedIdle, InlineFenced, RecoveryFenced, AttemptBounded, InlinePCs, EndDirect,
     laneVars, bootVars, workerVars
<1>3. Exclusion'
  BY <1>2, ConstantsAssumption DEF IInv, TypeOK, Jobs, Bookkeeping, PcShape,
     WorkersInflight, InterruptedIdle, InlineFenced, RecoveryFenced, AttemptBounded, InlinePCs,
     Exclusion, WaitersQueued, Queued, CommitterHeads, Committing, WriterAlone, DirectAlone,
     ClearFenceAlone, Live, Active, EndDirect, laneVars, bootVars, workerVars
<1> QED
  BY <1>1, <1>2, <1>3 DEF IInv

\* The mutation fence is raised clear only when no worker and no direct writer exists.
LEMMA RaiseFenceStep == ASSUME IInv, RaiseFence PROVE IInv'
<1>1. TypeOK'
  BY ConstantsAssumption DEF IInv, TypeOK, Statuses, Phases, PCs, Outcomes, Jobs,
     RaiseFence, Live, laneVars, bootVars, workerVars
<1>2. Bookkeeping'
  <2>1. PcShape'
    BY ConstantsAssumption DEF IInv, TypeOK, Jobs, Bookkeeping, PcShape, InterruptedIdle,
       RaiseFence, Live, laneVars, bootVars, workerVars
  <2>2. WorkersInflight'
    BY ConstantsAssumption DEF IInv, TypeOK, Jobs, Bookkeeping, WorkersInflight,
       InterruptedIdle, InlineFenced, RaiseFence, Live, laneVars, bootVars, workerVars
  <2>3. InterruptedIdle'
    BY ConstantsAssumption DEF IInv, TypeOK, Jobs, Bookkeeping, InterruptedIdle, RaiseFence,
       Live, laneVars, bootVars, workerVars
  <2>4. InlineFenced'
    BY ConstantsAssumption DEF IInv, TypeOK, Jobs, Bookkeeping, InlineFenced, InlinePCs,
       InterruptedIdle, RaiseFence, Live, laneVars, bootVars, workerVars
  <2>5. RecoveryFenced'
    BY ConstantsAssumption DEF IInv, TypeOK, Jobs, Bookkeeping, RecoveryFenced,
       ClearFenceAlone, Exclusion, RaiseFence, Live, laneVars, bootVars, workerVars
  <2>6. AttemptBounded'
    BY ConstantsAssumption DEF IInv, TypeOK, Jobs, Bookkeeping, AttemptBounded, RaiseFence,
       Live, laneVars, bootVars, workerVars
  <2> QED
    BY <2>1, <2>2, <2>3, <2>4, <2>5, <2>6 DEF Bookkeeping
<1>3. Exclusion'
  BY <1>2, ConstantsAssumption DEF IInv, TypeOK, Jobs, Bookkeeping, PcShape,
     WorkersInflight, InterruptedIdle, InlineFenced, RecoveryFenced, AttemptBounded, InlinePCs,
     Exclusion, WaitersQueued, Queued, CommitterHeads, Committing, WriterAlone, DirectAlone,
     ClearFenceAlone, Live, Active, RaiseFence, Live, laneVars, bootVars, workerVars
<1> QED
  BY <1>1, <1>2, <1>3 DEF IInv

\* Dropping the fence disturbs nothing.
LEMMA DropFenceStep == ASSUME IInv, DropFence PROVE IInv'
<1>1. TypeOK'
  BY ConstantsAssumption DEF IInv, TypeOK, Statuses, Phases, PCs, Outcomes, Jobs, DropFence,
     laneVars, bootVars, workerVars
<1>2. Bookkeeping'
  BY ConstantsAssumption DEF IInv, TypeOK, Jobs, Bookkeeping, PcShape, WorkersInflight,
     InterruptedIdle, InlineFenced, RecoveryFenced, AttemptBounded, InlinePCs, DropFence,
     laneVars, bootVars, workerVars
<1>3. Exclusion'
  BY <1>2, ConstantsAssumption DEF IInv, TypeOK, Jobs, Bookkeeping, PcShape,
     WorkersInflight, InterruptedIdle, InlineFenced, RecoveryFenced, AttemptBounded, InlinePCs,
     Exclusion, WaitersQueued, Queued, CommitterHeads, Committing, WriterAlone, DirectAlone,
     ClearFenceAlone, Live, Active, DropFence, laneVars, bootVars, workerVars
<1> QED
  BY <1>1, <1>2, <1>3 DEF IInv

\* An exclusive worker starts under the lane its admission reserved.
LEMMA BeginWorkStep == ASSUME IInv, NEW j \in Jobs, BeginWork(j) PROVE IInv'
<1>1. TypeOK'
  BY ConstantsAssumption DEF IInv, TypeOK, Statuses, Phases, PCs, Outcomes, Jobs, BeginWork,
     Goto, laneVars, bootVars, workerVars
<1>2. Bookkeeping'
  BY ConstantsAssumption DEF IInv, TypeOK, Jobs, Bookkeeping, PcShape, WorkersInflight,
     InterruptedIdle, InlineFenced, RecoveryFenced, AttemptBounded, InlinePCs, BeginWork, Goto,
     laneVars, bootVars, workerVars
<1>3. Exclusion'
  BY <1>2, ConstantsAssumption DEF IInv, TypeOK, Jobs, Bookkeeping, PcShape,
     WorkersInflight, InterruptedIdle, InlineFenced, RecoveryFenced, AttemptBounded, InlinePCs,
     Exclusion, WaitersQueued, Queued, CommitterHeads, Committing, WriterAlone, DirectAlone,
     ClearFenceAlone, Live, Active, BeginWork, Goto, laneVars, bootVars, workerVars
<1> QED
  BY <1>1, <1>2, <1>3 DEF IInv

\* An exclusive worker publishes its end while it is still inflight.
LEMMA EndWorkStep == ASSUME IInv, NEW j \in Jobs, EndWork(j) PROVE IInv'
<1>1. TypeOK'
  BY ConstantsAssumption DEF IInv, TypeOK, Statuses, Phases, PCs, Outcomes, Jobs, EndWork,
     Goto, laneVars, bootVars, workerVars
<1>2. Bookkeeping'
  BY ConstantsAssumption DEF IInv, TypeOK, Jobs, Bookkeeping, PcShape, WorkersInflight,
     InterruptedIdle, InlineFenced, RecoveryFenced, AttemptBounded, InlinePCs, EndWork, Goto,
     laneVars, bootVars, workerVars
<1>3. Exclusion'
  BY <1>2, ConstantsAssumption DEF IInv, TypeOK, Jobs, Bookkeeping, PcShape,
     WorkersInflight, InterruptedIdle, InlineFenced, RecoveryFenced, AttemptBounded, InlinePCs,
     Exclusion, WaitersQueued, Queued, CommitterHeads, Committing, WriterAlone, DirectAlone,
     ClearFenceAlone, Live, Active, EndWork, Goto, laneVars, bootVars, workerVars
<1> QED
  BY <1>1, <1>2, <1>3 DEF IInv

\* markWorkerFinished removes a worker that no longer writes.
LEMMA UnwindStep == ASSUME IInv, NEW j \in Jobs, Unwind(j) PROVE IInv'
<1>1. TypeOK'
  BY ConstantsAssumption DEF IInv, TypeOK, Statuses, Phases, PCs, Outcomes, Jobs, Unwind,
     Goto, laneVars, bootVars, workerVars
<1>2. Bookkeeping'
  BY ConstantsAssumption DEF IInv, TypeOK, Jobs, Bookkeeping, PcShape, WorkersInflight,
     InterruptedIdle, InlineFenced, RecoveryFenced, AttemptBounded, InlinePCs, Unwind, Goto,
     laneVars, bootVars, workerVars
<1>3. Exclusion'
  BY <1>2, ConstantsAssumption DEF IInv, TypeOK, Jobs, Bookkeeping, PcShape,
     WorkersInflight, InterruptedIdle, InlineFenced, RecoveryFenced, AttemptBounded, InlinePCs,
     Exclusion, WaitersQueued, Queued, CommitterHeads, Committing, WriterAlone, DirectAlone,
     ClearFenceAlone, Live, Active, Unwind, Goto, laneVars, bootVars, workerVars
<1> QED
  BY <1>1, <1>2, <1>3 DEF IInv

\* A restart leaves no goroutine, no turn and no direct writer, and raises the recovery fence.
LEMMA RestartStep == ASSUME IInv, Restart PROVE IInv'
<1>1. TypeOK'
  <2>1. (status \in [Jobs -> Statuses])'
    BY ConstantsAssumption DEF IInv, TypeOK, Jobs, Statuses, Restart, Active, laneVars,
       bootVars, workerVars
  <2>2. (phase \in [Syncs -> Phases])'
    BY ConstantsAssumption DEF IInv, TypeOK, Jobs, Phases, Restart, Active, laneVars,
       bootVars, workerVars
  <2>3. (pc \in [Jobs -> PCs])'
    BY ConstantsAssumption DEF IInv, TypeOK, Jobs, PCs, Restart, Active, laneVars, bootVars,
       workerVars
  <2>4. (outcome \in [Jobs -> Outcomes])'
    BY ConstantsAssumption DEF IInv, TypeOK, Jobs, Outcomes, Restart, Active, laneVars,
       bootVars, workerVars
  <2>5. (recFence \in BOOLEAN)'
    BY ConstantsAssumption DEF IInv, TypeOK, Jobs, Restart, Active, laneVars, bootVars,
       workerVars
  <2>6. (restarts \in 0..MaxRestarts)'
    BY ConstantsAssumption DEF IInv, TypeOK, Jobs, Restart, Active, laneVars, bootVars,
       workerVars
  <2>7. (queue \in Seq(Syncs) /\ inline \in Syncs \cup {NoJob})'
    BY DEF Restart
  <2>8. (inflight \subseteq Jobs /\ cancelled \subseteq Jobs)'
    BY DEF Restart
  <2> QED
    BY <2>1, <2>2, <2>3, <2>4, <2>5, <2>6, <2>7, <2>8
       DEF IInv, TypeOK, Restart
<1>2. Bookkeeping'
  <2>1. PcShape'
    BY ConstantsAssumption DEF IInv, TypeOK, Jobs, Bookkeeping, PcShape, InterruptedIdle,
       Restart, Active, laneVars, bootVars, workerVars
  <2>2. WorkersInflight'
    BY ConstantsAssumption DEF IInv, TypeOK, Jobs, Bookkeeping, WorkersInflight,
       InterruptedIdle, InlineFenced, Restart, Active, laneVars, bootVars, workerVars
  <2>3. InterruptedIdle'
    BY ConstantsAssumption DEF IInv, TypeOK, Jobs, Bookkeeping, InterruptedIdle, Restart,
       Active, laneVars, bootVars, workerVars
  <2>4. InlineFenced'
    BY ConstantsAssumption DEF IInv, TypeOK, Jobs, Bookkeeping, InlineFenced, InlinePCs,
       InterruptedIdle, Restart, Active, laneVars, bootVars, workerVars
  <2>5. RecoveryFenced'
    BY ConstantsAssumption DEF IInv, TypeOK, Jobs, Bookkeeping, RecoveryFenced,
       ClearFenceAlone, Exclusion, Restart, Active, laneVars, bootVars, workerVars
  <2>6. AttemptBounded'
    BY ConstantsAssumption DEF IInv, TypeOK, Jobs, Bookkeeping, AttemptBounded, Restart,
       Active, laneVars, bootVars, workerVars
  <2> QED
    BY <2>1, <2>2, <2>3, <2>4, <2>5, <2>6 DEF Bookkeeping
<1>3. Exclusion'
  BY <1>2, ConstantsAssumption DEF IInv, TypeOK, Jobs, Bookkeeping, PcShape,
     WorkersInflight, InterruptedIdle, InlineFenced, RecoveryFenced, AttemptBounded, InlinePCs,
     Exclusion, WaitersQueued, Queued, CommitterHeads, Committing, WriterAlone, DirectAlone,
     ClearFenceAlone, Live, Active, Restart, Active, laneVars, bootVars, workerVars
<1> QED
  BY <1>1, <1>2, <1>3 DEF IInv

\* Recovery resumes an interrupted sync job behind the recovery fence.
LEMMA RecoverResumeStep == ASSUME IInv, NEW j \in Syncs, RecoverResume(j) PROVE IInv'
<1>1. TypeOK'
  <2>1. (status \in [Jobs -> Statuses])'
    BY ConstantsAssumption DEF IInv, TypeOK, Jobs, Statuses, RecoverResume, Goto, Show,
       ParkedPhase, Evidence, StagePending, laneVars, bootVars, workerVars
  <2>2. (phase \in [Syncs -> Phases])'
    BY ConstantsAssumption DEF IInv, TypeOK, Jobs, Phases, RecoverResume, Goto, Show,
       ParkedPhase, Evidence, StagePending, laneVars, bootVars, workerVars
  <2>3. (pc \in [Jobs -> PCs])'
    BY ConstantsAssumption DEF IInv, TypeOK, Jobs, PCs, RecoverResume, Goto, Show,
       ParkedPhase, Evidence, StagePending, laneVars, bootVars, workerVars
  <2>4. (outcome \in [Jobs -> Outcomes])'
    BY ConstantsAssumption DEF IInv, TypeOK, Jobs, Outcomes, RecoverResume, Goto, Show,
       ParkedPhase, Evidence, StagePending, laneVars, bootVars, workerVars
  <2>5. (recFence \in BOOLEAN)'
    BY ConstantsAssumption DEF IInv, TypeOK, Jobs, RecoverResume, Goto, Show, ParkedPhase,
       Evidence, StagePending, laneVars, bootVars, workerVars
  <2>6. (restarts \in 0..MaxRestarts)'
    BY ConstantsAssumption DEF IInv, TypeOK, Jobs, RecoverResume, Goto, Show, ParkedPhase,
       Evidence, StagePending, laneVars, bootVars, workerVars
  <2> QED
    BY <2>1, <2>2, <2>3, <2>4, <2>5, <2>6, ConstantsAssumption DEF IInv, TypeOK, Jobs,
       RecoverResume, Goto, Show, ParkedPhase, Evidence, StagePending, laneVars, bootVars,
       workerVars
<1>2. Bookkeeping'
  <2>1. PcShape'
    BY ConstantsAssumption DEF IInv, TypeOK, Jobs, Bookkeeping, PcShape, InterruptedIdle,
       RecoverResume, Goto, Show, ParkedPhase, Evidence, StagePending, laneVars, bootVars,
       workerVars
  <2>2. WorkersInflight'
    BY ConstantsAssumption DEF IInv, TypeOK, Jobs, Bookkeeping, WorkersInflight,
       InterruptedIdle, InlineFenced, RecoverResume, Goto, Show, ParkedPhase, Evidence,
       StagePending, laneVars, bootVars, workerVars
  <2>3. InterruptedIdle'
    BY ConstantsAssumption DEF IInv, TypeOK, Jobs, Bookkeeping, InterruptedIdle,
       RecoverResume, Goto, Show, ParkedPhase, Evidence, StagePending, laneVars, bootVars,
       workerVars
  <2>4. InlineFenced'
    BY ConstantsAssumption DEF IInv, TypeOK, Jobs, Bookkeeping, InlineFenced, InlinePCs,
       InterruptedIdle, RecoverResume, Goto, Show, ParkedPhase, Evidence, StagePending,
       laneVars, bootVars, workerVars
  <2>5. RecoveryFenced'
    BY ConstantsAssumption DEF IInv, TypeOK, Jobs, Bookkeeping, RecoveryFenced,
       ClearFenceAlone, Exclusion, RecoverResume, Goto, Show, ParkedPhase, Evidence,
       StagePending, laneVars, bootVars, workerVars
  <2>6. AttemptBounded'
    BY ConstantsAssumption DEF IInv, TypeOK, Jobs, Bookkeeping, AttemptBounded,
       RecoverResume, Goto, Show, ParkedPhase, Evidence, StagePending, laneVars, bootVars,
       workerVars
  <2> QED
    BY <2>1, <2>2, <2>3, <2>4, <2>5, <2>6 DEF Bookkeeping
<1>3. Exclusion'
  <2>1. WaitersQueued'
    BY ConstantsAssumption DEF IInv, TypeOK, Jobs, Bookkeeping, InterruptedIdle,
       InlineFenced, Exclusion, WaitersQueued, Queued, RecoverResume, Goto, Show, ParkedPhase,
       Evidence, StagePending, laneVars, bootVars, workerVars
  <2>2. CommitterHeads'
    BY ConstantsAssumption DEF IInv, TypeOK, Jobs, Bookkeeping, InterruptedIdle,
       InlineFenced, Exclusion, CommitterHeads, Committing, RecoverResume, Goto, Show,
       ParkedPhase, Evidence, StagePending, laneVars, bootVars, workerVars
  <2>3. WriterAlone'
    BY ConstantsAssumption DEF IInv, TypeOK, Jobs, Bookkeeping, InterruptedIdle,
       InlineFenced, Exclusion, WriterAlone, Committing, RecoverResume, Goto, Show,
       ParkedPhase, Evidence, StagePending, laneVars, bootVars, workerVars
  <2>4. DirectAlone'
    BY ConstantsAssumption DEF IInv, TypeOK, Jobs, Bookkeeping, InterruptedIdle,
       InlineFenced, Exclusion, DirectAlone, Committing, RecoverResume, Goto, Show,
       ParkedPhase, Evidence, StagePending, laneVars, bootVars, workerVars
  <2>5. ClearFenceAlone'
    BY ConstantsAssumption DEF IInv, TypeOK, Jobs, Bookkeeping, InterruptedIdle,
       InlineFenced, Exclusion, ClearFenceAlone, Live, Active, RecoveryFenced, RecoverResume,
       Goto, Show, ParkedPhase, Evidence, StagePending, laneVars, bootVars, workerVars
  <2> QED
    BY <2>1, <2>2, <2>3, <2>4, <2>5 DEF Exclusion
<1> QED
  BY <1>1, <1>2, <1>3 DEF IInv

\* Recovery completes a job whose evidence is already in the cache.
LEMMA RecoverSettleStep == ASSUME IInv, NEW j \in Syncs, RecoverSettle(j) PROVE IInv'
<1>1. TypeOK'
  BY ConstantsAssumption DEF IInv, TypeOK, Statuses, Phases, PCs, Outcomes, Jobs,
     RecoverSettle, laneVars, bootVars, workerVars
<1>2. Bookkeeping'
  BY ConstantsAssumption DEF IInv, TypeOK, Jobs, Bookkeeping, PcShape, WorkersInflight,
     InterruptedIdle, InlineFenced, RecoveryFenced, AttemptBounded, InlinePCs, RecoverSettle,
     laneVars, bootVars, workerVars
<1>3. Exclusion'
  BY <1>2, ConstantsAssumption DEF IInv, TypeOK, Jobs, Bookkeeping, PcShape,
     WorkersInflight, InterruptedIdle, InlineFenced, RecoveryFenced, AttemptBounded, InlinePCs,
     Exclusion, WaitersQueued, Queued, CommitterHeads, Committing, WriterAlone, DirectAlone,
     ClearFenceAlone, Live, Active, RecoverSettle, laneVars, bootVars, workerVars
<1> QED
  BY <1>1, <1>2, <1>3 DEF IInv

\* Recovery commits a stage itself only when nobody reserves the lane.
LEMMA RecoverInlineStep == ASSUME IInv, NEW j \in Syncs, RecoverInline(j) PROVE IInv'
<1>1. TypeOK'
  BY ConstantsAssumption DEF IInv, TypeOK, Statuses, Phases, PCs, Outcomes, Jobs,
     RecoverInline, Goto, StagePending, laneVars, bootVars, workerVars
<1>2. Bookkeeping'
  BY ConstantsAssumption DEF IInv, TypeOK, Jobs, Bookkeeping, PcShape, WorkersInflight,
     InterruptedIdle, InlineFenced, RecoveryFenced, AttemptBounded, InlinePCs, RecoverInline,
     Goto, StagePending, laneVars, bootVars, workerVars
<1>3. Exclusion'
  BY <1>2, ConstantsAssumption DEF IInv, TypeOK, Jobs, Bookkeeping, PcShape,
     WorkersInflight, InterruptedIdle, InlineFenced, RecoveryFenced, AttemptBounded, InlinePCs,
     Exclusion, WaitersQueued, Queued, CommitterHeads, Committing, WriterAlone, DirectAlone,
     ClearFenceAlone, Live, Active, RecoverInline, Goto, StagePending, laneVars, bootVars,
     workerVars
<1> QED
  BY <1>1, <1>2, <1>3 DEF IInv

\* The inline commit of the recovery goroutine ends.
LEMMA InlineDoneStep == ASSUME IInv, InlineDone PROVE IInv'
<1>1. TypeOK'
  <2>1. (status \in [Jobs -> Statuses])'
    BY ConstantsAssumption DEF IInv, TypeOK, Jobs, Statuses, InlineDone, Goto, laneVars,
       bootVars, workerVars
  <2>2. (phase \in [Syncs -> Phases])'
    BY ConstantsAssumption DEF IInv, TypeOK, Jobs, Phases, InlineDone, Goto, laneVars,
       bootVars, workerVars
  <2>3. (pc \in [Jobs -> PCs])'
    BY ConstantsAssumption DEF IInv, TypeOK, Jobs, PCs, InlineDone, Goto, laneVars,
       bootVars, workerVars
  <2>4. (outcome \in [Jobs -> Outcomes])'
    BY ConstantsAssumption DEF IInv, TypeOK, Jobs, Outcomes, InlineDone, Goto, laneVars,
       bootVars, workerVars
  <2>5. (recFence \in BOOLEAN)'
    BY ConstantsAssumption DEF IInv, TypeOK, Jobs, InlineDone, Goto, laneVars, bootVars,
       workerVars
  <2>6. (restarts \in 0..MaxRestarts)'
    BY ConstantsAssumption DEF IInv, TypeOK, Jobs, InlineDone, Goto, laneVars, bootVars,
       workerVars
  <2> QED
    BY <2>1, <2>2, <2>3, <2>4, <2>5, <2>6, ConstantsAssumption DEF IInv, TypeOK, Jobs,
       InlineDone, Goto, laneVars, bootVars, workerVars
<1>2. Bookkeeping'
  BY ConstantsAssumption DEF IInv, TypeOK, Jobs, Bookkeeping, PcShape, WorkersInflight,
     InterruptedIdle, InlineFenced, RecoveryFenced, AttemptBounded, InlinePCs, InlineDone,
     Goto, laneVars, bootVars, workerVars
<1>3. Exclusion'
  BY <1>2, ConstantsAssumption DEF IInv, TypeOK, Jobs, Bookkeeping, PcShape,
     WorkersInflight, InterruptedIdle, InlineFenced, RecoveryFenced, AttemptBounded, InlinePCs,
     Exclusion, WaitersQueued, Queued, CommitterHeads, Committing, WriterAlone, DirectAlone,
     ClearFenceAlone, Live, Active, InlineDone, Goto, laneVars, bootVars, workerVars
<1> QED
  BY <1>1, <1>2, <1>3 DEF IInv

\* An error ends the recovery before its next job.
LEMMA RecoverAbortStep == ASSUME IInv, RecoverAbort PROVE IInv'
<1>1. TypeOK'
  BY ConstantsAssumption DEF IInv, TypeOK, Statuses, Phases, PCs, Outcomes, Jobs,
     RecoverAbort, laneVars, bootVars, workerVars
<1>2. Bookkeeping'
  BY ConstantsAssumption DEF IInv, TypeOK, Jobs, Bookkeeping, PcShape, WorkersInflight,
     InterruptedIdle, InlineFenced, RecoveryFenced, AttemptBounded, InlinePCs, RecoverAbort,
     laneVars, bootVars, workerVars
<1>3. Exclusion'
  BY <1>2, ConstantsAssumption DEF IInv, TypeOK, Jobs, Bookkeeping, PcShape,
     WorkersInflight, InterruptedIdle, InlineFenced, RecoveryFenced, AttemptBounded, InlinePCs,
     Exclusion, WaitersQueued, Queued, CommitterHeads, Committing, WriterAlone, DirectAlone,
     ClearFenceAlone, Live, Active, RecoverAbort, laneVars, bootVars, workerVars
<1> QED
  BY <1>1, <1>2, <1>3 DEF IInv

\* The end of recovery lifts its fence.
LEMMA RecoverFinishStep == ASSUME IInv, RecoverFinish PROVE IInv'
<1>1. TypeOK'
  BY ConstantsAssumption DEF IInv, TypeOK, Statuses, Phases, PCs, Outcomes, Jobs,
     RecoverFinish, laneVars, bootVars, workerVars
<1>2. Bookkeeping'
  BY ConstantsAssumption DEF IInv, TypeOK, Jobs, Bookkeeping, PcShape, WorkersInflight,
     InterruptedIdle, InlineFenced, RecoveryFenced, AttemptBounded, InlinePCs, RecoverFinish,
     laneVars, bootVars, workerVars
<1>3. Exclusion'
  BY <1>2, ConstantsAssumption DEF IInv, TypeOK, Jobs, Bookkeeping, PcShape,
     WorkersInflight, InterruptedIdle, InlineFenced, RecoveryFenced, AttemptBounded, InlinePCs,
     Exclusion, WaitersQueued, Queued, CommitterHeads, Committing, WriterAlone, DirectAlone,
     ClearFenceAlone, Live, Active, RecoverFinish, laneVars, bootVars, workerVars
<1> QED
  BY <1>1, <1>2, <1>3 DEF IInv

\* Recovery that failed marks the interrupted jobs failed.
LEMMA RecoverGiveUpStep == ASSUME IInv, RecoverGiveUp PROVE IInv'
<1>1. TypeOK'
  <2>1. (status \in [Jobs -> Statuses])'
    BY ConstantsAssumption DEF IInv, TypeOK, Jobs, Statuses, RecoverGiveUp, laneVars,
       bootVars, workerVars
  <2>2. (phase \in [Syncs -> Phases])'
    BY ConstantsAssumption DEF IInv, TypeOK, Jobs, Phases, RecoverGiveUp, laneVars,
       bootVars, workerVars
  <2>3. (pc \in [Jobs -> PCs])'
    BY ConstantsAssumption DEF IInv, TypeOK, Jobs, PCs, RecoverGiveUp, laneVars, bootVars,
       workerVars
  <2>4. (outcome \in [Jobs -> Outcomes])'
    BY ConstantsAssumption DEF IInv, TypeOK, Jobs, Outcomes, RecoverGiveUp, laneVars,
       bootVars, workerVars
  <2>5. (recFence \in BOOLEAN)'
    BY ConstantsAssumption DEF IInv, TypeOK, Jobs, RecoverGiveUp, laneVars, bootVars,
       workerVars
  <2>6. (restarts \in 0..MaxRestarts)'
    BY ConstantsAssumption DEF IInv, TypeOK, Jobs, RecoverGiveUp, laneVars, bootVars,
       workerVars
  <2> QED
    BY <2>1, <2>2, <2>3, <2>4, <2>5, <2>6, ConstantsAssumption DEF IInv, TypeOK, Jobs,
       RecoverGiveUp, laneVars, bootVars, workerVars
<1>2. Bookkeeping'
  <2>1. PcShape'
    BY ConstantsAssumption DEF IInv, TypeOK, Jobs, Bookkeeping, PcShape, InterruptedIdle,
       RecoverGiveUp, laneVars, bootVars, workerVars
  <2>2. WorkersInflight'
    BY ConstantsAssumption DEF IInv, TypeOK, Jobs, Bookkeeping, WorkersInflight,
       InterruptedIdle, InlineFenced, RecoverGiveUp, laneVars, bootVars, workerVars
  <2>3. InterruptedIdle'
    BY ConstantsAssumption DEF IInv, TypeOK, Jobs, Bookkeeping, InterruptedIdle,
       RecoverGiveUp, laneVars, bootVars, workerVars
  <2>4. InlineFenced'
    BY ConstantsAssumption DEF IInv, TypeOK, Jobs, Bookkeeping, InlineFenced, InlinePCs,
       InterruptedIdle, RecoverGiveUp, laneVars, bootVars, workerVars
  <2>5. RecoveryFenced'
    BY ConstantsAssumption DEF IInv, TypeOK, Jobs, Bookkeeping, RecoveryFenced,
       ClearFenceAlone, Exclusion, RecoverGiveUp, laneVars, bootVars, workerVars
  <2>6. AttemptBounded'
    BY ConstantsAssumption DEF IInv, TypeOK, Jobs, Bookkeeping, AttemptBounded,
       RecoverGiveUp, laneVars, bootVars, workerVars
  <2> QED
    BY <2>1, <2>2, <2>3, <2>4, <2>5, <2>6 DEF Bookkeeping
<1>3. Exclusion'
  BY <1>2, ConstantsAssumption DEF IInv, TypeOK, Jobs, Bookkeeping, PcShape,
     WorkersInflight, InterruptedIdle, InlineFenced, RecoveryFenced, AttemptBounded, InlinePCs,
     Exclusion, WaitersQueued, Queued, CommitterHeads, Committing, WriterAlone, DirectAlone,
     ClearFenceAlone, Live, Active, RecoverGiveUp, laneVars, bootVars, workerVars
<1> QED
  BY <1>1, <1>2, <1>3 DEF IInv

-----------------------------------------------------------------------------
\* Every step of the specification preserves the invariant.
LEMMA NextIInv == IInv /\ [Next]_vars => IInv'
<1> SUFFICES ASSUME IInv, [Next]_vars PROVE IInv'
  OBVIOUS
<1>1. CASE Request
  BY <1>1, AdmitStep, ResumeDocsStep, CancelStep, EndDocsStep, ShutdownStep,
     BeginDirectStep, RaiseFenceStep, RestartStep DEF Request
<1>2. CASE Release
  BY <1>2, EndDirectStep, DropFenceStep DEF Release
<1>3. ASSUME NEW j \in Jobs, WorkerStep(j) PROVE IInv'
  <2>1. CASE BeginWork(j) \/ EndWork(j) \/ Unwind(j)
    BY <2>1, BeginWorkStep, EndWorkStep, UnwindStep
  <2>2. CASE j \in Syncs /\ SyncStep(j)
    BY <2>2, BeginSyncStep, FetchedStep, JoinQueueStep, LeaveQueueStep, ReserveRefusedStep,
       ReserveStep, JournalCommittingStep, CommitReturnsStep, PublishCommitStep,
       BackoffEndsStep, FinishStep DEF SyncStep
  <2> QED
    BY <1>3, <2>1, <2>2 DEF WorkerStep
<1>4. CASE RecoveryStep
  BY <1>4, RecoverResumeStep, RecoverSettleStep, RecoverInlineStep, InlineDoneStep,
     RecoverAbortStep, RecoverFinishStep, RecoverGiveUpStep DEF RecoveryStep
<1>5. CASE UNCHANGED vars
  <2>1. TypeOK'
    BY <1>5 DEF IInv, TypeOK, vars, workerVars, laneVars, bootVars
  <2>2. Bookkeeping'
    BY <1>5 DEF IInv, Bookkeeping, PcShape, WorkersInflight, InterruptedIdle, InlineFenced,
       RecoveryFenced, AttemptBounded, vars, workerVars, laneVars, bootVars
  <2>3. Exclusion'
    BY <1>5 DEF IInv, Exclusion, WaitersQueued, Queued, CommitterHeads, Committing, WriterAlone,
       DirectAlone, ClearFenceAlone, Live, Active, vars, workerVars, laneVars, bootVars
  <2> QED
    BY <2>1, <2>2, <2>3 DEF IInv
<1> QED
  BY <1>1, <1>2, <1>3, <1>4, <1>5 DEF Next

\* The invariant holds in every reachable state.
THEOREM Invariance == Spec => []IInv
<1> QED
  BY InitIInv, NextIInv, PTL DEF Spec

\* Every variable keeps its type, for any jobs and bounds.
THEOREM TypeCorrect == Spec => []TypeOK
<1>1. IInv => TypeOK
  BY DEF IInv
<1> QED
  BY <1>1, Invariance, PTL

\* Workers, the direct writer and conflict resolution under a clear fence never
\* change the cache at the same time, across restarts and failing writes.
THEOREM LaneExclusion == Spec => []LaneExclusive
<1>1. IInv => LaneExclusive
  <2> SUFFICES ASSUME IInv PROVE LaneExclusive
    OBVIOUS
  <2>1. ASSUME NEW j \in Jobs, NEW k \in Jobs, Mutating(j), Mutating(k) PROVE j = k
    <3>1. ASSUME NEW m \in Jobs, Mutating(m)
          PROVE  (m \in Writers /\ pc[m] # "none") \/ (m \in Syncs /\ Committing(m))
      BY <3>1 DEF IInv, Bookkeeping, PcShape, Mutating, Committing, Jobs
    <3>2. CASE j \in Writers /\ k \in Writers
      BY <2>1, <3>1, <3>2, ConstantsAssumption DEF IInv, Exclusion, WriterAlone
    <3>3. CASE j \in Syncs /\ k \in Syncs
      BY <2>1, <3>1, <3>3, ConstantsAssumption DEF IInv, Exclusion, CommitterHeads
    <3>4. CASE (j \in Writers /\ k \in Syncs) \/ (j \in Syncs /\ k \in Writers)
      BY <2>1, <3>1, <3>4, ConstantsAssumption DEF IInv, Exclusion, WriterAlone
    <3> QED
      BY <3>2, <3>3, <3>4 DEF Jobs
  <2>2. direct => \A j \in Jobs : ~Mutating(j)
    BY DEF IInv, Bookkeeping, PcShape, Exclusion, DirectAlone, Mutating, Committing, Jobs
  <2>3. fence = "clear" => ~direct /\ \A j \in Jobs : ~Mutating(j)
    BY DEF IInv, Exclusion, ClearFenceAlone, Mutating
  <2> QED
    BY <2>1, <2>2, <2>3 DEF LaneExclusive
<1> QED
  BY <1>1, Invariance, PTL

\* Under a clear mutation fence no worker exists and none is admitted.
THEOREM ClearFenceIsQuiet == Spec => []ClearFenceQuiet
<1>1. IInv => ClearFenceQuiet
  BY DEF IInv, Exclusion, ClearFenceAlone, ClearFenceQuiet, Live
<1> QED
  BY <1>1, Invariance, PTL

-----------------------------------------------------------------------------
(* Admission.  A work key is claimed by an active job, and by an           *)
(* interrupted sync that recovery will make active again without looking   *)
(* at any key; what keeps the second kind from meeting a fresh admission   *)
(* is the recovery fence.                                                  *)

\* Recovery may still resume the job.
Pending(j) == j \in Syncs /\ status[j] = "interrupted" /\ Evidence(j)

Claims(j) == Active(j) \/ Pending(j)

KeysClaimedOnce ==
  \A j, k \in Jobs : Claims(j) /\ Claims(k) /\ WorkKey[j] = WorkKey[k] => j = k

\* No admission before every job that recovery may resume is settled.
PendingFenced == \A j \in Syncs : Pending(j) => recFence

\* Recovery commits a stage itself only for a job that keeps its checkpoint.
InlineChecked == inline # NoJob => inline \in checkpoint

\* A worker other than a documentation job is active until it unwinds.
RunnersActive ==
  \A j \in Jobs : j \notin Docs /\ pc[j] \notin {"none", "unwind"} /\ j # inline => Active(j)

KeyInv == RunnersActive /\ InlineChecked /\ PendingFenced /\ KeysClaimedOnce

\* Nothing is claimed initially.
LEMMA InitKeyInv == Init => KeyInv
  BY ConstantsAssumption DEF Init, KeyInv, RunnersActive, InlineChecked, PendingFenced,
     KeysClaimedOnce, Claims, Pending, Active, Jobs

\* A step about one job that claims no key it did not claim before.
OwnClaim(j) ==
  /\ \A k \in Jobs \ {j} : status'[k] = status[k] /\ pc'[k] = pc[k]
  /\ \A k \in Syncs \ {j} : phase'[k] = phase[k] /\ attempt'[k] = attempt[k]
  /\ \A k \in Syncs \ {j} : k \in checkpoint' <=> k \in checkpoint
  /\ Claims(j)' => Claims(j)
  /\ Pending(j)' => Pending(j)
  /\ j \notin Docs /\ pc'[j] \notin {"none", "unwind"} /\ j # inline' => Active(j)'
  /\ inline' # NoJob => inline' \in checkpoint'
  /\ inline' = inline \/ inline \in {j, NoJob}
  /\ recFence' = recFence

\* Such a step keeps the keys apart.
LEMMA OwnClaimKeeps == ASSUME IInv, KeyInv, NEW j \in Jobs, OwnClaim(j) PROVE KeyInv'
<1> USE ConstantsAssumption
<1>1. ASSUME NEW k \in Jobs, Pending(k)' PROVE Pending(k)
  BY <1>1 DEF OwnClaim, Pending, Evidence, StagePending, Jobs
<1>2. ASSUME NEW k \in Jobs, Claims(k)' PROVE Claims(k)
  BY <1>2, <1>1 DEF OwnClaim, Claims, Active
<1>3. RunnersActive'
  BY DEF RunnersActive, OwnClaim, KeyInv, Active, Jobs
<1>4. InlineChecked'
  BY DEF OwnClaim, InlineChecked
<1>5. PendingFenced'
  BY <1>1 DEF PendingFenced, OwnClaim, KeyInv, Jobs
<1>6. KeysClaimedOnce'
  BY <1>2 DEF KeyInv, KeysClaimedOnce
<1> QED
  BY <1>3, <1>4, <1>5, <1>6 DEF KeyInv

\* A step that leaves every job as it is keeps the keys apart.
LEMMA QuietKeeps ==
  ASSUME KeyInv, UNCHANGED <<status, pc, phase, attempt, checkpoint, inline, recFence>>
  PROVE  KeyInv'
  BY DEF KeyInv, RunnersActive, InlineChecked, PendingFenced, KeysClaimedOnce, Claims, Pending,
     Active, Evidence, StagePending

\* The points at which a worker has something left to do.
LEMMA SyncRuns ==
  ASSUME IInv, KeyInv, NEW j \in Syncs, pc[j] \notin {"none", "unwind"}
  PROVE  /\ j \in Jobs /\ j \notin Docs /\ j # NoJob
         /\ j # inline => Active(j) /\ ~Pending(j)
         /\ j = inline => j \in checkpoint /\ Pending(j)
  BY ConstantsAssumption DEF IInv, TypeOK, KeyInv, RunnersActive, InlineChecked, Bookkeeping,
     InlineFenced, Pending, Evidence, Active, Jobs

\* A step of a sync worker claims nothing: the worker is active, or it is the
\* commit of the recovery goroutine and its job keeps its checkpoint.
LEMMA SyncStepClaims ==
  ASSUME IInv, KeyInv, NEW j \in Syncs, SyncStep(j)
  PROVE  OwnClaim(j)
<1> USE ConstantsAssumption
<1>1. pc[j] \notin {"none", "unwind"} /\ inline' = inline /\ recFence' = recFence
  BY DEF SyncStep, BeginSync, Fetched, JoinQueue, LeaveQueue, HasTurn, ReserveRefused, Reserve,
     JournalCommitting, CommitReturns, PublishCommit, BackoffEnds, Finish, laneVars, bootVars
<1>2. /\ j \in Jobs /\ j \notin Docs /\ j # NoJob
      /\ j # inline => Active(j) /\ ~Pending(j)
      /\ j = inline => j \in checkpoint /\ Pending(j)
  BY <1>1, SyncRuns
<1>3. \A k \in Jobs \ {j} : status'[k] = status[k]
  BY DEF IInv, TypeOK, SyncStep, BeginSync, Fetched, JoinQueue, LeaveQueue, ReserveRefused,
     Reserve, JournalCommitting, CommitReturns, PublishCommit, BackoffEnds, Finish
<1>4. \A k \in Jobs \ {j} : pc'[k] = pc[k]
  BY DEF IInv, TypeOK, SyncStep, BeginSync, Fetched, JoinQueue, LeaveQueue, ReserveRefused,
     Reserve, JournalCommitting, CommitReturns, PublishCommit, BackoffEnds, Finish, Goto, Report,
     Park
<1>5. \A k \in Syncs \ {j} : phase'[k] = phase[k]
  BY DEF IInv, TypeOK, SyncStep, BeginSync, Fetched, JoinQueue, LeaveQueue, ReserveRefused,
     Reserve, JournalCommitting, CommitReturns, PublishCommit, BackoffEnds, Finish, Show, Park
<1>6. \A k \in Syncs \ {j} : attempt'[k] = attempt[k]
  BY DEF IInv, TypeOK, SyncStep, BeginSync, Fetched, JoinQueue, LeaveQueue, ReserveRefused,
     Reserve, JournalCommitting, CommitReturns, PublishCommit, BackoffEnds, Finish, Park
<1>7. \A k \in Syncs \ {j} : k \in checkpoint' <=> k \in checkpoint
  BY DEF SyncStep, BeginSync, Fetched, JoinQueue, LeaveQueue, ReserveRefused,
     Reserve, JournalCommitting, CommitReturns, PublishCommit, BackoffEnds, Finish
<1>8. /\ status'[j] # status[j] => j # inline /\ status'[j] # "interrupted"
      /\ j = inline => j \in checkpoint'
  BY <1>2 DEF IInv, TypeOK, SyncStep, BeginSync, Fetched, JoinQueue, LeaveQueue, ReserveRefused,
     Reserve, JournalCommitting, CommitReturns, PublishCommit, BackoffEnds, Finish, Bookkeeping,
     InlineFenced, InlinePCs
<1>9. pc'[j] \notin {"none", "unwind"} => status'[j] = status[j] \/ status'[j] = "running"
  BY <1>2 DEF IInv, TypeOK, SyncStep, BeginSync, Fetched, JoinQueue, LeaveQueue, ReserveRefused,
     Reserve, JournalCommitting, CommitReturns, PublishCommit, BackoffEnds, Finish, Goto
<1>10. Pending(j)' => Pending(j)
  BY <1>2, <1>8 DEF Pending, Active
<1>11. Claims(j)' => Claims(j)
  BY <1>2 DEF Claims
<1>12. j # inline' /\ pc'[j] \notin {"none", "unwind"} => Active(j)'
  BY <1>1, <1>2, <1>9 DEF Active
<1>13. inline' # NoJob => inline' \in checkpoint'
  BY <1>1, <1>7, <1>8 DEF IInv, TypeOK, KeyInv, InlineChecked
<1> QED
  BY <1>1, <1>3, <1>4, <1>5, <1>6, <1>7, <1>10, <1>11, <1>12, <1>13 DEF OwnClaim

\* The exclusive workers, a documentation job made terminal, and the end of a
\* goroutine claim nothing either.
LEMMA WriterStepClaims ==
  ASSUME IInv, KeyInv, NEW j \in Jobs, BeginWork(j) \/ EndWork(j) \/ Unwind(j) \/ EndDocs(j)
  PROVE  OwnClaim(j)
<1> USE ConstantsAssumption
<1>1. /\ UNCHANGED <<phase, attempt, checkpoint, inline, recFence>>
      /\ inline # NoJob => inline \in checkpoint
  BY DEF BeginWork, EndWork, Unwind, EndDocs, laneVars, bootVars, KeyInv, InlineChecked
<1>2. j # inline /\ (j \notin Docs /\ pc[j] \notin {"none", "unwind"} => Active(j))
  BY DEF IInv, TypeOK, Bookkeeping, PcShape, InlineFenced, InlinePCs, KeyInv, RunnersActive,
     BeginWork, EndWork, Unwind, EndDocs, Jobs
<1>3. /\ \A k \in Jobs \ {j} : status'[k] = status[k] /\ pc'[k] = pc[k]
      /\ status'[j] = "interrupted" => status[j] = "interrupted"
  BY DEF IInv, TypeOK, BeginWork, EndWork, Unwind, EndDocs, Goto, Active
<1>4. Active(j)' => Active(j)
  BY <1>2 DEF IInv, TypeOK, BeginWork, EndWork, Unwind, EndDocs, Goto, Active
<1>5. pc'[j] \notin {"none", "unwind"} /\ j \notin Docs => Active(j)'
  BY <1>2 DEF IInv, TypeOK, BeginWork, EndWork, Unwind, EndDocs, Goto, Active
<1>6. Pending(j)' => Pending(j)
  BY <1>1, <1>3 DEF Pending, Evidence, StagePending
<1>7. Claims(j)' => Claims(j)
  BY <1>4, <1>6 DEF Claims
<1> QED
  BY <1>1, <1>3, <1>5, <1>6, <1>7 DEF OwnClaim

\* Recovery resumes, settles or commits a job that is claimed already.
LEMMA RecoveryClaims ==
  ASSUME IInv, KeyInv, NEW j \in Syncs, RecoverResume(j) \/ RecoverSettle(j) \/ RecoverInline(j)
  PROVE  OwnClaim(j)
<1> USE ConstantsAssumption
<1>1. /\ j \in Jobs /\ j # NoJob /\ inline = NoJob /\ recFence' = recFence
      /\ status[j] = "interrupted" /\ pc[j] = "none"
      /\ inline' # NoJob => inline' \in checkpoint'
  BY DEF IInv, Bookkeeping, InterruptedIdle, RecoverResume, RecoverSettle, RecoverInline,
     laneVars, bootVars, Jobs
<1>2. \A k \in Jobs \ {j} : status'[k] = status[k] /\ pc'[k] = pc[k]
  BY DEF IInv, TypeOK, RecoverResume, RecoverSettle, RecoverInline, Goto
<1>3. \A k \in Syncs \ {j} : phase'[k] = phase[k] /\ attempt'[k] = attempt[k]
  BY DEF IInv, TypeOK, RecoverResume, RecoverSettle, RecoverInline, Show
<1>4. \A k \in Syncs \ {j} : k \in checkpoint' <=> k \in checkpoint
  BY DEF RecoverResume, RecoverSettle, RecoverInline
<1>5. CASE RecoverResume(j)
  BY <1>1, <1>5, <1>2, <1>3, <1>4 DEF IInv, TypeOK, RecoverResume, Pending, OwnClaim, Claims, Active
<1>6. CASE RecoverSettle(j)
  BY <1>1, <1>6, <1>2, <1>3, <1>4 DEF IInv, TypeOK, RecoverSettle, OwnClaim, Claims, Pending, Active
<1>7. CASE RecoverInline(j)
  BY <1>7, <1>1, <1>2, <1>3, <1>4 DEF RecoverInline, OwnClaim, Claims, Pending, Active, Evidence,
         StagePending
<1> QED
  BY <1>5, <1>6, <1>7

\* The end of the inline commit leaves its job as it was.
LEMMA InlineDoneClaims == ASSUME IInv, KeyInv, InlineDone PROVE KeyInv'
<1> USE ConstantsAssumption
<1>1. PICK j \in Syncs : j = inline
  BY DEF IInv, TypeOK, InlineDone
<1>2. /\ UNCHANGED <<status, phase, attempt, checkpoint, recFence>>
      /\ pc' = [pc EXCEPT ![j] = "none"]
      /\ inline' = NoJob
      /\ j \in Jobs
  BY <1>1 DEF InlineDone, Goto, laneVars, Jobs
<1>3. OwnClaim(j)
  BY <1>1, <1>2 DEF IInv, TypeOK, OwnClaim, Claims, Pending, Active, Evidence, StagePending
<1> QED
  BY <1>2, <1>3, OwnClaimKeeps

\* An admission that finds its key unused and no recovery fence, or that revives
\* a documentation job on a free lane, is the only claim on its key.
LEMMA EntryKeeps ==
  ASSUME IInv, KeyInv, NEW j \in Jobs, Admit(j) \/ ResumeDocs(j)
  PROVE  KeyInv'
<1> USE ConstantsAssumption
<1>1. /\ status' = [status EXCEPT ![j] = "queued"]
      /\ pc' = [pc EXCEPT ![j] = "spawned"]
      /\ UNCHANGED <<phase, attempt, checkpoint, inline, recFence>>
      /\ ~recFence
  BY DEF Admit, ResumeDocs, Goto, AdmissionOpen, bootVars
<1>2. \A k \in Syncs : ~Pending(k)
  BY <1>1 DEF KeyInv, PendingFenced
<1>3. ASSUME NEW k \in Jobs, k # j, WorkKey[k] = WorkKey[j] PROVE ~Active(k)
  <2>1. CASE Admit(j)
    BY <1>3, <2>1 DEF Admit
  <2>2. CASE ResumeDocs(j)
    BY <1>3, <2>2, WorkKeysAssumption DEF ResumeDocs, LaneBusy, Reserves, Live
  <2> QED
    BY <2>1, <2>2
<1>4. ASSUME NEW k \in Jobs, Claims(k)' PROVE k = j \/ Active(k)
  BY <1>1, <1>2, <1>4 DEF IInv, TypeOK, Claims, Pending, Active, Evidence, StagePending
<1>5. KeysClaimedOnce'
  BY <1>3, <1>4 DEF KeyInv, KeysClaimedOnce, Claims
<1>6. \A k \in Syncs : ~Pending(k)'
  BY <1>1, <1>2 DEF IInv, TypeOK, Pending, Evidence, StagePending, Jobs
<1>7. RunnersActive'
  BY <1>1 DEF IInv, TypeOK, KeyInv, RunnersActive, Active
<1>8. PendingFenced' /\ InlineChecked'
  BY <1>1, <1>6 DEF KeyInv, PendingFenced, InlineChecked
<1> QED
  BY <1>5, <1>7, <1>8 DEF KeyInv

\* A restart turns active jobs into interrupted ones, behind the fence.
LEMMA RestartKeeps == ASSUME IInv, KeyInv, Restart PROVE KeyInv'
<1> USE ConstantsAssumption
<1>1. /\ \A k \in Jobs : status'[k] = IF Active(k) THEN "interrupted" ELSE status[k]
      /\ \A k \in Jobs : pc'[k] = "none"
      /\ UNCHANGED <<phase, attempt, checkpoint>>
      /\ inline' = NoJob
      /\ recFence' = \E k \in Syncs : status'[k] = "interrupted"
  BY DEF Restart
<1>2. ASSUME NEW k \in Jobs, Claims(k)' PROVE Claims(k)
  BY <1>1, <1>2 DEF Claims, Pending, Active, Evidence, StagePending
<1>3. KeysClaimedOnce'
  BY <1>2 DEF KeyInv, KeysClaimedOnce
<1>4. PendingFenced'
  BY <1>1 DEF PendingFenced, Pending
<1>5. RunnersActive' /\ InlineChecked'
  BY <1>1 DEF RunnersActive, InlineChecked
<1> QED
  BY <1>3, <1>4, <1>5 DEF KeyInv

\* Recovery lifts its fence when no job is left that it could resume, and fails
\* the jobs it gives up.
LEMMA RecoveryEndKeeps == ASSUME IInv, KeyInv, RecoverFinish \/ RecoverGiveUp PROVE KeyInv'
<1> USE ConstantsAssumption
<1>1. UNCHANGED <<pc, phase, attempt, checkpoint, inline>>
  BY DEF RecoverFinish, RecoverGiveUp, workerVars
<1>2. \A k \in Jobs : status'[k] = status[k] \/ (status[k] = "interrupted" /\ status'[k] = "failed")
  BY DEF IInv, TypeOK, RecoverFinish, RecoverGiveUp, workerVars
<1>3. ASSUME NEW k \in Jobs, Claims(k)' PROVE Claims(k)
  BY <1>1, <1>2, <1>3 DEF Claims, Pending, Active, Evidence, StagePending
<1>4. PendingFenced'
  <2> SUFFICES ASSUME NEW k \in Syncs, Pending(k)' PROVE recFence'
    BY DEF PendingFenced
  <2>1. k \in Jobs /\ Pending(k)
    BY <1>1, <1>2 DEF Pending, Evidence, StagePending, Jobs
  <2>2. recFence /\ status'[k] = "interrupted" /\ status[k] = "interrupted"
    BY <2>1 DEF KeyInv, PendingFenced, Pending
  <2>3. CASE RecoverFinish
    BY <2>1, <2>3 DEF RecoverFinish, Pending
  <2>4. CASE RecoverGiveUp
    BY <2>1, <2>2, <2>4 DEF RecoverGiveUp
  <2> QED
    BY <2>3, <2>4
<1>5. RunnersActive'
  BY <1>1, <1>2 DEF KeyInv, RunnersActive, Active
<1>6. KeysClaimedOnce' /\ InlineChecked'
  BY <1>1, <1>3 DEF KeyInv, KeysClaimedOnce, InlineChecked
<1> QED
  BY <1>4, <1>5, <1>6 DEF KeyInv

\* Every step of the specification keeps the keys apart.
LEMMA NextKeyInv == IInv /\ KeyInv /\ [Next]_vars => KeyInv'
<1> SUFFICES ASSUME IInv, KeyInv, [Next]_vars PROVE KeyInv'
  OBVIOUS
<1>1. CASE Request
  <2>1. ASSUME NEW j \in Jobs, Admit(j) \/ ResumeDocs(j) PROVE KeyInv'
    BY <2>1, EntryKeeps
  <2>2. ASSUME NEW j \in Jobs, EndDocs(j) PROVE KeyInv'
    BY <2>2, WriterStepClaims, OwnClaimKeeps
  <2>3. CASE (\E j \in Jobs : Cancel(j)) \/ Shutdown \/ BeginDirect \/ RaiseFence
    BY <2>3, QuietKeeps DEF Cancel, Shutdown, BeginDirect, RaiseFence, workerVars, bootVars
  <2>4. CASE Restart
    BY <2>4, RestartKeeps
  <2> QED
    BY <1>1, <2>1, <2>2, <2>3, <2>4 DEF Request
<1>2. CASE Release
  BY <1>2, QuietKeeps DEF Release, EndDirect, DropFence, workerVars, bootVars
<1>3. ASSUME NEW j \in Jobs, WorkerStep(j) PROVE KeyInv'
  BY <1>3, WriterStepClaims, SyncStepClaims, OwnClaimKeeps DEF WorkerStep
<1>4. CASE RecoveryStep
  <2>1. ASSUME NEW j \in Syncs, RecoverResume(j) \/ RecoverSettle(j) \/ RecoverInline(j)
        PROVE  KeyInv'
    BY <2>1, RecoveryClaims, OwnClaimKeeps DEF Jobs
  <2>2. CASE RecoverAbort
    BY <2>2, QuietKeeps DEF RecoverAbort, workerVars
  <2> QED
    BY <1>4, <2>1, <2>2, InlineDoneClaims, RecoveryEndKeeps DEF RecoveryStep
<1>5. CASE UNCHANGED vars
  BY <1>5, QuietKeeps DEF vars, workerVars, bootVars
<1> QED
  BY <1>1, <1>2, <1>3, <1>4, <1>5 DEF Next

\* Identical work is never active twice: not by an admission, not by the revival
\* of a documentation job, and not by a recovery that looks at no key.
THEOREM KeysStayUnique == Spec => []OneActivePerKey
<1>1. IInv /\ KeyInv => OneActivePerKey
  BY DEF KeyInv, KeysClaimedOnce, Claims, OneActivePerKey
<1>2. Spec => []KeyInv
  BY InitKeyInv, NextKeyInv, Invariance, PTL DEF Spec
<1> QED
  BY <1>1, <1>2, Invariance, PTL

-----------------------------------------------------------------------------
(* The other side of admission, when no write fails: what keeps a request  *)
(* out is a worker that runs.                                              *)

InflightRuns == \A j \in inflight : pc[j] # "none"

\* A job that a restart interrupted has no goroutine to wait for.
InterruptedUnmanned == \A j \in Syncs : status[j] = "interrupted" => j \notin inflight

ActiveRuns == \A j \in Jobs : Active(j) => pc[j] \notin {"none", "unwind"}

\* A documentation job starts from "queued", or was made terminal before.
DocsStart == \A j \in Docs : pc[j] = "spawned" => status[j] # "running"

MannedInv == InflightRuns /\ InterruptedUnmanned /\ ActiveRuns /\ DocsStart

\* Nobody runs and nothing is active initially.
LEMMA InitMannedInv == Init => MannedInv
  BY ConstantsAssumption DEF Init, MannedInv, InflightRuns, InterruptedUnmanned, ActiveRuns,
     DocsStart, Active, Jobs

\* A step about one job after which the job is manned.
OwnManned(j) ==
  /\ \A k \in Jobs \ {j} : status'[k] = status[k] /\ pc'[k] = pc[k]
  /\ \A k \in Jobs \ {j} : k \in inflight' <=> k \in inflight
  /\ j \in inflight' => pc'[j] # "none"
  /\ j \in Syncs /\ status'[j] = "interrupted" => j \notin inflight'
  /\ Active(j)' => pc'[j] \notin {"none", "unwind"}
  /\ j \in Docs /\ pc'[j] = "spawned" => status'[j] # "running"

\* Such a step leaves every job manned.
LEMMA OwnMannedKeeps ==
  ASSUME IInv, MannedInv, NEW j \in Jobs, OwnManned(j), inflight' \subseteq Jobs
  PROVE  MannedInv'
<1> USE ConstantsAssumption
<1>1. InflightRuns'
  BY DEF OwnManned, MannedInv, InflightRuns
<1>2. InterruptedUnmanned'
  BY DEF OwnManned, MannedInv, InterruptedUnmanned, Jobs
<1>3. ActiveRuns'
  BY DEF ActiveRuns, OwnManned, MannedInv, Active
<1>4. DocsStart'
  BY DEF OwnManned, MannedInv, DocsStart, Jobs
<1> QED
  BY <1>1, <1>2, <1>3, <1>4 DEF MannedInv

\* A step that leaves every job as it is leaves it manned.
LEMMA QuietManned ==
  ASSUME MannedInv, UNCHANGED <<status, pc, inflight>>
  PROVE  MannedInv'
  BY DEF MannedInv, InflightRuns, InterruptedUnmanned, ActiveRuns, DocsStart, Active

\* A sync worker runs until it has published its end.
LEMMA SyncStepManned ==
  ASSUME IInv, KeyInv, MannedInv, ~PersistFails, NEW j \in Syncs, SyncStep(j)
  PROVE  OwnManned(j)
<1> USE ConstantsAssumption
<1>1. pc[j] \notin {"none", "unwind"} /\ inflight' = inflight
  BY DEF SyncStep, BeginSync, Fetched, JoinQueue, LeaveQueue, HasTurn, ReserveRefused, Reserve,
     JournalCommitting, CommitReturns, PublishCommit, BackoffEnds, Finish
<1>2. /\ j \in Jobs /\ j \notin Docs
      /\ \A k \in Jobs \ {j} : status'[k] = status[k] /\ pc'[k] = pc[k]
  BY <1>1, SyncRuns, SyncStepClaims DEF OwnClaim
<1>3. pc'[j] # "none"
  BY <1>2 DEF IInv, TypeOK, SyncStep, BeginSync, Fetched, JoinQueue, LeaveQueue, ReserveRefused,
     Reserve, JournalCommitting, CommitReturns, PublishCommit, BackoffEnds, Finish, Goto, Report,
     Park
<1>4. status'[j] = status[j] \/ status'[j] \in {"running", "ended", "failed"}
  BY <1>2 DEF IInv, TypeOK, SyncStep, BeginSync, Fetched, JoinQueue, LeaveQueue, ReserveRefused,
     Reserve, JournalCommitting, CommitReturns, PublishCommit, BackoffEnds, Finish
<1>5. pc'[j] = "unwind" => ~Active(j)'
  BY <1>2 DEF IInv, TypeOK, SyncStep, BeginSync, Fetched, JoinQueue, LeaveQueue, ReserveRefused,
     Reserve, JournalCommitting, CommitReturns, PublishCommit, BackoffEnds, Finish, Goto, Report,
     Park, Active
<1>6. status'[j] = "interrupted" => j \notin inflight
  BY <1>4 DEF MannedInv, InterruptedUnmanned
<1> QED
  BY <1>1, <1>2, <1>3, <1>5, <1>6 DEF OwnManned

\* An exclusive worker starts, publishes its end and unwinds, in this order;
\* cancelling a documentation job only takes its status away.
LEMMA WriterStepManned ==
  ASSUME IInv, KeyInv, MannedInv, NEW j \in Jobs,
         BeginWork(j) \/ EndWork(j) \/ Unwind(j) \/ EndDocs(j)
  PROVE  OwnManned(j)
<1> USE ConstantsAssumption
<1>1. \A k \in Jobs \ {j} : status'[k] = status[k] /\ pc'[k] = pc[k]
  BY WriterStepClaims DEF OwnClaim
<1>2. \A k \in Jobs \ {j} : k \in inflight' <=> k \in inflight
  BY DEF BeginWork, EndWork, Unwind, EndDocs
<1>3. j \in inflight' => pc'[j] # "none"
  BY DEF IInv, TypeOK, MannedInv, InflightRuns, BeginWork, EndWork, Unwind, EndDocs, Goto
<1>4. j \in Syncs /\ status'[j] = "interrupted" => j \notin inflight'
  BY DEF IInv, TypeOK, Bookkeeping, PcShape, MannedInv, InterruptedUnmanned, BeginWork, EndWork,
     Unwind, EndDocs
<1>5. Active(j)' => pc'[j] \notin {"none", "unwind"}
  BY DEF IInv, TypeOK, MannedInv, ActiveRuns, DocsStart, Active, BeginWork, EndWork, Unwind,
     EndDocs, Goto
<1>6. j \in Docs /\ pc'[j] = "spawned" => status'[j] # "running"
  BY DEF IInv, TypeOK, MannedInv, DocsStart, BeginWork, EndWork, Unwind, EndDocs, Goto
<1> QED
  BY <1>1, <1>2, <1>3, <1>4, <1>5, <1>6 DEF OwnManned

\* Admission, revival and recovery start the worker they reserve.
LEMMA EntryManned ==
  ASSUME IInv, MannedInv, ~PersistFails, NEW j \in Jobs,
         Admit(j) \/ ResumeDocs(j)
           \/ (j \in Syncs /\ (RecoverResume(j) \/ RecoverSettle(j) \/ RecoverInline(j)))
  PROVE  OwnManned(j)
<1> USE ConstantsAssumption
<1>1. CASE Admit(j) \/ ResumeDocs(j)
  BY <1>1 DEF IInv, TypeOK, OwnManned, Admit, ResumeDocs, Goto, Active
<1>2. CASE j \in Syncs /\ RecoverResume(j)
  BY <1>2 DEF IInv, TypeOK, OwnManned, RecoverResume, Goto, Active
<1>3. CASE j \in Syncs /\ RecoverSettle(j)
  BY <1>3 DEF IInv, TypeOK, OwnManned, RecoverSettle, Active, MannedInv, InterruptedUnmanned
<1>4. CASE j \in Syncs /\ RecoverInline(j)
  BY <1>4 DEF IInv, TypeOK, OwnManned, RecoverInline, Goto, Active, MannedInv,
     InterruptedUnmanned
<1> QED
  BY <1>1, <1>2, <1>3, <1>4

\* Every step leaves the active jobs manned, as long as no write fails.
LEMMA NextMannedInv ==
  ASSUME IInv, KeyInv, MannedInv, ~PersistFails, [Next]_vars
  PROVE  MannedInv'
<1> USE ConstantsAssumption
<1>t. inflight' \subseteq Jobs
  BY NextIInv DEF IInv, TypeOK
<1>1. CASE Request
  <2>1. ASSUME NEW j \in Jobs, Admit(j) \/ ResumeDocs(j) \/ EndDocs(j) PROVE MannedInv'
    BY <1>t, <2>1, EntryManned, WriterStepManned, OwnMannedKeeps
  <2>2. CASE (\E j \in Jobs : Cancel(j)) \/ Shutdown \/ BeginDirect \/ RaiseFence
    BY <2>2, QuietManned DEF Cancel, Shutdown, BeginDirect, RaiseFence, workerVars
  <2>3. CASE Restart
    BY <2>3 DEF Restart, MannedInv, InflightRuns, InterruptedUnmanned, ActiveRuns, DocsStart,
       Active, Jobs
  <2> QED
    BY <1>1, <2>1, <2>2, <2>3 DEF Request
<1>2. CASE Release
  BY <1>2, QuietManned DEF Release, EndDirect, DropFence, workerVars
<1>3. ASSUME NEW j \in Jobs, WorkerStep(j) PROVE MannedInv'
  BY <1>t, <1>3, WriterStepManned, SyncStepManned, OwnMannedKeeps DEF WorkerStep
<1>4. CASE RecoveryStep
  <2>1. ASSUME NEW j \in Syncs, RecoverResume(j) \/ RecoverSettle(j) \/ RecoverInline(j)
        PROVE  MannedInv'
    BY <2>1, EntryManned, <1>t, OwnMannedKeeps DEF Jobs
  <2>2. CASE RecoverAbort \/ RecoverFinish
    BY <2>2, QuietManned DEF RecoverAbort, RecoverFinish, workerVars
  <2>3. CASE RecoverGiveUp
    <3>1. /\ \A k \in Jobs : status'[k] = status[k] \/ status'[k] = "failed"
          /\ UNCHANGED <<pc, inflight>>
      BY <2>3 DEF IInv, TypeOK, RecoverGiveUp
    <3> QED
      BY <3>1 DEF MannedInv, InflightRuns, InterruptedUnmanned, ActiveRuns, DocsStart, Active,
         Jobs
  <2>4. CASE InlineDone
    <3>1. PICK j \in Syncs : j = inline
      BY <2>4 DEF IInv, TypeOK, InlineDone
    <3>2. /\ UNCHANGED <<status, inflight>>
          /\ pc' = [pc EXCEPT ![j] = "none"]
          /\ j \in Jobs /\ j \notin Docs /\ status[j] = "interrupted"
      BY <2>4, <3>1 DEF IInv, Bookkeeping, InlineFenced, InlineDone, Goto, Jobs
    <3>3. OwnManned(j)
      BY <3>1, <3>2 DEF IInv, TypeOK, OwnManned, MannedInv, InterruptedUnmanned, Active
    <3> QED
      BY <1>t, <3>2, <3>3, OwnMannedKeeps
  <2> QED
    BY <1>4, <2>1, <2>2, <2>3, <2>4 DEF RecoveryStep
<1>5. CASE UNCHANGED vars
  BY <1>5, QuietManned DEF vars, workerVars
<1> QED
  BY <1>1, <1>2, <1>3, <1>4, <1>5 DEF Next

\* As long as no snapshot or journal write fails, admission is exact: identical
\* work is never active twice, and the lane is busy only while some worker runs.
THEOREM AdmissionStaysExact ==
  ASSUME ~PersistFails
  PROVE  Spec => []AdmissionIsExact
<1>1. IInv /\ MannedInv => BusyOnlyWhileWorker
  BY DEF IInv, MannedInv, InflightRuns, ActiveRuns, BusyOnlyWhileWorker, Reserves, Live
<1>2. IInv /\ KeyInv /\ MannedInv /\ [Next]_vars => MannedInv'
  BY NextMannedInv
<1>3. Spec => [](KeyInv /\ MannedInv)
  BY <1>2, InitKeyInv, NextKeyInv, InitMannedInv, Invariance, PTL DEF Spec
<1> QED
  BY <1>1, <1>3, KeysStayUnique, Invariance, PTL DEF AdmissionIsExact
=============================================================================
