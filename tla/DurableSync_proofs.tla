-------------------------- MODULE DurableSync_proofs --------------------------
(***************************************************************************)
(* Theorems about DurableSync, for every set of collections, every retry   *)
(* budget, any number of crashes and of failed writes.                     *)
(***************************************************************************)
EXTENDS DurableSync, TLAPS, FiniteSetTheorems, SequenceTheorems

-----------------------------------------------------------------------------
(* The numbering of a set of collections, and the clock of the journal.    *)

\* The rank of an element of a finite set of numbers grows with it, so it is
\* an injection into 0..n-1 (Cur, Schedule).
LEMMA RankIsInjective ==
  ASSUME NEW S \in SUBSET Nat, IsFiniteSet(S)
  PROVE  [c \in S |-> Cardinality({d \in S : d < c})]
            \in Injection(S, 0..(Cardinality(S) - 1))
<1> DEFINE below(c) == {d \in S : d < c}
<1> DEFINE rank == [c \in S |-> Cardinality(below(c))]
<1>1. ASSUME NEW c \in S
      PROVE  IsFiniteSet(below(c)) /\ Cardinality(below(c)) \in 0..(Cardinality(S) - 1)
  <2>1. IsFiniteSet(S \ {c}) /\ Cardinality(S \ {c}) = Cardinality(S) - 1
    BY FS_RemoveElement
  <2>2. below(c) \in SUBSET (S \ {c})
    OBVIOUS
  <2>3. IsFiniteSet(below(c)) /\ Cardinality(below(c)) <= Cardinality(S \ {c})
    BY <2>1, <2>2, FS_Subset
  <2>4. Cardinality(below(c)) \in Nat /\ Cardinality(S) \in Nat
    BY <2>3, FS_CardinalityType
  <2>5. QED
    BY <2>1, <2>3, <2>4
<1>2. ASSUME NEW c \in S, NEW e \in S, c < e
      PROVE  Cardinality(below(c)) < Cardinality(below(e))
  <2>0. \A d \in S : d < c => d < e
    BY <1>2, S \subseteq Nat
  <2>a. c \in below(e)
    BY <1>2
  <2>b. c \in Nat /\ c \notin below(c)
    OBVIOUS
  <2>1. below(c) \in SUBSET below(e) /\ c \in below(e) /\ c \notin below(c)
    BY <2>0, <2>a, <2>b
  <2>2. IsFiniteSet(below(c) \cup {c}) /\ Cardinality(below(c) \cup {c}) = Cardinality(below(c)) + 1
    BY <1>1, <2>1, FS_AddElement
  <2>3. Cardinality(below(c) \cup {c}) <= Cardinality(below(e))
    BY <2>1, <1>1, FS_Subset
  <2>4. Cardinality(below(c)) \in Nat /\ Cardinality(below(e)) \in Nat
    BY <1>1, FS_CardinalityType
  <2>5. QED
    BY <2>2, <2>3, <2>4
<1>3. rank \in [S -> 0..(Cardinality(S) - 1)]
  BY <1>1
<1>4. ASSUME NEW a \in S, NEW b \in S, rank[a] = rank[b]
      PROVE  a = b
  <2>1. Cardinality(below(a)) \in Nat /\ Cardinality(below(b)) \in Nat
    BY <1>1, FS_CardinalityType
  <2>2. Cardinality(below(a)) = Cardinality(below(b))
    BY <1>4
  <2>3. ~(a < b) /\ ~(b < a)
    BY <1>2, <2>1, <2>2
  <2>4. QED
    BY <2>3
<1>5. rank \in Injection(S, 0..(Cardinality(S) - 1))
  <2> HIDE DEF rank
  <2>1. \A a, b \in S : rank[a] = rank[b] => a = b
    BY <1>4
  <2>2. QED
    BY <1>3, <2>1 DEF Injection, IsInjective
<1>6. QED
  BY <1>5

\* Every position of a schedule is taken by exactly one collection (Schedule).
LEMMA RankExists ==
  ASSUME NEW S \in SUBSET Nat, IsFiniteSet(S), NEW i \in 1..Cardinality(S)
  PROVE  \E c \in S : Cardinality({d \in S : d < c}) = i - 1
<1> DEFINE n == Cardinality(S)
<1> DEFINE rank == [c \in S |-> Cardinality({d \in S : d < c})]
<1>1. n \in Nat
  BY FS_CardinalityType
<1>2. rank \in Injection(S, 0..(n - 1))
  BY RankIsInjective
<1>3. IsFiniteSet(0..(n - 1)) /\ Cardinality(0..(n - 1)) = n
  <2>1. 0 \in Int /\ n - 1 \in Int
    BY <1>1
  <2>2. /\ IsFiniteSet(0..(n - 1))
        /\ Cardinality(0..(n - 1)) = IF 0 > n - 1 THEN 0 ELSE (n - 1) - 0 + 1
    BY <2>1, FS_Interval
  <2>3. QED
    BY <1>1, <2>2
<1>4. rank \in Surjection(S, 0..(n - 1))
  BY <1>2, <1>3, FS_Injection
<1>5. i - 1 \in 0..(n - 1)
  BY <1>1
<1>6. \E c \in S : rank[c] = i - 1
  BY <1>4, <1>5 DEF Surjection
<1>7. QED
  BY <1>6

\* A finite set of numbers that is not empty has a largest element (Tick).
LEMMA LargestExists ==
  ASSUME NEW S \in SUBSET Nat, IsFiniteSet(S), S # {}
  PROVE  \E m \in S : \A k \in S : k <= m
<1>1. Cardinality(S) \in Nat \ {0}
  BY FS_CardinalityType, FS_EmptySet
<1>2. PICK m \in S : Cardinality({d \in S : d < m}) = Cardinality(S) - 1
  BY <1>1, RankExists
<1>3. IsFiniteSet(S \ {m}) /\ Cardinality(S \ {m}) = Cardinality(S) - 1
  BY FS_RemoveElement
<1>4. {d \in S : d < m} \in SUBSET (S \ {m})
  OBVIOUS
<1>5. {d \in S : d < m} = S \ {m}
  BY <1>2, <1>3, <1>4, FS_Subset
<1>6. QED
  BY <1>5

-----------------------------------------------------------------------------
(* The inductive invariant: TypeOK in parts, and what it takes to keep the *)
(* attempts below the budget and the stage of the current item at hand.    *)

Statuses == {"running", "interrupted"} \cup Terminal
Outcomes == {"none", "retry", "success", "failed", "cancelled"}
Errors == {"none", "transient", "permanent", "cancelled"}
Steps == {"idle", "open", "pick", "fetch", "commit", "mark", "decide", "observe", "retire",
          "release", "clean", "rcommit", "rmark", "rproject"}
Progress == {"off", "reconcile", "checks", "stages", "settled", "failed"}

\* What waits in the schedule has an attempt left.
Waiting == [c : Collections, n : 0..(Budget - 1), rows : BOOLEAN, resumed : BOOLEAN, later : BOOLEAN]
Checks == [n : 0..(Budget - 1), sel : SUBSET Collections]
Runs == [list : SUBSET Collections, sel : SUBSET Collections, recovered : BOOLEAN,
         result : {"ok", "error", "evidence"}]

\* Stages that have been stamped by the clock of the journal.
Shaped(J) == J \subseteq StageRecords /\ \E m \in Nat : \A s \in J : s.at <= m

JobOK == job \in JobRecords /\ disk \in JobRecords
JournalOK == Shaped(journal)
CheckOK == check \in [Collections -> Checks]
CacheOK == /\ receipts \subseteq Collections \X (1..Budget) \X Nat
           /\ IsFiniteSet(receipts)
           /\ degraded \subseteq Collections
WorkOK == /\ pc \in Steps
          /\ pending \in Seq(Waiting)
          /\ item \in Items
          /\ err \in Errors
          /\ run \in Runs
CountOK == /\ cancelled \in BOOLEAN
           /\ rec \in Progress
           /\ failures \in 0..MaxFailures
           /\ crashes \in 0..MaxCrashes

\* Where the worker has an item, a started attempt, and a stage of it.
HasItem == {"fetch", "commit", "mark", "decide", "observe", "retire", "release",
            "rcommit", "rmark", "rproject"}
HasStage == {"commit", "mark", "rcommit", "rmark", "rproject"}
ItemAt(J) == \E s \in J : Id(s) = <<item.c, item.n>>
ItemOK == /\ pc \in HasItem => item.c \in Collections
          /\ pc \in {"fetch"} \cup HasStage => item.n >= 1
          /\ pc = "observe" => item.n < Budget
          /\ pc \in HasStage => ItemAt(journal)

\* The worker and the recovery goroutine are not active at the same time.
OneActive == rec # "off" => pc = "idle"

SyncInv == /\ JobOK /\ JournalOK /\ CheckOK /\ CacheOK
           /\ WorkOK /\ CountOK /\ ItemOK /\ OneActive

\* The parts together are the type invariant (TypeOK).
LEMMA PartsAreTyped == SyncInv => TypeOK
<1> SUFFICES ASSUME SyncInv PROVE TypeOK
  OBVIOUS
<1>1. Waiting \subseteq Items
  BY SyncConstants DEF Waiting, Items
<1>2. pending \in Seq(Items)
  BY <1>1, SeqMonotonic DEF SyncInv, WorkOK
<1>3. check \in [Collections -> [n : 0..Budget, sel : SUBSET Collections]]
  BY SyncConstants DEF Checks, SyncInv, CheckOK
<1>4. QED
  BY <1>2, <1>3 DEF SyncInv, TypeOK, JobOK, JournalOK, Shaped, CacheOK, WorkOK, CountOK, Steps, Errors, Runs, Progress

-----------------------------------------------------------------------------
(* What the operators of the model return.                                 *)

\* The changes a job record undergoes keep its shape.
LEMMA JobRecordsKept ==
  ASSUME JobOK
  PROVE  /\ \A id \in Stages \cup {NoStage} : Show(id) \in JobRecords
         /\ \A c \in Collections, v \in Views : WithView(c, v) \in JobRecords
         /\ \A s \in Statuses : WithStatus(s) \in JobRecords
  BY DEF JobOK, JobRecords, Show, WithView, WithStatus, Statuses

\* A view of an attempt is a view.
LEMMA ViewTyped ==
  ASSUME JournalOK, NEW i \in Items, NEW o \in Outcomes
  PROVE  ViewOf(i, o) \in Views
<1> DEFINE seen == IF CommittedBatches(i.c, i.n) = {} THEN 0
                   ELSE CHOOSE g \in CommittedBatches(i.c, i.n) : TRUE
<1>1. CommittedBatches(i.c, i.n) \subseteq Nat
  BY DEF CommittedBatches, JournalOK, Shaped, StageRecords
<1>2. seen \in Nat
  BY <1>1
<1>3. i.n \in 0..Budget /\ i.rows \in BOOLEAN
  BY DEF Items
<1> HIDE DEF seen
<1>4. [outcome |-> o, n |-> i.n, rows |-> i.rows, seen |-> seen] \in Views
  BY <1>2, <1>3 DEF Views, Outcomes
<1>5. QED
  BY <1>4 DEF ViewOf, seen

\* So is the view of a recovered stage.
LEMMA RecoveredViewTyped ==
  ASSUME NEW s \in StageRecords
  PROVE  RecoveredView(s) \in Views
  BY SyncConstants DEF RecoveredView, StageRecords, Views

\* The worker and recovery end a job with a terminal status.
LEMMA VerdictTyped == Verdict \in Terminal /\ RecoveredVerdict \in Terminal
<1>1. RecoveredVerdict \in Terminal
  BY DEF RecoveredVerdict, Terminal
<1>2. Verdict \in Terminal
  BY <1>1 DEF Verdict, Terminal
<1>3. QED
  BY <1>1, <1>2

\* The class of an error determines a view's outcome.
LEMMA OutcomeTyped == \A e \in Errors : Outcome(e) \in Outcomes
  BY DEF Outcome, Errors, Outcomes

\* The clock is ahead of every stage.
LEMMA TickIsLater ==
  ASSUME JournalOK
  PROVE  Tick \in Nat /\ \A t \in journal : t.at < Tick
<1>1. CASE journal = {}
  BY <1>1 DEF Tick
<1>2. CASE journal # {}
  <2> DEFINE A == {t.at : t \in journal}
  <2>1. A \in SUBSET Nat /\ A # {}
    BY <1>2 DEF JournalOK, Shaped, StageRecords
  <2>2. PICK m \in Nat : \A s \in journal : s.at <= m
    BY DEF JournalOK, Shaped
  <2>3. IsFiniteSet(A)
    BY <2>2, <2>1, FS_BoundedSetOfNaturals
  <2>4. PICK k \in A : \A a \in A : a <= k
    <3> HIDE DEF A
    <3>1. QED
      BY <2>1, <2>3, LargestExists
  <2>5. \E s \in journal : \A t \in journal : t.at <= s.at
    BY <2>4
  <2> DEFINE s0 == CHOOSE s \in journal : \A t \in journal : t.at <= s.at
  <2>6. s0 \in journal /\ \A t \in journal : t.at <= s0.at
    BY <2>5
  <2>7. Tick = 1 + s0.at
    BY <1>2 DEF Tick
  <2> HIDE DEF s0
  <2>8. s0.at \in Nat /\ \A t \in journal : t.at \in Nat
    BY <2>6 DEF JournalOK, Shaped, StageRecords
  <2>9. QED
    BY <2>6, <2>7, <2>8
<1>3. QED
  BY <1>1, <1>2

\* GC only removes.
LEMMA SweptShrinks == \A S : Swept(S) \subseteq S
  BY DEF Swept

\* A journal that loses stages keeps its shape.
LEMMA ShapedShrinks ==
  ASSUME NEW J, NEW K, Shaped(J), K \subseteq J
  PROVE  Shaped(K)
  BY DEF Shaped

\* A stage is written under its identity, with a new stamp.
LEMMA PutTyped ==
  ASSUME JournalOK, NEW S, S \subseteq journal, NEW s \in StageRecords
  PROVE  /\ Shaped(Put(S, s))
         /\ \E t \in Put(S, s) : Id(t) = Id(s)
<1> DEFINE t == [s EXCEPT !.at = Tick]
<1>1. Tick \in Nat /\ \A u \in journal : u.at < Tick
  BY TickIsLater
<1>2. t \in StageRecords /\ t.at = Tick /\ Id(t) = Id(s)
  BY <1>1 DEF StageRecords, Id
<1>3. Put(S, s) = {u \in S : Id(u) # Id(s)} \cup {t}
  BY DEF Put
<1> HIDE DEF t
<1>4. S \subseteq StageRecords /\ \A u \in S : u.at \in Nat
  BY DEF JournalOK, Shaped, StageRecords
<1>5. \A u \in Put(S, s) : u \in StageRecords /\ u.at <= Tick
  BY <1>1, <1>2, <1>3, <1>4
<1>6. QED
  BY <1>1, <1>2, <1>3, <1>5 DEF Shaped

\* A stage that changes its phase keeps its identity.
LEMMA InPhaseTyped ==
  ASSUME JournalOK, NEW s \in journal, NEW p \in {"staged", "committed", "rejected"}
  PROVE  /\ Shaped(InPhase(s, p))
         /\ \E t \in InPhase(s, p) : Id(t) = Id(s)
<1> DEFINE u == [s EXCEPT !.phase = p]
<1>1. s \in StageRecords
  BY DEF JournalOK, Shaped
<1>2. u \in StageRecords /\ Id(u) = Id(s)
  BY <1>1 DEF StageRecords, Id
<1>3. InPhase(s, p) = Put(journal, u)
  BY DEF InPhase, Written
<1> HIDE DEF u
<1>4. QED
  BY <1>2, <1>3, PutTyped

\* The stage of the current item is the one with its identity.
LEMMA ItemStageFound ==
  ASSUME ItemAt(journal)
  PROVE  ItemStage \in journal /\ Id(ItemStage) = <<item.c, item.n>>
  BY DEF ItemAt, ItemStage, StageOf

\* A set of collections is finite, and so is what a workflow leaves of it.
LEMMA CollectionsFinite ==
  ASSUME NEW S \in SUBSET Collections
  PROVE  S \in SUBSET Nat /\ IsFiniteSet(S) /\ Cardinality(S) \in Nat
<1>1. IsFiniteSet(S)
  BY SyncConstants, FS_Subset
<1>2. QED
  BY <1>1, SyncConstants, FS_CardinalityType

\* A new entry has brought no rows.
Fresh == {w \in Waiting : w.rows = FALSE}

\* A schedule is a sequence of new entries that have an attempt left.
LEMMA ScheduleTyped ==
  ASSUME CheckOK, NEW S \in SUBSET Collections
  PROVE  Schedule(S) \in Seq(Fresh) /\ Schedule(S) \in Seq(Waiting)
<1> DEFINE n == Cardinality(S)
<1> DEFINE at(i) == CHOOSE c \in S : Cardinality({d \in S : d < c}) = i - 1
<1> DEFINE e(i) == Entry(at(i))
<1>1. S \in SUBSET Nat /\ IsFiniteSet(S) /\ n \in Nat
  BY CollectionsFinite
<1>2. ASSUME NEW i \in 1..n
      PROVE  at(i) \in Collections
  BY <1>1, RankExists
<1>3. ASSUME NEW c \in Collections
      PROVE  Entry(c) \in Fresh
  BY DEF CheckOK, Checks, Entry, Waiting, Fresh
<1>4. \A i \in 1..n : e(i) \in Fresh
  BY <1>2, <1>3
<1>5. [i \in 1..n |-> e(i)] \in Seq(Fresh)
  <2> HIDE DEF e, n
  <2>1. [i \in 1..n |-> e(i)] \in [1..n -> Fresh]
    BY <1>4
  <2>2. QED
    BY <1>1, <2>1
<1>6. Schedule(S) \in Seq(Fresh)
  BY <1>5 DEF Schedule
<1>7. Fresh \subseteq Waiting
  BY DEF Fresh
<1>8. QED
  BY <1>6, <1>7, SeqMonotonic

-----------------------------------------------------------------------------
(* Type correctness, action by action.                                     *)

\* What an action leaves alone keeps its part of the invariant.
LEMMA Frame ==
  ASSUME SyncInv
  PROVE  /\ UNCHANGED jobVars => JobOK'
         /\ UNCHANGED journal => JournalOK'
         /\ UNCHANGED check => CheckOK'
         /\ UNCHANGED cacheVars => CacheOK'
         /\ UNCHANGED <<cancelled, rec, failures, crashes>> => CountOK'
         /\ UNCHANGED workerVars => WorkOK'
         /\ UNCHANGED <<journal, workerVars>> => ItemOK'
         /\ UNCHANGED <<pc, rec>> => OneActive'
<1>1. UNCHANGED jobVars => JobOK'
  BY DEF SyncInv, JobOK, jobVars
<1>2. UNCHANGED journal => JournalOK'
  BY DEF SyncInv, JournalOK, Shaped
<1>3. UNCHANGED check => CheckOK'
  BY DEF SyncInv, CheckOK
<1>4. UNCHANGED cacheVars => CacheOK'
  BY DEF SyncInv, CacheOK, cacheVars
<1>5. UNCHANGED <<cancelled, rec, failures, crashes>> => CountOK'
  BY DEF SyncInv, CountOK
<1>6. UNCHANGED workerVars => WorkOK'
  BY DEF SyncInv, WorkOK, workerVars
<1>7. UNCHANGED <<journal, workerVars>> => ItemOK'
  BY DEF SyncInv, ItemOK, ItemAt, workerVars
<1>8. UNCHANGED <<pc, rec>> => OneActive'
  BY DEF SyncInv, OneActive
<1>9. QED
  BY <1>1, <1>2, <1>3, <1>4, <1>5, <1>6, <1>7, <1>8

\* A write that may fail is counted (WriteFails, WriteOK).
LEMMA WritesCounted ==
  ASSUME SyncInv, WriteFails \/ WriteOK
  PROVE  failures' \in 0..MaxFailures
  BY SyncConstants DEF SyncInv, CountOK, WriteFails, WriteOK

\* The job stays a job record whether or not it was saved (Persist, Note).
LEMMA NoteTyped ==
  ASSUME SyncInv, NEW j \in JobRecords, Note(j)
  PROVE  JobOK' /\ failures' \in 0..MaxFailures
<1>1. JobOK'
  BY DEF SyncInv, JobOK, Note, Persist
<1>2. WriteFails \/ WriteOK
  BY DEF Note, Persist
<1>3. QED
  BY <1>1, <1>2, WritesCounted

\* So it does when a change that cannot be saved is rolled back.
LEMMA PersistTyped ==
  ASSUME SyncInv, NEW j \in JobRecords, Persist(j) \/ PersistFails
  PROVE  JobOK' /\ failures' \in 0..MaxFailures
<1>1. JobOK'
  BY DEF SyncInv, JobOK, Persist, PersistFails, jobVars
<1>2. WriteFails \/ WriteOK
  BY DEF Persist, PersistFails
<1>3. QED
  BY <1>1, <1>2, WritesCounted

\* An entry taken from the schedule was one of it, and the rest stays.
LEMMA PendingIn ==
  ASSUME NEW W, pending \in Seq(W), NEW i \in 1..Len(pending)
  PROVE  pending[i] \in W /\ Without(i) \in Seq(W)
<1>1. Len(pending) \in Nat
  BY LenProperties
<1>2. pending[i] \in W
  BY ElementOfSeq
<1>3. SubSeq(pending, 1, i - 1) \in Seq(W)
  BY <1>1, ElementOfSeq, SubSeqProperties
<1>4. SubSeq(pending, i + 1, Len(pending)) \in Seq(W)
  BY <1>1, ElementOfSeq, SubSeqProperties
<1>5. QED
  BY <1>2, <1>3, <1>4, ConcatProperties DEF Without

\* So every entry that is picked has an attempt left.
LEMMA PendingTyped ==
  ASSUME SyncInv, NEW i \in 1..Len(pending)
  PROVE  pending[i] \in Waiting /\ Without(i) \in Seq(Waiting)
  BY PendingIn DEF SyncInv, WorkOK

\* Opening the cache changes only where the worker is.
LEMMA OpenTyped ==
  ASSUME SyncInv, Open
  PROVE  SyncInv'
<1>1. JobOK' /\ JournalOK' /\ CheckOK' /\ CacheOK' /\ CountOK'
  BY Frame DEF Open, fileVars
<1>2. WorkOK'
  <2>1. UNCHANGED <<item, err>> /\ pc' = "pick"
    BY DEF Open
  <2>2. pending' \in Seq(Waiting)
    BY EmptySeq DEF SyncInv, Open, WorkOK
  <2>3. run' \in Runs
    BY DEF SyncInv, Open, WorkOK, Runs
  <2> QED
    BY <2>1, <2>2, <2>3 DEF SyncInv, WorkOK, Steps
<1>3. ItemOK' /\ OneActive'
  BY DEF SyncInv, Open, ItemOK, HasItem, HasStage, OneActive
<1>4. QED
  BY <1>1, <1>2, <1>3 DEF SyncInv

\* What is picked has an attempt left, and the new one is within the budget.
LEMMA PickTyped ==
  ASSUME SyncInv, NEW i \in 1..Len(pending), Pick(i)
  PROVE  SyncInv'
<1>1. JournalOK' /\ CheckOK' /\ CacheOK'
  BY Frame DEF Pick, fileVars
<1>2. Show(NoStage) \in JobRecords
  BY JobRecordsKept DEF SyncInv
<1>3. JobOK' /\ failures' \in 0..MaxFailures
  BY <1>2, NoteTyped DEF Pick
<1>4. pending[i] \in Waiting /\ pending' \in Seq(Waiting)
  BY PendingTyped DEF Pick
<1>5. item' \in Items /\ item'.c \in Collections /\ item'.n >= 1
  <2>1. PICK w \in Waiting : w = pending[i]
    BY <1>4
  <2>2. item' = [w EXCEPT !.n = w.n + 1, !.later = FALSE]
    BY <2>1 DEF Pick
  <2>3. w.n \in 0..(Budget - 1) /\ w.n + 1 \in 1..Budget /\ w.n + 1 \in 0..Budget
    BY SyncConstants DEF Waiting
  <2>4. item'.c = w.c /\ item'.n = w.n + 1
    BY <2>2 DEF Waiting
  <2>5. item' \in Items
    BY <2>2, <2>3 DEF Waiting, Items
  <2>6. QED
    BY <2>3, <2>4, <2>5 DEF Waiting
<1>6. WorkOK'
  BY <1>4, <1>5 DEF SyncInv, Pick, WorkOK, Steps, Errors
<1>7. CountOK'
  BY <1>3 DEF SyncInv, CountOK, Pick
<1>8. ItemOK' /\ OneActive'
  BY <1>5 DEF SyncInv, Pick, ItemOK, HasItem, HasStage, OneActive
<1>9. QED
  BY <1>1, <1>3, <1>6, <1>7, <1>8 DEF SyncInv

\* A cancelled wait settles an entry of the schedule.
LEMMA WaitCancelledTyped ==
  ASSUME SyncInv, NEW i \in 1..Len(pending), WaitCancelled(i)
  PROVE  SyncInv'
<1>1. JobOK' /\ JournalOK' /\ CheckOK' /\ CacheOK' /\ CountOK'
  BY Frame DEF WaitCancelled, fileVars
<1>2. pending[i] \in Waiting /\ pending' \in Seq(Waiting)
  BY PendingTyped DEF WaitCancelled
<1>3. item' \in Items /\ item'.c \in Collections
  BY <1>2, SyncConstants DEF WaitCancelled, Waiting, Items
<1>4. WorkOK'
  BY <1>2, <1>3 DEF SyncInv, WaitCancelled, WorkOK, Steps, Errors
<1>5. ItemOK' /\ OneActive'
  BY <1>3 DEF SyncInv, WaitCancelled, ItemOK, HasItem, HasStage, OneActive
<1>6. QED
  BY <1>1, <1>4, <1>5 DEF SyncInv

\* The end of an attempt keeps the item.
LEMMA AttemptedTyped ==
  ASSUME SyncInv, NEW e \in Errors, NEW rows \in BOOLEAN, Attempted(e, rows), pc \in HasItem
  PROVE  /\ pc' \in Steps /\ item' \in Items /\ err' \in Errors
         /\ ItemOK'
         /\ OneActive /\ UNCHANGED rec => OneActive'
<1>1. item' = [item EXCEPT !.rows = rows] /\ item \in Items /\ pc' = "decide" /\ err' = e
  BY DEF Attempted, SyncInv, WorkOK
<1>2. item' \in Items /\ item'.c = item.c
  BY <1>1 DEF Items
<1>3. pc # "idle" /\ item.c \in Collections
  BY DEF HasItem, SyncInv, ItemOK
<1>4. QED
  BY <1>1, <1>2, <1>3 DEF Steps, ItemOK, OneActive, HasItem, HasStage

\* A fetch that brings nothing ends the attempt.
LEMMA FetchFailsTyped ==
  ASSUME SyncInv, FetchFails
  PROVE  SyncInv'
<1>1. JobOK' /\ JournalOK' /\ CheckOK' /\ CacheOK'
  BY Frame DEF FetchFails, fileVars
<1>2. pc \in HasItem /\ item.rows \in BOOLEAN
  BY DEF FetchFails, HasItem, SyncInv, WorkOK, Items
<1>3. PICK e \in Errors : Attempted(e, item.rows)
  BY DEF FetchFails, Errors
<1>4. pc' \in Steps /\ item' \in Items /\ err' \in Errors /\ ItemOK' /\ OneActive'
  BY <1>2, <1>3, AttemptedTyped DEF FetchFails, SyncInv
<1>5. failures' \in 0..MaxFailures
  BY WritesCounted DEF FetchFails
<1>6. QED
  BY <1>1, <1>4, <1>5 DEF SyncInv, FetchFails, WorkOK, CountOK

\* A batch that was fetched is a stage record.
LEMMA FetchedTyped ==
  ASSUME SyncInv, FetchStages, NEW e \in FetchErrors
  PROVE  /\ item.c \in Collections /\ item.n \in 1..Budget
         /\ [c |-> item.c, n |-> item.n, g |-> Generation(item.c, item.n),
             phase |-> "staged", err |-> e, at |-> 0,
             list |-> IF item.n > 1 THEN {item.c} ELSE run.list] \in StageRecords
<1>1. item.c \in Collections /\ item.n \in 1..Budget
  BY DEF FetchStages, SyncInv, ItemOK, HasItem, WorkOK, Items
<1>2. Generation(item.c, item.n) \in Nat
  BY FS_Subset, FS_CardinalityType DEF SyncInv, CacheOK, Generation
<1>3. (IF item.n > 1 THEN {item.c} ELSE run.list) \in SUBSET Collections
  BY <1>1 DEF SyncInv, WorkOK, Runs
<1>4. e \in Errors
  BY DEF FetchErrors, Errors
<1>5. QED
  BY <1>1, <1>2, <1>3, <1>4 DEF StageRecords, Errors

\* A batch that was fetched becomes a stage of the item.
LEMMA FetchStagesTyped ==
  ASSUME SyncInv, FetchStages
  PROVE  SyncInv'
<1>1. CheckOK' /\ CacheOK'
  BY Frame DEF FetchStages
<1>2. item.c \in Collections /\ item.n \in 1..Budget
  BY DEF FetchStages, SyncInv, ItemOK, HasItem, WorkOK, Items
<1>3. PICK e \in FetchErrors :
        journal' = Put(Swept(journal),
                       [c |-> item.c, n |-> item.n, g |-> Generation(item.c, item.n),
                        phase |-> "staged", err |-> e, at |-> 0,
                        list |-> IF item.n > 1 THEN {item.c} ELSE run.list])
  BY DEF FetchStages
<1> DEFINE s == [c |-> item.c, n |-> item.n, g |-> Generation(item.c, item.n),
                 phase |-> "staged", err |-> e, at |-> 0,
                 list |-> IF item.n > 1 THEN {item.c} ELSE run.list]
<1>4. s \in StageRecords
  BY <1>3, FetchedTyped
<1>5. Id(s) = <<item.c, item.n>>
  BY DEF Id
<1>6. journal' = Put(Swept(journal), s)
  BY <1>3
<1> HIDE DEF s
<1>7. Shaped(journal') /\ \E t \in journal' : Id(t) = <<item.c, item.n>>
  BY <1>4, <1>5, <1>6, SweptShrinks, PutTyped DEF SyncInv
<1>8. Show(<<item.c, item.n>>) \in JobRecords
  BY <1>2, JobRecordsKept DEF SyncInv, Stages
<1>9. JobOK' /\ failures' \in 0..MaxFailures
  BY <1>8, NoteTyped DEF FetchStages
<1>10. WorkOK' /\ OneActive' /\ CountOK'
  BY <1>9 DEF SyncInv, FetchStages, WorkOK, Steps, OneActive, CountOK
<1>11. ItemOK'
  BY <1>2, <1>7 DEF FetchStages, ItemOK, ItemAt, HasItem, HasStage
<1>12. QED
  BY <1>1, <1>7, <1>9, <1>10, <1>11 DEF SyncInv, JournalOK

\* The stage a commit is about is the item's.
LEMMA HasItemStage ==
  ASSUME SyncInv, pc \in HasStage
  PROVE  /\ ItemStage \in journal /\ ItemStage \in StageRecords
         /\ Id(ItemStage) = <<item.c, item.n>>
         /\ item.c \in Collections /\ item.n \in 1..Budget
<1>1. ItemAt(journal)
  BY DEF SyncInv, ItemOK
<1>2. ItemStage \in journal /\ Id(ItemStage) = <<item.c, item.n>>
  BY <1>1, ItemStageFound
<1>3. ItemStage \in StageRecords
  BY <1>2 DEF SyncInv, JournalOK, Shaped
<1>4. item.c = ItemStage.c /\ item.n = ItemStage.n
  BY <1>2 DEF Id
<1>5. QED
  BY <1>2, <1>3, <1>4 DEF StageRecords

\* The transaction of a stage writes a receipt and a frontier.
LEMMA CommitTyped ==
  ASSUME SyncInv, NEW s \in StageRecords, CommitBatch(s)
  PROVE  CacheOK'
<1>1. Receipt(s) \in Collections \X (1..Budget) \X Nat /\ s.c \in Collections
  BY DEF Receipt, StageRecords
<1>2. IsFiniteSet(receipts')
  BY FS_AddElement DEF SyncInv, CacheOK, CommitBatch
<1>3. Frontiers(s) \subseteq Collections
  BY <1>1 DEF Frontiers, SyncInv, CacheOK
<1>4. QED
  BY <1>1, <1>2, <1>3 DEF CommitBatch, SyncInv, CacheOK

\* Installing a stage leaves the stage where it is.
LEMMA InstallTyped ==
  ASSUME SyncInv, Install
  PROVE  SyncInv'
<1>1. JobOK' /\ JournalOK' /\ CheckOK' /\ CountOK'
  BY Frame DEF Install
<1>2. pc \in HasStage
  BY DEF Install, HasStage
<1>3. CacheOK'
  BY <1>2, HasItemStage, CommitTyped DEF Install
<1>4. WorkOK' /\ OneActive'
  BY DEF Install, SyncInv, WorkOK, Steps, OneActive
<1>5. ItemOK'
  BY DEF Install, SyncInv, ItemOK, ItemAt, HasItem, HasStage
<1>6. QED
  BY <1>1, <1>3, <1>4, <1>5 DEF SyncInv

\* What refusing and marking write to the journal are stages.
LEMMA JournalWritten ==
  ASSUME SyncInv, NEW s \in journal, NEW p \in {"staged", "committed", "rejected"},
         journal' \in {journal, Swept(journal), InPhase(s, p), Swept(InPhase(s, p))}
  PROVE  JournalOK'
<1>1. Shaped(journal) /\ Shaped(InPhase(s, p))
  BY InPhaseTyped DEF SyncInv, JournalOK
<1>2. Shaped(Swept(journal)) /\ Shaped(Swept(InPhase(s, p)))
  BY <1>1, SweptShrinks, ShapedShrinks
<1>3. QED
  BY <1>1, <1>2 DEF JournalOK

\* A commit that is refused leaves the item behind (runDurableCollection).
LEMMA RefuseTyped ==
  ASSUME SyncInv, Refuse
  PROVE  SyncInv'
<1>1. JobOK' /\ CheckOK' /\ CacheOK'
  BY Frame DEF Refuse
<1>2. pc \in HasStage /\ pc \in HasItem /\ item.rows \in BOOLEAN
  BY DEF Refuse, HasStage, HasItem, SyncInv, WorkOK, Items
<1>3. PICK e \in {"permanent", "cancelled"}, rows \in {item.rows, FALSE} :
        Refused(e) /\ Attempted(e, rows)
  BY DEF Refuse
<1>4. JournalOK'
  BY <1>3, <1>2, HasItemStage, JournalWritten DEF Refused
<1>5. pc' \in Steps /\ item' \in Items /\ err' \in Errors /\ ItemOK' /\ OneActive'
  BY <1>2, <1>3, AttemptedTyped DEF Errors, Refuse, SyncInv
<1>6. failures' \in 0..MaxFailures
  BY <1>3, WritesCounted DEF Refused
<1>7. QED
  BY <1>1, <1>4, <1>5, <1>6 DEF SyncInv, Refuse, WorkOK, CountOK

\* The journal learns of the commit, or the receipt speaks for it.
LEMMA MarkTyped ==
  ASSUME SyncInv, Mark
  PROVE  SyncInv'
<1>1. JobOK' /\ CheckOK' /\ CacheOK'
  BY Frame DEF Mark
<1>2. pc \in HasStage /\ pc \in HasItem
  BY DEF Mark, HasStage, HasItem
<1>3. ItemStage \in journal /\ ItemStage.err \in Errors
  BY <1>2, HasItemStage DEF StageRecords, Errors
<1>4. JournalOK'
  BY <1>3, JournalWritten DEF Mark
<1>5. PICK e \in Errors : Attempted(e, TRUE)
  BY <1>3 DEF Mark, Errors
<1>6. pc' \in Steps /\ item' \in Items /\ err' \in Errors /\ ItemOK' /\ OneActive'
  BY <1>2, <1>5, AttemptedTyped DEF Mark, SyncInv
<1>7. failures' \in 0..MaxFailures
  BY WritesCounted DEF Mark
<1>8. QED
  BY <1>1, <1>4, <1>6, <1>7 DEF SyncInv, Mark, WorkOK, CountOK

\* A checkpoint is written only for an attempt below the budget.
LEMMA CheckpointTyped ==
  ASSUME SyncInv, Checkpoint
  PROVE  SyncInv'
<1>1. JobOK' /\ JournalOK' /\ CacheOK' /\ CountOK'
  BY Frame DEF Checkpoint
<1>2. item.n \in 0..(Budget - 1) /\ run.sel \in SUBSET Collections
  BY SyncConstants DEF Checkpoint, Retryable, SyncInv, WorkOK, Items, Runs
<1>3. CheckOK'
  BY <1>2 DEF Checkpoint, SyncInv, CheckOK, Checks
<1>4. WorkOK' /\ OneActive'
  BY DEF Checkpoint, SyncInv, WorkOK, Steps, OneActive
<1>5. ItemOK'
  BY DEF Checkpoint, Retryable, SyncInv, ItemOK, HasItem, HasStage
<1>6. QED
  BY <1>1, <1>3, <1>4, <1>5 DEF SyncInv

\* Without its checkpoint the collection fails.
LEMMA CheckpointFailsTyped ==
  ASSUME SyncInv, CheckpointFails
  PROVE  SyncInv'
<1>1. JournalOK' /\ CheckOK' /\ CacheOK'
  BY Frame DEF CheckpointFails, fileVars
<1>2. ViewOf(item, "failed") \in Views /\ item.c \in Collections
  BY ViewTyped DEF SyncInv, WorkOK, ItemOK, HasItem, CheckpointFails, Outcomes
<1>3. JobOK'
  BY <1>2, JobRecordsKept DEF SyncInv, CheckpointFails, JobOK
<1>4. WorkOK' /\ ItemOK' /\ OneActive'
  BY DEF CheckpointFails, SyncInv, WorkOK, Steps, Runs, ItemOK, HasItem, HasStage, OneActive
<1>5. CountOK'
  BY WritesCounted DEF CheckpointFails, SyncInv, CountOK
<1>6. QED
  BY <1>1, <1>3, <1>4, <1>5 DEF SyncInv

\* The retry goes to the end of the schedule with an attempt left.
LEMMA ObserveTyped ==
  ASSUME SyncInv, Observe
  PROVE  SyncInv'
<1>1. JournalOK' /\ CheckOK' /\ CacheOK'
  BY Frame DEF Observe, fileVars
<1>2. ViewOf(item, "retry") \in Views /\ item.c \in Collections /\ item.n < Budget /\ item \in Items
  BY ViewTyped DEF SyncInv, WorkOK, ItemOK, HasItem, Observe, Outcomes
<1>3. JobOK' /\ failures' \in 0..MaxFailures
  BY <1>2, JobRecordsKept, NoteTyped DEF SyncInv, Observe
<1>4. [item EXCEPT !.later = TRUE] \in Waiting
  <2>1. item.n \in 0..(Budget - 1)
    BY <1>2, SyncConstants DEF Items
  <2>2. QED
    BY <1>2, <2>1 DEF Items, Waiting
<1>5. pending' \in Seq(Waiting)
  BY <1>4, AppendProperties DEF Observe, SyncInv, WorkOK
<1>6. WorkOK' /\ ItemOK' /\ OneActive' /\ CountOK'
  BY <1>3, <1>5 DEF Observe, SyncInv, WorkOK, Steps, ItemOK, HasItem, HasStage, OneActive, CountOK
<1>7. QED
  BY <1>1, <1>3, <1>6 DEF SyncInv

\* Settling a collection shows it, or keeps the evidence.
LEMMA SettleTyped ==
  ASSUME SyncInv, Settle
  PROVE  SyncInv'
<1>1. JournalOK' /\ CheckOK' /\ CacheOK'
  BY Frame DEF Settle, fileVars
<1>2. item \in Items /\ item.c \in Collections /\ err \in Errors
  BY DEF SyncInv, WorkOK, ItemOK, HasItem, Settle
<1>3. WithView(item.c, ViewOf(item, Outcome(err))) \in JobRecords
  BY <1>2, OutcomeTyped, ViewTyped, JobRecordsKept DEF SyncInv
<1>4. JobOK' /\ failures' \in 0..MaxFailures
  BY <1>3, PersistTyped, Frame, WritesCounted DEF Settle, KeepEvidence
<1>5. pc' \in {"retire", "release", "pick"}
  BY DEF Settle, KeepEvidence
<1>6. run' \in Runs
  BY DEF Settle, KeepEvidence, SyncInv, WorkOK, Runs
<1>7. WorkOK' /\ ItemOK' /\ OneActive' /\ CountOK'
  BY <1>2, <1>4, <1>5, <1>6
     DEF Settle, SyncInv, WorkOK, Steps, ItemOK, HasItem, HasStage, OneActive, CountOK
<1>8. QED
  BY <1>1, <1>4, <1>7 DEF SyncInv

\* The Settled hook removes the stages of a collection.
LEMMA RetireTyped ==
  ASSUME SyncInv, Retire
  PROVE  SyncInv'
<1>1. JobOK' /\ CheckOK' /\ CacheOK'
  BY Frame DEF Retire
<1>2. JournalOK'
  BY ShapedShrinks DEF Retire, WithoutStages, SyncInv, JournalOK
<1>3. pc' \in {"release", "pick"} /\ run' \in Runs /\ (WriteFails \/ WriteOK)
  BY DEF Retire, KeepEvidence, SyncInv, WorkOK, Runs
<1>4. failures' \in 0..MaxFailures
  BY <1>3, WritesCounted
<1>5. item.c \in Collections
  BY DEF Retire, SyncInv, ItemOK, HasItem
<1>6. WorkOK' /\ ItemOK' /\ OneActive' /\ CountOK'
  BY <1>3, <1>4, <1>5
     DEF Retire, SyncInv, WorkOK, Steps, ItemOK, HasItem, HasStage, OneActive, CountOK
<1>7. QED
  BY <1>1, <1>2, <1>6 DEF SyncInv

\* A checkpoint that is taken away leaves the others (Unschedule).
LEMMA UnscheduleTyped ==
  ASSUME SyncInv, NEW c \in Collections, Unschedule(c)
  PROVE  CheckOK'
<1>1. NoCheck \in Checks
  BY SyncConstants DEF NoCheck, Checks
<1>2. QED
  BY <1>1 DEF Unschedule, SyncInv, CheckOK

\* The Settled hook removes the checkpoint of a collection.
LEMMA ReleaseTyped ==
  ASSUME SyncInv, Release
  PROVE  SyncInv'
<1>1. JobOK' /\ JournalOK' /\ CacheOK'
  BY Frame DEF Release
<1>2. item.c \in Collections
  BY DEF Release, SyncInv, ItemOK, HasItem
<1>3. CheckOK'
  BY <1>2, UnscheduleTyped, Frame DEF Release
<1>4. pc' = "pick" /\ run' \in Runs /\ (WriteFails \/ WriteOK)
  BY DEF Release, KeepEvidence, SyncInv, WorkOK, Runs
<1>5. failures' \in 0..MaxFailures
  BY <1>4, WritesCounted
<1>6. WorkOK' /\ ItemOK' /\ OneActive' /\ CountOK'
  BY <1>4, <1>5
     DEF Release, SyncInv, WorkOK, Steps, ItemOK, HasItem, HasStage, OneActive, CountOK
<1>7. QED
  BY <1>1, <1>3, <1>6 DEF SyncInv

\* The worker ends the job (runSyncJob).
LEMMA FinishTyped ==
  ASSUME SyncInv, Finish
  PROVE  SyncInv'
<1>1. CheckOK' /\ CacheOK'
  BY Frame DEF Finish
<1>2. JournalOK'
  BY SweptShrinks, ShapedShrinks DEF Finish, SyncInv, JournalOK
<1>3. WithStatus(Verdict) \in JobRecords
  BY JobRecordsKept, VerdictTyped DEF SyncInv, Statuses
<1>4. JobOK' /\ failures' \in 0..MaxFailures
  BY Frame, WritesCounted, <1>3, PersistTyped DEF Finish
<1>5. pc' \in {"idle", "clean"} /\ pc = "pick"
  BY DEF Finish
<1>6. WorkOK' /\ ItemOK' /\ OneActive' /\ CountOK'
  BY <1>4, <1>5
     DEF Finish, SyncInv, WorkOK, Steps, ItemOK, HasItem, HasStage, OneActive, CountOK
<1>7. QED
  BY <1>1, <1>2, <1>4, <1>6 DEF SyncInv

\* A job without checkpoints or stages.
LEMMA EmptyTyped ==
  /\ Shaped({})
  /\ [c \in Collections |-> NoCheck] \in [Collections -> Checks]
  BY SyncConstants DEF Shaped, NoCheck, Checks

\* A terminal job loses its evidence.
LEMMA CleanTyped ==
  ASSUME SyncInv, Clean
  PROVE  SyncInv'
<1>1. JobOK' /\ CacheOK'
  BY Frame DEF Clean
<1>2. JournalOK' /\ CheckOK'
  BY EmptyTyped DEF Clean, SyncInv, JournalOK, CheckOK
<1>3. failures' \in 0..MaxFailures
  BY WritesCounted DEF Clean
<1>4. WorkOK' /\ ItemOK' /\ OneActive' /\ CountOK'
  BY <1>3 DEF Clean, SyncInv, WorkOK, Steps, ItemOK, HasItem, HasStage, OneActive, CountOK
<1>5. QED
  BY <1>1, <1>2, <1>4 DEF SyncInv

\* A recovered stage is refused (commitRecoveredSyncStage).
LEMMA RecoveredRefuseTyped ==
  ASSUME SyncInv, RecoveredRefuse
  PROVE  SyncInv'
<1>1. JobOK' /\ CheckOK' /\ CacheOK' /\ CountOK'
  BY Frame DEF RecoveredRefuse
<1>2. JournalOK'
  BY HasItemStage, JournalWritten DEF RecoveredRefuse, HasStage
<1>3. WorkOK' /\ ItemOK' /\ OneActive'
  BY DEF RecoveredRefuse, SyncInv, WorkOK, Steps, Runs, ItemOK, HasItem, HasStage, OneActive
<1>4. QED
  BY <1>1, <1>2, <1>3 DEF SyncInv

\* A recovered stage is marked: it stays the stage of the item.
LEMMA RecoveredMarkTyped ==
  ASSUME SyncInv, RecoveredMark
  PROVE  SyncInv'
<1>1. JobOK' /\ CheckOK' /\ CacheOK'
  BY Frame DEF RecoveredMark
<1>2. /\ ItemStage \in journal /\ Id(ItemStage) = <<item.c, item.n>>
      /\ item.c \in Collections /\ item.n \in 1..Budget
  BY HasItemStage DEF RecoveredMark, HasStage
<1>3. JournalOK' /\ \E t \in journal' : Id(t) = <<item.c, item.n>>
  BY <1>2, JournalWritten, InPhaseTyped DEF SyncInv, JournalOK, RecoveredMark
<1>4. pc' \in {"rproject", "pick"} /\ run' \in Runs /\ (WriteFails \/ WriteOK)
  BY DEF RecoveredMark, SyncInv, WorkOK, Runs
<1>5. failures' \in 0..MaxFailures
  BY <1>4, WritesCounted
<1>6. ItemOK'
  BY <1>2, <1>3, <1>4 DEF RecoveredMark, ItemOK, ItemAt, HasItem, HasStage
<1>7. WorkOK' /\ OneActive' /\ CountOK'
  BY <1>4, <1>5 DEF RecoveredMark, SyncInv, WorkOK, Steps, OneActive, CountOK
<1>8. QED
  BY <1>1, <1>3, <1>6, <1>7 DEF SyncInv

\* A recovered stage is reported, and the rest of its workflow scheduled.
LEMMA RecoveredProjectTyped ==
  ASSUME SyncInv, RecoveredProject
  PROVE  SyncInv'
<1> DEFINE s == ItemStage
<1>1. CheckOK' /\ CacheOK'
  BY Frame DEF RecoveredProject
<1>2. s \in StageRecords
  BY HasItemStage DEF RecoveredProject, HasStage
<1>3. JournalOK'
  BY SweptShrinks, ShapedShrinks DEF RecoveredProject, SyncInv, JournalOK
<1>4. WithView(s.c, RecoveredView(s)) \in JobRecords
  BY <1>2, RecoveredViewTyped, JobRecordsKept DEF StageRecords, SyncInv
<1>5. JobOK' /\ failures' \in 0..MaxFailures
  BY <1>4, PersistTyped, Frame, WritesCounted DEF RecoveredProject
<1>6. pending' \in Seq(Waiting)
  BY <1>2, ScheduleTyped DEF Rest, StageRecords, SyncInv, RecoveredProject, WorkOK
<1>7. pc' \in {"pick", "open", "idle"} /\ pc = "rproject"
  BY DEF RecoveredProject
<1>8. WorkOK' /\ ItemOK' /\ OneActive' /\ CountOK'
  BY <1>5, <1>6, <1>7
     DEF RecoveredProject, SyncInv, WorkOK, Steps, ItemOK, HasItem, HasStage, OneActive, CountOK
<1>9. QED
  BY <1>1, <1>3, <1>5, <1>8 DEF SyncInv

\* A cancellation only sets the context.
LEMMA CancelTyped ==
  ASSUME SyncInv, Cancel
  PROVE  SyncInv'
<1>1. JobOK' /\ JournalOK' /\ CheckOK' /\ CacheOK' /\ WorkOK' /\ ItemOK'
  BY Frame DEF Cancel, fileVars
<1>2. CountOK' /\ OneActive'
  BY DEF Cancel, SyncInv, CountOK, OneActive, workerVars
<1>3. QED
  BY <1>1, <1>2 DEF SyncInv

\* A crash leaves the files and forgets the worker (LoadAndMarkInterrupted).
LEMMA CrashTyped ==
  ASSUME SyncInv, Crash
  PROVE  SyncInv'
<1>1. JournalOK' /\ CheckOK' /\ CacheOK'
  BY Frame DEF Crash, fileVars
<1>2. JobOK'
  BY DEF Crash, SyncInv, JobOK, JobRecords
<1>3. WorkOK'
  BY SyncConstants, EmptySeq
     DEF Crash, WorkOK, Steps, NoItem, NoRun, Items, Runs, Errors
<1>4. CountOK'
  <2>1. crashes' \in 0..MaxCrashes
    BY SyncConstants DEF Crash, SyncInv, CountOK
  <2>2. QED
    BY <2>1 DEF Crash, SyncInv, CountOK, Progress
<1>5. ItemOK' /\ OneActive'
  BY DEF Crash, ItemOK, HasItem, HasStage, OneActive
<1>6. QED
  BY <1>1, <1>2, <1>3, <1>4, <1>5 DEF SyncInv

\* While recovery is active the worker has no item (OneActive).
LEMMA NoItemInRecovery ==
  ASSUME SyncInv, rec # "off", UNCHANGED workerVars
  PROVE  WorkOK' /\ ItemOK' /\ OneActive'
<1>1. WorkOK'
  BY Frame
<1>2. pc' = "idle"
  BY DEF SyncInv, OneActive, workerVars
<1>3. QED
  BY <1>1, <1>2 DEF ItemOK, HasItem, HasStage, OneActive

\* Recovery removes what a terminal job left.
LEMMA DropTerminalTyped ==
  ASSUME SyncInv, DropTerminal
  PROVE  SyncInv'
<1>1. JobOK' /\ CacheOK'
  BY Frame DEF DropTerminal
<1>2. JournalOK' /\ CheckOK'
  BY EmptyTyped DEF DropTerminal, JournalOK, CheckOK
<1>3. WorkOK' /\ ItemOK' /\ OneActive'
  BY NoItemInRecovery DEF DropTerminal
<1>4. CountOK'
  BY DEF DropTerminal, SyncInv, CountOK, Progress
<1>5. QED
  BY <1>1, <1>2, <1>3, <1>4 DEF SyncInv

\* Recovery commits a stage that has no receipt.
LEMMA ReconcileInstallTyped ==
  ASSUME SyncInv, NEW s \in journal, ReconcileInstall(s)
  PROVE  SyncInv'
<1>1. CheckOK'
  BY Frame DEF ReconcileInstall
<1>2. s \in StageRecords
  BY DEF SyncInv, JournalOK, Shaped
<1>3. Show(Id(s)) \in JobRecords
  BY <1>2, JobRecordsKept DEF Id, Stages, StageRecords, SyncInv
<1>4. JobOK' /\ failures' \in 0..MaxFailures
  BY <1>3, PersistTyped, NoteTyped DEF ReconcileInstall
<1>5. JournalOK'
  BY JournalWritten DEF ReconcileInstall
<1>6. CacheOK'
  BY <1>2, CommitTyped, Frame DEF ReconcileInstall
<1>7. WorkOK' /\ ItemOK' /\ OneActive'
  BY NoItemInRecovery DEF ReconcileInstall, Reconciling, Recovering
<1>8. CountOK'
  BY <1>4 DEF ReconcileInstall, SyncInv, CountOK, Progress
<1>9. QED
  BY <1>1, <1>4, <1>5, <1>6, <1>7, <1>8 DEF SyncInv

\* Recovery marks a stage that has a receipt.
LEMMA ReconcileMarkTyped ==
  ASSUME SyncInv, NEW s \in journal, ReconcileMark(s)
  PROVE  SyncInv'
<1>1. JobOK' /\ CheckOK' /\ CacheOK'
  BY Frame DEF ReconcileMark
<1>2. JournalOK'
  BY JournalWritten DEF ReconcileMark
<1>3. WorkOK' /\ ItemOK' /\ OneActive'
  BY NoItemInRecovery DEF ReconcileMark, Reconciling, Recovering
<1>4. failures' \in 0..MaxFailures
  BY WritesCounted DEF ReconcileMark
<1>5. CountOK'
  BY <1>4 DEF ReconcileMark, SyncInv, CountOK, Progress
<1>6. QED
  BY <1>1, <1>2, <1>3, <1>5 DEF SyncInv

\* The view of a recovered stage fits the job.
LEMMA RecoveredJobTyped ==
  ASSUME SyncInv, NEW s \in journal
  PROVE  WithView(s.c, RecoveredView(s)) \in JobRecords
<1>1. s \in StageRecords /\ s.c \in Collections
  BY DEF SyncInv, JournalOK, Shaped, StageRecords
<1>2. RecoveredView(s) \in Views
  BY <1>1, RecoveredViewTyped
<1>3. QED
  BY <1>1, <1>2, JobRecordsKept DEF SyncInv

\* Recovery reports a committed stage.
LEMMA ReconcileProjectTyped ==
  ASSUME SyncInv, NEW s \in journal, ReconcileProject(s)
  PROVE  SyncInv'
<1>1. JournalOK' /\ CheckOK' /\ CacheOK'
  BY Frame DEF ReconcileProject, fileVars
<1>2. JobOK' /\ failures' \in 0..MaxFailures
  BY RecoveredJobTyped, PersistTyped DEF ReconcileProject
<1>3. WorkOK' /\ ItemOK' /\ OneActive'
  BY NoItemInRecovery DEF ReconcileProject, Reconciling, Recovering
<1>4. CountOK'
  BY <1>2 DEF ReconcileProject, SyncInv, CountOK, Progress
<1>5. QED
  BY <1>1, <1>2, <1>3, <1>4 DEF SyncInv

\* Recovery goes on when nothing is left to reconcile.
LEMMA ReconciledTyped ==
  ASSUME SyncInv, Reconciled
  PROVE  SyncInv'
<1>1. JobOK' /\ JournalOK' /\ CheckOK' /\ CacheOK'
  BY Frame DEF Reconciled, fileVars
<1>2. WorkOK' /\ ItemOK' /\ OneActive'
  BY NoItemInRecovery DEF Reconciled, Recovering
<1>3. CountOK'
  BY DEF Reconciled, SyncInv, CountOK, Progress
<1>4. QED
  BY <1>1, <1>2, <1>3 DEF SyncInv

\* Recovery drops the checkpoint of a settled collection.
LEMMA DropSettledTyped ==
  ASSUME SyncInv, NEW c \in Collections, DropSettled(c)
  PROVE  SyncInv'
<1>1. JobOK' /\ CacheOK'
  BY Frame DEF DropSettled
<1>2. JournalOK'
  BY ShapedShrinks DEF DropSettled, WithoutStages, SyncInv, JournalOK
<1>3. CheckOK'
  BY UnscheduleTyped, Frame DEF DropSettled
<1>4. WorkOK' /\ ItemOK' /\ OneActive'
  BY NoItemInRecovery DEF DropSettled, Recovering
<1>5. failures' \in 0..MaxFailures
  BY WritesCounted DEF DropSettled
<1>6. CountOK'
  BY <1>5 DEF DropSettled, SyncInv, CountOK, Progress
<1>7. QED
  BY <1>1, <1>2, <1>3, <1>4, <1>6 DEF SyncInv

\* Recovery fails the collection of an expired checkpoint.
LEMMA DropExpiredTyped ==
  ASSUME SyncInv, NEW c \in Collections, DropExpired(c)
  PROVE  SyncInv'
<1> DEFINE i == [NoItem EXCEPT !.c = c, !.n = check[c].n]
<1>1. JournalOK' /\ CacheOK'
  BY Frame DEF DropExpired
<1>2. CheckOK'
  BY UnscheduleTyped, Frame DEF DropExpired
<1>3. WithView(c, ViewOf(i, "failed")) \in JobRecords
  <2>1. check[c].n \in 0..Budget
    BY SyncConstants DEF SyncInv, CheckOK, Checks
  <2>2. i \in Items
    BY <2>1 DEF NoItem, Items
  <2>3. ViewOf(i, "failed") \in Views
    BY <2>2, ViewTyped DEF SyncInv, Outcomes
  <2>4. QED
    BY <2>3, JobRecordsKept DEF SyncInv
<1>4. JobOK' /\ failures' \in 0..MaxFailures
  BY <1>3, PersistTyped DEF DropExpired
<1>5. WorkOK' /\ ItemOK' /\ OneActive'
  BY NoItemInRecovery DEF DropExpired, Recovering
<1>6. CountOK'
  BY <1>4 DEF DropExpired, SyncInv, CountOK, Progress
<1>7. QED
  BY <1>1, <1>2, <1>4, <1>5, <1>6 DEF SyncInv

\* A resumption that fails leaves the files and the worker alone.
LEMMA ResumeFailsTyped ==
  ASSUME SyncInv, ResumeFails, rec # "off", UNCHANGED <<check, cacheVars, err, cancelled, crashes>>
  PROVE  SyncInv'
<1>1. JournalOK' /\ CheckOK' /\ CacheOK'
  BY Frame DEF ResumeFails
<1>2. JobOK'
  BY JobRecordsKept DEF ResumeFails, SyncInv, JobOK, Statuses
<1>3. WorkOK' /\ ItemOK' /\ OneActive'
  BY NoItemInRecovery DEF ResumeFails, workerVars
<1>4. CountOK'
  BY WritesCounted DEF ResumeFails, SyncInv, CountOK, Progress
<1>5. QED
  BY <1>1, <1>2, <1>3, <1>4 DEF SyncInv

\* Recovery starts the worker of a retry.
LEMMA ResumeRetryTyped ==
  ASSUME SyncInv, NEW c \in Collections, ResumeRetry(c)
  PROVE  SyncInv'
<1>1. rec # "off"
  BY DEF ResumeRetry, Recovering
<1>2. CASE ResumeFails
  BY <1>1, <1>2, ResumeFailsTyped DEF ResumeRetry
<1>3. CASE /\ Persist(WithStatus("running"))
           /\ run' = [NoRun EXCEPT !.list = Selection(c), !.sel = Selection(c)]
           /\ pending' = Schedule(Selection(c))
           /\ pc' = "open"
           /\ RecoveryReturns
           /\ UNCHANGED item
  <2>1. CheckOK' /\ CacheOK'
    BY Frame DEF ResumeRetry
  <2>2. JournalOK'
    BY <1>3, SweptShrinks, ShapedShrinks DEF RecoveryReturns, SyncInv, JournalOK
  <2>3. JobOK' /\ failures' \in 0..MaxFailures
    BY JobRecordsKept, <1>3, PersistTyped DEF SyncInv, Statuses
  <2>4. Selection(c) \in SUBSET Collections
    BY DEF SyncInv, CheckOK, Checks, Selection, Scheduled
  <2>5. Schedule(Selection(c)) \in Seq(Waiting)
    BY <2>4, ScheduleTyped DEF SyncInv
  <2>6. WorkOK'
    BY <1>3, <2>4, <2>5 DEF ResumeRetry, SyncInv, WorkOK, Steps, Runs, NoRun
  <2>7. CountOK' /\ ItemOK' /\ OneActive'
    BY <1>3, <2>3
       DEF ResumeRetry, RecoveryReturns, SyncInv, CountOK, Progress, ItemOK, HasItem, HasStage, OneActive
  <2>8. QED
    BY <2>1, <2>2, <2>3, <2>6, <2>7 DEF SyncInv
<1>4. QED
  BY <1>2, <1>3 DEF ResumeRetry

\* Completing a job clears its journal (Complete).
LEMMA CompleteTyped ==
  ASSUME SyncInv, Complete, rec # "off", UNCHANGED <<check, cacheVars, workerVars, cancelled, crashes>>
  PROVE  SyncInv'
<1>1. CheckOK' /\ CacheOK'
  BY Frame
<1>2. JournalOK'
  BY EmptyTyped, Frame DEF Complete, JournalOK
<1>3. JobOK' /\ failures' \in 0..MaxFailures
  BY JobRecordsKept, VerdictTyped, PersistTyped DEF SyncInv, Statuses, Complete
<1>4. WorkOK' /\ ItemOK' /\ OneActive'
  BY NoItemInRecovery
<1>5. CountOK'
  BY <1>3 DEF Complete, SyncInv, CountOK, Progress
<1>6. QED
  BY <1>1, <1>2, <1>3, <1>4, <1>5 DEF SyncInv

\* Recovery completes a job with no checkpoint left.
LEMMA CompleteRetryTyped ==
  ASSUME SyncInv, CompleteRetry
  PROVE  SyncInv'
<1>1. rec # "off"
  BY DEF CompleteRetry, Recovering
<1>2. QED
  BY <1>1, CompleteTyped DEF CompleteRetry

\* Recovery marks the furthest stage.
LEMMA MarkFurthestTyped ==
  ASSUME SyncInv, NEW s \in journal, MarkFurthest(s)
  PROVE  SyncInv'
<1>1. JobOK' /\ CheckOK' /\ CacheOK' /\ CountOK'
  BY Frame DEF MarkFurthest
<1>2. JournalOK'
  BY JournalWritten DEF MarkFurthest
<1>3. WorkOK' /\ ItemOK' /\ OneActive'
  BY NoItemInRecovery DEF MarkFurthest, Furthest, Recovering
<1>4. QED
  BY <1>1, <1>2, <1>3 DEF SyncInv

\* Recovery reports the last collection of a workflow, then completes the job.
LEMMA CompleteFurthestTyped ==
  ASSUME SyncInv, NEW s \in journal, CompleteFurthest(s)
  PROVE  SyncInv'
<1>0. rec # "off"
  BY DEF CompleteFurthest, Furthest, Recovering
<1>1. CASE Unreported(s)
  <2>1. JournalOK' /\ CheckOK' /\ CacheOK'
    BY <1>1, Frame DEF CompleteFurthest
  <2>2. JobOK' /\ failures' \in 0..MaxFailures
    BY <1>1, RecoveredJobTyped, PersistTyped DEF CompleteFurthest
  <2>3. WorkOK' /\ ItemOK' /\ OneActive'
    BY <1>0, NoItemInRecovery DEF CompleteFurthest
  <2>4. CountOK'
    BY <1>1, <2>2 DEF CompleteFurthest, SyncInv, CountOK, Progress
  <2>5. QED
    BY <2>1, <2>2, <2>3, <2>4 DEF SyncInv
<1>2. CASE ~Unreported(s)
  BY <1>0, <1>2, CompleteTyped DEF CompleteFurthest
<1>3. QED
  BY <1>1, <1>2

\* The last GC of a recovery keeps the furthest stage (IsLatest, Swept).
LEMMA LatestIsKept ==
  ASSUME SyncInv, NEW s \in journal, IsLatest(s)
  PROVE  s \in Swept(journal)
<1>1. \A t \in journal : Cur(t) \in Nat
  <2>1. ASSUME NEW t \in journal
        PROVE  Cur(t) \in Nat
    BY CollectionsFinite DEF SyncInv, JournalOK, Shaped, StageRecords, Cur
  <2>2. QED
    BY <2>1
<1>2. \A t \in journal : Cur(t) <= Cur(s)
  <2> HIDE DEF Cur
  <2>1. ASSUME NEW t \in journal
        PROVE  Cur(t) <= Cur(s)
    BY <1>1 DEF IsLatest, Later
  <2>2. QED
    BY <2>1
<1>3. QED
  BY <1>2 DEF Swept

\* Recovery starts the worker of a workflow: the furthest stage is that of its item.
LEMMA ResumeFurthestTyped ==
  ASSUME SyncInv, NEW s \in journal, ResumeFurthest(s)
  PROVE  SyncInv'
<1>1. rec # "off" /\ IsLatest(s) /\ s \in StageRecords
  BY DEF ResumeFurthest, Furthest, Recovering, SyncInv, JournalOK, Shaped
<1>2. CASE ResumeFails
  BY <1>1, <1>2, ResumeFailsTyped DEF ResumeFurthest
<1>3. CASE /\ Persist([WithStatus("running") EXCEPT !.shown = Id(s)])
           /\ run' = [list |-> s.list, sel |-> Rest(s), recovered |-> TRUE, result |-> "ok"]
           /\ item' = [NoItem EXCEPT !.c = s.c, !.n = s.n]
           /\ pc' = IF s.phase = "staged" THEN "rcommit" ELSE "rproject"
           /\ RecoveryReturns
           /\ UNCHANGED pending
  <2>1. CheckOK' /\ CacheOK'
    BY Frame DEF ResumeFurthest
  <2>2. JournalOK'
    BY <1>3, SweptShrinks, ShapedShrinks DEF RecoveryReturns, SyncInv, JournalOK
  <2>3. JobOK' /\ failures' \in 0..MaxFailures
    <3>1. WithStatus("running") \in JobRecords
      BY JobRecordsKept DEF SyncInv, Statuses
    <3>2. Id(s) \in Stages
      BY <1>1 DEF Id, Stages, StageRecords
    <3>3. [WithStatus("running") EXCEPT !.shown = Id(s)] \in JobRecords
      BY <3>1, <3>2 DEF JobRecords
    <3>4. QED
      BY <1>3, <3>3, PersistTyped
  <2>4. item' \in Items /\ item'.c = s.c /\ item'.n = s.n
    <3>1. s.c \in Collections /\ s.n \in 0..Budget
      BY <1>1, SyncConstants DEF StageRecords
    <3>2. item' = [NoItem EXCEPT !.c = s.c, !.n = s.n]
      BY <1>3
    <3>3. QED
      BY <3>1, <3>2 DEF NoItem, Items
  <2>5. run' \in Runs
    BY <1>1, <1>3 DEF Runs, Rest, StageRecords
  <2>6. WorkOK'
    BY <1>3, <2>4, <2>5 DEF ResumeFurthest, SyncInv, WorkOK, Steps
  <2>7. ItemOK'
    BY <1>1, <1>3, <2>4, LatestIsKept DEF RecoveryReturns, Id, StageRecords, ItemOK, ItemAt, HasItem,
           HasStage
  <2>8. CountOK' /\ OneActive'
    BY <1>3, <2>3 DEF ResumeFurthest, RecoveryReturns, SyncInv, CountOK, Progress, OneActive
  <2>9. QED
    BY <2>1, <2>2, <2>3, <2>6, <2>7, <2>8 DEF SyncInv
<1>4. QED
  BY <1>2, <1>3 DEF ResumeFurthest

\* Recovery stops at a rejected stage.
LEMMA RejectFurthestTyped ==
  ASSUME SyncInv, NEW s \in journal, RejectFurthest(s)
  PROVE  SyncInv'
<1>1. JournalOK' /\ CheckOK' /\ CacheOK'
  BY Frame DEF RejectFurthest, fileVars
<1>2. JobOK' /\ failures' \in 0..MaxFailures
  BY JobRecordsKept, NoteTyped, Frame, WritesCounted DEF SyncInv, Statuses, Terminal, RejectFurthest
<1>3. WorkOK' /\ ItemOK' /\ OneActive'
  BY NoItemInRecovery DEF RejectFurthest, Furthest, Recovering
<1>4. CountOK'
  BY <1>2 DEF RejectFurthest, SyncInv, CountOK, Progress
<1>5. QED
  BY <1>1, <1>2, <1>3, <1>4 DEF SyncInv

\* Recovery finds no stage.
LEMMA NoStagesTyped ==
  ASSUME SyncInv, NoStages
  PROVE  SyncInv'
<1>1. JobOK' /\ JournalOK' /\ CheckOK' /\ CacheOK'
  BY Frame DEF NoStages, fileVars
<1>2. WorkOK' /\ ItemOK' /\ OneActive'
  BY NoItemInRecovery DEF NoStages, Recovering
<1>3. CountOK'
  BY DEF NoStages, SyncInv, CountOK, Progress
<1>4. QED
  BY <1>1, <1>2, <1>3 DEF SyncInv

\* Recovery completes a job that has only final views.
LEMMA CompleteSettledTyped ==
  ASSUME SyncInv, CompleteSettled
  PROVE  SyncInv'
<1>1. rec # "off"
  BY DEF CompleteSettled
<1>2. CASE Complete
  BY <1>1, <1>2, CompleteTyped DEF CompleteSettled
<1>3. CASE RecoveryReturns /\ UNCHANGED jobVars /\ WriteOK
  <2>1. JobOK' /\ CheckOK' /\ CacheOK'
    BY <1>3, Frame DEF CompleteSettled
  <2>2. JournalOK'
    BY <1>3, SweptShrinks, ShapedShrinks DEF RecoveryReturns, SyncInv, JournalOK
  <2>3. WorkOK' /\ ItemOK' /\ OneActive'
    BY <1>1, NoItemInRecovery DEF CompleteSettled
  <2>4. CountOK'
    BY <1>3, WritesCounted DEF CompleteSettled, RecoveryReturns, SyncInv, CountOK, Progress
  <2>5. QED
    BY <2>1, <2>2, <2>3, <2>4 DEF SyncInv
<1>4. QED
  BY <1>2, <1>3 DEF CompleteSettled

\* A recovery that failed ends the job that it leaves (failInterruptedSyncRecoveries).
LEMMA FailInterruptedTyped ==
  ASSUME SyncInv, FailInterrupted
  PROVE  SyncInv'
<1>1. CheckOK' /\ CacheOK'
  BY Frame DEF FailInterrupted
<1>2. JournalOK'
  BY SweptShrinks, ShapedShrinks DEF FailInterrupted, RecoveryReturns, SyncInv, JournalOK
<1>3. JobOK' /\ failures' \in 0..MaxFailures
  BY JobRecordsKept, PersistTyped, Frame, WritesCounted DEF SyncInv, Statuses, Terminal, FailInterrupted
<1>4. WorkOK' /\ ItemOK' /\ OneActive'
  BY NoItemInRecovery DEF FailInterrupted
<1>5. CountOK'
  BY <1>3 DEF FailInterrupted, RecoveryReturns, SyncInv, CountOK, Progress
<1>6. QED
  BY <1>1, <1>2, <1>3, <1>4, <1>5 DEF SyncInv

\* A new job satisfies the invariant.
LEMMA SyncStarts == Init => SyncInv
<1> SUFFICES ASSUME Init PROVE SyncInv
  OBVIOUS
<1>1. JobOK
  BY SyncConstants DEF Init, JobOK, JobRecords, Views, NoView, NoStage
<1>2. JournalOK /\ CheckOK
  BY EmptyTyped DEF Init, JournalOK, CheckOK
<1>3. CacheOK
  BY FS_EmptySet DEF Init, CacheOK
<1>4. WorkOK
  <2>1. pending \in Seq(Waiting)
    BY <1>2, ScheduleTyped DEF Init
  <2>2. item \in Items
    BY SyncConstants DEF Init, NoItem, Items
  <2>3. run \in Runs
    BY DEF Init, NoRun, Runs
  <2>4. QED
    BY <2>1, <2>2, <2>3 DEF Init, WorkOK, Steps, Errors
<1>5. CountOK
  <2>1. 0 \in 0..MaxFailures /\ 0 \in 0..MaxCrashes
    BY SyncConstants
  <2>2. QED
    BY <2>1 DEF Init, CountOK, Progress
<1>6. ItemOK /\ OneActive
  BY DEF Init, ItemOK, HasItem, HasStage, OneActive
<1>7. QED
  BY <1>1, <1>2, <1>3, <1>4, <1>5, <1>6 DEF SyncInv

\* Every step keeps the invariant.
LEMMA SyncStepTyped ==
  ASSUME SyncInv, [Next]_vars
  PROVE  SyncInv'
<1>1. CASE UNCHANGED vars
  BY <1>1, Frame DEF vars, fileVars, workerVars, SyncInv
<1>2. CASE WorkerStep
  <2>1. ASSUME NEW i \in 1..Len(pending), Pick(i) \/ WaitCancelled(i)
        PROVE  SyncInv'
    BY <2>1, PickTyped, WaitCancelledTyped
  <2>2. QED
    BY <1>2, <2>1, OpenTyped, FetchFailsTyped, FetchStagesTyped, InstallTyped, RefuseTyped, MarkTyped,
       CheckpointTyped, CheckpointFailsTyped, ObserveTyped, SettleTyped, RetireTyped, ReleaseTyped,
       FinishTyped, CleanTyped, RecoveredRefuseTyped, RecoveredMarkTyped, RecoveredProjectTyped
       DEF WorkerStep, AttemptStep
<1>3. CASE RecoveryStep
  <2>1. ASSUME NEW s \in journal,
               \/ ReconcileInstall(s) \/ ReconcileMark(s) \/ ReconcileProject(s)
               \/ MarkFurthest(s) \/ CompleteFurthest(s) \/ ResumeFurthest(s) \/ RejectFurthest(s)
        PROVE  SyncInv'
    BY <2>1, ReconcileInstallTyped, ReconcileMarkTyped, ReconcileProjectTyped, MarkFurthestTyped,
       CompleteFurthestTyped, ResumeFurthestTyped, RejectFurthestTyped
  <2>2. ASSUME NEW c \in Collections, DropSettled(c) \/ DropExpired(c) \/ ResumeRetry(c)
        PROVE  SyncInv'
    BY <2>2, DropSettledTyped, DropExpiredTyped, ResumeRetryTyped
  <2>3. QED
    BY <1>3, <2>1, <2>2, DropTerminalTyped, ReconciledTyped, CompleteRetryTyped, NoStagesTyped,
       CompleteSettledTyped, FailInterruptedTyped DEF RecoveryStep
<1>4. CASE Cancel
  BY <1>4, CancelTyped
<1>5. CASE Crash
  BY <1>5, CrashTyped
<1>6. QED
  BY <1>1, <1>2, <1>3, <1>4, <1>5 DEF Next

\* Whatever crashes and failed writes happen, the invariant holds: in
\* particular an attempt is always within the retry budget, and a commit
\* always finds the stage it is about in the journal (runSyncCollectionSchedule,
\* runDurableCollection).
THEOREM SyncSound == Spec => []SyncInv
<1>1. Init => SyncInv
  BY SyncStarts
<1>2. SyncInv /\ [Next]_vars => SyncInv'
  BY SyncStepTyped
<1>3. QED
  BY <1>1, <1>2, PTL DEF Spec

\* The type invariant, for every set of collections and every retry budget.
THEOREM SyncTyped == Spec => []TypeOK
<1>1. SyncInv => TypeOK
  BY PartsAreTyped
<1>2. QED
  BY <1>1, SyncSound, PTL

-----------------------------------------------------------------------------
(* DurableSync implements SyncLedger.                                      *)

\* The worker has not come to the end of its job.
Active == pc \notin {"idle", "clean"}

\* A saved verdict is the job's, and a job with an active worker has none.
LedgerInv == /\ disk.status \in Terminal => job.status = disk.status
             /\ Active => job.status = "running"

\* A step of a job that has no verdict: it may install a batch, or end the job.
OpenStep == /\ job.status \notin Terminal
            /\ disk'.status \in {disk.status, job'.status}
            /\ Active' => job'.status = "running"
            /\ Active => job'.status # "interrupted"
            /\ \/ receipts' = receipts
               \/ /\ job'.status = job.status
                  /\ \E r \in receipts' : receipts' = receipts \cup {r}

\* A step readers of the ledger do not see.
QuietStep == /\ job'.status = job.status /\ disk'.status = disk.status
             /\ receipts' = receipts
             /\ Active' => Active

\* Showing a stage or a view keeps the status of the job.
LEMMA StatusOf ==
  ASSUME JobOK
  PROVE  /\ \A id : Show(id).status = job.status
         /\ \A c, v : WithView(c, v).status = job.status
         /\ \A s : WithStatus(s).status = s
  BY DEF JobOK, JobRecords, Show, WithView, WithStatus

\* As long as the worker is active, every step of it leaves the job open.
LEMMA AttemptIsOpen ==
  ASSUME SyncInv, LedgerInv, WorkerStep, ~Finish, ~Clean
  PROVE  OpenStep
<1> USE DEF Active
<1>1. Active => job.status = "running" /\ job.status \notin Terminal
  BY DEF LedgerInv, Terminal
<1>2. JobOK
  BY DEF SyncInv
<1>3. CASE Open
  BY <1>1, <1>3 DEF Open, OpenStep, jobVars, fileVars, cacheVars
<1>4. ASSUME NEW i \in 1..Len(pending), Pick(i) \/ WaitCancelled(i)
      PROVE  OpenStep
  BY <1>1, <1>2, <1>4, StatusOf DEF Pick, WaitCancelled, OpenStep, Note, Persist, jobVars, fileVars, cacheVars
<1>5. CASE FetchFails \/ Refuse \/ Mark
  BY <1>1, <1>5 DEF FetchFails, Refuse, Mark, Attempted, OpenStep, jobVars, fileVars, cacheVars
<1>6. CASE FetchStages
  BY <1>1, <1>2, <1>6, StatusOf DEF FetchStages, OpenStep, Note, Persist, cacheVars
<1>7. CASE Install
  BY <1>1, <1>7 DEF Install, CommitBatch, OpenStep, jobVars
<1>8. CASE Checkpoint
  BY <1>1, <1>8 DEF Checkpoint, OpenStep, jobVars, cacheVars
<1>9. CASE CheckpointFails
  BY <1>1, <1>2, <1>9, StatusOf DEF CheckpointFails, OpenStep, fileVars, cacheVars
<1>10. CASE Observe
  BY <1>1, <1>2, <1>10, StatusOf DEF Observe, OpenStep, Note, Persist, fileVars, cacheVars
<1>11. CASE Settle
  BY <1>1, <1>2, <1>11, StatusOf DEF Settle, KeepEvidence, OpenStep, Persist, jobVars, fileVars, cacheVars
<1>12. CASE Retire \/ Release
  BY <1>1, <1>12 DEF Retire, Release, KeepEvidence, OpenStep, jobVars, cacheVars
<1>13. CASE RecoveredRefuse \/ RecoveredMark
  BY <1>1, <1>13 DEF RecoveredRefuse, RecoveredMark, OpenStep, jobVars, cacheVars
<1>14. CASE RecoveredProject
  BY <1>1, <1>2, <1>14, StatusOf
     DEF RecoveredProject, OpenStep, Persist, PersistFails, jobVars, cacheVars
<1>15. QED
  BY <1>3, <1>4, <1>5, <1>6, <1>7, <1>8, <1>9, <1>10, <1>11, <1>12, <1>13, <1>14
     DEF WorkerStep, AttemptStep

\* The worker ends an open job, and cleans up afterwards.
LEMMA EndIsOpen ==
  ASSUME SyncInv, LedgerInv
  PROVE  /\ Finish => OpenStep
         /\ Clean => QuietStep
<1> USE DEF Active
<1>1. pc = "pick" => job.status \notin Terminal /\ job.status = "running"
  BY DEF LedgerInv, Terminal
<1>2. Finish => OpenStep
  BY <1>1, StatusOf, VerdictTyped DEF SyncInv, Finish, OpenStep, Persist, PersistFails, Terminal, jobVars, cacheVars
<1>3. Clean => QuietStep
  BY DEF Clean, QuietStep, jobVars, cacheVars
<1>4. QED
  BY <1>2, <1>3

\* Recovery touches an interrupted job, which is open, or nothing of it.
LEMMA RecoveryIsOpen ==
  ASSUME SyncInv, LedgerInv, RecoveryStep
  PROVE  OpenStep \/ QuietStep
<1> USE DEF Active
<1>1. job.status = "interrupted" => job.status \notin Terminal
  BY DEF Terminal
<1>2. JobOK /\ (rec # "off" => pc = "idle")
  BY DEF SyncInv, OneActive
<1>3. CASE DropTerminal \/ Reconciled \/ NoStages
  BY <1>3 DEF DropTerminal, Reconciled, NoStages, QuietStep, jobVars, fileVars, cacheVars, workerVars
<1>4. ASSUME Complete, job.status = "interrupted", rec # "off", UNCHANGED <<cacheVars, workerVars>>
      PROVE  OpenStep
  BY <1>1, <1>2, <1>4 DEF Complete, OpenStep, Persist, PersistFails, jobVars, cacheVars, workerVars
<1>5. CASE CompleteRetry
  BY <1>4, <1>5 DEF CompleteRetry, Recovering
<1>6. CASE CompleteSettled
  BY <1>4, <1>6 DEF CompleteSettled, QuietStep, jobVars, cacheVars, workerVars
<1>7. CASE FailInterrupted
  BY <1>1, <1>2, <1>7 DEF FailInterrupted, OpenStep, Persist, PersistFails, jobVars, cacheVars, workerVars,
         QuietStep
<1>8. ASSUME NEW s \in journal, ReconcileInstall(s)
      PROVE  OpenStep
  <2>1. pc = "idle" /\ pc' = "idle" /\ job.status = "interrupted"
    BY <1>2, <1>8 DEF ReconcileInstall, Reconciling, Recovering, workerVars
  <2>2. job'.status = job.status /\ disk'.status \in {disk.status, job'.status}
    BY <1>2, <1>8, StatusOf DEF ReconcileInstall, Persist, PersistFails, Note, jobVars
  <2>3. receipts' = receipts \/ \E r \in receipts' : receipts' = receipts \cup {r}
    BY <1>8 DEF ReconcileInstall, CommitBatch, cacheVars
  <2>4. QED
    BY <1>1, <2>1, <2>2, <2>3 DEF OpenStep
<1>9. ASSUME NEW s \in journal, ReconcileMark(s) \/ ReconcileProject(s)
      PROVE  OpenStep
  BY <1>1, <1>2, <1>9, StatusOf
     DEF ReconcileMark, ReconcileProject, Reconciling, Recovering, OpenStep, Persist, PersistFails,
         jobVars, fileVars, cacheVars, workerVars
<1>10. ASSUME NEW s \in journal, MarkFurthest(s) \/ RejectFurthest(s)
       PROVE  OpenStep
  BY <1>1, <1>2, <1>10, StatusOf
     DEF MarkFurthest, RejectFurthest, Furthest, Recovering, OpenStep, Note, Persist,
         jobVars, fileVars, cacheVars, workerVars
<1>11. ASSUME NEW s \in journal, CompleteFurthest(s)
       PROVE  OpenStep
  <2>1. job.status = "interrupted" /\ rec # "off"
    BY <1>11 DEF CompleteFurthest, Furthest, Recovering
  <2>2. CASE Unreported(s)
    BY <1>1, <1>2, <1>11, <2>1, <2>2, StatusOf
       DEF CompleteFurthest, OpenStep, Persist, PersistFails, jobVars, cacheVars, workerVars
  <2>3. CASE ~Unreported(s)
    BY <1>4, <1>11, <2>1, <2>3 DEF CompleteFurthest
  <2>4. QED
    BY <2>2, <2>3
<1>12. ASSUME ResumeFails, job.status = "interrupted", rec # "off", UNCHANGED cacheVars
       PROVE  OpenStep
  BY <1>1, <1>2, <1>12, StatusOf DEF ResumeFails, OpenStep, cacheVars
<1>13. ASSUME NEW s \in journal, ResumeFurthest(s)
       PROVE  OpenStep
  <2>1. job.status = "interrupted" /\ rec # "off"
    BY <1>13 DEF ResumeFurthest, Furthest, Recovering
  <2>2. [WithStatus("running") EXCEPT !.shown = Id(s)].status = "running"
    BY <1>2 DEF JobOK, JobRecords, WithStatus
  <2>3. CASE Persist([WithStatus("running") EXCEPT !.shown = Id(s)])
    BY <1>1, <1>13, <2>1, <2>2, <2>3 DEF ResumeFurthest, OpenStep, Persist, cacheVars
  <2>4. CASE ResumeFails
    BY <1>12, <1>13, <2>1, <2>4 DEF ResumeFurthest
  <2>5. QED
    BY <1>13, <2>3, <2>4 DEF ResumeFurthest
<1>14. ASSUME NEW c \in Collections, DropSettled(c) \/ DropExpired(c)
       PROVE  OpenStep
  BY <1>1, <1>2, <1>14, StatusOf
     DEF DropSettled, DropExpired, Recovering, OpenStep, Persist, PersistFails,
         jobVars, cacheVars, workerVars
<1>15. ASSUME NEW c \in Collections, ResumeRetry(c)
       PROVE  OpenStep
  BY <1>15, <1>1, <1>2, StatusOf, <1>12 DEF ResumeRetry, Recovering, OpenStep, Persist, cacheVars
<1>16. QED
  BY <1>3, <1>5, <1>6, <1>7, <1>8, <1>9, <1>10, <1>11, <1>13, <1>14, <1>15 DEF RecoveryStep

\* Every step is open, unseen, or the crash, which saves no verdict.
LEMMA StepKinds ==
  ASSUME SyncInv, LedgerInv, [Next]_vars
  PROVE  OpenStep \/ QuietStep \/ Crash
<1>1. CASE UNCHANGED vars
  BY <1>1 DEF vars, QuietStep, Active, jobVars, fileVars, cacheVars, workerVars
<1>2. CASE Cancel
  BY <1>2 DEF Cancel, QuietStep, Active, jobVars, fileVars, cacheVars, workerVars
<1>3. QED
  BY <1>1, <1>2, AttemptIsOpen, EndIsOpen, RecoveryIsOpen DEF Next, WorkerStep

\* What a reader of jobs.json knows of the verdict.
Published == IF disk.status \in Terminal THEN disk.status ELSE "open"

\* Each kind of step keeps the invariant.
LEMMA LedgerKept ==
  ASSUME SyncInv, LedgerInv, OpenStep \/ QuietStep \/ Crash
  PROVE  LedgerInv'
<1>1. CASE OpenStep
  BY <1>1 DEF OpenStep, LedgerInv
<1>2. CASE QuietStep
  BY <1>2 DEF QuietStep, LedgerInv
<1>3. CASE Crash
  BY <1>3 DEF Crash, LedgerInv, Active
<1>4. QED
  BY <1>1, <1>2, <1>3

\* Each kind of step is a step of SyncLedger, or is not seen by its reader.
LEMMA LedgerStep ==
  ASSUME SyncInv, LedgerInv, OpenStep \/ QuietStep \/ Crash
  PROVE  Ledger!Next \/ (receipts' = receipts /\ Published' = Published)
<1>1. CASE OpenStep
  <2>1. disk.status \notin Terminal /\ Published = "open"
    BY <1>1 DEF OpenStep, LedgerInv, Published
  <2>2. CASE receipts' = receipts /\ disk'.status \in Terminal
    BY <2>2, <2>1 DEF Published, Terminal, Ledger!Verdicts, Ledger!Publish, Ledger!Next
  <2>3. CASE receipts' = receipts /\ disk'.status \notin Terminal
    BY <2>1, <2>3 DEF Published
  <2>4. CASE job'.status = job.status /\ \E r \in receipts' : receipts' = receipts \cup {r}
    BY <1>1, <2>1, <2>4 DEF OpenStep, Ledger!Install, Published, Ledger!Next
  <2>5. QED
    BY <1>1, <2>2, <2>3, <2>4 DEF OpenStep
<1>2. CASE QuietStep
  BY <1>2 DEF QuietStep, Published
<1>3. CASE Crash
  BY <1>3 DEF Crash, fileVars, cacheVars, SyncInv, JobOK, JobRecords, Published, Terminal
<1>4. QED
  BY <1>1, <1>2, <1>3

\* A saved verdict stays that of the job, and an active worker never runs on
\* for a job that has one (updateJobPersisted, LoadAndMarkInterrupted).
THEOREM VerdictsStand == Spec => []LedgerInv
<1>1. Init => LedgerInv
  BY DEF Init, LedgerInv, Terminal
<1>2. SyncInv /\ LedgerInv /\ [Next]_vars => LedgerInv'
  BY StepKinds, LedgerKept
<1>3. QED
  BY <1>1, <1>2, SyncSound, PTL DEF Spec

\* The job implements SyncLedger, whatever crashes, failed writes, retries and
\* recoveries happen: no batch is installed after the published verdict, and
\* the verdict is published once (runSyncJob, RecoverSyncStages).
THEOREM LedgerIsKept == Spec => LedgerSpec
<1>1. Init => Ledger!Init
  BY DEF Init, Ledger!Init, Terminal
<1>2. SyncInv /\ LedgerInv /\ [Next]_vars
        => [Ledger!Next]_<<receipts, IF disk.status \in Terminal THEN disk.status ELSE "open">>
  BY StepKinds, LedgerStep DEF Published
<1>3. QED
  BY <1>1, <1>2, SyncSound, VerdictsStand, PTL DEF Spec, LedgerSpec, Ledger!Spec

-----------------------------------------------------------------------------
(* What a job reports is backed by receipts.                               *)

\* There is a receipt for a batch of the collection.
In(R, c) == \E r \in R : r[1] = c

ViewBacked(v, R, c) == v.outcome = "success" \/ v.rows => In(R, c)
JobBacked(j, R) == \A c \in Collections : ViewBacked(j.view[c], R, c)
StagesBacked(J, R) == \A s \in J : s.phase = "committed" => In(R, s.c)
Entries(R) == {w \in Waiting : w.rows => In(R, w.c)}
ItemBacked == /\ pc \in HasItem /\ item.rows => In(receipts, item.c)
              /\ pc = "decide" /\ err = "none" => In(receipts, item.c)
              /\ pc \in {"mark", "rmark", "rproject"} => In(receipts, item.c)

BackedInv == /\ JobBacked(job, receipts) /\ JobBacked(disk, receipts)
             /\ StagesBacked(journal, receipts)
             /\ pending \in Seq(Entries(receipts))
             /\ ItemBacked

\* A receipt is never taken back.
LEMMA ReceiptsGrow ==
  ASSUME SyncInv, LedgerInv, [Next]_vars
  PROVE  receipts \subseteq receipts'
  BY StepKinds DEF OpenStep, QuietStep, Crash, fileVars, cacheVars

\* What is backed stays so while receipts are added.
LEMMA BackedGrows ==
  ASSUME NEW R, NEW Q, R \subseteq Q
  PROVE  /\ \A c : In(R, c) => In(Q, c)
         /\ \A j : JobBacked(j, R) => JobBacked(j, Q)
         /\ \A J : StagesBacked(J, R) => StagesBacked(J, Q)
         /\ Seq(Entries(R)) \subseteq Seq(Entries(Q))
<1>1. \A c : In(R, c) => In(Q, c)
  BY DEF In
<1>2. Entries(R) \subseteq Entries(Q)
  BY <1>1 DEF Entries
<1>3. Seq(Entries(R)) \subseteq Seq(Entries(Q))
  BY <1>2, SeqMonotonic
<1>4. QED
  BY <1>1, <1>3 DEF JobBacked, ViewBacked, StagesBacked

\* The views of the job and of the saved job are ones of before.
SameViews == {job'.view, disk'.view} \subseteq {job.view, disk.view}

\* The job gets a new view, which may or may not be saved.
NewView(c, v) == job' = WithView(c, v) /\ disk' \in {disk, job'}

\* Showing a stage and changing the status keep the views (setJobSyncStage).
LEMMA ViewsOf ==
  ASSUME JobOK
  PROVE  /\ \A id : Show(id).view = job.view
         /\ \A s : WithStatus(s).view = job.view
         /\ \A s, id : [WithStatus(s) EXCEPT !.shown = id].view = job.view
  BY DEF JobOK, JobRecords, Show, WithStatus

\* A view of an attempt has the rows of its item.
LEMMA ViewOfItem ==
  ASSUME NEW i, NEW o
  PROVE  ViewOf(i, o).outcome = o /\ ViewOf(i, o).rows = i.rows
  BY DEF ViewOf

\* Every step of the worker keeps the views or adds one that is backed, and
\* only Observe shows a retry.
LEMMA WorkerViews ==
  ASSUME SyncInv, BackedInv, WorkerStep
  PROVE  \/ SameViews
         \/ \E c \in Collections, v \in Views :
              /\ NewView(c, v) /\ ViewBacked(v, receipts, c)
              /\ v.outcome = "retry" => Observe /\ c = item.c
<1> DEFINE Good(c, v) == /\ NewView(c, v) /\ ViewBacked(v, receipts, c)
                         /\ v.outcome = "retry" => Observe /\ c = item.c
<1> SUFFICES SameViews \/ \E c \in Collections, v \in Views : Good(c, v)
  OBVIOUS
<1>1. JobOK /\ item \in Items
  BY DEF SyncInv, WorkOK
<1>2. UNCHANGED jobVars => SameViews
  BY DEF jobVars, SameViews
<1>3. ASSUME NEW i \in 1..Len(pending), Pick(i) \/ WaitCancelled(i)
      PROVE  SameViews
  BY <1>1, <1>2, <1>3, ViewsOf DEF Pick, WaitCancelled, Note, Persist, SameViews
<1>4. CASE FetchStages
  BY <1>1, <1>4, ViewsOf DEF FetchStages, Note, Persist, SameViews
<1>5. CASE \/ Open \/ FetchFails \/ Install \/ Refuse \/ Mark \/ Checkpoint
           \/ Retire \/ Release \/ Clean \/ RecoveredRefuse \/ RecoveredMark
  BY <1>2, <1>5 DEF Open, FetchFails, Install, Refuse, Mark, Checkpoint, Retire, Release, Clean,
                    RecoveredRefuse, RecoveredMark
<1>6. CASE Finish
  BY <1>1, <1>2, <1>6, ViewsOf DEF Finish, Persist, PersistFails, SameViews
<1>7. ASSUME pc \in {"decide", "observe"}, NEW o \in Outcomes,
             o = "success" => err = "none" /\ pc = "decide"
      PROVE  /\ ViewOf(item, o) \in Views /\ item.c \in Collections
             /\ ViewBacked(ViewOf(item, o), receipts, item.c)
             /\ ViewOf(item, o).outcome = o
  <2>1. pc \in HasItem /\ item.c \in Collections
    BY <1>7 DEF HasItem, SyncInv, ItemOK
  <2>2. ViewOf(item, o) \in Views
    BY <1>1, ViewTyped DEF SyncInv
  <2>3. item.rows => In(receipts, item.c)
    BY <2>1 DEF BackedInv, ItemBacked
  <2>4. o = "success" => In(receipts, item.c)
    BY <1>7 DEF BackedInv, ItemBacked
  <2>5. QED
    BY <2>1, <2>2, <2>3, <2>4, ViewOfItem DEF ViewBacked
<1>8. CASE CheckpointFails
  BY <1>8, <1>7 DEF CheckpointFails, NewView, Outcomes
<1>9. CASE Observe
  BY <1>9, <1>7 DEF Observe, Note, Persist, NewView, Outcomes
<1>10. CASE Settle
  <2>1. CASE UNCHANGED jobVars
    BY <1>2, <2>1
  <2>2. CASE Persist(WithView(item.c, ViewOf(item, Outcome(err))))
    BY <1>10, <2>2, <1>7 DEF Settle, Persist, NewView, Outcome, Outcomes
  <2>3. QED
    BY <1>10, <2>1, <2>2 DEF Settle
<1>11. CASE RecoveredProject
  <2>1. CASE UNCHANGED jobVars
    BY <1>2, <2>1
  <2>2. CASE Persist(WithView(ItemStage.c, RecoveredView(ItemStage)))
    <3>1. pc = "rproject" /\ pc \in HasStage
      BY <1>11 DEF RecoveredProject, HasStage
    <3>2. ItemStage \in StageRecords /\ ItemStage.c = item.c
      BY <3>1, HasItemStage DEF Id
    <3>3. In(receipts, ItemStage.c)
      BY <3>1, <3>2 DEF BackedInv, ItemBacked
    <3>4. RecoveredView(ItemStage) \in Views /\ ItemStage.c \in Collections
      BY <3>2, RecoveredViewTyped DEF StageRecords
    <3>5. RecoveredView(ItemStage).outcome # "retry"
      BY DEF RecoveredView
    <3>6. NewView(ItemStage.c, RecoveredView(ItemStage))
      BY <2>2 DEF Persist, NewView
    <3>7. QED
      BY <3>3, <3>4, <3>5, <3>6 DEF ViewBacked
  <2>3. QED
    BY <1>11, <2>1, <2>2 DEF RecoveredProject, PersistFails
<1>12. QED
  BY <1>3, <1>4, <1>5, <1>6, <1>8, <1>9, <1>10, <1>11 DEF WorkerStep, AttemptStep

\* So does every other step.
LEMMA ViewKinds ==
  ASSUME SyncInv, BackedInv, [Next]_vars
  PROVE  \/ SameViews
         \/ \E c \in Collections, v \in Views :
              /\ NewView(c, v) /\ ViewBacked(v, receipts, c)
              /\ v.outcome = "retry" => Observe /\ c = item.c
<1>1. JobOK
  BY DEF SyncInv
<1>2. UNCHANGED jobVars => SameViews
  BY DEF jobVars, SameViews
<1>3. CASE UNCHANGED vars \/ Cancel
  BY <1>2, <1>3 DEF vars, Cancel
<1>4. CASE Crash
  BY <1>1, <1>4 DEF Crash, SameViews, JobOK, JobRecords
<1>5. CASE DropTerminal \/ Reconciled \/ NoStages
  BY <1>2, <1>5 DEF DropTerminal, Reconciled, NoStages
<1>6. Complete \/ ResumeFails => SameViews
  BY <1>1, <1>2, ViewsOf DEF Complete, ResumeFails, Persist, PersistFails, SameViews
<1>7. CASE CompleteRetry \/ CompleteSettled
  BY <1>2, <1>6, <1>7 DEF CompleteRetry, CompleteSettled
<1>8. CASE FailInterrupted
  BY <1>1, <1>2, <1>8, ViewsOf DEF FailInterrupted, Persist, PersistFails, SameViews
<1>9. ASSUME NEW s \in journal, s.phase = "committed", Persist(WithView(s.c, RecoveredView(s)))
      PROVE  \E c \in Collections, v \in Views :
               /\ NewView(c, v) /\ ViewBacked(v, receipts, c)
               /\ v.outcome = "retry" => Observe /\ c = item.c
  <2>1. s \in StageRecords /\ In(receipts, s.c)
    BY <1>9 DEF SyncInv, JournalOK, Shaped, BackedInv, StagesBacked
  <2>2. RecoveredView(s) \in Views /\ s.c \in Collections
    BY <2>1, RecoveredViewTyped DEF StageRecords
  <2>3. RecoveredView(s).outcome # "retry"
    BY DEF RecoveredView
  <2>4. NewView(s.c, RecoveredView(s))
    BY <1>9 DEF Persist, NewView
  <2>5. QED
    BY <2>1, <2>2, <2>3, <2>4 DEF ViewBacked
<1>10. ASSUME NEW s \in journal, ReconcileProject(s)
       PROVE  \/ SameViews
              \/ \E c \in Collections, v \in Views :
                   /\ NewView(c, v) /\ ViewBacked(v, receipts, c)
                   /\ v.outcome = "retry" => Observe /\ c = item.c
  BY <1>10, <1>2, <1>9 DEF ReconcileProject, PersistFails
<1>11. ASSUME NEW s \in journal, CompleteFurthest(s)
       PROVE  \/ SameViews
              \/ \E c \in Collections, v \in Views :
                   /\ NewView(c, v) /\ ViewBacked(v, receipts, c)
                   /\ v.outcome = "retry" => Observe /\ c = item.c
  BY <1>11, <1>2, <1>6, <1>9 DEF CompleteFurthest, Furthest, PersistFails
<1>12. ASSUME NEW s \in journal,
              \/ ReconcileInstall(s) \/ ReconcileMark(s)
              \/ MarkFurthest(s) \/ ResumeFurthest(s) \/ RejectFurthest(s)
       PROVE  SameViews
  <2>1. ReconcileMark(s) \/ MarkFurthest(s) => SameViews
    BY <1>2 DEF ReconcileMark, MarkFurthest
  <2>2. ReconcileInstall(s) => SameViews
    BY <1>1, <1>2, ViewsOf DEF ReconcileInstall, Note, Persist, PersistFails, SameViews
  <2>3. ResumeFurthest(s) => SameViews
    <3>1. [WithStatus("running") EXCEPT !.shown = Id(s)].view = job.view
      BY <1>1, ViewsOf
    <3>2. Persist([WithStatus("running") EXCEPT !.shown = Id(s)]) => SameViews
      BY <3>1 DEF Persist, SameViews
    <3>3. QED
      BY <1>6, <3>2 DEF ResumeFurthest
  <2>4. RejectFurthest(s) => SameViews
    BY <1>1, <1>2, ViewsOf DEF RejectFurthest, Note, Persist, SameViews
  <2>5. QED
    BY <1>12, <2>1, <2>2, <2>3, <2>4
<1>13. ASSUME NEW c \in Collections, DropSettled(c) \/ ResumeRetry(c)
       PROVE  SameViews
  BY <1>1, <1>2, <1>6, <1>13, ViewsOf DEF DropSettled, ResumeRetry, Persist, SameViews
<1>14. ASSUME NEW c \in Collections, DropExpired(c)
       PROVE  \/ SameViews
              \/ \E d \in Collections, v \in Views :
                   /\ NewView(d, v) /\ ViewBacked(v, receipts, d)
                   /\ v.outcome = "retry" => Observe /\ d = item.c
  <2> DEFINE i == [NoItem EXCEPT !.c = c, !.n = check[c].n]
  <2>1. CASE PersistFails
    BY <1>2, <2>1 DEF PersistFails
  <2>2. CASE Persist(WithView(c, ViewOf(i, "failed")))
    <3>1. check[c].n \in 0..Budget
      BY SyncConstants DEF SyncInv, CheckOK, Checks
    <3>2. i \in Items /\ i.rows = FALSE
      BY <3>1 DEF NoItem, Items
    <3>3. NewView(c, ViewOf(i, "failed"))
      BY <2>2 DEF Persist, NewView
    <3> HIDE DEF i
    <3>4. ViewOf(i, "failed") \in Views
      BY <3>2, ViewTyped DEF SyncInv, Outcomes
    <3>5. ViewOf(i, "failed").outcome = "failed" /\ ViewOf(i, "failed").rows = FALSE
      BY <3>2, ViewOfItem
    <3>6. QED
      BY <3>3, <3>4, <3>5 DEF ViewBacked
  <2>3. QED
    BY <1>14, <2>1, <2>2 DEF DropExpired
<1>15. CASE RecoveryStep
  BY <1>5, <1>7, <1>8, <1>10, <1>11, <1>12, <1>13, <1>14, <1>15 DEF RecoveryStep
<1>16. QED
  BY <1>3, <1>4, <1>15, WorkerViews DEF Next

\* What is written to the journal as committed has its receipt.
LEMMA PutBacked ==
  ASSUME NEW R, NEW J, StagesBacked(J, R), NEW s \in StageRecords, s.phase = "committed" => In(R, s.c)
  PROVE  StagesBacked(Put(J, s), R)
<1> DEFINE t == [s EXCEPT !.at = Tick]
<1>1. t.phase = s.phase /\ t.c = s.c
  BY DEF StageRecords
<1>2. \A u \in Put(J, s) : u \in J \/ u = t
  BY DEF Put
<1> HIDE DEF t
<1>3. QED
  BY <1>1, <1>2 DEF StagesBacked

\* A stage may change to a phase that asks for no receipt, or that has one.
LEMMA InPhaseBacked ==
  ASSUME SyncInv, StagesBacked(journal, receipts), NEW s \in journal,
         NEW p \in {"staged", "committed", "rejected"}, p = "committed" => In(receipts, s.c)
  PROVE  StagesBacked(InPhase(s, p), receipts)
<1> DEFINE u == [s EXCEPT !.phase = p]
<1>1. s \in StageRecords
  BY DEF SyncInv, JournalOK, Shaped
<1>2. u \in StageRecords /\ u.phase = p /\ u.c = s.c
  BY <1>1 DEF StageRecords
<1>3. InPhase(s, p) = Put(journal, u)
  BY DEF InPhase, Written
<1> HIDE DEF u
<1>4. QED
  BY <1>2, <1>3, PutBacked

\* The receipt of a stage names its collection.
LEMMA ReceiptNames == \A R, s : Receipt(s) \in R => In(R, s.c)
<1> SUFFICES ASSUME NEW R, NEW s, Receipt(s) \in R PROVE In(R, s.c)
  OBVIOUS
<1>1. Receipt(s)[1] = s.c
  BY DEF Receipt
<1>2. QED
  BY <1>1 DEF In

\* Every step of the worker leaves the stages backed.
LEMMA WorkerStages ==
  ASSUME SyncInv, BackedInv, WorkerStep, receipts \subseteq receipts'
  PROVE  StagesBacked(journal', receipts)
<1> DEFINE R == receipts
<1>1. \A K : K \subseteq journal => StagesBacked(K, R)
  BY DEF BackedInv, StagesBacked
<1>2. Swept(journal) \subseteq journal
  BY SweptShrinks
<1>3. UNCHANGED journal => StagesBacked(journal', R)
  BY <1>1
<1>4. \A c : WithoutStages(c) \subseteq journal
  BY DEF WithoutStages
<1>5. ASSUME pc \in HasStage, NEW p \in {"staged", "committed", "rejected"},
             p = "committed" => pc \in {"mark", "rmark"}
      PROVE  StagesBacked(InPhase(ItemStage, p), R) /\ StagesBacked(Swept(InPhase(ItemStage, p)), R)
  <2>1. ItemStage \in journal /\ ItemStage.c = item.c
    BY <1>5, HasItemStage DEF Id
  <2>2. p = "committed" => In(R, ItemStage.c)
    BY <1>5, <2>1 DEF BackedInv, ItemBacked
  <2>3. StagesBacked(InPhase(ItemStage, p), R)
    BY <2>1, <2>2, InPhaseBacked DEF BackedInv
  <2>4. Swept(InPhase(ItemStage, p)) \subseteq InPhase(ItemStage, p)
    BY SweptShrinks
  <2>5. QED
    BY <2>3, <2>4 DEF StagesBacked
<1>6. ASSUME NEW i \in 1..Len(pending), Pick(i) \/ WaitCancelled(i)
      PROVE  StagesBacked(journal', R)
  BY <1>3, <1>6 DEF Pick, WaitCancelled, fileVars
<1>7. CASE Open \/ FetchFails \/ Install \/ Checkpoint \/ CheckpointFails \/ Observe \/ Settle \/ Release
  BY <1>3, <1>7 DEF Open, FetchFails, Install, Checkpoint, CheckpointFails, Observe, Settle, Release, fileVars
<1>8. CASE FetchStages
  <2>1. item.c \in Collections /\ item.n \in 1..Budget
    BY <1>8 DEF FetchStages, SyncInv, ItemOK, HasItem, WorkOK, Items
  <2>2. PICK s : /\ journal' = Put(Swept(journal), s)
                 /\ s.phase = "staged"
                 /\ \E e \in FetchErrors :
                      s = [c |-> item.c, n |-> item.n, g |-> Generation(item.c, item.n),
                           phase |-> "staged", err |-> e, at |-> 0,
                           list |-> IF item.n > 1 THEN {item.c} ELSE run.list]
    BY <1>8 DEF FetchStages
  <2>3. s \in StageRecords
    BY <1>8, <2>1, <2>2, FetchedTyped
  <2>4. StagesBacked(Swept(journal), R)
    BY <1>1, <1>2
  <2>5. QED
    BY <2>2, <2>3, <2>4, PutBacked
<1>9. CASE Refuse
  BY <1>9, <1>1, <1>2, <1>5 DEF Refuse, HasStage, Refused
<1>10. CASE Mark
  BY <1>10, <1>1, <1>2, <1>5 DEF Mark, HasStage
<1>11. CASE Retire
  BY <1>1, <1>3, <1>4, <1>11 DEF Retire
<1>12. CASE Finish
  BY <1>1, <1>2, <1>3, <1>12 DEF Finish
<1>13. CASE Clean
  BY <1>1, <1>3, <1>13 DEF Clean
<1>14. CASE RecoveredRefuse
  BY <1>14, <1>3, <1>5 DEF RecoveredRefuse, HasStage
<1>15. CASE RecoveredMark
  BY <1>15, <1>3, <1>5 DEF RecoveredMark, HasStage
<1>16. CASE RecoveredProject
  BY <1>1, <1>2, <1>3, <1>16 DEF RecoveredProject
<1>17. QED
  BY <1>6, <1>7, <1>8, <1>9, <1>10, <1>11, <1>12, <1>13, <1>14, <1>15, <1>16 DEF WorkerStep, AttemptStep

\* So does every step of recovery, a cancellation and a crash.
LEMMA StagesStayBacked ==
  ASSUME SyncInv, BackedInv, [Next]_vars, receipts \subseteq receipts'
  PROVE  StagesBacked(journal', receipts)
<1> DEFINE R == receipts
<1>1. \A K : K \subseteq journal => StagesBacked(K, R)
  BY DEF BackedInv, StagesBacked
<1>2. journal' \subseteq journal => StagesBacked(journal', R)
  BY <1>1
<1>3. Swept(journal) \subseteq journal
  BY SweptShrinks
<1>4. CASE UNCHANGED vars \/ Cancel \/ Crash
  BY <1>2, <1>4 DEF vars, Cancel, Crash, fileVars
<1>5. Complete \/ ResumeFails \/ RecoveryReturns => StagesBacked(journal', R)
  BY <1>2, <1>3 DEF Complete, ResumeFails, RecoveryReturns
<1>6. CASE DropTerminal \/ Reconciled \/ CompleteRetry \/ NoStages \/ CompleteSettled \/ FailInterrupted
  BY <1>2, <1>5, <1>6
     DEF DropTerminal, Reconciled, CompleteRetry, NoStages, CompleteSettled, FailInterrupted, fileVars
<1>7. ASSUME NEW s \in journal,
             \/ ReconcileInstall(s) \/ ReconcileMark(s) \/ ReconcileProject(s)
             \/ MarkFurthest(s) \/ CompleteFurthest(s) \/ ResumeFurthest(s) \/ RejectFurthest(s)
      PROVE  StagesBacked(journal', R)
  <2>1. ReconcileInstall(s) => StagesBacked(journal', R)
    BY InPhaseBacked, <1>2 DEF BackedInv, ReconcileInstall
  <2>2. ASSUME Receipt(s) \in receipts
        PROVE  StagesBacked(InPhase(s, "committed"), R)
    BY <2>2, ReceiptNames, InPhaseBacked DEF BackedInv
  <2>3. ReconcileMark(s) \/ MarkFurthest(s) => StagesBacked(journal', R)
    BY <1>2, <2>2 DEF ReconcileMark, MarkFurthest
  <2>4. ReconcileProject(s) \/ RejectFurthest(s) => StagesBacked(journal', R)
    BY <1>2 DEF ReconcileProject, RejectFurthest, fileVars
  <2>5. CompleteFurthest(s) \/ ResumeFurthest(s) => StagesBacked(journal', R)
    BY <1>2, <1>5 DEF CompleteFurthest, ResumeFurthest
  <2>6. QED
    BY <1>7, <2>1, <2>3, <2>4, <2>5
<1>8. ASSUME NEW c \in Collections, DropSettled(c) \/ DropExpired(c) \/ ResumeRetry(c)
      PROVE  StagesBacked(journal', R)
  BY <1>2, <1>5, <1>8 DEF DropSettled, DropExpired, ResumeRetry, WithoutStages
<1>9. CASE RecoveryStep
  BY <1>6, <1>7, <1>8, <1>9 DEF RecoveryStep
<1>10. QED
  BY <1>4, <1>9, WorkerStages DEF Next

\* The schedule holds backed entries (runSyncCollectionSchedule).
LEMMA QueueStaysBacked ==
  ASSUME SyncInv, BackedInv, [Next]_vars
  PROVE  pending' \in Seq(Entries(receipts))
<1> DEFINE W == Entries(receipts)
<1>1. pending \in Seq(W)
  BY DEF BackedInv
<1>2. UNCHANGED pending => pending' \in Seq(W)
  BY <1>1
<1>3. \A S \in SUBSET Collections : Schedule(S) \in Seq(W)
  BY SeqMonotonic, ScheduleTyped DEF Fresh, Entries, SyncInv
<1>4. <<>> \in Seq(W)
  BY EmptySeq
<1>5. ASSUME NEW i \in 1..Len(pending), Pick(i) \/ WaitCancelled(i)
      PROVE  pending' \in Seq(W)
  BY <1>1, <1>5, PendingIn DEF Pick, WaitCancelled
<1>6. CASE Open
  BY <1>2, <1>4, <1>6 DEF Open
<1>7. CASE Observe
  <2> DEFINE e == [item EXCEPT !.later = TRUE]
  <2>1. item \in Items /\ item.c \in Collections /\ item.n < Budget /\ (item.rows => In(receipts, item.c))
    BY <1>7 DEF Observe, SyncInv, WorkOK, ItemOK, HasItem, BackedInv, ItemBacked
  <2>2. e.c = item.c /\ e.rows = item.rows /\ e \in Waiting
    <3>1. item.n \in 0..(Budget - 1)
      BY <2>1, SyncConstants DEF Items
    <3>2. QED
      BY <2>1, <3>1 DEF Items, Waiting
  <2>3. pending' = Append(pending, e)
    BY <1>7 DEF Observe
  <2> HIDE DEF e
  <2>4. e \in W
    BY <2>1, <2>2 DEF Entries
  <2>5. QED
    BY <1>1, <2>3, <2>4, AppendProperties
<1>8. CASE RecoveredProject
  BY <1>8, HasItemStage, <1>2, <1>3 DEF RecoveredProject, HasStage, Rest, StageRecords
<1>9. CASE \/ FetchFails \/ FetchStages \/ Install \/ Refuse \/ Mark \/ Checkpoint \/ CheckpointFails
           \/ Settle \/ Retire \/ Release \/ Finish \/ Clean \/ RecoveredRefuse \/ RecoveredMark
  BY <1>2, <1>9
     DEF FetchFails, FetchStages, Install, Refuse, Mark, Checkpoint, CheckpointFails,
         Settle, Retire, Release, Finish, Clean, RecoveredRefuse, RecoveredMark
<1>10. CASE WorkerStep
  BY <1>5, <1>6, <1>7, <1>8, <1>9, <1>10 DEF WorkerStep, AttemptStep
<1>11. CASE UNCHANGED vars \/ Cancel \/ Crash
  BY <1>2, <1>4, <1>11 DEF vars, Cancel, Crash, workerVars
<1>12. ASSUME NEW c \in Collections, DropSettled(c) \/ DropExpired(c) \/ ResumeRetry(c)
       PROVE  pending' \in Seq(W)
  <2>1. Selection(c) \in SUBSET Collections
    BY DEF Selection, Scheduled, SyncInv, CheckOK, Checks
  <2>2. QED
    BY <1>2, <1>3, <1>12, <2>1 DEF DropSettled, DropExpired, ResumeRetry, ResumeFails, workerVars
<1>13. ASSUME NEW s \in journal,
              \/ ReconcileInstall(s) \/ ReconcileMark(s) \/ ReconcileProject(s)
              \/ MarkFurthest(s) \/ CompleteFurthest(s) \/ ResumeFurthest(s) \/ RejectFurthest(s)
       PROVE  pending' \in Seq(W)
  BY <1>2, <1>13 DEF ReconcileInstall, ReconcileMark, ReconcileProject, MarkFurthest, CompleteFurthest,
     ResumeFurthest, RejectFurthest, ResumeFails, workerVars
<1>14. CASE RecoveryStep
  BY <1>2, <1>12, <1>13, <1>14 DEF RecoveryStep, DropTerminal, Reconciled, CompleteRetry, NoStages,
     CompleteSettled, FailInterrupted, workerVars
<1>15. QED
  BY <1>10, <1>11, <1>14 DEF Next

\* The item and its error are backed (runDurableCollection).
LEMMA ItemStaysBacked ==
  ASSUME SyncInv, BackedInv, [Next]_vars, receipts \subseteq receipts'
  PROVE  ItemBacked'
<1> USE DEF ItemBacked, HasItem
<1>1. \A c : In(receipts, c) => In(receipts', c)
  BY BackedGrows
<1>2. ItemBacked /\ item \in Items
  BY DEF BackedInv, SyncInv, WorkOK
<1>3. pc' \in {"idle", "open", "pick", "clean"} => ItemBacked'
  OBVIOUS
<1>4. UNCHANGED workerVars => ItemBacked'
  BY <1>1, <1>2 DEF workerVars
<1>5. ASSUME NEW i \in 1..Len(pending), Pick(i) \/ WaitCancelled(i)
      PROVE  ItemBacked'
  <2>1. PICK w \in Entries(receipts) : w = pending[i]
    BY PendingIn DEF BackedInv
  <2>2. w \in Waiting /\ (w.rows => In(receipts, w.c))
    BY <2>1 DEF Entries
  <2>3. CASE Pick(i)
    BY <2>1, <2>3, <2>2, <1>1 DEF Pick, Waiting
  <2>4. CASE WaitCancelled(i)
    BY <1>1, <2>1, <2>2, <2>4 DEF WaitCancelled
  <2>5. QED
    BY <1>5, <2>3, <2>4
<1>6. ASSUME NEW e, NEW rows, Attempted(e, rows),
             rows => In(receipts, item.c), e = "none" => In(receipts, item.c)
      PROVE  ItemBacked'
  BY <1>2, <1>6, <1>1 DEF Attempted, Items
<1>7. CASE FetchFails
  <2>1. PICK e \in {"transient", "permanent", "cancelled"} : Attempted(e, item.rows)
    BY <1>7 DEF FetchFails
  <2>2. pc = "fetch"
    BY <1>7 DEF FetchFails
  <2>3. QED
    BY <1>2, <1>6, <2>1, <2>2
<1>8. CASE Refuse
  <2>1. PICK e \in {"permanent", "cancelled"}, rows \in {item.rows, FALSE} : Attempted(e, rows)
    BY <1>8 DEF Refuse
  <2>2. pc = "commit"
    BY <1>8 DEF Refuse
  <2>3. QED
    BY <1>2, <1>6, <2>1, <2>2
<1>9. CASE Mark
  <2>1. PICK e : Attempted(e, TRUE)
    BY <1>9 DEF Mark
  <2>2. pc = "mark"
    BY <1>9 DEF Mark
  <2>3. QED
    BY <1>2, <1>6, <2>1, <2>2
<1>10. CASE Install
  BY <1>10, HasItemStage, ReceiptNames DEF Install, HasStage, Id, CommitBatch
<1>11. CASE FetchStages \/ Checkpoint \/ Retire \/ Release \/ Settle
  BY <1>11, <1>1, <1>2 DEF FetchStages, Checkpoint, Retire, Release, Settle, KeepEvidence
<1>12. CASE Open \/ CheckpointFails \/ Observe \/ Finish \/ Clean \/ RecoveredRefuse \/ RecoveredProject
  BY <1>3, <1>12 DEF Open, CheckpointFails, Observe, Finish, Clean, RecoveredRefuse, RecoveredProject
<1>13. CASE RecoveredMark
  BY <1>1, <1>2, <1>13 DEF RecoveredMark
<1>14. CASE UNCHANGED vars \/ Cancel \/ Crash
  BY <1>3, <1>4, <1>14 DEF vars, Cancel, Crash
<1>15. ASSUME NEW c \in Collections, DropSettled(c) \/ DropExpired(c) \/ ResumeRetry(c)
       PROVE  ItemBacked'
  BY <1>3, <1>4, <1>15 DEF DropSettled, DropExpired, ResumeRetry, ResumeFails, workerVars
<1>16. ASSUME NEW s \in journal, ResumeFurthest(s)
       PROVE  ItemBacked'
  <2>1. CASE ResumeFails
    BY <1>4, <1>16, <2>1 DEF ResumeFurthest, ResumeFails, workerVars
  <2>2. CASE ~ResumeFails
    BY <1>16, <2>2, <1>1 DEF ResumeFurthest, NoItem, Furthest, BackedInv, StagesBacked
  <2>3. QED
    BY <2>1, <2>2
<1>17. ASSUME NEW s \in journal,
              \/ ReconcileInstall(s) \/ ReconcileMark(s) \/ ReconcileProject(s)
              \/ MarkFurthest(s) \/ CompleteFurthest(s) \/ RejectFurthest(s)
       PROVE  ItemBacked'
  BY <1>4, <1>17 DEF ReconcileInstall, ReconcileMark, ReconcileProject, MarkFurthest, CompleteFurthest,
     RejectFurthest
<1>18. CASE RecoveryStep
  BY <1>4, <1>15, <1>16, <1>17, <1>18 DEF RecoveryStep, DropTerminal, Reconciled, CompleteRetry, NoStages,
     CompleteSettled, FailInterrupted
<1>19. QED
  BY <1>5, <1>7, <1>8, <1>9, <1>10, <1>11, <1>12, <1>13, <1>14, <1>18 DEF Next, WorkerStep, AttemptStep

\* The jobs' views are backed before and after each step.
LEMMA JobsStayBacked ==
  ASSUME SyncInv, BackedInv, [Next]_vars
  PROVE  JobBacked(job', receipts) /\ JobBacked(disk', receipts)
<1>1. JobBacked(job, receipts) /\ JobBacked(disk, receipts) /\ JobOK
  BY DEF BackedInv, SyncInv
<1>2. CASE SameViews
  BY <1>1, <1>2 DEF SameViews, JobBacked
<1>3. ASSUME NEW c \in Collections, NEW v \in Views, NewView(c, v), ViewBacked(v, receipts, c)
      PROVE  JobBacked(job', receipts) /\ JobBacked(disk', receipts)
  BY <1>1, <1>3 DEF NewView, WithView, JobOK, JobRecords, JobBacked
<1>4. QED
  BY <1>2, <1>3, ViewKinds

\* Every step keeps the invariant.
LEMMA BackedStep ==
  ASSUME SyncInv, LedgerInv, BackedInv, [Next]_vars
  PROVE  BackedInv'
<1>1. receipts \subseteq receipts'
  BY ReceiptsGrow
<1>2. JobBacked(job', receipts') /\ JobBacked(disk', receipts')
  BY <1>1, JobsStayBacked, BackedGrows
<1>3. StagesBacked(journal', receipts')
  BY <1>1, StagesStayBacked, BackedGrows
<1>4. pending' \in Seq(Entries(receipts'))
  BY <1>1, QueueStaysBacked, BackedGrows
<1>5. ItemBacked'
  BY <1>1, ItemStaysBacked
<1>6. QED
  BY <1>2, <1>3, <1>4, <1>5 DEF BackedInv, JobBacked, StagesBacked, Entries, ViewBacked, In

\* A new job has nothing to back.
LEMMA BackedStarts == Init => BackedInv
<1> SUFFICES ASSUME Init PROVE BackedInv
  OBVIOUS
<1>1. JobBacked(job, receipts) /\ JobBacked(disk, receipts)
  BY DEF Init, JobBacked, ViewBacked, NoView
<1>2. StagesBacked(journal, receipts) /\ ItemBacked
  BY DEF Init, StagesBacked, ItemBacked, HasItem
<1>3. pending \in Seq(Entries(receipts))
  BY SyncStarts, ScheduleTyped, SeqMonotonic DEF Fresh, Entries, SyncInv, Init
<1>4. QED
  BY <1>1, <1>2, <1>3 DEF BackedInv

\* Whatever crashes, retries and failed writes happen: a collection of the job
\* or of its saved record that is reported as a success or as having brought
\* rows has a batch in the cache (syncCollectionViewForAttempt,
\* recoveredSyncCollectionView).
THEOREM AnswersAreKept == Spec => []AnswersAreBacked
<1>1. Init => BackedInv
  BY BackedStarts
<1>2. SyncInv /\ LedgerInv /\ BackedInv /\ [Next]_vars => BackedInv'
  BY BackedStep
<1>3. BackedInv => AnswersAreBacked
  BY DEF BackedInv, JobBacked, ViewBacked, In, AnswersAreBacked, Cached
<1>4. QED
  BY <1>1, <1>2, <1>3, SyncSound, VerdictsStand, PTL DEF Spec

-----------------------------------------------------------------------------
(* What recovery needs is there.                                           *)

Retried(j, c) == j.view[c].outcome = "retry"

\* Between the checkpoint of a retry and its view, and between the final view
\* of a collection and the removal of its checkpoint, the item says which
\* collection the files may disagree about.
RetryInv ==
  /\ disk.status \notin Terminal =>
       \A c \in Collections : Retried(job, c) \/ Retried(disk, c) => c \in Scheduled
  /\ pc = "observe" => item.c \in Scheduled
  /\ pc \in {"retire", "release"} => ~Retried(job, item.c) /\ ~Retried(disk, item.c)
  /\ pc = "decide" /\ err = "transient" => item.n >= 1
  /\ pc = "clean" => disk.status \in Terminal
  /\ rec \in {"reconcile", "checks", "stages"} => job = disk

\* A saved verdict stays (VerdictsStand).
LEMMA OpenBefore ==
  ASSUME SyncInv, LedgerInv, [Next]_vars, disk'.status \notin Terminal
  PROVE  disk.status \notin Terminal
  BY StepKinds DEF OpenStep, QuietStep, Crash, LedgerInv

\* Which steps take a checkpoint away.
LEMMA CheckpointsStay ==
  ASSUME SyncInv, RetryInv, [Next]_vars
  PROVE  \/ Scheduled \subseteq Scheduled'
         \/ Release \/ disk'.status \in Terminal
         \/ \E c \in Collections : DropSettled(c) \/ DropExpired(c)
<1> DEFINE Goal == \/ Scheduled \subseteq Scheduled'
                   \/ Release \/ disk'.status \in Terminal
                   \/ \E c \in Collections : DropSettled(c) \/ DropExpired(c)
<1> SUFFICES Goal
  OBVIOUS
<1>1. UNCHANGED check => Goal
  BY DEF Scheduled
<1>2. CASE Clean
  BY <1>2 DEF Clean, RetryInv, jobVars
<1>3. CASE Checkpoint
  <2>1. item.c \in Collections /\ item.n \in 0..Budget /\ item.n >= 1
    BY <1>3 DEF Checkpoint, Retryable, RetryInv, SyncInv, WorkOK, Items, ItemOK, HasItem
  <2>2. check' = [check EXCEPT ![item.c] = [n |-> item.n, sel |-> run.sel]]
    BY <1>3 DEF Checkpoint
  <2>3. \A c \in Collections : check'[c].n = IF c = item.c THEN item.n ELSE check[c].n
    BY <2>2 DEF SyncInv, CheckOK
  <2>4. QED
    BY <2>1, <2>3 DEF Scheduled
<1>4. CASE DropTerminal
  BY <1>4 DEF DropTerminal, RetryInv, jobVars
<1>5. CASE UNCHANGED vars \/ Cancel \/ Crash
  BY <1>1, <1>5 DEF vars, Cancel, Crash, fileVars
<1>6. ASSUME NEW i \in 1..Len(pending), Pick(i) \/ WaitCancelled(i)
      PROVE  Goal
  BY <1>1, <1>6 DEF Pick, WaitCancelled, fileVars
<1>7. CASE WorkerStep
  BY <1>1, <1>2, <1>3, <1>6, <1>7 DEF WorkerStep, AttemptStep, Open, FetchFails, FetchStages, Install, Refuse,
     Mark, CheckpointFails, Observe, Settle, Retire, Finish, RecoveredRefuse, RecoveredMark,
     RecoveredProject, fileVars
<1>8. ASSUME NEW c \in Collections, DropSettled(c) \/ DropExpired(c) \/ ResumeRetry(c)
      PROVE  Goal
  BY <1>1, <1>8 DEF ResumeRetry
<1>9. ASSUME NEW s \in journal,
             \/ ReconcileInstall(s) \/ ReconcileMark(s) \/ ReconcileProject(s)
             \/ MarkFurthest(s) \/ CompleteFurthest(s) \/ ResumeFurthest(s) \/ RejectFurthest(s)
      PROVE  Goal
  BY <1>1, <1>9 DEF ReconcileInstall, ReconcileMark, ReconcileProject, MarkFurthest, CompleteFurthest,
     ResumeFurthest, RejectFurthest, fileVars
<1>10. CASE RecoveryStep
  BY <1>1, <1>4, <1>8, <1>9, <1>10 DEF RecoveryStep, Reconciled, CompleteRetry, NoStages, CompleteSettled,
     FailInterrupted, fileVars
<1>11. QED
  BY <1>5, <1>7, <1>10 DEF Next

\* A collection that loses its checkpoint is not shown as waiting for a retry.
LEMMA RetriesStayScheduled ==
  ASSUME SyncInv, LedgerInv, BackedInv, RetryInv, [Next]_vars, disk'.status \notin Terminal,
         NEW c \in Collections, Retried(job', c) \/ Retried(disk', c)
  PROVE  c \in Scheduled'
<1>0. disk.status \notin Terminal /\ JobOK
  BY OpenBefore DEF SyncInv
<1>1. Retried(job, c) \/ Retried(disk, c) => c \in Scheduled
  BY <1>0 DEF RetryInv
<1>2. CASE Release
  BY <1>2, <1>1 DEF Release, RetryInv, jobVars, Unschedule, SyncInv, CheckOK, Scheduled
<1>3. ASSUME NEW d \in Collections, DropSettled(d)
      PROVE  c \in Scheduled'
  <2>1. UNCHANGED jobVars /\ job = disk /\ ~Retried(job, d)
    BY <1>3 DEF DropSettled, Recovering, SettledBy, RetryInv, Retried
  <2>2. c # d /\ c \in Scheduled
    BY <1>1, <2>1 DEF jobVars
  <2>3. check'[c] = check[c]
    BY <1>3, <2>2 DEF DropSettled, Unschedule, SyncInv, CheckOK
  <2>4. QED
    BY <2>2, <2>3 DEF Scheduled
<1>4. ASSUME NEW d \in Collections, DropExpired(d)
      PROVE  c \in Scheduled'
  <2> DEFINE i == [NoItem EXCEPT !.c = d, !.n = check[d].n]
  <2>1. CASE UNCHANGED check
    <3>1. UNCHANGED jobVars \/ Persist(WithView(d, ViewOf(i, "failed")))
      BY <1>4 DEF DropExpired, PersistFails
    <3>2. d \in Scheduled
      BY <1>4 DEF DropExpired
    <3>3. Retried(job', c) => c = d \/ Retried(job, c)
      BY <1>0, <3>1 DEF Persist, WithView, JobOK, JobRecords, Retried, jobVars
    <3>4. Retried(disk', c) => c = d \/ Retried(job, c) \/ Retried(disk, c)
      BY <3>1, <3>3 DEF Persist, jobVars, Retried
    <3>5. QED
      BY <1>1, <2>1, <3>2, <3>3, <3>4 DEF Scheduled
  <2>2. CASE Unschedule(d) /\ Persist(WithView(d, ViewOf(i, "failed")))
    <3>1. \A e \in Collections : job'.view[e] = IF e = d THEN ViewOf(i, "failed") ELSE job.view[e]
      BY <1>0, <2>2 DEF Persist, WithView, JobOK, JobRecords
    <3>2. job' = disk'
      BY <2>2 DEF Persist
    <3> HIDE DEF i
    <3>3. ViewOf(i, "failed").outcome = "failed"
      BY ViewOfItem
    <3>4. c # d /\ Retried(job, c)
      BY <3>1, <3>2, <3>3 DEF Retried
    <3>5. check'[c] = check[c]
      BY <2>2, <3>4 DEF Unschedule, SyncInv, CheckOK
    <3>6. QED
      BY <1>1, <3>4, <3>5 DEF Scheduled
  <2>3. QED
    BY <1>4, <2>1, <2>2 DEF DropExpired
<1>5. CASE Scheduled \subseteq Scheduled'
  <2>1. CASE SameViews
    BY <1>1, <1>5, <2>1 DEF SameViews, Retried
  <2>2. ASSUME NEW d \in Collections, NEW v \in Views, NewView(d, v),
               v.outcome = "retry" => Observe /\ d = item.c
        PROVE  c \in Scheduled'
    BY <1>0, <2>2, <1>1, <1>5 DEF NewView, WithView, JobOK, JobRecords, Retried, Observe, RetryInv
  <2>3. QED
    BY <2>1, <2>2, ViewKinds
<1>6. QED
  BY <1>2, <1>3, <1>4, <1>5, CheckpointsStay

\* What RetryInv says of the item.
ItemRetries ==
  /\ pc = "observe" => item.c \in Scheduled
  /\ pc \in {"retire", "release"} => ~Retried(job, item.c) /\ ~Retried(disk, item.c)
  /\ pc = "decide" /\ err = "transient" => item.n >= 1
  /\ pc = "clean" => disk.status \in Terminal

\* The worker keeps its part: the checkpoint comes before the retry is shown,
\* and the final view before the checkpoint goes (runSyncCollectionSchedule).
LEMMA WorkerKeepsRetries ==
  ASSUME SyncInv, RetryInv, WorkerStep
  PROVE  ItemRetries'
<1> USE DEF ItemRetries
<1>1. pc' \in {"idle", "open", "pick", "fetch", "commit", "mark", "rmark", "rproject"} => ItemRetries'
  OBVIOUS
<1>2. JobOK /\ item \in Items
  BY DEF SyncInv, WorkOK
<1>3. ASSUME NEW i \in 1..Len(pending), Pick(i) \/ WaitCancelled(i)
      PROVE  ItemRetries'
  BY <1>1, <1>3 DEF Pick, WaitCancelled
<1>4. ASSUME NEW e, NEW rows, Attempted(e, rows), item.n >= 1
      PROVE  ItemRetries'
  BY <1>2, <1>4 DEF Attempted, Items
<1>5. CASE FetchFails \/ Refuse \/ Mark
  BY <1>5, <1>4 DEF FetchFails, Refuse, Mark, SyncInv, ItemOK, HasStage
<1>6. CASE Checkpoint
  <2>1. item.c \in Collections /\ item.n \in 0..Budget /\ item.n >= 1
    BY <1>6 DEF Checkpoint, Retryable, RetryInv, SyncInv, WorkOK, Items, ItemOK, HasItem
  <2>2. check' = [check EXCEPT ![item.c] = [n |-> item.n, sel |-> run.sel]] /\ item' = item
    BY <1>6 DEF Checkpoint
  <2>3. check'[item.c].n = item.n
    BY <2>1, <2>2 DEF SyncInv, CheckOK
  <2>4. QED
    BY <1>6, <2>1, <2>2, <2>3 DEF Checkpoint, Scheduled
<1>7. CASE Settle
  <2>1. CASE KeepEvidence
    BY <1>1, <2>1 DEF KeepEvidence
  <2>2. CASE Persist(WithView(item.c, ViewOf(item, Outcome(err))))
    <3>1. item.c \in Collections /\ item' = item /\ pc' \in {"retire", "release", "pick"}
      BY <1>7 DEF Settle, KeepEvidence, SyncInv, ItemOK, HasItem
    <3>2. job'.view[item.c] = ViewOf(item, Outcome(err)) /\ disk' = job'
      BY <1>2, <2>2, <3>1 DEF Persist, WithView, JobOK, JobRecords
    <3>3. Outcome(err) # "retry"
      BY DEF Outcome
    <3>4. ~Retried(job', item.c) /\ ~Retried(disk', item.c)
      BY <3>2, <3>3, ViewOfItem DEF Retried
    <3>5. QED
      BY <3>1, <3>4 DEF Retried
  <2>3. QED
    BY <1>7, <2>1, <2>2 DEF Settle
<1>8. CASE Retire
  BY <1>8 DEF Retire, KeepEvidence, RetryInv, jobVars, Retried
<1>9. CASE Finish
  BY <1>1, <1>2, StatusOf, VerdictTyped, <1>9 DEF Persist, Finish
<1>10. CASE \/ Open \/ FetchStages \/ Install \/ CheckpointFails \/ Observe \/ Release \/ Clean
            \/ RecoveredRefuse \/ RecoveredMark \/ RecoveredProject
  BY <1>1, <1>10 DEF Open, FetchStages, Install, CheckpointFails, Observe, Release, KeepEvidence, Clean,
     RecoveredRefuse, RecoveredMark, RecoveredProject
<1>11. QED
  BY <1>3, <1>5, <1>6, <1>7, <1>8, <1>9, <1>10 DEF WorkerStep, AttemptStep

\* Recovery starts with the saved job, and gives up when it cannot save it.
LEMMA RecoveryAgrees ==
  ASSUME SyncInv, RetryInv, RecoveryStep
  PROVE  rec' \in {"reconcile", "checks", "stages"} => job' = disk'
<1> SUFFICES ASSUME rec' \in {"reconcile", "checks", "stages"}
             PROVE  job' = disk'
  OBVIOUS
<1>1. rec \in {"reconcile", "checks", "stages"} => job = disk
  BY DEF RetryInv
<1>2. ~Complete \/ job' = disk'
  BY DEF Complete, Persist
<1>3. CASE DropTerminal \/ Reconciled \/ CompleteRetry \/ NoStages \/ CompleteSettled \/ FailInterrupted
  BY <1>1, <1>2, <1>3 DEF DropTerminal, Reconciled, CompleteRetry, NoStages, CompleteSettled, FailInterrupted,
     Recovering, RecoveryReturns, jobVars
<1>4. ASSUME NEW s \in journal,
             \/ ReconcileInstall(s) \/ ReconcileMark(s) \/ ReconcileProject(s)
             \/ MarkFurthest(s) \/ CompleteFurthest(s) \/ ResumeFurthest(s) \/ RejectFurthest(s)
      PROVE  job' = disk'
  <2>1. ReconcileInstall(s) => job' = disk'
    BY <1>1 DEF ReconcileInstall, Reconciling, Recovering, Persist, jobVars
  <2>2. ReconcileMark(s) \/ ReconcileProject(s) => job' = disk'
    BY <1>1 DEF ReconcileMark, ReconcileProject, Reconciling, Recovering, Persist, jobVars
  <2>3. MarkFurthest(s) \/ RejectFurthest(s) => job' = disk'
    BY <1>1 DEF MarkFurthest, RejectFurthest, Furthest, Recovering, jobVars
  <2>4. CompleteFurthest(s) \/ ResumeFurthest(s) => job' = disk'
    BY <1>1, <1>2 DEF CompleteFurthest, ResumeFurthest, ResumeFails, Furthest, Recovering, Persist, jobVars
  <2>5. QED
    BY <1>4, <2>1, <2>2, <2>3, <2>4
<1>5. ASSUME NEW c \in Collections, DropSettled(c) \/ DropExpired(c) \/ ResumeRetry(c)
      PROVE  job' = disk'
  BY <1>1, <1>5 DEF DropSettled, DropExpired, ResumeRetry, ResumeFails, Recovering, Persist, jobVars
<1>6. QED
  BY <1>3, <1>4, <1>5 DEF RecoveryStep

\* Recovery is active when it takes a step, and may start a worker.
LEMMA RecoveryRuns ==
  ASSUME RecoveryStep
  PROVE  /\ rec # "off"
         /\ pc' \in {pc, "open", "rcommit", "rproject"}
<1>1. CASE DropTerminal \/ Reconciled \/ CompleteRetry \/ NoStages \/ CompleteSettled \/ FailInterrupted
  BY <1>1 DEF DropTerminal, Reconciled, CompleteRetry, NoStages, CompleteSettled, FailInterrupted,
     Recovering, workerVars
<1>2. ASSUME NEW s \in journal,
             \/ ReconcileInstall(s) \/ ReconcileMark(s) \/ ReconcileProject(s)
             \/ MarkFurthest(s) \/ CompleteFurthest(s) \/ ResumeFurthest(s) \/ RejectFurthest(s)
      PROVE  rec # "off" /\ pc' \in {pc, "open", "rcommit", "rproject"}
  <2>1. rec # "off"
    BY <1>2 DEF ReconcileInstall, ReconcileMark, ReconcileProject, Reconciling, MarkFurthest,
       CompleteFurthest, ResumeFurthest, RejectFurthest, Furthest, Recovering
  <2>2. pc' \in {pc, "open", "rcommit", "rproject"}
    BY <1>2 DEF ReconcileInstall, ReconcileMark, ReconcileProject, MarkFurthest,
       CompleteFurthest, ResumeFurthest, ResumeFails, RejectFurthest, workerVars
  <2>3. QED
    BY <2>1, <2>2
<1>3. ASSUME NEW c \in Collections, DropSettled(c) \/ DropExpired(c) \/ ResumeRetry(c)
      PROVE  rec # "off" /\ pc' \in {pc, "open", "rcommit", "rproject"}
  BY <1>3 DEF DropSettled, DropExpired, ResumeRetry, ResumeFails, Recovering, workerVars
<1>4. QED
  BY <1>1, <1>2, <1>3 DEF RecoveryStep

\* The worker is active when it takes a step, and leaves recovery alone.
LEMMA WorkerRuns ==
  ASSUME WorkerStep
  PROVE  pc # "idle" /\ rec' = rec
<1>1. pc # "idle"
  BY DEF WorkerStep, AttemptStep, Open, Pick, WaitCancelled, FetchFails, FetchStages, Install, Refuse,
     Mark, Checkpoint, CheckpointFails, Observe, Settle, Retire, Release, Finish, Clean,
     RecoveredRefuse, RecoveredMark, RecoveredProject
<1>2. rec' = rec
  BY DEF WorkerStep, AttemptStep, Open, Pick, WaitCancelled, FetchFails, FetchStages, Install, Refuse,
     Mark, Checkpoint, CheckpointFails, Observe, Settle, Retire, Release, Finish, Clean,
     RecoveredRefuse, RecoveredMark, RecoveredProject
<1>3. QED
  BY <1>1, <1>2

\* The last thing a worker does is to clean up.
LEMMA WorkerCleans == WorkerStep /\ pc = "clean" => Clean
  BY DEF WorkerStep, AttemptStep, Open, Pick, WaitCancelled, FetchFails, FetchStages, Install, Refuse,
     Mark, Checkpoint, CheckpointFails, Observe, Settle, Retire, Release, Finish,
     RecoveredRefuse, RecoveredMark, RecoveredProject

\* Every step keeps the invariant.
LEMMA RetryStep ==
  ASSUME SyncInv, LedgerInv, BackedInv, RetryInv, [Next]_vars
  PROVE  RetryInv'
<1>1. disk'.status \notin Terminal =>
        \A c \in Collections : Retried(job', c) \/ Retried(disk', c) => c \in Scheduled'
  BY RetriesStayScheduled
<1>2. CASE UNCHANGED vars \/ Cancel
  BY <1>2 DEF vars, Cancel, fileVars, RetryInv, Retried, Scheduled, jobVars, workerVars
<1>3. CASE Crash
  BY <1>3, <1>1 DEF Crash, RetryInv, Retried, Scheduled
<1>4. CASE WorkerStep
  BY <1>4, WorkerRuns, WorkerKeepsRetries, <1>1 DEF SyncInv, OneActive, RetryInv, ItemRetries, Retried,
         Scheduled
<1>5. CASE RecoveryStep
  BY <1>5, RecoveryRuns, RecoveryAgrees, <1>1 DEF SyncInv, OneActive, RetryInv, Retried, Scheduled
<1>6. QED
  BY <1>2, <1>3, <1>4, <1>5 DEF Next

\* No crash or failed write separates a retry that the saved job shows from
\* the checkpoint it will be resumed from: the checkpoint is written before the
\* view and removed after it is replaced (runDurableSync's hooks,
\* recoverSyncCollectionRetries).
THEOREM RetriesAreKept == Spec => [](BackedInv /\ RetryInv /\ RetryKeepsItsCheckpoint)
<1>1. Init => BackedInv /\ RetryInv
  BY BackedStarts DEF Init, RetryInv, NoView, Retried
<1>2. SyncInv /\ LedgerInv /\ BackedInv /\ RetryInv /\ [Next]_vars => BackedInv' /\ RetryInv'
  BY BackedStep, RetryStep
<1>3. RetryInv => RetryKeepsItsCheckpoint
  BY DEF RetryInv, Retried, RetryKeepsItsCheckpoint
<1>4. QED
  BY <1>1, <1>2, <1>3, SyncSound, VerdictsStand, PTL DEF Spec

-----------------------------------------------------------------------------
(* Recovery leaves nothing that it could resume.                           *)

CompleteInv ==
  /\ rec \in {"stages", "settled"} => Scheduled = {}
  /\ rec = "settled" /\ job.status = "interrupted" => journal = {} \/ StopsAtRejected
  /\ RecoveryIsComplete

\* A recovery that is over and left the job interrupted has nothing to do.
LEMMA QuietAfterRecovery ==
  ASSUME SyncInv, LedgerInv, RetryInv, rec = "off", job.status = "interrupted"
  PROVE  ~WorkerStep /\ ~RecoveryStep
<1>1. pc = "idle"
  BY DEF LedgerInv, Active, RetryInv, Terminal
<1>2. ~RecoveryStep
  BY RecoveryRuns
<1>3. ~WorkerStep
  BY <1>1, WorkerRuns
<1>4. QED
  BY <1>2, <1>3

\* The last GC keeps a rejected stage at which recovery stops.
LEMMA SweptStops ==
  ASSUME SyncInv, StopsAtRejected, journal' = Swept(journal)
  PROVE  StopsAtRejected' /\ journal' # {}
<1>1. PICK s \in journal : IsLatest(s) /\ s.phase = "rejected"
  BY DEF StopsAtRejected
<1>2. s \in journal' /\ journal' \subseteq journal
  BY <1>1, LatestIsKept, SweptShrinks
<1>3. IsLatest(s)'
  BY <1>1, <1>2 DEF IsLatest, Later, Cur
<1>4. QED
  BY <1>1, <1>2, <1>3 DEF StopsAtRejected

\* What the last step of recovery finds is not worth resuming
\* (recoverSettledInterruptedSyncJobs).
LEMMA SettledIsComplete ==
  ASSUME SyncInv, LedgerInv, RetryInv, CompleteInv, CompleteSettled, job'.status = "interrupted", rec' = "off"
  PROVE  RecoveryIsComplete'
<1>1. JobOK /\ Scheduled = {} /\ rec = "settled" /\ UNCHANGED check
  BY DEF CompleteSettled, CompleteInv, SyncInv
<1>2. ~(job.status = "interrupted" /\ AllSettled)
  BY <1>1, StatusOf, VerdictTyped DEF CompleteSettled, Complete, Persist, Terminal
<1>3. journal' = Swept(journal) /\ UNCHANGED jobVars /\ job.status = "interrupted" /\ ~AllSettled
  BY <1>2 DEF CompleteSettled, RecoveryReturns, jobVars
<1>4. CASE journal = {}
  <2>1. ~Reported(job)
    BY <1>3, <1>1, <1>4 DEF LedgerInv, Terminal, RetryInv, Retried, Has, AllSettled
  <2>2. journal' = {}
    BY <1>3, <1>4, SweptShrinks
  <2>3. Scheduled' = {} /\ ~Reported(job')
    BY <1>1, <1>3, <2>1 DEF Scheduled, jobVars
  <2>4. Reported(job)' = Reported(job')
    BY DEF Reported
  <2>5. QED
    BY <2>2, <2>3, <2>4 DEF RecoveryIsComplete
<1>5. CASE StopsAtRejected
  BY <1>3, <1>5, SweptStops, <1>1 DEF Scheduled, RecoveryIsComplete
<1>6. QED
  BY <1>1, <1>3, <1>4, <1>5 DEF CompleteInv

\* Every step of recovery keeps the invariant.
LEMMA RecoveryCompletes ==
  ASSUME SyncInv, LedgerInv, RetryInv, CompleteInv, RecoveryStep
  PROVE  CompleteInv'
<1> DEFINE Idle == rec' \in {"reconcile", "checks", "failed"}
<1>1. Idle => CompleteInv'
  BY DEF CompleteInv, RecoveryIsComplete
<1>2. ASSUME rec' = "off", job'.status # "interrupted"
      PROVE  CompleteInv'
  BY <1>2 DEF CompleteInv, RecoveryIsComplete
<1>3. JobOK /\ "running" # "interrupted" /\ RecoveredVerdict # "interrupted"
  BY VerdictTyped DEF SyncInv, Terminal
<1>4. Complete => CompleteInv'
  BY <1>1, <1>2, <1>3, StatusOf DEF Complete, Persist
<1>5. ResumeFails => CompleteInv'
  BY <1>1 DEF ResumeFails
<1>6. UNCHANGED <<jobVars, journal, check, rec>> => CompleteInv'
  <2>1. ASSUME UNCHANGED <<jobVars, journal, check, rec>>
        PROVE  CompleteInv'
    BY RecoveryRuns, <2>1 DEF StopsAtRejected, IsLatest, Scheduled, CompleteInv, RecoveryIsComplete, jobVars
  <2>2. QED
    BY <2>1
<1>7. CASE DropTerminal
  BY <1>2, <1>7 DEF DropTerminal, Terminal, jobVars
<1>8. CASE Reconciled
  BY <1>1, <1>8 DEF Reconciled, CompleteInv, RecoveryIsComplete, Scheduled, fileVars
<1>9. CASE CompleteRetry
  BY <1>4, <1>9 DEF CompleteRetry
<1>10. CASE NoStages
  BY <1>10 DEF NoStages, Recovering, CompleteInv, RecoveryIsComplete, Scheduled, fileVars
<1>11. CASE CompleteSettled
  BY <1>4, <1>2, <1>11, SettledIsComplete DEF CompleteInv, CompleteSettled, RecoveryReturns
<1>12. CASE FailInterrupted
  <2>1. rec' = "off"
    BY <1>12 DEF FailInterrupted, RecoveryReturns
  <2>2. CASE PersistFails
    BY <2>2, <2>1 DEF PersistFails, WriteFails, SyncInv, CountOK, CompleteInv, RecoveryIsComplete
  <2>3. CASE ~PersistFails
    BY <1>3, <1>12, <2>3, StatusOf, <1>2, <2>1 DEF FailInterrupted, Persist, jobVars
  <2>4. QED
    BY <2>2, <2>3
<1>13. ASSUME NEW s \in journal, ReconcileInstall(s) \/ ReconcileMark(s) \/ ReconcileProject(s)
       PROVE  CompleteInv'
  BY <1>1, <1>13 DEF ReconcileInstall, ReconcileMark, ReconcileProject, Reconciling, Recovering
<1>14. ASSUME NEW s \in journal, MarkFurthest(s)
       PROVE  CompleteInv'
  BY <1>14 DEF MarkFurthest, Furthest, Recovering, CompleteInv, RecoveryIsComplete, Scheduled
<1>15. ASSUME NEW s \in journal, CompleteFurthest(s)
       PROVE  CompleteInv'
  BY <1>15, <1>1, <1>4 DEF CompleteFurthest, Furthest, Recovering, CompleteInv, Scheduled,
         RecoveryIsComplete
<1>16. ASSUME NEW s \in journal, ResumeFurthest(s)
       PROVE  CompleteInv'
  <2>1. CASE ResumeFails
    BY <1>5, <2>1
  <2>2. CASE Persist([WithStatus("running") EXCEPT !.shown = Id(s)]) /\ RecoveryReturns
    BY <1>3, <1>2, <2>2 DEF JobOK, JobRecords, WithStatus, Persist, RecoveryReturns
  <2>3. QED
    BY <1>16, <2>1, <2>2 DEF ResumeFurthest
<1>17. ASSUME NEW s \in journal, RejectFurthest(s)
       PROVE  CompleteInv'
  <2>1. IsLatest(s) /\ s.phase = "rejected" /\ Scheduled = {}
    BY <1>17 DEF RejectFurthest, Furthest, Recovering, CompleteInv
  <2>2. UNCHANGED <<journal, check>> /\ rec' = "settled"
    BY <1>17 DEF RejectFurthest, fileVars
  <2>3. StopsAtRejected' /\ Scheduled' = {}
    BY <2>1, <2>2 DEF StopsAtRejected, IsLatest, Scheduled
  <2>4. QED
    BY <2>2, <2>3 DEF CompleteInv, RecoveryIsComplete
<1>18. ASSUME NEW c \in Collections, DropSettled(c) \/ DropExpired(c)
       PROVE  CompleteInv'
  BY <1>1, <1>18 DEF DropSettled, DropExpired, Recovering
<1>19. ASSUME NEW c \in Collections, ResumeRetry(c)
       PROVE  CompleteInv'
  BY <1>2, <1>3, <1>5, <1>19, StatusOf DEF ResumeRetry, Persist, RecoveryReturns
<1>20. QED
  BY <1>7, <1>8, <1>9, <1>10, <1>11, <1>12, <1>13, <1>14, <1>15, <1>16, <1>17, <1>18, <1>19 DEF RecoveryStep

\* So does every other step.
LEMMA CompleteStep ==
  ASSUME SyncInv, LedgerInv, RetryInv, CompleteInv, [Next]_vars
  PROVE  CompleteInv'
<1>1. CASE UNCHANGED vars \/ Cancel
  <2>1. UNCHANGED <<jobVars, journal, check, rec, failures, crashes>>
    BY <1>1 DEF vars, Cancel, fileVars
  <2>2. StopsAtRejected' = StopsAtRejected
    BY <2>1 DEF StopsAtRejected, IsLatest
  <2>3. Scheduled' = Scheduled /\ Reported(job)' = Reported(job)
    BY <2>1 DEF Scheduled, Reported, jobVars
  <2>4. QED
    BY <2>1, <2>2, <2>3 DEF CompleteInv, RecoveryIsComplete, jobVars
<1>2. CASE Crash
  BY <1>2 DEF Crash, CompleteInv, RecoveryIsComplete
<1>3. CASE RecoveryStep
  BY <1>3, RecoveryCompletes
<1>4. CASE WorkerStep
  <2>1. rec' = "off"
    BY <1>4, WorkerRuns DEF SyncInv, OneActive
  <2>2. CASE Clean
    BY <2>2, <2>1 DEF Clean, RetryInv, LedgerInv, CompleteInv, RecoveryIsComplete, Terminal, jobVars
  <2>3. CASE ~Clean
    BY <1>4, <2>3, AttemptIsOpen, EndIsOpen, WorkerRuns, WorkerCleans, <2>1 DEF Active, OpenStep,
           CompleteInv, RecoveryIsComplete
  <2>4. QED
    BY <2>2, <2>3
<1>5. QED
  BY <1>1, <1>2, <1>3, <1>4 DEF Next

\* When no write fails, a recovery that is over has left a job interrupted
\* only if there is no checkpoint, and either no stage and no view of it or a
\* furthest stage that was rejected (RecoverSyncStages).
THEOREM RecoveryCompletesJobs == Spec => []RecoveryIsComplete
<1>1. Init => CompleteInv
  BY DEF Init, CompleteInv, RecoveryIsComplete
<1>2. SyncInv /\ LedgerInv /\ RetryInv /\ CompleteInv /\ [Next]_vars => CompleteInv'
  BY CompleteStep
<1>3. CompleteInv => RecoveryIsComplete
  BY DEF CompleteInv
<1>4. QED
  BY <1>1, <1>2, <1>3, SyncSound, VerdictsStand, RetriesAreKept, PTL DEF Spec

\* The three together: what the job reports is in the cache, what it shows as
\* waiting can be resumed, and recovery resumes what it can.
THEOREM EvidenceStays == Spec => []EvidenceIsKept
<1>1. AnswersAreBacked /\ RetryKeepsItsCheckpoint /\ RecoveryIsComplete => EvidenceIsKept
  BY DEF EvidenceIsKept
<1>2. QED
  BY <1>1, AnswersAreKept, RetriesAreKept, RecoveryCompletesJobs, PTL

-----------------------------------------------------------------------------
(* The journal, whatever fails: what recovery may rely on about it.        *)

\* The stage the current item has fetched.
Own(s) == s.c = item.c /\ s.n = item.n

\* Stages are named by their attempt and ordered by the clock.
StagesDiffer(J) == \A s, t \in J : Id(s) = Id(t) \/ s.at = t.at => s = t

\* The stage of a retry stands alone, and a committed stage has its receipt.
StageSound(s, R) == /\ s.n > 1 => s.list = {s.c}
                    /\ s.g >= 1
                    /\ s.phase = "committed" => Receipt(s) \in R

\* Only a batch in the cache degrades a collection.
DegradedCached == \A c \in degraded : Cached(c)

JournalInv ==
  /\ StagesDiffer(journal)
  /\ \A s \in journal : StageSound(s, receipts)
  /\ pc \in {"mark", "rmark"} => \A s \in journal : Own(s) => Receipt(s) \in receipts
  /\ DegradedCached

\* The batch of a stage, whatever becomes of the stage.
SameBatch(u, s) == u.c = s.c /\ u.n = s.n /\ u.g = s.g /\ u.err = s.err /\ u.list = s.list

\* What names a batch and places it in its workflow depends on nothing else.
LEMMA SameBatchSame ==
  ASSUME NEW u, NEW s, SameBatch(u, s)
  PROVE  /\ Id(u) = Id(s) /\ Receipt(u) = Receipt(s)
         /\ Cur(u) = Cur(s) /\ Rest(u) = Rest(s)
         /\ Own(u) <=> Own(s)
         /\ Unreported(u) <=> Unreported(s)
  BY DEF SameBatch, Id, Receipt, Cur, Rest, Own, Unreported

\* A stage that is written is the batch it was, in its place, the last one.
LEMMA PutStage ==
  ASSUME JournalOK, NEW S, NEW s \in StageRecords
  PROVE  \E u \in StageRecords : /\ Put(S, s) = {t \in S : Id(t) # Id(s)} \cup {u}
                                 /\ SameBatch(u, s) /\ u.phase = s.phase /\ u.at = Tick
<1>1. Tick \in Nat
  BY TickIsLater
<1>2. PICK u : u = [s EXCEPT !.at = Tick]
  OBVIOUS
<1>3. u \in StageRecords /\ SameBatch(u, s) /\ u.phase = s.phase /\ u.at = Tick
  BY <1>1, <1>2 DEF StageRecords, SameBatch
<1>4. Put(S, s) = {t \in S : Id(t) # Id(s)} \cup {u}
  BY <1>2 DEF Put
<1>5. QED
  BY <1>3, <1>4

\* A stage that changes its phase is replaced by the same batch.
LEMMA PhaseStage ==
  ASSUME JournalOK, StagesDiffer(journal), NEW s \in journal,
         NEW p \in {"staged", "committed", "rejected"}
  PROVE  \E u \in StageRecords : /\ InPhase(s, p) = (journal \ {s}) \cup {u}
                                 /\ SameBatch(u, s) /\ u.phase = p /\ u.at = Tick
<1>1. PICK w : w = [s EXCEPT !.phase = p]
  OBVIOUS
<1>2. s \in StageRecords
  BY DEF JournalOK, Shaped
<1>3. w \in StageRecords /\ SameBatch(w, s) /\ w.phase = p
  BY <1>1, <1>2 DEF StageRecords, SameBatch
<1>4. InPhase(s, p) = Put(journal, w)
  BY <1>1 DEF InPhase, Written
<1>5. PICK u \in StageRecords : /\ Put(journal, w) = {t \in journal : Id(t) # Id(w)} \cup {u}
                                /\ SameBatch(u, w) /\ u.phase = w.phase /\ u.at = Tick
  BY <1>3, PutStage
<1>6. SameBatch(u, s)
  BY <1>3, <1>5 DEF SameBatch
<1>7. Id(w) = Id(s)
  BY <1>3, SameBatchSame
<1>8. {t \in journal : Id(t) # Id(w)} = journal \ {s}
  BY <1>7 DEF StagesDiffer
<1>9. QED
  BY <1>3, <1>4, <1>5, <1>6, <1>8

\* The ways a step changes the journal: it loses stages, one of its stages
\* changes its phase, or what was fetched is added.
Loses == journal' \subseteq journal
Moves(s, p) == \E u \in StageRecords : /\ journal' \subseteq (journal \ {s}) \cup {u}
                                       /\ SameBatch(u, s) /\ u.phase = p /\ u.at = Tick
Adds(u) == /\ journal' = {t \in Swept(journal) : Id(t) # Id(u)} \cup {u}
           /\ u \in StageRecords /\ u.at = Tick /\ Own(u) /\ u.phase = "staged"
           /\ u.g = Generation(item.c, item.n)
           /\ u.list = IF item.n > 1 THEN {item.c} ELSE run.list

\* Writing a phase, with or without the GC that may follow, moves a stage.
LEMMA WritingMoves ==
  ASSUME JournalOK, StagesDiffer(journal), NEW s \in journal,
         NEW p \in {"staged", "committed", "rejected"},
         journal' \in {InPhase(s, p), Swept(InPhase(s, p))}
  PROVE  Moves(s, p)
<1>1. Swept(InPhase(s, p)) \subseteq InPhase(s, p)
  BY SweptShrinks
<1>2. QED
  BY <1>1, PhaseStage DEF Moves

\* A fetched batch is added as the stage of the item (runDurableCollection).
LEMMA FetchAdds ==
  ASSUME SyncInv, FetchStages
  PROVE  \E u : Adds(u)
<1>1. PICK e \in FetchErrors :
        journal' = Put(Swept(journal),
                       [c |-> item.c, n |-> item.n, g |-> Generation(item.c, item.n),
                        phase |-> "staged", err |-> e, at |-> 0,
                        list |-> IF item.n > 1 THEN {item.c} ELSE run.list])
  BY DEF FetchStages
<1>2. PICK s : s = [c |-> item.c, n |-> item.n, g |-> Generation(item.c, item.n),
                    phase |-> "staged", err |-> e, at |-> 0,
                    list |-> IF item.n > 1 THEN {item.c} ELSE run.list]
  OBVIOUS
<1>3. s \in StageRecords
  BY <1>1, <1>2, FetchedTyped
<1>4. PICK u \in StageRecords : /\ Put(Swept(journal), s) = {t \in Swept(journal) : Id(t) # Id(s)} \cup {u}
                                /\ SameBatch(u, s) /\ u.phase = s.phase /\ u.at = Tick
  BY <1>3, PutStage DEF SyncInv
<1>5. Id(u) = Id(s)
  BY <1>4, SameBatchSame
<1>6. QED
  BY <1>1, <1>2, <1>4, <1>5 DEF Adds, SameBatch, Own

\* Every step changes the journal in one of these ways, and commits a stage
\* only with its receipt.
JournalStep ==
  \/ Loses
  \/ \E s \in journal, p \in {"staged", "committed", "rejected"} :
        Moves(s, p) /\ (p = "committed" => Receipt(s) \in receipts)
  \/ FetchStages /\ \E u : Adds(u)

\* The steps of the worker.
LEMMA WorkerJournal ==
  ASSUME SyncInv, JournalInv, WorkerStep
  PROVE  JournalStep
<1>1. Swept(journal) \subseteq journal /\ \A c : WithoutStages(c) \subseteq journal
  BY SweptShrinks DEF WithoutStages
<1>2. JournalOK /\ StagesDiffer(journal)
  BY DEF SyncInv, JournalInv
<1>3. ASSUME pc \in HasStage, NEW p \in {"staged", "committed", "rejected"},
             journal' \in {InPhase(ItemStage, p), Swept(InPhase(ItemStage, p))},
             p = "committed" => pc \in {"mark", "rmark"}
      PROVE  JournalStep
  <2>1. PICK s \in journal : s = ItemStage /\ Id(s) = <<item.c, item.n>>
    BY <1>3, HasItemStage
  <2>2. Own(s)
    BY <2>1 DEF Id, Own
  <2>3. Moves(s, p)
    BY <1>2, <1>3, <2>1, WritingMoves
  <2>4. p = "committed" => Receipt(s) \in receipts
    BY <1>3, <2>2 DEF JournalInv
  <2>5. QED
    BY <2>3, <2>4 DEF JournalStep
<1>4. ASSUME NEW i \in 1..Len(pending), Pick(i) \/ WaitCancelled(i)
      PROVE  Loses
  BY <1>4 DEF Pick, WaitCancelled, fileVars, Loses
<1>5. CASE Open \/ FetchFails \/ Install \/ Checkpoint \/ CheckpointFails \/ Observe \/ Settle \/ Release
  BY <1>5 DEF Open, FetchFails, Install, Checkpoint, CheckpointFails, Observe, Settle, Release,
              fileVars, Loses, JournalStep
<1>6. CASE FetchStages
  BY <1>6, FetchAdds DEF JournalStep
<1>7. CASE Refuse
  BY <1>7, <1>1, <1>3 DEF Refuse, HasStage, Refused, Loses, JournalStep
<1>8. CASE Mark
  BY <1>8, <1>1, <1>3 DEF Mark, HasStage, Loses, JournalStep
<1>9. CASE Retire \/ Finish \/ Clean \/ RecoveredProject
  BY <1>1, <1>9 DEF Retire, Finish, Clean, RecoveredProject, Loses, JournalStep
<1>10. CASE RecoveredRefuse
  BY <1>10, <1>3 DEF RecoveredRefuse, HasStage, Loses, JournalStep
<1>11. CASE RecoveredMark
  BY <1>11, <1>3 DEF RecoveredMark, HasStage, Loses, JournalStep
<1>12. QED
  BY <1>4, <1>5, <1>6, <1>7, <1>8, <1>9, <1>10, <1>11 DEF WorkerStep, AttemptStep, JournalStep

\* All steps.
LEMMA EveryJournal ==
  ASSUME SyncInv, JournalInv, [Next]_vars
  PROVE  JournalStep
<1>1. Swept(journal) \subseteq journal /\ \A c : WithoutStages(c) \subseteq journal
  BY SweptShrinks DEF WithoutStages
<1>2. JournalOK /\ StagesDiffer(journal)
  BY DEF SyncInv, JournalInv
<1>3. CASE UNCHANGED vars \/ Cancel \/ Crash
  BY <1>3 DEF vars, Cancel, Crash, fileVars, Loses, JournalStep
<1>4. Complete \/ ResumeFails \/ RecoveryReturns => Loses
  BY <1>1 DEF Complete, ResumeFails, RecoveryReturns, Loses
<1>5. CASE DropTerminal \/ Reconciled \/ CompleteRetry \/ NoStages \/ CompleteSettled \/ FailInterrupted
  BY <1>4, <1>5
     DEF DropTerminal, Reconciled, CompleteRetry, NoStages, CompleteSettled, FailInterrupted, fileVars,
         Loses, JournalStep
<1>6. ASSUME NEW s \in journal,
             \/ ReconcileInstall(s) \/ ReconcileMark(s) \/ ReconcileProject(s)
             \/ MarkFurthest(s) \/ CompleteFurthest(s) \/ ResumeFurthest(s) \/ RejectFurthest(s)
      PROVE  JournalStep
  <2>1. \A p \in {"committed", "rejected"} : journal' = InPhase(s, p) => Moves(s, p)
    BY <1>2, WritingMoves
  <2>2. ReconcileInstall(s) => Loses \/ Moves(s, "rejected")
    BY <2>1 DEF ReconcileInstall, Loses
  <2>3. ReconcileMark(s) \/ MarkFurthest(s) => Receipt(s) \in receipts /\ (Loses \/ Moves(s, "committed"))
    BY <2>1 DEF ReconcileMark, MarkFurthest, Loses
  <2>4. ReconcileProject(s) \/ RejectFurthest(s) => Loses
    BY DEF ReconcileProject, RejectFurthest, fileVars, Loses
  <2>5. CompleteFurthest(s) \/ ResumeFurthest(s) => Loses
    BY <1>4 DEF CompleteFurthest, ResumeFurthest, Loses
  <2>6. QED
    BY <1>6, <2>2, <2>3, <2>4, <2>5 DEF JournalStep
<1>7. ASSUME NEW c \in Collections, DropSettled(c) \/ DropExpired(c) \/ ResumeRetry(c)
      PROVE  JournalStep
  BY <1>1, <1>4, <1>7 DEF DropSettled, DropExpired, ResumeRetry, Loses, JournalStep
<1>8. CASE RecoveryStep
  BY <1>5, <1>6, <1>7, <1>8 DEF RecoveryStep
<1>9. QED
  BY <1>3, <1>8, WorkerJournal DEF Next

\* What a step does to the cache: nothing, or it installs a batch.
LEMMA EveryReceipt ==
  ASSUME SyncInv, JournalInv, [Next]_vars
  PROVE  UNCHANGED cacheVars \/ \E s \in journal : CommitBatch(s)
<1>1. CASE UNCHANGED vars \/ Cancel \/ Crash
  BY <1>1 DEF vars, Cancel, Crash, fileVars
<1>2. CASE WorkerStep
  <2>1. ASSUME NEW i \in 1..Len(pending), Pick(i) \/ WaitCancelled(i)
        PROVE  UNCHANGED cacheVars
    BY <2>1 DEF Pick, WaitCancelled, fileVars
  <2>2. CASE Install
    BY <2>2, HasItemStage DEF Install, HasStage
  <2>3. CASE Open \/ FetchFails \/ FetchStages \/ Refuse \/ Mark \/ Checkpoint \/ CheckpointFails \/ Observe
    BY <2>3 DEF Open, FetchFails, FetchStages, Refuse, Mark, Checkpoint, CheckpointFails, Observe, fileVars
  <2>4. CASE Settle \/ Retire \/ Release \/ Finish \/ Clean \/ RecoveredRefuse \/ RecoveredMark \/ RecoveredProject
    BY <2>4 DEF Settle, Retire, Release, Finish, Clean, RecoveredRefuse, RecoveredMark, RecoveredProject, fileVars
  <2>5. QED
    BY <1>2, <2>1, <2>2, <2>3, <2>4 DEF WorkerStep, AttemptStep
<1>3. CASE RecoveryStep
  <2>1. CASE DropTerminal \/ Reconciled \/ CompleteRetry \/ NoStages \/ CompleteSettled \/ FailInterrupted
    BY <2>1 DEF DropTerminal, Reconciled, CompleteRetry, NoStages, CompleteSettled, FailInterrupted, fileVars
  <2>2. ASSUME NEW s \in journal,
               \/ ReconcileInstall(s) \/ ReconcileMark(s) \/ ReconcileProject(s)
               \/ MarkFurthest(s) \/ CompleteFurthest(s) \/ ResumeFurthest(s) \/ RejectFurthest(s)
        PROVE  UNCHANGED cacheVars \/ CommitBatch(s)
    BY <2>2 DEF ReconcileInstall, ReconcileMark, ReconcileProject, MarkFurthest, CompleteFurthest,
                ResumeFurthest, RejectFurthest, fileVars
  <2>3. ASSUME NEW c \in Collections, DropSettled(c) \/ DropExpired(c) \/ ResumeRetry(c)
        PROVE  UNCHANGED cacheVars
    BY <2>3 DEF DropSettled, DropExpired, ResumeRetry, fileVars
  <2>4. QED
    BY <1>3, <2>1, <2>2, <2>3 DEF RecoveryStep
<1>4. QED
  BY <1>1, <1>2, <1>3 DEF Next

\* Only a transaction brings the worker to a commit it has to record.
LEMMA MarkedSteps ==
  ASSUME SyncInv, [Next]_vars, pc' \in {"mark", "rmark"}
  PROVE  Install \/ UNCHANGED <<journal, receipts, item, pc>>
<1>1. CASE UNCHANGED vars \/ Cancel
  BY <1>1 DEF vars, Cancel, fileVars, cacheVars, workerVars
<1>2. CASE Crash \/ RecoveryStep
  BY <1>2, RecoveryRuns DEF Crash, SyncInv, OneActive
<1>3. CASE WorkerStep
  <2>1. ASSUME NEW i \in 1..Len(pending), Pick(i) \/ WaitCancelled(i)
        PROVE  FALSE
    BY <2>1 DEF Pick, WaitCancelled
  <2>2. CASE Open \/ FetchFails \/ FetchStages \/ Refuse \/ Mark \/ Checkpoint \/ CheckpointFails \/ Observe
    BY <2>2 DEF Open, FetchFails, FetchStages, Refuse, Mark, Checkpoint, CheckpointFails, Observe, Attempted
  <2>3. CASE Settle \/ Retire \/ Release \/ Finish \/ Clean \/ RecoveredRefuse \/ RecoveredMark \/ RecoveredProject
    BY <2>3 DEF Settle, Retire, Release, Finish, Clean, RecoveredRefuse, RecoveredMark, RecoveredProject, KeepEvidence
  <2>4. QED
    BY <1>3, <2>1, <2>2, <2>3 DEF WorkerStep, AttemptStep
<1>4. QED
  BY <1>1, <1>2, <1>3 DEF Next

\* Generations are counted from one.
LEMMA GenerationCounts ==
  ASSUME SyncInv, NEW c, NEW n
  PROVE  Generation(c, n) \in Nat /\ Generation(c, n) >= 1
<1>1. {r \in receipts : r[1] = c /\ r[2] = n} \in SUBSET receipts
  OBVIOUS
<1>2. IsFiniteSet({r \in receipts : r[1] = c /\ r[2] = n})
  BY <1>1, FS_Subset DEF SyncInv, CacheOK
<1>3. Cardinality({r \in receipts : r[1] = c /\ r[2] = n}) \in Nat
  BY <1>2, FS_CardinalityType
<1>4. QED
  BY <1>3 DEF Generation

\* A stage that is written last is told apart from every other one.
LEMMA LastDiffers ==
  ASSUME JournalOK, StagesDiffer(journal), NEW K, K \subseteq journal,
         NEW u \in StageRecords, u.at = Tick, \A t \in K : Id(t) # Id(u)
  PROVE  StagesDiffer(K \cup {u})
<1>1. \A t \in journal : t.at < Tick /\ t.at \in Nat
  BY TickIsLater DEF JournalOK, Shaped, StageRecords
<1>2. \A t \in K : t.at # u.at
  BY <1>1, TickIsLater
<1>3. QED
  BY <1>2 DEF StagesDiffer

\* The journal stays sound.
LEMMA StagesStayDifferent ==
  ASSUME SyncInv, JournalInv, JournalStep
  PROVE  StagesDiffer(journal')
<1>1. JournalOK /\ StagesDiffer(journal)
  BY DEF SyncInv, JournalInv
<1>2. CASE Loses
  BY <1>1, <1>2 DEF Loses, StagesDiffer
<1>3. ASSUME NEW s \in journal, NEW p, Moves(s, p)
      PROVE  StagesDiffer(journal')
  <2>1. PICK u \in StageRecords : /\ journal' \subseteq (journal \ {s}) \cup {u}
                                  /\ SameBatch(u, s) /\ u.at = Tick
    BY <1>3 DEF Moves
  <2>2. \A t \in journal \ {s} : Id(t) # Id(u)
    BY <1>1, <2>1, SameBatchSame DEF StagesDiffer
  <2>3. StagesDiffer((journal \ {s}) \cup {u})
    BY <1>1, <2>1, <2>2, LastDiffers
  <2>4. QED
    BY <2>1, <2>3 DEF StagesDiffer
<1>4. ASSUME NEW u, Adds(u)
      PROVE  StagesDiffer(journal')
  BY SweptShrinks, <1>1, <1>4, LastDiffers DEF Adds
<1>5. QED
  BY <1>2, <1>3, <1>4 DEF JournalStep

\* A stage keeps its place in the workflow and, once committed, its receipt.
LEMMA StagesStaySound ==
  ASSUME SyncInv, JournalInv, JournalStep, receipts \subseteq receipts'
  PROVE  \A t \in journal' : StageSound(t, receipts')
<1>1. \A t \in journal : StageSound(t, receipts')
  BY DEF JournalInv, StageSound
<1>2. CASE Loses
  BY <1>1, <1>2 DEF Loses
<1>3. ASSUME NEW s \in journal, NEW p, Moves(s, p), p = "committed" => Receipt(s) \in receipts
      PROVE  \A t \in journal' : StageSound(t, receipts')
  <2>1. PICK u \in StageRecords : /\ journal' \subseteq (journal \ {s}) \cup {u}
                                  /\ SameBatch(u, s) /\ u.phase = p
    BY <1>3 DEF Moves
  <2>2. Receipt(u) = Receipt(s)
    BY <2>1, SameBatchSame
  <2>3. StageSound(u, receipts')
    BY <1>1, <1>3, <2>1, <2>2 DEF StageSound, SameBatch
  <2>4. QED
    BY <1>1, <2>1, <2>3
<1>4. ASSUME NEW u, Adds(u)
      PROVE  \A t \in journal' : StageSound(t, receipts')
  <2>1. {t \in Swept(journal) : Id(t) # Id(u)} \subseteq journal
    BY SweptShrinks
  <2>2. u.g >= 1
    BY <1>4, GenerationCounts DEF Adds
  <2>3. u.n > 1 => u.list = {u.c}
    BY <1>4 DEF Adds, Own
  <2>4. StageSound(u, receipts')
    BY <1>4, <2>2, <2>3 DEF Adds, StageSound
  <2>5. QED
    BY <1>1, <1>4, <2>1, <2>4 DEF Adds
<1>5. QED
  BY <1>2, <1>3, <1>4 DEF JournalStep

\* The journal is kept by every step, whether or not a write fails.
LEMMA JournalKept ==
  ASSUME SyncInv, JournalInv, [Next]_vars
  PROVE  JournalInv'
<1>1. JournalStep
  BY EveryJournal
<1>2. receipts \subseteq receipts'
  BY EveryReceipt DEF cacheVars, CommitBatch
<1>3. StagesDiffer(journal)'
  BY <1>1, StagesStayDifferent DEF StagesDiffer, Id
<1>4. \A s \in journal' : StageSound(s, receipts')
  BY <1>1, <1>2, StagesStaySound
<1>5. pc' \in {"mark", "rmark"} => \A s \in journal' : Own(s)' => Receipt(s) \in receipts'
  <2>1. SUFFICES ASSUME pc' \in {"mark", "rmark"}
                 PROVE  \A s \in journal' : Own(s)' => Receipt(s) \in receipts'
    OBVIOUS
  <2>2. CASE Install
    <3>1. PICK s \in journal : s = ItemStage /\ Id(s) = <<item.c, item.n>>
      BY <2>2, HasItemStage DEF Install, HasStage
    <3>2. Receipt(s) \in receipts' /\ journal' = journal /\ item' = item
      BY <2>2, <3>1 DEF Install, CommitBatch
    <3>3. \A t \in journal : Own(t) => t = s
      BY <3>1 DEF JournalInv, StagesDiffer, Own, Id
    <3>4. QED
      BY <3>2, <3>3 DEF Own
  <2>3. CASE UNCHANGED <<journal, receipts, item, pc>>
    BY <2>1, <2>3 DEF JournalInv, Own
  <2>4. QED
    BY <2>1, <2>2, <2>3, MarkedSteps
<1>6. DegradedCached'
  <2>1. CASE UNCHANGED cacheVars
    BY <2>1 DEF JournalInv, DegradedCached, Cached, cacheVars
  <2>2. ASSUME NEW s \in journal, CommitBatch(s)
        PROVE  DegradedCached'
    <3>1. degraded' \subseteq degraded \cup {s.c} /\ Receipt(s) \in receipts' /\ receipts \subseteq receipts'
      BY <2>2 DEF CommitBatch, Frontiers
    <3>2. Receipt(s)[1] = s.c
      BY DEF Receipt
    <3>3. QED
      BY <3>1, <3>2 DEF JournalInv, DegradedCached, Cached
  <2>3. QED
    BY <2>1, <2>2, EveryReceipt
<1>7. (\A s \in journal : StageSound(s, receipts))'
  BY <1>4 DEF StageSound, Receipt
<1>8. (pc \in {"mark", "rmark"} => \A s \in journal : Own(s) => Receipt(s) \in receipts)'
  BY <1>5 DEF Receipt
<1>9. QED
  BY <1>3, <1>6, <1>7, <1>8 DEF JournalInv

\* The journal holds what recovery relies on, whatever fails.
LEMMA JournalStarts == Init => JournalInv
  BY DEF Init, JournalInv, StagesDiffer, DegradedCached

-----------------------------------------------------------------------------
(* One crash is survived: what holds as long as no write has failed and    *)
(* the job crashed at most once.                                           *)

Steady == failures = 0 /\ crashes < 2

Blank(c) == job.view[c].outcome = "none"
Bad(c) == job.view[c].outcome \in {"failed", "cancelled", "retry"}
AllShown == \A c \in degraded : Bad(c)
AllKnown == \A c \in Collections : Cached(c) => ~Blank(c)

\* Where the worker has a queue, an item it has taken from it, an attempt of
\* the item that has not been reported, and a workflow it goes on with.
Working == {"open", "pick", "fetch", "commit", "mark", "decide", "observe", "retire", "release"}
Flying == {"fetch", "commit", "mark", "decide", "observe", "retire", "release"}
Trying == {"fetch", "commit", "mark", "decide", "observe"}
Resuming == {"rcommit", "rmark", "rproject"}

\* Every first attempt that was fetched comes before collection e, in a
\* workflow that goes on to e.
FreshAhead(e) == \A t \in journal : t.n = 1 /\ t.c # e => t.c < e /\ e \in t.list

\* The request, and the request of every checkpoint, asks for collection c.
Chosen(c) == c \in run.list /\ c \in run.sel /\ \A d \in Scheduled : c \in check[d].sel

\* The queue names each collection once, the new ones in their order.
Queue == {pending[i] : i \in 1..Len(pending)}
QueueOrdered ==
  \A i, j \in 1..Len(pending) :
    i < j => /\ pending[i].c # pending[j].c
             /\ pending[i].n = 0 /\ pending[j].n = 0 => pending[i].c < pending[j].c
EntrySound(p) ==
  /\ Chosen(p.c)
  /\ p.later <=> p.n > 0
  /\ p.n = 0 => FreshAhead(p.c)
  /\ p.n > 0 => p.c \in Scheduled
  /\ pc \in Flying => p.c # item.c /\ (item.n = 1 /\ p.n = 0 => item.c < p.c)
QueueSound == QueueOrdered /\ \A p \in Queue : EntrySound(p)

\* The item is one of the request, and a whole batch of it is installed before
\* it counts as whole.
FlightSound ==
  /\ pc \in Flying => item.n >= 1
  /\ pc \in Trying => Chosen(item.c) /\ (item.n > 1 => item.c \in Scheduled)
  /\ pc \in {"fetch", "commit", "mark"} /\ item.n = 1 => FreshAhead(item.c)
  /\ pc = "mark" => \A s \in journal : Own(s) /\ s.err = "none" => item.c \notin degraded
  /\ pc = "decide" /\ err = "none" => item.c \notin degraded

\* A collection with a partial batch shows it, or is the item and will.
Erring == \/ pc = "mark" /\ \A s \in journal : Own(s) => s.err # "none"
          \/ pc \in {"decide", "observe"} /\ err # "none"
ShownInFlight == \A c \in degraded : Bad(c) \/ (c = item.c /\ Erring)

\* A collection with a batch in the cache is reported, or is the item and what
\* recovery reads leads back to it.
Covered(c) == \/ c \in Scheduled
              \/ \E s \in journal : s.c = c
              \/ c \in LeftToDo
              \/ Scheduled = {} /\ StopsAtRejected
KnownInFlight ==
  \A c \in Collections : Cached(c) /\ Blank(c) =>
    c = item.c /\ pc \in {"mark", "decide", "observe"} /\ Covered(c)

WorkSound == QueueSound /\ FlightSound /\ ShownInFlight /\ KnownInFlight

-----------------------------------------------------------------------------
(* A job that has never crashed.                                           *)

\* A stage that is reported, and one nothing will be done about any more.
Settled(s) == s.phase = "committed" /\ ~Unreported(s)
OldStage(s) ==
  \/ s.phase = "rejected"
  \/ Settled(s)
  \/ s.phase = "staged" /\ Receipt(s) \notin receipts /\ Unreported(s) /\ job.view[s.c].outcome = "cancelled"
Whole == \A t \in journal : t.n = 1 => t.list = Collections
FullChecks == \A d \in Scheduled : check[d].sel = Collections
FirstRun == ~run.recovered /\ run.result # "evidence" /\ run.list = Collections /\ run.sel = Collections

\* What has no view yet waits in the queue or is the item.
NoneLeft ==
  \/ journal = {} /\ pending = <<>> /\ pc = "pick"
  \/ \A d \in Collections : Blank(d) => \/ pc \in Trying /\ item.c = d
                                        \/ \E p \in Queue : p.c = d /\ p.n = 0
BlanksFirst == \A i, j \in 1..Len(pending) : i < j /\ pending[j].n = 0 => pending[i].n = 0

EntryFirst(p) ==
  /\ job.view[p.c].n = p.n
  /\ \A r \in receipts : r[1] = p.c => r[2] <= p.n
  /\ p.n = 0 => /\ Blank(p.c)
                /\ \A t \in journal : t.c < p.c
                /\ pc \in Trying => item.c < p.c
  /\ p.n > 0 => /\ job.view[p.c].outcome = "retry"
                /\ \A s \in journal : s.c = p.c => s.n <= p.n /\ Settled(s)

ItemFirst ==
  /\ job.view[item.c].outcome \in {"none", "retry"}
  /\ job.view[item.c].n \in {item.n - 1, item.n}
  /\ pc \in {"fetch", "commit", "mark"} => job.view[item.c].n = item.n - 1
  /\ Blank(item.c) => item.n = 1 /\ (\A t \in journal : t.c < item.c \/ Own(t))
  /\ \A s \in journal : s.c = item.c /\ ~Own(s) => s.n < item.n /\ Settled(s)
  /\ \A r \in receipts : r[1] = item.c => r[2] <= item.n /\ (pc \in {"fetch", "commit"} => r[2] < item.n)
  /\ pc = "observe" => err = "transient"
OwnFirst(s) ==
  /\ pc # "fetch"
  /\ pc \in {"commit", "mark"} => s.phase = "staged"
  /\ pc \in {"decide", "observe"} =>
        \/ s.phase = "rejected" /\ err # "transient"
        \/ s.phase = "staged" /\ err = "cancelled" /\ Receipt(s) \notin receipts /\ job.view[item.c].n < item.n
        \/ s.phase = "committed" /\ (Unreported(s) => s.err = err)
OwnKept == pc \in {"decide", "observe"} /\ Blank(item.c) /\ Cached(item.c) =>
             \E s \in journal : Own(s) /\ s.phase = "committed"
OthersOld == \A s \in journal : (pc \in Trying => s.c # item.c) => OldStage(s)
OneStaged == \A s, t \in journal : s.phase = "staged" /\ t.phase = "staged" /\ s.c = t.c => s = t

TriedFirst == ItemFirst /\ OwnKept /\ \A s \in journal : Own(s) => OwnFirst(s)
RestFirst == FullChecks /\ Whole /\ OthersOld /\ OneStaged /\ (pc = "open" => journal = {})
QueueFirst == NoneLeft /\ BlanksFirst /\ \A p \in Queue : EntryFirst(p)
FirstSound == FirstRun /\ RestFirst /\ QueueFirst /\ (pc \in Trying => TriedFirst)
FirstLife == /\ rec = "off" /\ pc \notin Resuming
             /\ pc = "idle" => job.status \in Terminal
             /\ pc \in Working => FirstSound

-----------------------------------------------------------------------------
(* Recovery after the first crash.                                         *)

NoneAhead == \A t \in journal : \A d \in Collections : Blank(d) => t.c <= d

\* A stage recovery will report, and one whose batch is in the cache already.
Live(s) == s.phase # "rejected" /\ Unreported(s)
Counted(s) == Live(s) /\ Receipt(s) \in receipts

StagesSound ==
  /\ \A s \in journal : Counted(s) /\ s.err = "none" => s.c \notin degraded
  /\ \A c \in degraded : Bad(c) \/ \E s \in journal : s.c = c /\ Counted(s) /\ s.err # "none"
  /\ \A s, t \in journal : Live(s) /\ Live(t) /\ s.c = t.c => s = t
  /\ \A s \in journal : s.phase = "staged" => Unreported(s)
  /\ \A c \in Collections : Cached(c) /\ Blank(c) => \E s \in journal : s.c = c /\ Counted(s)
  /\ \A c \in Scheduled : SettledBy(c) /\ c \in degraded => Bad(c)
FurthestCounts ==
  Scheduled = {} => \A s, t \in journal : Counted(s) => s.n = 1 /\ (t = s \/ t.c < s.c)
RecoverySound ==
  /\ pending = <<>> /\ job.status = "interrupted"
  /\ rec \in {"reconcile", "stages"} => StagesSound /\ FurthestCounts
  /\ rec \in {"reconcile", "stages", "checks"} => Whole /\ NoneAhead /\ FullChecks
  /\ rec \in {"checks", "settled"} => AllShown /\ AllKnown
  /\ rec = "failed" => \A c \in Collections : Cached(c) /\ Blank(c) => \E s \in journal : s.c = c

\* Going on after the furthest stage.
StageResumed(s) ==
  /\ run.sel = Rest(s) /\ run.list = s.list
  /\ \A e \in Rest(s) : FreshAhead(e)
  /\ pc \in {"rcommit", "rmark"} => Unreported(s)
  /\ pc # "rcommit" =>
        /\ \A c \in degraded : Bad(c) \/ (c = item.c /\ s.err # "none" /\ Unreported(s))
        /\ Unreported(s) /\ s.err = "none" => item.c \notin degraded
ResumeSound ==
  /\ pending = <<>> /\ Scheduled = {}
  /\ \A s \in journal : Own(s) => StageResumed(s)
  /\ pc = "rcommit" => AllShown /\ AllKnown
  /\ pc # "rcommit" => \A c \in Collections : Cached(c) /\ Blank(c) => c = item.c

\* Together.
ViewsSound == disk = job /\ \A c \in Collections : Blank(c) => job.view[c].n = 0
SteadyInv ==
  /\ ViewsSound
  /\ job.status = "succeeded" => AllShown
  /\ pc \in Working => WorkSound
  /\ pc \in Resuming => ResumeSound
  /\ pc = "idle" /\ rec = "off" /\ job.status \notin Terminal => AllKnown
  /\ rec # "off" /\ job.status \notin Terminal => RecoverySound
  /\ crashes = 0 => FirstLife

SurvivalInv == JournalInv /\ (Steady => SteadyInv)

-----------------------------------------------------------------------------
\* Failures and crashes are only counted.
LEMMA FailuresCounted ==
  ASSUME SyncInv, [Next]_vars
  PROVE  /\ failures' \in {failures, failures + 1}
         /\ crashes' = IF Crash THEN crashes + 1 ELSE crashes
<1> USE DEF WriteOK, WriteFails
<1>1. CASE UNCHANGED vars
  BY <1>1 DEF vars, Crash
<1>2. CASE Cancel \/ Crash
  BY <1>2 DEF Cancel, Crash
<1>3. \A j : Persist(j) \/ Note(j) \/ PersistFails => failures' \in {failures, failures + 1}
  BY DEF Persist, Note, PersistFails
<1>4. ASSUME WorkerStep \/ RecoveryStep
      PROVE  failures' \in {failures, failures + 1} /\ crashes' = crashes
  <2>1. ASSUME NEW i \in 1..Len(pending), Pick(i) \/ WaitCancelled(i)
        PROVE  failures' \in {failures, failures + 1} /\ crashes' = crashes
    BY <1>3, <2>1 DEF Pick, WaitCancelled
  <2>2. CASE Open \/ FetchFails \/ FetchStages \/ Install \/ Refuse \/ Mark
    BY <1>3, <2>2 DEF Open, FetchFails, FetchStages, Install, Refuse, Refused, Mark
  <2>3. CASE Checkpoint \/ CheckpointFails \/ Observe \/ Settle \/ Retire \/ Release
    BY <1>3, <2>3 DEF Checkpoint, CheckpointFails, Observe, Settle, Retire, Release, KeepEvidence
  <2>4. CASE Finish \/ Clean \/ RecoveredRefuse \/ RecoveredMark \/ RecoveredProject
    BY <1>3, <2>4 DEF Finish, Clean, RecoveredRefuse, RecoveredMark, RecoveredProject
  <2>5. Complete \/ ResumeFails => failures' \in {failures, failures + 1}
    BY <1>3 DEF Complete, ResumeFails
  <2>6. CASE DropTerminal \/ Reconciled \/ CompleteRetry \/ NoStages \/ CompleteSettled \/ FailInterrupted
    BY <1>3, <2>5, <2>6
       DEF DropTerminal, Reconciled, CompleteRetry, NoStages, CompleteSettled, FailInterrupted
  <2>7. ASSUME NEW s \in journal,
               \/ ReconcileInstall(s) \/ ReconcileMark(s) \/ ReconcileProject(s)
               \/ MarkFurthest(s) \/ CompleteFurthest(s) \/ ResumeFurthest(s) \/ RejectFurthest(s)
        PROVE  failures' \in {failures, failures + 1} /\ crashes' = crashes
    BY <1>3, <2>5, <2>7 DEF ReconcileInstall, ReconcileMark, ReconcileProject, MarkFurthest, CompleteFurthest,
                ResumeFurthest, RejectFurthest
  <2>8. ASSUME NEW c \in Collections, DropSettled(c) \/ DropExpired(c) \/ ResumeRetry(c)
        PROVE  failures' \in {failures, failures + 1} /\ crashes' = crashes
    BY <1>3, <2>5, <2>8 DEF DropSettled, DropExpired, ResumeRetry
  <2>9. QED
    BY <1>4, <2>1, <2>2, <2>3, <2>4, <2>6, <2>7, <2>8 DEF WorkerStep, AttemptStep, RecoveryStep
<1>5. ASSUME WorkerStep \/ RecoveryStep, crashes' = crashes
      PROVE  ~Crash
  BY <1>5 DEF Crash, SyncInv, CountOK
<1>6. QED
  BY <1>1, <1>2, <1>4, <1>5 DEF Next

\* Where no write has failed in the end, none fails on the way.
LEMMA SteadyBefore ==
  ASSUME SyncInv, [Next]_vars, Steady'
  PROVE  Steady /\ ~WriteFails /\ failures' = failures
<1>1. failures \in Nat /\ crashes \in Nat
  BY SyncConstants DEF SyncInv, CountOK
<1>2. failures' = 0 /\ crashes' < 2
  BY DEF Steady
<1>3. crashes' \in {crashes, crashes + 1}
  BY FailuresCounted
<1>4. QED
  BY <1>1, <1>2, <1>3, FailuresCounted DEF Steady, WriteFails

\* A write that does not fail is saved.
LEMMA Saved ==
  ASSUME ~WriteFails
  PROVE  /\ ~PersistFails /\ ~ResumeFails /\ ~KeepEvidence
         /\ \A j : Note(j) => job' = j /\ disk' = j
         /\ \A j : Persist(j) => job' = j /\ disk' = j
  BY DEF PersistFails, ResumeFails, KeepEvidence, Note, Persist

\* What a step does to the views: nothing, or one collection is reported.
Reports(c, v) == /\ c \in Collections /\ v.outcome # "none"
                 /\ job'.view = [job.view EXCEPT ![c] = v]
ViewsStep == job'.view = job.view \/ \E c \in Collections, v \in Views : Reports(c, v)

\* A view that is written says something.
LEMMA WithViewReports ==
  ASSUME JobOK, NEW c \in Collections, NEW v, v.outcome # "none", job' = WithView(c, v)
  PROVE  Reports(c, v)
  BY DEF JobOK, JobRecords, WithView, Reports

\* Nothing changes for a collection whose view stays.
LEMMA ViewsStay ==
  ASSUME job'.view = job.view
  PROVE  /\ \A c : Blank(c)' <=> Blank(c)
         /\ \A c : Bad(c)' <=> Bad(c)
         /\ \A s : Unreported(s)' <=> Unreported(s)
  BY DEF Blank, Bad, Unreported

\* The view of one collection changes, and nothing about the others.
LEMMA ViewChanges ==
  ASSUME JobOK, NEW c, NEW v, Reports(c, v)
  PROVE  /\ job'.view[c] = v
         /\ \A d \in Collections \ {c} : /\ job'.view[d] = job.view[d]
                                         /\ Blank(d)' <=> Blank(d)
                                         /\ Bad(d)' <=> Bad(d)
         /\ ~Blank(c)'
         /\ Bad(c)' <=> v.outcome \in {"failed", "cancelled", "retry"}
         /\ \A s \in StageRecords : s.c # c => (Unreported(s)' <=> Unreported(s))
         /\ \A s : s.c = c => (Unreported(s)' <=> v.n < s.n \/ (v.n = s.n /\ v.seen # s.g))
<1>1. job.view \in [Collections -> Views]
  BY DEF JobOK, JobRecords
<1>2. \A d \in Collections : job'.view[d] = IF d = c THEN v ELSE job.view[d]
  BY <1>1 DEF Reports
<1>3. c \in Collections /\ v.outcome # "none"
  BY DEF Reports
<1>4. \A s \in StageRecords : s.c \in Collections
  BY DEF StageRecords
<1>5. \A s \in StageRecords : s.c # c => (Unreported(s)' <=> Unreported(s))
  BY <1>2, <1>4 DEF Unreported
<1>6. \A s : s.c = c => (Unreported(s)' <=> v.n < s.n \/ (v.n = s.n /\ v.seen # s.g))
  BY <1>2, <1>3 DEF Unreported
<1>7. QED
  BY <1>2, <1>3, <1>5, <1>6 DEF Blank, Bad

\* What is shown, committed or retried is a view.
LEMMA WorkerReports ==
  ASSUME SyncInv, disk = job, ~WriteFails, WorkerStep
  PROVE  disk' = job' /\ ViewsStep
<1>1. JobOK /\ item \in Items /\ err \in Errors
  BY DEF SyncInv, WorkOK
<1>2. \A id, s : Show(id).view = job.view /\ WithStatus(s).view = job.view
  BY <1>1, ViewsOf
<1>3. UNCHANGED jobVars => disk' = job' /\ ViewsStep
  BY DEF jobVars, ViewsStep
<1>4. ASSUME NEW c \in Collections, NEW v \in Views, v.outcome # "none", Persist(WithView(c, v)) \/ Note(WithView(c, v))
      PROVE  disk' = job' /\ ViewsStep
  BY <1>4, Saved, <1>1, WithViewReports DEF ViewsStep
<1>5. ASSUME NEW i \in 1..Len(pending), Pick(i) \/ WaitCancelled(i)
      PROVE  disk' = job' /\ ViewsStep
  BY <1>2, <1>3, <1>5, Saved DEF Pick, WaitCancelled, ViewsStep
<1>6. CASE Open \/ FetchFails \/ FetchStages \/ Install \/ Refuse \/ Mark \/ Checkpoint \/ Retire \/ Release
  BY <1>2, <1>3, <1>6, Saved
     DEF Open, FetchFails, FetchStages, Install, Refuse, Mark, Checkpoint, Retire, Release, ViewsStep
<1>7. CASE Clean \/ RecoveredRefuse \/ RecoveredMark
  BY <1>3, <1>7 DEF Clean, RecoveredRefuse, RecoveredMark
<1>8. ~CheckpointFails
  BY DEF CheckpointFails
<1>9. CASE Observe
  BY <1>9, <1>1, ViewTyped, <1>4 DEF Observe, SyncInv, ItemOK, HasItem, ViewOf, Outcomes
<1>10. CASE Settle
  <2>1. item.c \in Collections
    BY <1>10 DEF Settle, SyncInv, ItemOK, HasItem
  <2>2. Outcome(err) \in Outcomes /\ Outcome(err) # "none"
    BY <1>1, OutcomeTyped DEF Outcome
  <2>3. ViewOf(item, Outcome(err)) \in Views /\ ViewOf(item, Outcome(err)).outcome # "none"
    BY <1>1, <2>2, ViewTyped DEF ViewOf, SyncInv
  <2>4. Persist(WithView(item.c, ViewOf(item, Outcome(err))))
    BY <1>10, Saved DEF Settle
  <2>5. QED
    BY <1>4, <2>1, <2>3, <2>4
<1>11. CASE Finish
  BY <1>2, <1>3, <1>11, Saved DEF Finish, ViewsStep
<1>12. CASE RecoveredProject
  <2>1. PICK s \in StageRecords : s = ItemStage /\ s.c \in Collections
    BY <1>12, HasItemStage DEF RecoveredProject, HasStage, StageRecords
  <2>2. RecoveredView(s) \in Views /\ RecoveredView(s).outcome # "none"
    BY RecoveredViewTyped DEF RecoveredView
  <2>3. Persist(WithView(s.c, RecoveredView(s))) \/ UNCHANGED jobVars
    BY <1>12, <2>1, Saved DEF RecoveredProject
  <2>4. QED
    BY <1>3, <1>4, <2>1, <2>2, <2>3
<1>13. QED
  BY <1>5, <1>6, <1>7, <1>8, <1>9, <1>10, <1>11, <1>12 DEF WorkerStep, AttemptStep

\* As long as no write fails, jobs.json is the job.
LEMMA EveryReport ==
  ASSUME SyncInv, disk = job, ~WriteFails, [Next]_vars
  PROVE  disk' = job' /\ ViewsStep
<1>1. JobOK
  BY DEF SyncInv
<1>2. /\ \A id, s : Show(id).view = job.view /\ WithStatus(s).view = job.view
      /\ \A id, s : [WithStatus(s) EXCEPT !.shown = id].view = job.view
  BY <1>1, ViewsOf
<1>3. UNCHANGED jobVars => disk' = job' /\ ViewsStep
  BY DEF jobVars, ViewsStep
<1>4. ASSUME NEW c \in Collections, NEW v \in Views, v.outcome # "none", Persist(WithView(c, v))
      PROVE  disk' = job' /\ ViewsStep
  BY <1>4, Saved, <1>1, WithViewReports DEF ViewsStep
<1>5. CASE UNCHANGED vars \/ Cancel
  BY <1>3, <1>5 DEF vars, Cancel
<1>6. CASE Crash
  BY <1>6 DEF Crash, SyncInv, JobOK, JobRecords, ViewsStep
<1>7. Complete => disk' = job' /\ ViewsStep
  BY <1>2, <1>3, Saved DEF Complete, ViewsStep
<1>8. CASE DropTerminal \/ Reconciled \/ CompleteRetry \/ NoStages \/ CompleteSettled \/ FailInterrupted
  BY <1>2, <1>3, <1>7, <1>8, Saved
     DEF DropTerminal, Reconciled, CompleteRetry, NoStages, CompleteSettled, FailInterrupted, ViewsStep
<1>9. ASSUME NEW s \in journal,
             \/ ReconcileInstall(s) \/ ReconcileMark(s) \/ ReconcileProject(s)
             \/ MarkFurthest(s) \/ CompleteFurthest(s) \/ ResumeFurthest(s) \/ RejectFurthest(s)
      PROVE  disk' = job' /\ ViewsStep
  <2>1. s \in StageRecords /\ s.c \in Collections
    BY DEF SyncInv, JournalOK, Shaped, StageRecords
  <2>2. RecoveredView(s) \in Views /\ RecoveredView(s).outcome # "none"
    BY <2>1, RecoveredViewTyped DEF RecoveredView
  <2>3. CASE Persist(WithView(s.c, RecoveredView(s)))
    BY <1>4, <2>1, <2>2, <2>3
  <2>4. CASE ReconcileInstall(s) \/ ReconcileMark(s) \/ MarkFurthest(s) \/ RejectFurthest(s)
    BY <1>2, <1>3, <2>4, Saved DEF ReconcileInstall, ReconcileMark, MarkFurthest, RejectFurthest, ViewsStep
  <2>5. CASE ReconcileProject(s) \/ CompleteFurthest(s)
    BY <1>7, <2>3, <2>5, Saved DEF ReconcileProject, CompleteFurthest
  <2>6. CASE ResumeFurthest(s)
    <3>1. PICK j : j = [WithStatus("running") EXCEPT !.shown = Id(s)]
      OBVIOUS
    <3>2. j.view = job.view
      BY <1>2, <3>1
    <3>3. Persist(j)
      BY <2>6, <3>1, Saved DEF ResumeFurthest
    <3>4. QED
      BY <3>2, <3>3, Saved DEF ViewsStep
  <2>7. QED
    BY <1>9, <2>4, <2>5, <2>6
<1>10. ASSUME NEW c \in Collections, DropSettled(c) \/ DropExpired(c) \/ ResumeRetry(c)
       PROVE  disk' = job' /\ ViewsStep
  <2>1. CASE DropSettled(c) \/ ResumeRetry(c)
    BY <1>2, <1>3, <2>1, Saved DEF DropSettled, ResumeRetry, ViewsStep
  <2>2. CASE DropExpired(c)
    <3>1. PICK i : i = [NoItem EXCEPT !.c = c, !.n = check[c].n]
      OBVIOUS
    <3>2. check[c].n \in 0..Budget
      BY SyncConstants DEF SyncInv, CheckOK, Checks
    <3>3. i \in Items
      BY <3>1, <3>2 DEF NoItem, Items
    <3>4. ViewOf(i, "failed") \in Views /\ ViewOf(i, "failed").outcome # "none"
      BY <3>3, ViewTyped DEF ViewOf, SyncInv, Outcomes
    <3>5. Persist(WithView(c, ViewOf(i, "failed")))
      BY <2>2, <3>1, Saved DEF DropExpired
    <3>6. QED
      BY <1>4, <3>4, <3>5
  <2>3. QED
    BY <1>10, <2>1, <2>2
<1>11. CASE RecoveryStep
  BY <1>8, <1>9, <1>10, <1>11 DEF RecoveryStep
<1>12. QED
  BY <1>5, <1>6, <1>11, WorkerReports DEF Next

\* A view that was never written keeps its first attempt count.
LEMMA ViewsStaySound ==
  ASSUME SyncInv, ViewsSound, ~WriteFails, [Next]_vars
  PROVE  ViewsSound'
<1>1. disk = job
  BY DEF ViewsSound
<1>2. disk' = job' /\ ViewsStep
  BY <1>1, EveryReport
<1>3. CASE job'.view = job.view
  BY <1>2, <1>3 DEF ViewsSound, Blank
<1>4. ASSUME NEW c \in Collections, NEW v \in Views, Reports(c, v)
      PROVE  ViewsSound'
  BY <1>2, <1>4, ViewChanges DEF SyncInv, ViewsSound
<1>5. QED
  BY <1>2, <1>3, <1>4 DEF ViewsStep

\* What a schedule without its i-th entry holds (runSyncCollectionSchedule).
LEMMA WithoutHolds ==
  ASSUME SyncInv, NEW i \in 1..Len(pending), pending' = Without(i)
  PROVE  /\ Len(pending') = Len(pending) - 1
         /\ \A k \in 1..Len(pending') :
              pending'[k] = (IF k < i THEN pending[k] ELSE pending[k + 1])
<1>1. Len(pending) \in Nat /\ pending \in Seq(Waiting)
  BY LenProperties DEF SyncInv, WorkOK
<1>2. PICK a : a = SubSeq(pending, 1, i - 1)
  OBVIOUS
<1>3. PICK b : b = SubSeq(pending, i + 1, Len(pending))
  OBVIOUS
<1>4. a \in Seq(Waiting) /\ Len(a) = i - 1 /\ \A k \in 1..(i - 1) : a[k] = pending[k]
  <2>1. 1 \in Int /\ i - 1 \in Int /\ i - 1 >= 0 /\ i - 1 <= Len(pending)
    BY <1>1
  <2>2. \A k \in 1..(i - 1) : pending[k] \in Waiting
    BY <1>1, ElementOfSeq
  <2>3. a \in Seq(Waiting) /\ Len(a) = IF 1 <= i - 1 THEN (i - 1) - 1 + 1 ELSE 0
    BY <1>1, <1>2, <2>1, <2>2, SubSeqProperties
  <2>4. \A k \in 1..((i - 1) - 1 + 1) : a[k] = pending[1 + k - 1]
    BY <1>1, <1>2, <2>1, <2>2, SubSeqProperties
  <2>5. QED
    BY <1>1, <2>3, <2>4
<1>5. b \in Seq(Waiting) /\ Len(b) = Len(pending) - i /\ \A k \in 1..(Len(pending) - i) : b[k] = pending[i + k]
  <2>1. i + 1 \in Int /\ Len(pending) \in Int
    BY <1>1
  <2>2. \A k \in (i + 1)..Len(pending) : pending[k] \in Waiting
    BY <1>1, ElementOfSeq
  <2>3. b \in Seq(Waiting) /\ Len(b) = IF i + 1 <= Len(pending) THEN Len(pending) - (i + 1) + 1 ELSE 0
    BY <1>1, <1>3, <2>1, <2>2, SubSeqProperties
  <2>4. \A k \in 1..(Len(pending) - (i + 1) + 1) : b[k] = pending[(i + 1) + k - 1]
    BY <1>1, <1>3, <2>1, <2>2, SubSeqProperties
  <2>5. QED
    BY <1>1, <2>3, <2>4
<1>6. pending' = a \o b
  BY <1>2, <1>3 DEF Without
<1>7. Len(pending') = Len(a) + Len(b)
  BY <1>4, <1>5, <1>6, ConcatProperties
<1>8. \A k \in 1..(Len(a) + Len(b)) : pending'[k] = IF k <= Len(a) THEN a[k] ELSE b[k - Len(a)]
  BY <1>4, <1>5, <1>6, ConcatProperties
<1>9. ASSUME NEW k \in 1..Len(pending')
      PROVE  pending'[k] = (IF k < i THEN pending[k] ELSE pending[k + 1])
  <2>1. Len(a) = i - 1 /\ Len(b) = Len(pending) - i
    BY <1>4, <1>5
  <2>2. CASE k < i
    BY <1>1, <1>4, <1>7, <1>8, <2>1, <2>2
  <2>3. CASE ~(k < i)
    BY <1>1, <1>7, <2>1, <2>3, <1>8, <1>5
  <2>4. QED
    BY <2>2, <2>3
<1>10. Len(pending') = Len(pending) - 1
  BY <1>4, <1>5, <1>1, <1>7
<1>11. QED
  BY <1>9, <1>10

\* Entries are typed.
LEMMA QueueTyped ==
  ASSUME SyncInv
  PROVE  /\ Queue \subseteq Waiting
         /\ \A i \in 1..Len(pending) : pending[i] \in Waiting /\ pending[i] \in Queue
         /\ \A p \in Waiting : p.c \in Collections /\ p.c \in Nat /\ p.n \in Nat
<1>1. \A i \in 1..Len(pending) : pending[i] \in Waiting
  BY ElementOfSeq DEF SyncInv, WorkOK
<1>2. \A p \in Waiting : p.c \in Collections /\ p.n \in Nat
  BY SyncConstants DEF Waiting
<1>3. QED
  BY <1>1, <1>2, SyncConstants DEF Queue

\* An entry that is taken leaves the others in their order.
LEMMA TakenFromQueue ==
  ASSUME SyncInv, QueueOrdered, NEW i \in 1..Len(pending), pending' = Without(i)
  PROVE  /\ QueueOrdered'
         /\ BlanksFirst => BlanksFirst'
         /\ Queue' \subseteq Queue
         /\ \A p \in Queue : p = pending[i] \/ p \in Queue'
         /\ \A p \in Queue' : p.c # pending[i].c
<1>1. Len(pending) \in Nat
  BY LenProperties DEF SyncInv, WorkOK
<1> DEFINE at(k) == IF k < i THEN k ELSE k + 1
<1>2. /\ Len(pending') = Len(pending) - 1
      /\ \A k \in 1..Len(pending') : pending'[k] = pending[at(k)]
  BY WithoutHolds
<1>3. \A k \in 1..Len(pending') : at(k) \in 1..Len(pending) /\ at(k) # i
  BY <1>1, <1>2
<1>4. \A k, l \in 1..Len(pending') : k < l => at(k) < at(l)
  BY <1>1, <1>2
<1>5. \A m \in 1..Len(pending) : m = i \/ \E k \in 1..Len(pending') : at(k) = m
  <2>1. SUFFICES ASSUME NEW m \in 1..Len(pending), m # i
                 PROVE  \E k \in 1..Len(pending') : at(k) = m
    OBVIOUS
  <2>2. CASE m < i
    BY <1>1, <1>2, <2>2
  <2>3. CASE m > i
    <3>1. m - 1 \in 1..Len(pending') /\ at(m - 1) = m
      BY <1>1, <1>2, <2>3
    <3>2. QED
      BY <3>1
  <2>4. QED
    BY <1>1, <2>1, <2>2, <2>3
<1> HIDE DEF at
<1>6. QueueOrdered'
  <2>1. ASSUME NEW k \in 1..Len(pending'), NEW l \in 1..Len(pending'), k < l
        PROVE  /\ pending'[k].c # pending'[l].c
               /\ pending'[k].n = 0 /\ pending'[l].n = 0 => pending'[k].c < pending'[l].c
    <3>1. PICK a \in 1..Len(pending) : a = at(k)
      BY <1>3
    <3>2. PICK b \in 1..Len(pending) : b = at(l)
      BY <1>3
    <3>3. a < b /\ pending'[k] = pending[a] /\ pending'[l] = pending[b]
      BY <1>2, <1>4, <2>1, <3>1, <3>2
    <3>4. QED
      BY <3>3 DEF QueueOrdered
  <2>2. QED
    BY <2>1 DEF QueueOrdered
<1>7. BlanksFirst => BlanksFirst'
  <2>1. ASSUME BlanksFirst, NEW k \in 1..Len(pending'), NEW l \in 1..Len(pending'), k < l, pending'[l].n = 0
        PROVE  pending'[k].n = 0
    <3>1. PICK a \in 1..Len(pending) : a = at(k)
      BY <1>3
    <3>2. PICK b \in 1..Len(pending) : b = at(l)
      BY <1>3
    <3>3. a < b /\ pending'[k] = pending[a] /\ pending'[l] = pending[b]
      BY <1>2, <1>4, <2>1, <3>1, <3>2
    <3>4. QED
      BY <2>1, <3>3 DEF BlanksFirst
  <2>2. QED
    BY <2>1 DEF BlanksFirst
<1>8. Queue' \subseteq Queue
  BY <1>2, <1>3 DEF Queue
<1>9. \A p \in Queue : p = pending[i] \/ p \in Queue'
  <2>1. SUFFICES ASSUME NEW m \in 1..Len(pending), m # i
                 PROVE  \E k \in 1..Len(pending') : pending'[k] = pending[m]
    BY DEF Queue
  <2>2. PICK k \in 1..Len(pending') : at(k) = m
    BY <1>5, <2>1
  <2>3. QED
    BY <1>2, <2>2
<1>10. \A p \in Queue' : p.c # pending[i].c
  <2>1. ASSUME NEW k \in 1..Len(pending')
        PROVE  pending'[k].c # pending[i].c
    BY <1>3, <1>1, <1>2 DEF QueueOrdered
  <2>2. QED
    BY <2>1 DEF Queue
<1>11. QED
  BY <1>6, <1>7, <1>8, <1>9, <1>10

\* A retry goes to the end.
LEMMA RetryQueued ==
  ASSUME SyncInv, QueueOrdered, NEW q, q.n > 0, q.n \in Nat, pending' = Append(pending, q),
         \A p \in Queue : p.c # q.c
  PROVE  /\ QueueOrdered'
         /\ BlanksFirst => BlanksFirst'
         /\ Queue' = Queue \cup {q}
<1>1. Len(pending) \in Nat /\ pending \in Seq(Waiting)
  BY LenProperties DEF SyncInv, WorkOK
<1>2. /\ Len(pending') = Len(pending) + 1
      /\ \A k \in 1..Len(pending) : pending'[k] = pending[k]
      /\ pending'[Len(pending) + 1] = q
  BY <1>1
<1>3. \A k \in 1..Len(pending') : k \in 1..Len(pending) \/ k = Len(pending) + 1
  BY <1>1, <1>2
<1>4. \A k \in 1..Len(pending) : pending[k].c # q.c
  BY DEF Queue
<1>5. QueueOrdered'
  <2>1. ASSUME NEW k \in 1..Len(pending'), NEW l \in 1..Len(pending'), k < l
        PROVE  /\ pending'[k].c # pending'[l].c
               /\ pending'[k].n = 0 /\ pending'[l].n = 0 => pending'[k].c < pending'[l].c
    BY <1>1, <1>2, <2>1, <1>4, <1>3 DEF QueueOrdered
  <2>2. QED
    BY <2>1 DEF QueueOrdered
<1>6. BlanksFirst => BlanksFirst'
  <2>1. ASSUME BlanksFirst, NEW k \in 1..Len(pending'), NEW l \in 1..Len(pending'), k < l, pending'[l].n = 0
        PROVE  pending'[k].n = 0
    BY <1>1, <1>2, <1>3, <2>1 DEF BlanksFirst
  <2>2. QED
    BY <2>1 DEF BlanksFirst
<1>7. Queue' = Queue \cup {q}
  BY <1>2, <1>3, <1>1 DEF Queue
<1>8. QED
  BY <1>5, <1>6, <1>7

\* The entries of a schedule: every collection once, in order.
LEMMA ScheduleHolds ==
  ASSUME NEW S \in SUBSET Collections
  PROVE  /\ \A i \in 1..Len(Schedule(S)) : \E c \in S : Schedule(S)[i] = Entry(c)
         /\ \A c \in S : \E i \in 1..Len(Schedule(S)) : Schedule(S)[i] = Entry(c)
         /\ \A i, j \in 1..Len(Schedule(S)) : i < j => Schedule(S)[i].c < Schedule(S)[j].c
<1> DEFINE n == Cardinality(S)
<1> DEFINE rank == [c \in S |-> Cardinality({d \in S : d < c})]
<1> DEFINE at(i) == CHOOSE c \in S : Cardinality({d \in S : d < c}) = i - 1
<1>1. S \in SUBSET Nat /\ IsFiniteSet(S) /\ n \in Nat
  BY CollectionsFinite
<1>2. rank \in Injection(S, 0..(n - 1))
  BY <1>1, RankIsInjective
<1>3. \A c \in S : rank[c] \in 0..(n - 1)
  BY <1>2 DEF Injection
<1>4. \A c, d \in S : rank[c] = rank[d] => c = d
  BY <1>2 DEF Injection, IsInjective
<1>5. \A i \in 1..n : at(i) \in S /\ rank[at(i)] = i - 1
  BY <1>1, RankExists
<1>6. Len(Schedule(S)) = n /\ \A i \in 1..n : Schedule(S)[i] = Entry(at(i))
  BY <1>1 DEF Schedule
<1>7. \A c, d \in S : rank[c] < rank[d] => c < d
  <2>1. SUFFICES ASSUME NEW c \in S, NEW d \in S, rank[c] < rank[d], ~(c < d)
                 PROVE  FALSE
    OBVIOUS
  <2>2. d <= c /\ c \in Nat /\ d \in Nat
    BY <1>1, <2>1
  <2>3. {e \in S : e < d} \in SUBSET {e \in S : e < c}
    <3>1. \A e \in S : e < d => e < c
      BY <1>1, <2>2
    <3>2. QED
      BY <3>1
  <2>4. {e \in S : e < c} \in SUBSET S
    OBVIOUS
  <2>5. IsFiniteSet({e \in S : e < c})
    BY <1>1, <2>4, FS_Subset
  <2>6. Cardinality({e \in S : e < d}) <= Cardinality({e \in S : e < c})
    BY <2>3, <2>5, FS_Subset
  <2>7. rank[d] <= rank[c]
    BY <2>6
  <2>8. rank[d] \in Nat /\ rank[c] \in Nat
    BY <1>3
  <2>9. QED
    BY <2>1, <2>7, <2>8
<1> HIDE DEF rank, at, n
<1>8. \A i \in 1..n : Schedule(S)[i].c = at(i)
  BY <1>6 DEF Entry
<1>9. \A i, j \in 1..n : i < j => at(i) < at(j)
  <2>1. ASSUME NEW i \in 1..n, NEW j \in 1..n, i < j
        PROVE  at(i) < at(j)
    <3>1. rank[at(i)] < rank[at(j)]
      BY <1>1, <1>5, <2>1
    <3>2. QED
      BY <1>5, <1>7, <3>1
  <2>2. QED
    BY <2>1
<1>10. \A c \in S : \E i \in 1..n : at(i) = c
  <2>1. SUFFICES ASSUME NEW c \in S PROVE \E i \in 1..n : at(i) = c
    OBVIOUS
  <2>2. rank[c] + 1 \in 1..n /\ rank[at(rank[c] + 1)] = rank[c]
    BY <1>1, <1>3, <1>5
  <2>3. QED
    BY <1>4, <1>5, <2>2
<1>11. QED
  BY <1>5, <1>6, <1>8, <1>9, <1>10

\* The position of a stage in its workflow is a number, zero for a retry.
LEMMA CurTyped ==
  ASSUME NEW s \in StageRecords
  PROVE  /\ Cur(s) \in Nat /\ Cur(s) <= Cardinality(Collections)
         /\ s.list = {s.c} => Cur(s) = 0
<1>1. {d \in s.list : d < s.c} \in SUBSET Collections /\ s.c \in Nat
  BY SyncConstants DEF StageRecords
<1>2. Cur(s) \in Nat
  BY <1>1, CollectionsFinite DEF Cur
<1>3. Cur(s) <= Cardinality(Collections)
  BY <1>1, SyncConstants, FS_Subset DEF Cur
<1>4. s.list = {s.c} => {d \in s.list : d < s.c} = {}
  BY <1>1
<1>5. QED
  BY <1>2, <1>3, <1>4, FS_EmptySet DEF Cur

\* A journal that is not empty has a furthest stage (laterSyncWorkflowStage).
LEMMA FurthestExists ==
  ASSUME NEW J, Shaped(J), StagesDiffer(J), J # {}
  PROVE  \E s \in J : \A t \in J \ {s} : Later(s, t)
<1>1. \A s \in J : s \in StageRecords /\ Cur(s) \in Nat /\ Cur(s) <= Cardinality(Collections)
  BY CurTyped DEF Shaped
<1>2. Cardinality(Collections) \in Nat
  BY CollectionsFinite
<1> DEFINE C == {Cur(s) : s \in J}
<1>3. PICK m \in C : \A k \in C : k <= m
  <2>1. C \in SUBSET Nat /\ C # {} /\ \A k \in C : k <= Cardinality(Collections)
    BY <1>1
  <2>2. IsFiniteSet(C)
    <3> HIDE DEF C
    <3>1. QED
      BY <1>2, <2>1, FS_BoundedSetOfNaturals
  <2> HIDE DEF C
  <2>3. QED
    BY <2>1, <2>2, LargestExists
<1> DEFINE A == {s.at : s \in {t \in J : Cur(t) = m}}
<1>4. PICK a \in A : \A k \in A : k <= a
  <2>1. PICK b \in Nat : \A s \in J : s.at <= b
    BY DEF Shaped
  <2>2. A \in SUBSET Nat /\ A # {} /\ \A k \in A : k <= b
    BY <1>1, <2>1 DEF StageRecords
  <2>3. IsFiniteSet(A)
    <3> HIDE DEF A
    <3>1. QED
      BY <2>1, <2>2, FS_BoundedSetOfNaturals
  <2> HIDE DEF A
  <2>4. QED
    BY <2>2, <2>3, LargestExists
<1>5. PICK s \in J : Cur(s) = m /\ s.at = a
  BY <1>4
<1>6. ASSUME NEW t \in J \ {s}
      PROVE  Later(s, t)
  <2>1. Cur(t) <= m /\ Cur(t) \in Nat /\ m \in Nat
    BY <1>1, <1>3, <1>5
  <2>2. CASE Cur(t) = m
    BY <1>4, <1>5, <2>2, <1>1 DEF StagesDiffer, StageRecords, Later
  <2>3. QED
    BY <1>5, <2>1, <2>2 DEF Later
<1>7. QED
  BY <1>6

\* What recovery relies on besides: types, verdicts, checkpoints, the journal.
Ground == SyncInv /\ LedgerInv /\ RetryInv /\ CompleteInv /\ JournalInv /\ ViewsSound

\* The stage of the item is the only one with its name.
LEMMA TheOwnStage ==
  ASSUME SyncInv, JournalInv, pc \in HasStage
  PROVE  \E s \in journal : s = ItemStage /\ Own(s) /\ \A t \in journal : Own(t) => t = s
<1>1. PICK s \in journal : s = ItemStage /\ Id(s) = <<item.c, item.n>>
  BY HasItemStage
<1>2. QED
  BY <1>1 DEF Own, Id, JournalInv, StagesDiffer

\* The end of an attempt keeps the item but for its rows.
LEMMA ItemKept ==
  ASSUME SyncInv, NEW e, NEW rows, Attempted(e, rows)
  PROVE  item'.c = item.c /\ item'.n = item.n /\ pc' = "decide" /\ err' = e
  BY DEF Attempted, SyncInv, WorkOK, Items

\* A stage that is lost or changes its phase leaves the fresh ones ahead.
LEMMA FreshStays ==
  ASSUME Loses \/ \E s \in journal, p \in {"staged", "committed", "rejected"} : Moves(s, p),
         NEW e, FreshAhead(e)
  PROVE  FreshAhead(e)'
<1>1. CASE Loses
  BY <1>1 DEF Loses, FreshAhead
<1>2. ASSUME NEW s \in journal, NEW p, Moves(s, p)
      PROVE  FreshAhead(e)'
  <2>1. PICK u : journal' \subseteq (journal \ {s}) \cup {u} /\ SameBatch(u, s)
    BY <1>2 DEF Moves
  <2>2. u.n = 1 /\ u.c # e => u.c < e /\ e \in u.list
    BY <2>1 DEF FreshAhead, SameBatch
  <2>3. QED
    BY <2>1, <2>2 DEF FreshAhead
<1>3. QED
  BY <1>1, <1>2

\* The queue stays sound while it stays and the worker keeps its item.
LEMMA QueueStays ==
  ASSUME SyncInv, QueueSound, UNCHANGED <<pending, check>>,
         run'.list = run.list, run'.sel = run.sel,
         \A p \in Queue : p.n = 0 => FreshAhead(p.c)',
         pc' \in Flying => pc \in Flying /\ item'.c = item.c /\ item'.n = item.n
  PROVE  QueueSound'
<1>1. Scheduled' = Scheduled
  BY DEF Scheduled
<1>2. \A c : Chosen(c) => Chosen(c)'
  BY <1>1 DEF Chosen
<1>3. Queue' = Queue /\ QueueOrdered'
  BY DEF Queue, QueueSound, QueueOrdered
<1>4. ASSUME NEW p \in Queue
      PROVE  EntrySound(p)'
  BY <1>1, <1>2 DEF QueueSound, EntrySound
<1>5. QED
  BY <1>3, <1>4 DEF QueueSound

\* Opening the cache takes nothing from the queue, or everything.
LEMMA OpenWorks ==
  ASSUME Ground, WorkSound, ~WriteFails, Open
  PROVE  WorkSound'
<1>1. /\ pc = "open" /\ pc' = "pick"
      /\ UNCHANGED <<job, journal, check, receipts, degraded, item, err>>
      /\ run'.list = run.list /\ run'.sel = run.sel
  BY DEF Open, jobVars, fileVars, cacheVars, Ground, SyncInv, WorkOK, Runs
<1>2. QueueSound'
  <2>1. CASE UNCHANGED pending
    BY <1>1, <2>1, QueueStays DEF WorkSound, QueueSound, EntrySound, FreshAhead, Ground, Flying
  <2>2. CASE pending' = <<>>
    BY <2>2 DEF QueueSound, QueueOrdered, Queue
  <2>3. QED
    BY <2>1, <2>2 DEF Open
<1>3. FlightSound'
  BY <1>1 DEF FlightSound, Flying, Trying
<1>4. ShownInFlight'
  BY <1>1 DEF WorkSound, ShownInFlight, Erring, Bad
<1>5. KnownInFlight'
  BY <1>1 DEF WorkSound, KnownInFlight, Cached, Blank
<1>6. QED
  BY <1>2, <1>3, <1>4, <1>5 DEF WorkSound

\* A due entry is the first of the new ones.
LEMMA PickWorks ==
  ASSUME Ground, WorkSound, ~WriteFails, NEW i \in 1..Len(pending), Pick(i)
  PROVE  WorkSound'
<1>0. SyncInv /\ QueueSound /\ Len(pending) \in Nat
  BY LenProperties DEF Ground, WorkSound, SyncInv, WorkOK
<1>1. PICK q \in Queue : q = pending[i] /\ q \in Waiting /\ q.c \in Nat /\ q.n \in Nat
  BY <1>0, QueueTyped
<1>2. /\ pc = "pick" /\ pc' = "fetch" /\ pending' = Without(i)
      /\ UNCHANGED <<journal, check, receipts, degraded, run>>
  BY DEF Pick, fileVars, cacheVars
<1>3. item' = [q EXCEPT !.n = q.n + 1, !.later = FALSE]
  BY <1>1 DEF Pick
<1>4. item'.c = q.c /\ item'.n = q.n + 1
  BY <1>1, <1>3 DEF Waiting
<1>5. job'.view = job.view
  BY Saved, ViewsOf DEF Pick, Ground, SyncInv
<1>6. /\ Scheduled' = Scheduled
      /\ \A c : Chosen(c) => Chosen(c)'
      /\ \A e : FreshAhead(e) => FreshAhead(e)'
  BY <1>2 DEF Scheduled, Chosen, FreshAhead
<1>7. /\ QueueOrdered' /\ Queue' \subseteq Queue
      /\ \A p \in Queue' : p.c # q.c
  BY <1>0, <1>1, <1>2, TakenFromQueue DEF QueueSound
<1>8. \A p \in Queue' : q.n = 0 /\ p.n = 0 => q.c < p.c
  <2>1. SUFFICES ASSUME NEW p \in Queue', q.n = 0, p.n = 0 PROVE q.c < p.c
    OBVIOUS
  <2>2. PICK j \in 1..Len(pending) : p = pending[j]
    BY <1>7 DEF Queue
  <2>3. ~p.later
    BY <1>0, <1>7, <2>1 DEF QueueSound, EntrySound
  <2>4. ~(j < i)
    BY <1>0, <2>2, <2>3 DEF Pick, Due
  <2>5. j # i
    BY <1>1, <1>7, <2>2
  <2>6. i < j
    BY <1>0, <2>4, <2>5
  <2>7. QED
    BY <1>0, <1>1, <2>1, <2>2, <2>6 DEF QueueSound, QueueOrdered
<1>9. QueueSound'
  <2>1. ASSUME NEW p \in Queue'
        PROVE  EntrySound(p)'
    BY <1>0, <1>7, <1>1, <1>4, <1>8, <1>6 DEF QueueSound, EntrySound
  <2>2. QED
    BY <1>7, <2>1 DEF QueueSound
<1>10. FlightSound'
  <2>1. EntrySound(q)
    BY <1>0 DEF QueueSound
  <2>2. item'.n >= 1 /\ Chosen(q.c)' /\ (item'.n > 1 => q.c \in Scheduled')
    BY <1>1, <1>4, <1>6, <2>1 DEF EntrySound
  <2>3. item'.n = 1 => FreshAhead(q.c)'
    BY <1>1, <1>4, <1>6, <2>1 DEF EntrySound
  <2>4. Chosen(item.c)'
    BY <1>4, <2>2 DEF Chosen
  <2>5. item'.n = 1 => FreshAhead(item.c)'
    BY <1>4, <2>3 DEF FreshAhead
  <2>6. QED
    BY <1>2, <1>4, <2>2, <2>4, <2>5 DEF FlightSound
<1>11. ShownInFlight'
  BY <1>2, <1>5 DEF WorkSound, ShownInFlight, Erring, Bad
<1>12. KnownInFlight'
  BY <1>2, <1>5 DEF WorkSound, KnownInFlight, Cached, Blank
<1>13. QED
  BY <1>9, <1>10, <1>11, <1>12 DEF WorkSound

\* The item stays chosen while the request and the checkpoints stay.
LEMMA ItemStaysChosen ==
  ASSUME SyncInv, FlightSound, pc \in Trying, UNCHANGED <<check, run>>, item'.c = item.c, item'.n = item.n
  PROVE  /\ item'.n >= 1 /\ Chosen(item.c)' /\ (item'.n > 1 => item'.c \in Scheduled')
         /\ Scheduled' = Scheduled
<1>1. Scheduled' = Scheduled
  BY DEF Scheduled
<1>2. item.n >= 1 /\ Chosen(item.c) /\ (item.n > 1 => item.c \in Scheduled)
  BY DEF FlightSound, Trying, Flying
<1>3. QED
  BY <1>1, <1>2 DEF Chosen

\* An attempt that ends without a batch leaves the files to the other ones.
LEMMA EmptyAttemptWorks ==
  ASSUME Ground, WorkSound, pc \in {"fetch", "commit"}, pc' = "decide", err' # "none",
         item'.c = item.c, item'.n = item.n,
         UNCHANGED <<pending, check, run, receipts, degraded, job>>,
         Loses \/ \E s \in journal, p \in {"staged", "committed", "rejected"} : Moves(s, p)
  PROVE  WorkSound'
<1>1. SyncInv /\ FlightSound /\ QueueSound /\ pc \in Trying /\ pc \in Flying
  BY DEF Ground, WorkSound, Trying, Flying
<1>2. QueueSound'
  BY <1>1, FreshStays, QueueStays DEF QueueSound, EntrySound
<1>3. FlightSound'
  BY <1>1, ItemStaysChosen DEF FlightSound
<1>4. ShownInFlight'
  BY <1>1 DEF WorkSound, ShownInFlight, Erring, Bad
<1>5. KnownInFlight'
  BY <1>1 DEF WorkSound, KnownInFlight, Cached, Blank
<1>6. QED
  BY <1>2, <1>3, <1>4, <1>5 DEF WorkSound

\* Nothing is fetched.
LEMMA FetchFailsWorks ==
  ASSUME Ground, WorkSound, ~WriteFails, FetchFails
  PROVE  WorkSound'
<1>1. PICK e \in {"transient", "permanent", "cancelled"} : Attempted(e, item.rows)
  BY DEF FetchFails
<1>2. item'.c = item.c /\ item'.n = item.n /\ pc' = "decide" /\ err' = e
  BY <1>1, ItemKept DEF Ground
<1>3. pc = "fetch" /\ UNCHANGED <<pending, check, run, receipts, degraded, job, journal>>
  BY DEF FetchFails, jobVars, fileVars, cacheVars
<1>4. QED
  BY <1>2, <1>3, EmptyAttemptWorks DEF Loses

\* What a refused or recorded commit does to the journal.
LEMMA RefuseMoves ==
  ASSUME Ground, Refuse, ~WriteFails
  PROVE  /\ \E e \in {"permanent", "cancelled"}, rows \in {item.rows, FALSE} : Attempted(e, rows)
         /\ Loses \/ \E s \in journal, p \in {"staged", "committed", "rejected"} : Moves(s, p)
<1>1. PICK e \in {"permanent", "cancelled"}, rows \in {item.rows, FALSE} : Refused(e) /\ Attempted(e, rows)
  BY DEF Refuse
<1>2. PICK s \in journal : s = ItemStage
  BY TheOwnStage DEF Ground, Refuse, HasStage
<1>3. journal' = Swept(InPhase(s, "rejected")) \/ journal' = Swept(journal)
  BY <1>1, <1>2 DEF Refused
<1>4. journal' = Swept(InPhase(s, "rejected")) => Moves(s, "rejected")
  BY WritingMoves DEF Ground, SyncInv, JournalInv
<1>5. journal' = Swept(journal) => Loses
  BY SweptShrinks DEF Loses
<1>6. QED
  BY <1>1, <1>3, <1>4, <1>5

\* What was fetched is refused.
LEMMA RefuseWorks ==
  ASSUME Ground, WorkSound, ~WriteFails, Refuse
  PROVE  WorkSound'
<1>1. PICK e \in {"permanent", "cancelled"}, rows \in {item.rows, FALSE} : Attempted(e, rows)
  BY RefuseMoves
<1>2. item'.c = item.c /\ item'.n = item.n /\ pc' = "decide" /\ err' = e
  BY <1>1, ItemKept DEF Ground
<1>3. pc = "commit" /\ UNCHANGED <<pending, check, run, receipts, degraded, job>>
  BY DEF Refuse, jobVars, cacheVars
<1>4. QED
  BY <1>2, <1>3, RefuseMoves, EmptyAttemptWorks

\* A wait that is cancelled ends a retry.
LEMMA WaitCancelledWorks ==
  ASSUME Ground, WorkSound, ~WriteFails, NEW i \in 1..Len(pending), WaitCancelled(i)
  PROVE  WorkSound'
<1>0. SyncInv /\ QueueSound
  BY DEF Ground, WorkSound
<1>1. PICK q \in Queue : q = pending[i] /\ q \in Waiting /\ q.c \in Nat /\ q.n \in Nat
  BY <1>0, QueueTyped
<1>2. /\ pc = "pick" /\ pc' = "decide" /\ pending' = Without(i) /\ item' = q /\ err' = "cancelled"
      /\ UNCHANGED <<job, journal, check, receipts, degraded, run>>
  BY <1>1 DEF WaitCancelled, jobVars, fileVars, cacheVars
<1>3. \A p \in Queue : p.n > 0 /\ EntrySound(p)
  BY <1>0 DEF WaitCancelled, Queue, QueueSound, EntrySound
<1>4. /\ Scheduled' = Scheduled
      /\ \A c : Chosen(c) => Chosen(c)'
  BY <1>2 DEF Scheduled, Chosen
<1>5. /\ QueueOrdered' /\ Queue' \subseteq Queue
      /\ \A p \in Queue' : p.c # q.c
  BY <1>0, <1>1, <1>2, TakenFromQueue DEF QueueSound
<1>6. QueueSound'
  <2>1. ASSUME NEW p \in Queue'
        PROVE  EntrySound(p)'
    BY <1>0, <1>3, <1>5, QueueTyped, <1>2, <1>4 DEF EntrySound
  <2>2. QED
    BY <1>5, <2>1 DEF QueueSound
<1>7. FlightSound'
  BY <1>1, <1>3, <1>4, <1>2 DEF EntrySound, Chosen, FlightSound
<1>8. ShownInFlight'
  BY <1>2 DEF WorkSound, ShownInFlight, Erring, Bad
<1>9. KnownInFlight'
  BY <1>2 DEF WorkSound, KnownInFlight, Cached, Blank
<1>10. QED
  BY <1>6, <1>7, <1>8, <1>9 DEF WorkSound

\* A first attempt that was fetched comes before every new entry.
LEMMA FetchStagesWorks ==
  ASSUME Ground, WorkSound, ~WriteFails, FetchStages
  PROVE  WorkSound'
<1>1. SyncInv /\ FlightSound /\ QueueSound /\ pc \in Trying /\ pc \in Flying
  BY DEF Ground, WorkSound, FetchStages, Trying, Flying
<1>2. PICK u : Adds(u)
  BY <1>1, FetchAdds
<1>3. /\ pc = "fetch" /\ pc' = "commit"
      /\ UNCHANGED <<check, receipts, degraded, pending, item, run>>
      /\ job'.view = job.view
  BY Saved, ViewsOf DEF FetchStages, Ground, SyncInv, cacheVars
<1>4. Swept(journal) \subseteq journal
  BY SweptShrinks
<1>5. \A e : FreshAhead(e) /\ (item.n = 1 => item.c = e \/ (item.c < e /\ e \in run.list)) => FreshAhead(e)'
  <2>1. SUFFICES ASSUME NEW e, FreshAhead(e), item.n = 1 => item.c = e \/ (item.c < e /\ e \in run.list),
                        NEW t \in journal', t.n = 1, t.c # e
                 PROVE  t.c < e /\ e \in t.list
    BY DEF FreshAhead
  <2>2. t \in journal \/ t = u
    BY <1>2, <1>4 DEF Adds
  <2>3. CASE t = u
    BY <1>2, <2>1, <2>3 DEF Adds, Own
  <2>4. QED
    BY <2>1, <2>2, <2>3 DEF FreshAhead
<1>6. QueueSound'
  <2>1. ASSUME NEW p \in Queue, p.n = 0
        PROVE  FreshAhead(p.c)'
    BY <1>1, <2>1, <1>5 DEF QueueSound, EntrySound, Chosen
  <2>2. QED
    BY <1>1, <1>3, <2>1, QueueStays
<1>7. FlightSound'
  BY <1>3, <1>5, <1>1, ItemStaysChosen DEF WorkSound, FlightSound
<1>8. ShownInFlight'
  BY <1>3 DEF WorkSound, ShownInFlight, Erring, Bad
<1>9. KnownInFlight'
  BY <1>3 DEF WorkSound, KnownInFlight, Cached, Blank
<1>10. QED
  BY <1>6, <1>7, <1>8, <1>9 DEF WorkSound

\* A batch that is installed says whether it is whole.
LEMMA InstallWorks ==
  ASSUME Ground, WorkSound, ~WriteFails, Install, pc = "commit"
  PROVE  WorkSound'
<1>1. SyncInv /\ JournalInv /\ FlightSound /\ QueueSound /\ pc \in Trying /\ pc \in Flying
  BY DEF Ground, WorkSound, Trying, Flying
<1>2. PICK s \in journal : s = ItemStage /\ Own(s) /\ \A t \in journal : Own(t) => t = s
  BY <1>1, TheOwnStage DEF HasStage
<1>3. /\ pc' = "mark" /\ CommitBatch(s)
      /\ UNCHANGED <<job, journal, check, pending, item, err, run>>
  BY <1>2 DEF Install, jobVars
<1>4. s.c = item.c /\ degraded' = Frontiers(s) /\ receipts' = receipts \cup {Receipt(s)} /\ Receipt(s)[1] = item.c
  BY <1>2, <1>3 DEF CommitBatch, Own, Receipt
<1>5. QueueSound'
  BY <1>1, <1>3, QueueStays DEF QueueSound, EntrySound, FreshAhead
<1>6. FlightSound'
  BY <1>3, <1>2, <1>4, <1>1, ItemStaysChosen DEF WorkSound, FlightSound, FreshAhead, Frontiers, Own
<1>7. ShownInFlight'
  <2>1. ASSUME NEW c \in degraded'
        PROVE  Bad(c)' \/ (c = item.c /\ \A t \in journal : Own(t) => t.err # "none")
    BY <1>3, <1>4, <1>2 DEF WorkSound, ShownInFlight, Erring, Bad, Frontiers
  <2>2. Erring' <=> \A t \in journal : Own(t) => t.err # "none"
    BY <1>3 DEF Erring, Own
  <2>3. QED
    BY <1>3, <2>1, <2>2 DEF ShownInFlight
<1>8. KnownInFlight'
  <2>1. ASSUME NEW c \in Collections, Cached(c)', Blank(c)'
        PROVE  c = item.c
    BY <1>3, <1>4, <2>1 DEF Blank, Cached, WorkSound, KnownInFlight
  <2>2. Covered(item.c)'
    BY <1>2, <1>3, <1>4 DEF Covered
  <2>3. QED
    BY <1>3, <2>1, <2>2 DEF KnownInFlight, Covered
<1>9. QED
  BY <1>5, <1>6, <1>7, <1>8 DEF WorkSound

\* What a step of Mark does to the journal and the item.
LEMMA MarkDoes ==
  ASSUME Ground, Mark, ~WriteFails, NEW s \in journal, s = ItemStage
  PROVE  /\ pc = "mark" /\ pc' = "decide" /\ err' = s.err
         /\ item'.c = item.c /\ item'.n = item.n
         /\ journal' = Swept(InPhase(s, "committed"))
         /\ UNCHANGED <<job, check, receipts, degraded, pending, run>>
<1>1. journal' = Swept(InPhase(ItemStage, "committed")) /\ Attempted(ItemStage.err, TRUE)
  BY DEF Mark
<1>2. item'.c = item.c /\ item'.n = item.n /\ pc' = "decide" /\ err' = ItemStage.err
  BY <1>1, ItemKept DEF Ground
<1>3. QED
  BY <1>1, <1>2 DEF Mark, jobVars, cacheVars

\* The stage of a journal at which recovery will look first survives its GC.
LEMMA FurthestSurvives ==
  ASSUME NEW K, Shaped(K), StagesDiffer(K), NEW u \in K, u \notin Swept(K)
  PROVE  \E m \in Swept(K) : /\ Cur(m) > 0 /\ m \in StageRecords /\ m # u
                             /\ \A t \in Swept(K) \ {m} : Later(m, t)
<1>1. PICK m \in K : \A t \in K \ {m} : Later(m, t)
  BY FurthestExists
<1>2. \A s \in K : s \in StageRecords /\ Cur(s) \in Nat
  BY CurTyped DEF Shaped
<1>3. \A t \in K : Cur(t) <= Cur(m)
  BY <1>1, <1>2 DEF Later
<1>4. m \in Swept(K)
  BY <1>3 DEF Swept
<1>5. PICK t \in K : Cur(t) > Cur(u)
  BY <1>2 DEF Swept
<1>6. Cur(m) > 0
  BY <1>2, <1>3, <1>5
<1>7. QED
  BY <1>1, <1>2, <1>4, <1>6, SweptShrinks

\* A committed batch that GC drops at once is not forgotten: a checkpoint asks
\* for its collection, or the furthest stage leaves it to do.
LEMMA MarkCovers ==
  ASSUME Ground, WorkSound, ~WriteFails, Mark, NEW c, c = item.c
  PROVE  Covered(c)'
<1>1. SyncInv /\ JournalInv /\ FlightSound /\ JournalOK /\ StagesDiffer(journal)
  BY DEF Ground, WorkSound, SyncInv, JournalInv
<1>2. PICK s \in journal : s = ItemStage /\ Own(s)
  BY <1>1, TheOwnStage DEF Mark, HasStage
<1>3. /\ pc = "mark" /\ journal' = Swept(InPhase(s, "committed"))
      /\ UNCHANGED <<job, check, receipts, degraded, pending, run>>
  BY <1>2, MarkDoes
<1>4. PICK u \in StageRecords : /\ InPhase(s, "committed") = (journal \ {s}) \cup {u}
                                /\ SameBatch(u, s) /\ u.phase = "committed" /\ u.at = Tick
  BY <1>1, PhaseStage
<1>5. PICK K : K = InPhase(s, "committed")
  OBVIOUS
<1>6. Shaped(K) /\ u \in K /\ K = (journal \ {s}) \cup {u} /\ journal' = Swept(K)
  BY <1>1, <1>3, <1>4, <1>5, InPhaseTyped
<1>7. StagesDiffer(K)
  <2>1. \A t \in journal \ {s} : Id(t) # Id(u)
    BY <1>1, <1>4, SameBatchSame DEF StagesDiffer
  <2>2. QED
    BY <1>1, <1>4, <1>6, <2>1, LastDiffers
<1>8. Scheduled' = Scheduled
  BY <1>3 DEF Scheduled
<1>9. u.c = c
  BY <1>2, <1>4 DEF SameBatch, Own
<1>10. CASE u \in Swept(K)
  BY <1>6, <1>9, <1>10 DEF Covered
<1>11. CASE u \notin Swept(K)
  <2>1. PICK m \in Swept(K) : /\ Cur(m) > 0 /\ m \in StageRecords /\ m # u
                              /\ \A t \in Swept(K) \ {m} : Later(m, t)
    BY <1>6, <1>7, <1>11, FurthestSurvives
  <2>2. m \in journal'
    BY <1>6, <2>1
  <2>3. CASE m.c = c
    BY <2>2, <2>3 DEF Covered
  <2>4. CASE m.c # c
    <3>1. m \in journal
      BY <1>6, <2>1, SweptShrinks
    <3>2. m.n = 1
      BY <1>1, <2>1, <3>1, CurTyped DEF JournalInv, StageSound, StageRecords
    <3>3. c \in run.list /\ \A d \in Scheduled : c \in check[d].sel
      BY <1>1, <1>3 DEF FlightSound, Trying, Chosen
    <3>4. CASE Scheduled # {}
      <4>1. PICK d \in Scheduled' : c \in check'[d].sel
        BY <1>3, <1>8, <3>3, <3>4
      <4>2. QED
        BY <4>1 DEF Covered, LeftToDo
    <3>5. CASE Scheduled = {} /\ m.phase = "rejected"
      BY <1>6, <2>1, <2>2, <3>5, <1>8 DEF IsLatest, Later, Cur, StopsAtRejected, Covered
    <3>6. CASE Scheduled = {} /\ m.phase # "rejected"
      <4>1. item.n = 1
        BY <1>1, <1>3, <3>6 DEF FlightSound, Trying, Flying, SyncInv, WorkOK, Items
      <4>2. FreshAhead(c)
        BY <1>1, <1>3, <4>1 DEF FlightSound
      <4>3. m.c < c /\ c \in m.list
        BY <2>4, <3>1, <3>2, <4>2 DEF FreshAhead
      <4>4. c \in Rest(m) /\ Rest(m)' = Rest(m)
        BY <1>1, <4>3, SyncConstants DEF Rest, StageRecords
      <4>5. c \in LeftToDo'
        BY <2>2, <3>6, <4>4 DEF LeftToDo
      <4>6. QED
        BY <4>5 DEF Covered
    <3>7. QED
      BY <3>4, <3>5, <3>6
  <2>5. QED
    BY <2>3, <2>4
<1>12. QED
  BY <1>10, <1>11

\* The journal learns of the commit.
LEMMA MarkWorks ==
  ASSUME Ground, WorkSound, ~WriteFails, Mark
  PROVE  WorkSound'
<1>1. SyncInv /\ JournalInv /\ FlightSound /\ QueueSound
  BY DEF Ground, WorkSound
<1>2. PICK s \in journal : s = ItemStage /\ Own(s) /\ \A t \in journal : Own(t) => t = s
  BY <1>1, TheOwnStage DEF Mark, HasStage
<1>3. /\ pc = "mark" /\ pc' = "decide" /\ err' = s.err
      /\ item'.c = item.c /\ item'.n = item.n
      /\ journal' = Swept(InPhase(s, "committed"))
      /\ UNCHANGED <<job, check, receipts, degraded, pending, run>>
  BY <1>2, MarkDoes
<1>4. Moves(s, "committed")
  BY <1>1, <1>3, WritingMoves DEF SyncInv, JournalInv
<1>5. pc \in Trying /\ pc \in Flying
  BY <1>3 DEF Trying, Flying
<1>6. QueueSound'
  BY <1>1, <1>4, FreshStays, <1>3, <1>5, QueueStays DEF QueueSound, EntrySound
<1>7. FlightSound'
  BY <1>1, <1>2, <1>3, <1>5, ItemStaysChosen DEF FlightSound
<1>8. ShownInFlight'
  BY <1>2, <1>3 DEF WorkSound, ShownInFlight, Erring, Bad
<1>9. KnownInFlight'
  <2>1. ASSUME NEW c \in Collections, Cached(c)', Blank(c)'
        PROVE  c = item.c
    BY <1>3, <2>1 DEF Blank, Cached, WorkSound, KnownInFlight
  <2>2. PICK d : d = item.c
    OBVIOUS
  <2>3. Covered(d)'
    BY <2>2, MarkCovers
  <2>4. QED
    BY <1>3, <2>1, <2>2, <2>3 DEF KnownInFlight
<1>10. QED
  BY <1>6, <1>7, <1>8, <1>9 DEF WorkSound

\* The end of the attempt of an item: nothing else changes.
LEMMA RetireWorks ==
  ASSUME Ground, WorkSound, ~WriteFails, Retire
  PROVE  WorkSound'
<1>1. SyncInv /\ FlightSound /\ QueueSound
  BY DEF Ground, WorkSound
<1>2. /\ pc = "retire" /\ pc' = "release" /\ journal' = WithoutStages(item.c)
      /\ UNCHANGED <<job, check, receipts, degraded, pending, item, err, run>>
  BY Saved DEF Retire, jobVars, cacheVars
<1>3. Loses
  BY <1>2 DEF Loses, WithoutStages
<1>4. QueueSound'
  BY <1>1, <1>3, FreshStays, <1>2, QueueStays DEF QueueSound, EntrySound, Flying
<1>5. FlightSound'
  BY <1>1, <1>2 DEF FlightSound, Flying, Trying
<1>6. ShownInFlight'
  BY <1>2 DEF WorkSound, ShownInFlight, Erring, Bad
<1>7. KnownInFlight'
  BY <1>2 DEF WorkSound, KnownInFlight, Cached, Blank
<1>8. QED
  BY <1>4, <1>5, <1>6, <1>7 DEF WorkSound

\* The checkpoint of the item asks for what the request asks for.
LEMMA CheckpointAdds ==
  ASSUME SyncInv, FlightSound, Checkpoint
  PROVE  /\ pc = "decide" /\ pc' = "observe" /\ err = "transient"
         /\ UNCHANGED <<job, disk, journal, receipts, degraded, pending, item, err, run>>
         /\ item.c \in Collections /\ item.n \in Nat /\ item.n >= 1
         /\ Scheduled' = Scheduled \cup {item.c}
         /\ check'[item.c].n = item.n /\ check'[item.c].sel = run.sel
         /\ \A d \in Collections \ {item.c} : check'[d] = check[d]
<1>1. /\ pc = "decide" /\ pc' = "observe" /\ err = "transient"
      /\ check' = [check EXCEPT ![item.c] = [n |-> item.n, sel |-> run.sel]]
      /\ UNCHANGED <<job, disk, journal, receipts, degraded, pending, item, err, run>>
  BY DEF Checkpoint, Retryable, jobVars, cacheVars
<1>2. item.c \in Collections /\ item.n \in Nat /\ item.n >= 1
  BY <1>1, SyncConstants DEF SyncInv, ItemOK, HasItem, WorkOK, Items, FlightSound, Flying
<1>3. \A d \in Collections : check'[d] = IF d = item.c THEN [n |-> item.n, sel |-> run.sel] ELSE check[d]
  BY <1>1 DEF SyncInv, CheckOK
<1>4. check'[item.c].n = item.n /\ check'[item.c].sel = run.sel
  BY <1>2, <1>3
<1>5. Scheduled' = Scheduled \cup {item.c}
  BY <1>2, <1>3, <1>4 DEF Scheduled
<1>6. QED
  BY <1>1, <1>2, <1>3, <1>4, <1>5

\* The checkpoint of a retry is written before the retry is shown.
LEMMA CheckpointWorks ==
  ASSUME Ground, WorkSound, ~WriteFails, Checkpoint
  PROVE  WorkSound'
<1>1. SyncInv /\ FlightSound /\ QueueSound
  BY DEF Ground, WorkSound
<1>2. /\ pc = "decide" /\ pc' = "observe" /\ err = "transient"
      /\ UNCHANGED <<job, disk, journal, receipts, degraded, pending, item, err, run>>
      /\ item.c \in Collections /\ item.n >= 1
      /\ Scheduled' = Scheduled \cup {item.c}
      /\ check'[item.c].sel = run.sel
      /\ \A d \in Collections \ {item.c} : check'[d] = check[d]
  BY <1>1, CheckpointAdds
<1>3. \A c : Chosen(c) => Chosen(c)'
  BY <1>2 DEF Scheduled, Chosen
<1>4. QueueSound'
  <2>1. Queue' = Queue /\ QueueOrdered'
    BY <1>1, <1>2 DEF Queue, QueueSound, QueueOrdered
  <2>2. ASSUME NEW p \in Queue
        PROVE  EntrySound(p)'
    BY <1>1, <1>2, <1>3 DEF QueueSound, EntrySound, FreshAhead, Flying
  <2>3. QED
    BY <2>1, <2>2 DEF QueueSound
<1>5. FlightSound'
  <2>1. PICK d : d = item.c
    OBVIOUS
  <2>2. Chosen(d)'
    BY <1>1, <1>2, <1>3, <2>1 DEF FlightSound, Trying
  <2>3. Chosen(item.c)'
    BY <1>2, <2>1, <2>2 DEF Chosen
  <2>4. QED
    BY <1>2, <2>3 DEF FlightSound
<1>6. ShownInFlight'
  BY <1>2 DEF WorkSound, ShownInFlight, Erring, Bad
<1>7. KnownInFlight'
  BY <1>2 DEF Covered, WorkSound, KnownInFlight, Blank, Cached
<1>8. QED
  BY <1>4, <1>5, <1>6, <1>7 DEF WorkSound

\* What a view of the item says, and that it is what the job then shows.
LEMMA ItemReported ==
  ASSUME SyncInv, pc \in HasItem, NEW o \in Outcomes \ {"none"},
         job' = WithView(item.c, ViewOf(item, o)), NEW c, c = item.c
  PROVE  /\ Reports(c, ViewOf(item, o))
         /\ job'.view[c] = ViewOf(item, o)
         /\ ViewOf(item, o).outcome = o /\ ViewOf(item, o).n = item.n
         /\ \A d \in Collections \ {c} : /\ job'.view[d] = job.view[d]
                                         /\ Blank(d)' <=> Blank(d)
                                         /\ Bad(d)' <=> Bad(d)
         /\ ~Blank(c)'
         /\ Bad(c)' <=> o \in {"failed", "cancelled", "retry"}
<1>1. c \in Collections /\ JobOK
  BY DEF SyncInv, ItemOK
<1>2. PICK v : v = ViewOf(item, o)
  OBVIOUS
<1>3. v.outcome = o /\ v.n = item.n
  BY <1>2 DEF ViewOf
<1>4. Reports(c, v)
  BY <1>1, <1>2, <1>3, WithViewReports
<1>5. QED
  BY <1>1, <1>2, <1>3, <1>4, ViewChanges

\* What is not shown, or not known, is not the item any more.
LEMMA ItemShown ==
  ASSUME Ground, WorkSound, pc \in {"decide", "observe"}, NEW o \in Outcomes \ {"none"},
         o \in {"failed", "cancelled", "retry"} \/ (pc = "decide" /\ err = "none"),
         job' = WithView(item.c, ViewOf(item, o)), UNCHANGED <<receipts, degraded>>
  PROVE  /\ \A c \in degraded' : Bad(c)'
         /\ \A c \in Collections : ~(Cached(c)' /\ Blank(c)')
<1>1. SyncInv /\ pc \in HasItem
  BY DEF Ground, HasItem
<1>2. PICK q \in Collections : q = item.c
  BY <1>1 DEF SyncInv, ItemOK
<1>3. /\ \A d \in Collections \ {q} : (Blank(d)' <=> Blank(d)) /\ (Bad(d)' <=> Bad(d))
      /\ ~Blank(q)' /\ (Bad(q)' <=> o \in {"failed", "cancelled", "retry"})
  BY <1>1, <1>2, ItemReported
<1>4. ASSUME NEW c \in degraded
      PROVE  Bad(c)'
  <2>1. c \in Collections
    BY <1>1 DEF SyncInv, CacheOK
  <2>2. CASE c # q
    BY <1>2, <1>3, <2>1, <2>2 DEF WorkSound, ShownInFlight
  <2>3. CASE c = q
    BY <1>2, <2>3, <1>3 DEF WorkSound, FlightSound
  <2>4. QED
    BY <2>2, <2>3
<1>5. ASSUME NEW c \in Collections, Cached(c)', Blank(c)'
      PROVE  FALSE
  BY <1>3, <1>5, <1>2 DEF Cached, WorkSound, KnownInFlight
<1>6. QED
  BY <1>4, <1>5

\* The retry is shown and waits in the queue.
LEMMA ObserveWorks ==
  ASSUME Ground, WorkSound, ~WriteFails, Observe
  PROVE  WorkSound'
<1>1. SyncInv /\ FlightSound /\ QueueSound /\ pc = "observe"
  BY DEF Ground, WorkSound, Observe
<1>2. /\ pc' = "pick" /\ job' = WithView(item.c, ViewOf(item, "retry"))
      /\ UNCHANGED <<journal, check, receipts, degraded, item, err, run>>
  BY Saved DEF Observe, fileVars, cacheVars
<1>3. PICK q : q = [item EXCEPT !.later = TRUE]
  OBVIOUS
<1>4. q.c = item.c /\ q.n = item.n /\ q.later = TRUE /\ item.n \in Nat /\ item.n >= 1
  BY <1>1, <1>3, SyncConstants DEF SyncInv, WorkOK, Items, FlightSound, Flying
<1>5. \A p \in Queue : p.c # q.c
  BY <1>1, <1>4 DEF QueueSound, EntrySound, Flying
<1>6. QueueOrdered' /\ Queue' = Queue \cup {q}
  <2>1. pending' = Append(pending, q)
    BY <1>3 DEF Observe
  <2>2. q.n > 0 /\ q.n \in Nat /\ QueueOrdered
    BY <1>1, <1>4 DEF QueueSound
  <2>3. QED
    BY <1>1, <1>5, <2>1, <2>2, RetryQueued
<1>7. Scheduled' = Scheduled /\ \A c : Chosen(c) => Chosen(c)'
  BY <1>2 DEF Scheduled, Chosen
<1>8. QueueSound'
  <2>1. ASSUME NEW p \in Queue
        PROVE  EntrySound(p)'
    BY <1>1, <1>2, <1>7 DEF QueueSound, EntrySound, FreshAhead, Flying
  <2>2. EntrySound(q)'
    BY <1>1, <1>4, <1>7, <1>2 DEF FlightSound, Trying, Ground, RetryInv, EntrySound, Flying
  <2>3. QED
    BY <1>6, <2>1, <2>2 DEF QueueSound
<1>9. FlightSound'
  BY <1>2 DEF FlightSound, Flying, Trying
<1>10. (\A c \in degraded' : Bad(c)') /\ \A c \in Collections : ~(Cached(c)' /\ Blank(c)')
  BY <1>1, <1>2, ItemShown DEF Outcomes
<1>11. ShownInFlight' /\ KnownInFlight'
  BY <1>10 DEF ShownInFlight, KnownInFlight
<1>12. QED
  BY <1>8, <1>9, <1>11 DEF WorkSound

\* What settling an item does.
LEMMA SettleDoes ==
  ASSUME Settle, ~WriteFails
  PROVE  /\ pc = "decide" /\ ~Retryable
         /\ job' = WithView(item.c, ViewOf(item, Outcome(err)))
         /\ pc' = IF item.n > 1 \/ item.resumed THEN "retire" ELSE "release"
         /\ run' = [run EXCEPT !.result = IF @ = "ok" /\ err # "none" THEN "error" ELSE @]
         /\ UNCHANGED <<journal, check, receipts, degraded, pending, item, err>>
<1>1. ~KeepEvidence
  BY Saved
<1>2. \A j : Persist(j) => job' = j
  BY Saved
<1>3. QED
  BY <1>1, <1>2 DEF Settle, fileVars, cacheVars

\* Only an attempt without error is shown as a success.
LEMMA OutcomeIs ==
  ASSUME NEW e \in Errors
  PROVE  /\ Outcome(e) \in {"success", "cancelled", "failed"}
         /\ Outcome(e) = "success" => e = "none"
         /\ Outcome(e) = "cancelled" <=> e = "cancelled"
<1>1. e \in {"none", "transient", "permanent", "cancelled"}
  BY DEF Errors
<1>2. QED
  BY <1>1 DEF Outcome

\* The collection gets its final view.
LEMMA SettleWorks ==
  ASSUME Ground, WorkSound, ~WriteFails, Settle
  PROVE  WorkSound'
<1>1. SyncInv /\ FlightSound /\ QueueSound
  BY DEF Ground, WorkSound
<1>2. /\ pc = "decide" /\ pc' \in {"retire", "release"}
      /\ job' = WithView(item.c, ViewOf(item, Outcome(err)))
      /\ run' = [run EXCEPT !.result = IF @ = "ok" /\ err # "none" THEN "error" ELSE @]
      /\ UNCHANGED <<journal, check, receipts, degraded, pending, item, err>>
  BY SettleDoes
<1>3. run'.list = run.list /\ run'.sel = run.sel
  BY <1>1, <1>2 DEF SyncInv, WorkOK, Runs
<1>4. QueueSound'
  BY <1>1, <1>2, <1>3, QueueStays DEF QueueSound, EntrySound, FreshAhead, Flying
<1>5. FlightSound'
  BY <1>1, <1>2 DEF FlightSound, Flying, Trying
<1>6. PICK o : o = Outcome(err)
  OBVIOUS
<1>7. o \in Outcomes \ {"none"} /\ (o \in {"failed", "cancelled", "retry"} \/ err = "none")
  BY <1>1, <1>6, OutcomeIs DEF Outcomes, SyncInv, WorkOK
<1>8. (\A c \in degraded' : Bad(c)') /\ \A c \in Collections : ~(Cached(c)' /\ Blank(c)')
  BY <1>2, <1>6, <1>7, ItemShown
<1>9. ShownInFlight' /\ KnownInFlight'
  BY <1>8 DEF ShownInFlight, KnownInFlight
<1>10. QED
  BY <1>4, <1>5, <1>9 DEF WorkSound

\* A checkpoint that goes takes the collection off the schedule.
LEMMA UnscheduleDoes ==
  ASSUME SyncInv, NEW c \in Collections, Unschedule(c)
  PROVE  /\ Scheduled' = Scheduled \ {c}
         /\ \A d \in Collections \ {c} : check'[d] = check[d]
         /\ check'[c] = NoCheck
<1>1. \A d \in Collections : check'[d] = IF d = c THEN NoCheck ELSE check[d]
  BY DEF Unschedule, SyncInv, CheckOK
<1>2. ~(NoCheck.n > 0)
  BY DEF NoCheck
<1>3. QED
  BY <1>1, <1>2 DEF Scheduled

\* Its checkpoint goes last.
LEMMA ReleaseWorks ==
  ASSUME Ground, WorkSound, ~WriteFails, Release
  PROVE  WorkSound'
<1>1. SyncInv /\ FlightSound /\ QueueSound
  BY DEF Ground, WorkSound
<1>2. /\ pc = "release" /\ pc' = "pick" /\ Unschedule(item.c)
      /\ UNCHANGED <<job, journal, receipts, degraded, pending, item, err, run>>
  BY Saved DEF Release, jobVars, cacheVars
<1>3. PICK q \in Collections : q = item.c
  BY <1>1, <1>2 DEF SyncInv, ItemOK, HasItem
<1>4. /\ Scheduled' = Scheduled \ {q}
      /\ \A d \in Collections \ {q} : check'[d] = check[d]
  BY <1>1, <1>2, <1>3, UnscheduleDoes
<1>5. \A c : Chosen(c) => Chosen(c)'
  BY <1>2, <1>4 DEF Chosen, Scheduled
<1>6. QueueSound'
  <2>1. Queue' = Queue /\ QueueOrdered'
    BY <1>1, <1>2 DEF Queue, QueueSound, QueueOrdered
  <2>2. ASSUME NEW p \in Queue
        PROVE  EntrySound(p)'
    BY <1>1, <1>2, <1>3, <1>4, <1>5 DEF QueueSound, EntrySound, Flying, FreshAhead
  <2>3. QED
    BY <2>1, <2>2 DEF QueueSound
<1>7. FlightSound'
  BY <1>2 DEF FlightSound, Flying, Trying
<1>8. ShownInFlight'
  BY <1>2 DEF WorkSound, ShownInFlight, Erring, Bad
<1>9. KnownInFlight'
  BY <1>2 DEF WorkSound, KnownInFlight, Cached, Blank
<1>10. QED
  BY <1>6, <1>7, <1>8, <1>9 DEF WorkSound

\* Every step of the worker from collection to collection keeps it so.
LEMMA WorkerWorks ==
  ASSUME Ground, WorkSound, ~WriteFails, Open \/ AttemptStep, pc \in Working
  PROVE  WorkSound'
<1>1. ~CheckpointFails
  BY DEF CheckpointFails
<1>2. CASE Open
  BY <1>2, OpenWorks
<1>3. ASSUME NEW i \in 1..Len(pending), Pick(i) \/ WaitCancelled(i)
      PROVE  WorkSound'
  BY <1>3, PickWorks, WaitCancelledWorks
<1>4. CASE Install
  BY <1>4, InstallWorks DEF Install, Working
<1>5. QED
  BY <1>1, <1>2, <1>3, <1>4, FetchFailsWorks, FetchStagesWorks, RefuseWorks, MarkWorks, CheckpointWorks,
     ObserveWorks, SettleWorks, RetireWorks, ReleaseWorks DEF AttemptStep

-----------------------------------------------------------------------------
(* The first life of a job, from collection to collection.                 *)

\* What an attempt does to the stages of the other collections: nothing.
TouchesItemOnly ==
  /\ \A t \in journal' : t \in journal \/ (t.c = item.c /\ (t.n = 1 => t.list = Collections))
  /\ \A r \in receipts' : r \in receipts \/ r[1] = item.c

\* As long as the item is tried, the rest stays as it is.
LEMMA RestInFlight ==
  ASSUME SyncInv, QueueSound, FirstSound, pc \in Trying, pc' \in Trying, item'.c = item.c,
         UNCHANGED <<pending, run>>, job'.view = job.view, TouchesItemOnly,
         FullChecks', OneStaged'
  PROVE  FirstRun' /\ RestFirst' /\ QueueFirst'
<1>1. FirstRun /\ RestFirst /\ QueueFirst
  BY DEF FirstSound
<1>2. FirstRun'
  BY <1>1 DEF FirstRun
<1>3. /\ \A c : Blank(c)' <=> Blank(c)
      /\ \A s : Unreported(s)' <=> Unreported(s)
  BY ViewsStay
<1>4. \A s : Settled(s) => Settled(s)'
  BY <1>3 DEF Settled
<1>5. Whole'
  BY <1>1 DEF RestFirst, Whole, TouchesItemOnly
<1>6. OthersOld'
  <2>1. ASSUME NEW s \in journal', s.c # item.c
        PROVE  OldStage(s)'
    <3>1. s \in journal /\ OldStage(s)
      BY <1>1, <2>1 DEF TouchesItemOnly, RestFirst, OthersOld
    <3>2. PICK r : r = Receipt(s)
      OBVIOUS
    <3>3. r[1] = s.c
      BY <3>2 DEF Receipt
    <3>4. r \in receipts' => r \in receipts
      BY <2>1, <3>3 DEF TouchesItemOnly
    <3>5. Receipt(s)' = r
      BY <3>2 DEF Receipt
    <3>6. QED
      BY <1>3, <1>4, <3>1, <3>2, <3>4, <3>5 DEF OldStage
  <2>2. QED
    BY <2>1 DEF OthersOld
<1>7. RestFirst'
  BY <1>5, <1>6 DEF RestFirst, Trying
<1>8. Queue' = Queue /\ BlanksFirst'
  BY <1>1 DEF Queue, QueueFirst, BlanksFirst
<1>9. NoneLeft'
  BY <1>1, <1>3, <1>8 DEF QueueFirst, NoneLeft, Trying
<1>10. ASSUME NEW p \in Queue
       PROVE  EntryFirst(p)'
  <2>1. EntryFirst(p) /\ p.c # item.c
    BY <1>1 DEF QueueFirst, QueueSound, EntrySound, Trying, Flying
  <2>2. job'.view[p.c] = job.view[p.c]
    OBVIOUS
  <2>3. \A r \in receipts' : r[1] = p.c => r[2] <= p.n
    BY <2>1 DEF EntryFirst, TouchesItemOnly
  <2>4. p.n = 0 => Blank(p.c)' /\ (\A t \in journal' : t.c < p.c) /\ item'.c < p.c
    BY <1>3, <2>1 DEF EntryFirst, TouchesItemOnly
  <2>5. p.n > 0 => \A s \in journal' : s.c = p.c => s.n <= p.n /\ Settled(s)'
    BY <1>4, <2>1 DEF EntryFirst, TouchesItemOnly
  <2>6. QED
    BY <2>1, <2>2, <2>3, <2>4, <2>5 DEF EntryFirst
<1>11. QED
  BY <1>2, <1>7, <1>8, <1>9, <1>10 DEF QueueFirst

\* No receipt is that of a first attempt which is still on its way.
LEMMA NothingCached ==
  ASSUME SyncInv, FirstSound, pc \in {"fetch", "commit"}
  PROVE  /\ Blank(item.c) => ~Cached(item.c)
         /\ \A s \in journal : Own(s) => Receipt(s) \notin receipts
         /\ \A t \in journal : t.c = item.c /\ ~Own(t) => t.phase = "committed"
         /\ pc = "fetch" => \A t \in journal : ~Own(t)
<1>1. ItemFirst /\ \A s \in journal : Own(s) => OwnFirst(s)
  BY DEF FirstSound, Trying, TriedFirst
<1>2. \A r \in receipts : r[1] = item.c => r[2] < item.n
  BY <1>1 DEF ItemFirst
<1>3. \A r \in receipts : r[2] \in Nat /\ r[2] >= 1
  BY SyncConstants DEF SyncInv, CacheOK
<1>4. Blank(item.c) => item.n = 1
  BY <1>1 DEF ItemFirst
<1>5. Blank(item.c) => ~Cached(item.c)
  BY <1>2, <1>3, <1>4 DEF Cached
<1>6. ASSUME NEW s \in journal, Own(s), Receipt(s) \in receipts
      PROVE  FALSE
  <2>1. PICK r \in receipts : r = Receipt(s)
    BY <1>6
  <2>2. r[1] = item.c /\ r[2] = item.n
    BY <1>6, <2>1 DEF Receipt, Own
  <2>3. r[2] < item.n /\ r[2] \in Nat
    BY <1>2, <1>3, <2>2
  <2>4. QED
    BY <2>2, <2>3
<1>7. \A t \in journal : t.c = item.c /\ ~Own(t) => t.phase = "committed"
  BY <1>1 DEF ItemFirst, Settled
<1>8. pc = "fetch" => \A t \in journal : ~Own(t)
  BY <1>1 DEF OwnFirst
<1>9. QED
  BY <1>5, <1>6, <1>7, <1>8

\* In a first life nothing is fetched.
LEMMA FetchFailsFirst ==
  ASSUME Ground, WorkSound, FirstSound, ~WriteFails, FetchFails
  PROVE  FirstSound'
<1>1. SyncInv /\ QueueSound /\ RestFirst /\ ItemFirst
  BY DEF Ground, WorkSound, FirstSound, FetchFails, Trying, TriedFirst
<1>2. PICK e \in {"transient", "permanent", "cancelled"} : Attempted(e, item.rows)
  BY DEF FetchFails
<1>3. item'.c = item.c /\ item'.n = item.n /\ pc' = "decide"
  BY <1>2, ItemKept DEF Ground
<1>4. pc = "fetch" /\ UNCHANGED <<pending, check, run, receipts, degraded, job, journal>>
  BY DEF FetchFails, jobVars, fileVars, cacheVars
<1>5. FullChecks' /\ OneStaged' /\ TouchesItemOnly
  BY <1>1, <1>4 DEF RestFirst, FullChecks, OneStaged, Scheduled, TouchesItemOnly
<1>6. FirstRun' /\ RestFirst' /\ QueueFirst'
  BY <1>1, <1>3, <1>4, <1>5, RestInFlight DEF Trying
<1>7. /\ Blank(item.c) => ~Cached(item.c)
      /\ \A t \in journal : ~Own(t)
  BY <1>1, <1>4, NothingCached
<1>8. TriedFirst'
  BY <1>1, <1>3, <1>4, <1>7 DEF ItemFirst, Blank, Own, Settled, Unreported, OwnKept, Cached, TriedFirst
<1>9. QED
  BY <1>6, <1>8 DEF FirstSound

\* What is fetched becomes a stage, the furthest one of a first attempt.
LEMMA FetchStagesFirst ==
  ASSUME Ground, WorkSound, FirstSound, ~WriteFails, FetchStages
  PROVE  FirstSound'
<1>1. SyncInv /\ QueueSound /\ RestFirst /\ ItemFirst /\ FirstRun
  BY DEF Ground, WorkSound, FirstSound, FetchStages, Trying, TriedFirst
<1>2. PICK u : Adds(u)
  BY <1>1, FetchAdds
<1>3. /\ pc = "fetch" /\ pc' = "commit"
      /\ UNCHANGED <<check, receipts, degraded, pending, item, run>>
      /\ job'.view = job.view
  BY Saved, ViewsOf DEF FetchStages, Ground, SyncInv, cacheVars
<1>4. /\ journal' \subseteq journal \cup {u}
      /\ u.c = item.c /\ u.n = item.n /\ u.phase = "staged"
      /\ u.list = IF item.n > 1 THEN {item.c} ELSE run.list
  BY <1>2, SweptShrinks DEF Adds, Own
<1>5. /\ \A t \in journal : t.c = item.c => t.phase = "committed"
      /\ \A t \in journal : ~Own(t)
  BY <1>1, <1>3, NothingCached
<1>6. OneStaged'
  BY <1>1, <1>4, <1>5 DEF RestFirst, OneStaged
<1>7. TouchesItemOnly
  BY <1>1, <1>4, <1>3 DEF FirstRun, TouchesItemOnly
<1>8. FullChecks'
  BY <1>1, <1>3 DEF RestFirst, FullChecks, Scheduled
<1>9. FirstRun' /\ RestFirst' /\ QueueFirst'
  BY <1>1, <1>3, <1>6, <1>7, <1>8, RestInFlight DEF Trying
<1>10. /\ \A c : Blank(c)' <=> Blank(c)
       /\ \A s : Unreported(s)' <=> Unreported(s)
  BY <1>3, ViewsStay
<1>11. TriedFirst'
  <2>1. \A s : Own(s)' <=> Own(s)
    BY <1>3 DEF Own
  <2>2. Own(u)
    BY <1>4 DEF Own
  <2>3. Blank(item.c)' <=> Blank(item.c)
    BY <1>3 DEF Blank
  <2>4. \A t \in journal' : t \in journal \/ Own(t)'
    BY <1>4, <2>1, <2>2
  <2>5. ItemFirst'
    <3>1. job'.view[item'.c] = job.view[item.c] /\ item'.c = item.c /\ item'.n = item.n /\ receipts' = receipts
      BY <1>3
    <3>2. job.view[item.c].n = item.n - 1
      BY <1>1, <1>3 DEF ItemFirst
    <3>3. \A s \in journal' : s.c = item.c /\ ~Own(s)' => s.n < item.n /\ Settled(s)'
      BY <1>1, <1>10, <2>1, <2>4 DEF ItemFirst, Settled
    <3>4. Blank(item.c)' => item.n = 1 /\ \A t \in journal' : t.c < item.c \/ Own(t)'
      BY <1>1, <2>1, <2>3, <2>4 DEF ItemFirst
    <3>5. \A r \in receipts : r[1] = item.c => r[2] <= item.n /\ r[2] < item.n
      BY <1>1, <1>3 DEF ItemFirst
    <3>6. job.view[item.c].outcome \in {"none", "retry"}
      BY <1>1 DEF ItemFirst
    <3>7. QED
      BY <1>3, <3>1, <3>2, <3>3, <3>4, <3>5, <3>6 DEF ItemFirst
  <2>6. OwnKept'
    BY <1>3 DEF OwnKept
  <2>7. ASSUME NEW s \in journal', Own(s)'
        PROVE  OwnFirst(s)'
    BY <1>4, <1>5, <2>1, <2>7, <1>3 DEF OwnFirst
  <2>8. QED
    BY <2>5, <2>6, <2>7 DEF TriedFirst
<1>12. QED
  BY <1>9, <1>11 DEF FirstSound

\* A transaction adds the receipt of the item.
LEMMA InstallFirst ==
  ASSUME Ground, WorkSound, FirstSound, ~WriteFails, Install, pc = "commit"
  PROVE  FirstSound'
<1>1. SyncInv /\ JournalInv /\ QueueSound /\ RestFirst /\ ItemFirst /\ \A s \in journal : Own(s) => OwnFirst(s)
  BY DEF Ground, WorkSound, FirstSound, Trying, TriedFirst
<1>2. PICK s \in journal : s = ItemStage /\ Own(s)
  BY <1>1, TheOwnStage DEF HasStage
<1>3. /\ pc' = "mark" /\ receipts' = receipts \cup {Receipt(s)}
      /\ UNCHANGED <<job, journal, check, pending, item, err, run>>
  BY <1>2 DEF Install, jobVars, CommitBatch
<1>4. PICK r : r = Receipt(s)
  OBVIOUS
<1>5. r[1] = item.c /\ r[2] = item.n /\ receipts' = receipts \cup {r}
  BY <1>2, <1>3, <1>4 DEF Receipt, Own
<1>6. FullChecks' /\ OneStaged' /\ TouchesItemOnly
  BY <1>1, <1>3, <1>5 DEF RestFirst, FullChecks, OneStaged, Scheduled, TouchesItemOnly
<1>7. FirstRun' /\ RestFirst' /\ QueueFirst'
  BY <1>1, <1>3, <1>6, RestInFlight DEF Trying
<1>8. TriedFirst'
  <2>1. \A t : /\ Own(t)' <=> Own(t)
               /\ Settled(t)' <=> Settled(t)
    BY <1>3 DEF Own, Settled, Unreported
  <2>2. \A q \in receipts' : q[1] = item.c => q[2] <= item.n
    BY <1>1, SyncConstants, <1>5 DEF SyncInv, WorkOK, Items, ItemFirst
  <2>3. ItemFirst'
    BY <1>1, <1>3, <2>1, <2>2 DEF ItemFirst, Blank
  <2>4. OwnKept'
    BY <1>3 DEF OwnKept
  <2>5. \A t \in journal' : Own(t)' => OwnFirst(t)'
    BY <1>1, <1>3, <2>1 DEF OwnFirst
  <2>6. QED
    BY <2>3, <2>4, <2>5 DEF TriedFirst
<1>9. QED
  BY <1>7, <1>8 DEF FirstSound

\* A stage whose commit was refused is rejected, or stays as it is when the
\* job was cancelled.
LEMMA RefuseFirst ==
  ASSUME Ground, WorkSound, FirstSound, ~WriteFails, Refuse
  PROVE  FirstSound'
<1>1. SyncInv /\ JournalInv /\ QueueSound /\ RestFirst /\ ItemFirst /\ \A s \in journal : Own(s) => OwnFirst(s)
  BY DEF Ground, WorkSound, FirstSound, Refuse, Trying, TriedFirst
<1>2. PICK e \in {"permanent", "cancelled"}, rows \in {item.rows, FALSE} : Refused(e) /\ Attempted(e, rows)
  BY DEF Refuse
<1>3. item'.c = item.c /\ item'.n = item.n /\ pc' = "decide" /\ err' = e
  BY <1>2, ItemKept DEF Ground
<1>4. pc = "commit" /\ UNCHANGED <<pending, check, run, receipts, degraded, job>>
  BY DEF Refuse, jobVars, cacheVars
<1>5. PICK s \in journal : s = ItemStage /\ Own(s) /\ \A t \in journal : Own(t) => t = s
  BY <1>1, <1>4, TheOwnStage DEF HasStage
<1>6. \/ journal' = Swept(InPhase(s, "rejected"))
      \/ e = "cancelled" /\ journal' = Swept(journal)
  BY <1>2, <1>5 DEF Refused
<1>7. PICK u \in StageRecords : /\ InPhase(s, "rejected") = (journal \ {s}) \cup {u}
                                /\ SameBatch(u, s) /\ u.phase = "rejected"
  BY <1>1, PhaseStage DEF SyncInv, JournalInv
<1>8. u.c = item.c /\ u.n = item.n /\ u.list = s.list /\ Own(u)
  BY <1>5, <1>7 DEF SameBatch, Own
<1>9. \/ journal' \subseteq (journal \ {s}) \cup {u}
      \/ e = "cancelled" /\ journal' \subseteq journal
  BY <1>6, <1>7, SweptShrinks
<1>10. FullChecks' /\ OneStaged' /\ TouchesItemOnly
  <2>1. FullChecks'
    BY <1>1, <1>4 DEF RestFirst, FullChecks, Scheduled
  <2>2. \A t \in journal' : t.phase = "staged" => t \in journal
    BY <1>7, <1>9
  <2>3. OneStaged'
    BY <1>1, <2>2 DEF RestFirst, OneStaged
  <2>4. u.n = 1 => u.list = Collections
    BY <1>1, <1>7, <1>8 DEF RestFirst, Whole, SameBatch
  <2>5. TouchesItemOnly
    BY <1>4, <1>8, <1>9, <2>4 DEF TouchesItemOnly
  <2>6. QED
    BY <2>1, <2>3, <2>5
<1>11. FirstRun' /\ RestFirst' /\ QueueFirst'
  BY <1>1, <1>3, <1>4, <1>10, RestInFlight DEF Trying
<1>12. /\ Blank(item.c) => ~Cached(item.c)
       /\ \A t \in journal : Own(t) => Receipt(t) \notin receipts
  BY <1>1, <1>4, NothingCached
<1>13. TriedFirst'
  <2>1. \A t : /\ Own(t)' <=> Own(t)
               /\ Settled(t)' <=> Settled(t)
    BY <1>3, <1>4 DEF Own, Settled, Unreported
  <2>2. \A t \in journal' : t \in journal \/ (t = u /\ Own(t))
    BY <1>8, <1>9
  <2>3. ItemFirst'
    <3>1. job' = job /\ item'.c = item.c /\ item'.n = item.n /\ receipts' = receipts
      BY <1>3, <1>4
    <3>2. \A t \in journal' : t.c = item.c /\ ~Own(t)' => t.n < item.n /\ Settled(t)'
      BY <1>1, <2>1, <2>2 DEF ItemFirst
    <3>3. Blank(item.c)' => item.n = 1 /\ \A t \in journal' : t.c < item.c \/ Own(t)'
      BY <1>1, <2>1, <2>2, <3>1 DEF ItemFirst, Blank
    <3>4. /\ \A r \in receipts : r[1] = item.c => r[2] <= item.n
          /\ job.view[item.c].outcome \in {"none", "retry"}
          /\ job.view[item.c].n \in {item.n - 1, item.n}
      BY <1>1 DEF ItemFirst
    <3>5. QED
      BY <1>3, <3>1, <3>2, <3>3, <3>4 DEF ItemFirst
  <2>4. OwnKept'
    BY <1>3, <1>4, <1>12 DEF OwnKept, Blank, Cached
  <2>5. ASSUME NEW t \in journal', Own(t)'
        PROVE  OwnFirst(t)'
    <3>1. CASE t = u
      BY <1>3, <1>7, <3>1 DEF OwnFirst
    <3>2. CASE t # u
      <4>1. t \in journal /\ Own(t) /\ t = s
        BY <1>5, <2>1, <2>2, <2>5, <3>2
      <4>2. e = "cancelled"
        BY <1>9, <2>5, <3>2, <4>1
      <4>3. t.phase = "staged" /\ Receipt(t) \notin receipts
        BY <1>1, <1>4, <1>12, <4>1 DEF OwnFirst
      <4>4. job.view[item.c].n < item.n
        BY <1>1, <1>4, SyncConstants DEF ItemFirst, SyncInv, WorkOK, Items
      <4>5. Receipt(t)' = Receipt(t)
        BY DEF Receipt
      <4>6. QED
        BY <1>3, <1>4, <4>2, <4>3, <4>4, <4>5 DEF OwnFirst
    <3>3. QED
      BY <3>1, <3>2
  <2>6. QED
    BY <2>3, <2>4, <2>5 DEF TriedFirst
<1>14. QED
  BY <1>11, <1>13 DEF FirstSound

\* The GC that follows a commit keeps a first attempt that is not reported.
LEMMA OwnSurvives ==
  ASSUME SyncInv, JournalInv, RestFirst, ItemFirst, Blank(item.c),
         NEW s \in journal, Own(s), \A t \in journal : Own(t) => t = s,
         NEW u \in StageRecords, SameBatch(u, s),
         NEW K, K = (journal \ {s}) \cup {u}
  PROVE  u \in Swept(K)
<1>1. item.n = 1 /\ \A t \in journal : t.c < item.c \/ Own(t)
  BY DEF ItemFirst
<1>2. u.c = item.c /\ u.n = 1 /\ u.list = Collections
  BY <1>1 DEF SameBatch, Own, RestFirst, Whole
<1>3. Cur(u) \in Nat
  BY CurTyped
<1>4. ASSUME NEW t \in K, t # u
      PROVE  Cur(t) <= Cur(u)
  <2>1. t \in journal /\ t.c < u.c /\ t \in StageRecords
    BY <1>1, <1>2, <1>4 DEF SyncInv, JournalOK, Shaped
  <2>2. CASE t.n = 1
    <3>1. t.list = Collections
      BY <2>1, <2>2 DEF RestFirst, Whole
    <3>2. t.c \in Nat /\ u.c \in Nat
      BY <2>1, SyncConstants DEF StageRecords
    <3>3. \A d \in Collections : d < t.c => d < u.c
      BY <2>1, <3>2, SyncConstants
    <3>4. {d \in Collections : d < t.c} \in SUBSET {d \in Collections : d < u.c}
      BY <3>3
    <3>5. {d \in Collections : d < u.c} \in SUBSET Collections
      OBVIOUS
    <3>6. IsFiniteSet({d \in Collections : d < u.c})
      BY <3>5, CollectionsFinite
    <3>7. Cardinality({d \in Collections : d < t.c}) <= Cardinality({d \in Collections : d < u.c})
      BY <3>4, <3>6, FS_Subset
    <3>8. QED
      BY <1>2, <3>1, <3>7 DEF Cur
  <2>3. CASE t.n # 1
    BY <2>1, <2>3, CurTyped, <1>3 DEF StageRecords, JournalInv, StageSound
  <2>4. QED
    BY <2>2, <2>3
<1>5. \A t \in K : Cur(t) <= Cur(u)
  BY <1>3, <1>4
<1>6. QED
  BY <1>5 DEF Swept

\* The stage is committed, and GC leaves it to a collection without a view.
LEMMA MarkFirst ==
  ASSUME Ground, WorkSound, FirstSound, ~WriteFails, Mark
  PROVE  FirstSound'
<1>1. SyncInv /\ JournalInv /\ QueueSound /\ RestFirst /\ ItemFirst /\ \A s \in journal : Own(s) => OwnFirst(s)
  BY DEF Ground, WorkSound, FirstSound, Mark, Trying, TriedFirst
<1>2. PICK s \in journal : s = ItemStage /\ Own(s) /\ \A t \in journal : Own(t) => t = s
  BY <1>1, TheOwnStage DEF Mark, HasStage
<1>3. /\ pc = "mark" /\ pc' = "decide" /\ err' = s.err
      /\ item'.c = item.c /\ item'.n = item.n
      /\ journal' = Swept(InPhase(s, "committed"))
      /\ UNCHANGED <<job, check, receipts, degraded, pending, run>>
  BY <1>2, MarkDoes
<1>4. PICK u \in StageRecords : /\ InPhase(s, "committed") = (journal \ {s}) \cup {u}
                                /\ SameBatch(u, s) /\ u.phase = "committed"
  BY <1>1, PhaseStage DEF SyncInv, JournalInv
<1>5. u.c = item.c /\ u.n = item.n /\ u.list = s.list /\ Own(u) /\ u.err = s.err
  BY <1>2, <1>4 DEF SameBatch, Own
<1>6. PICK K : K = (journal \ {s}) \cup {u} /\ journal' = Swept(K) /\ journal' \subseteq K
  BY <1>3, <1>4, SweptShrinks
<1>7. FullChecks' /\ OneStaged' /\ TouchesItemOnly
  <2>1. FullChecks'
    BY <1>1, <1>3 DEF RestFirst, FullChecks, Scheduled
  <2>2. \A t \in journal' : t.phase = "staged" => t \in journal
    BY <1>4, <1>6
  <2>3. OneStaged'
    BY <1>1, <2>2 DEF RestFirst, OneStaged
  <2>4. u.n = 1 => u.list = Collections
    BY <1>1, <1>4, <1>5 DEF RestFirst, Whole, SameBatch
  <2>5. TouchesItemOnly
    BY <1>3, <1>5, <1>6, <2>4 DEF TouchesItemOnly
  <2>6. QED
    BY <2>1, <2>3, <2>5
<1>8. FirstRun' /\ RestFirst' /\ QueueFirst'
  BY <1>1, <1>3, <1>7, RestInFlight DEF Trying
<1>9. TriedFirst'
  <2>1. \A t : /\ Own(t)' <=> Own(t)
               /\ Settled(t)' <=> Settled(t)
    BY <1>3 DEF Own, Settled, Unreported
  <2>2. \A t \in journal' : t \in journal \/ (t = u /\ Own(t))
    BY <1>5, <1>6
  <2>3. ItemFirst'
    <3>1. job' = job /\ item'.c = item.c /\ item'.n = item.n /\ receipts' = receipts
      BY <1>3
    <3>2. \A t \in journal' : t.c = item.c /\ ~Own(t)' => t.n < item.n /\ Settled(t)'
      BY <1>1, <2>1, <2>2 DEF ItemFirst
    <3>3. Blank(item.c)' => item.n = 1 /\ \A t \in journal' : t.c < item.c \/ Own(t)'
      BY <1>1, <2>1, <2>2, <3>1 DEF ItemFirst, Blank
    <3>4. /\ \A r \in receipts : r[1] = item.c => r[2] <= item.n
          /\ job.view[item.c].outcome \in {"none", "retry"}
          /\ job.view[item.c].n \in {item.n - 1, item.n}
      BY <1>1 DEF ItemFirst
    <3>5. QED
      BY <1>3, <3>1, <3>2, <3>3, <3>4 DEF ItemFirst
  <2>4. OwnKept'
    BY <1>1, <1>2, <1>4, <1>6, OwnSurvives, <1>3, <1>5, <2>1 DEF Blank, OwnKept
  <2>5. ASSUME NEW t \in journal', Own(t)'
        PROVE  OwnFirst(t)'
    BY <1>2, <1>6, <2>1, <2>5, <1>3, <1>4, <1>5 DEF OwnFirst
  <2>6. QED
    BY <2>3, <2>4, <2>5 DEF TriedFirst
<1>10. QED
  BY <1>8, <1>9 DEF FirstSound

\* The checkpoint remembers the whole request.
LEMMA CheckpointFirst ==
  ASSUME Ground, WorkSound, FirstSound, ~WriteFails, Checkpoint
  PROVE  FirstSound'
<1>1. SyncInv /\ QueueSound /\ RestFirst /\ FirstRun /\ FlightSound /\ TriedFirst
  BY DEF Ground, WorkSound, FirstSound, Checkpoint, Trying
<1>2. /\ pc = "decide" /\ pc' = "observe" /\ err = "transient"
      /\ UNCHANGED <<job, disk, journal, receipts, degraded, pending, item, err, run>>
      /\ Scheduled' = Scheduled \cup {item.c}
      /\ check'[item.c].sel = run.sel
      /\ \A d \in Collections \ {item.c} : check'[d] = check[d]
  BY <1>1, CheckpointAdds
<1>3. FullChecks'
  BY <1>2, <1>1 DEF Scheduled, FullChecks, RestFirst, FirstRun
<1>4. OneStaged' /\ TouchesItemOnly
  BY <1>1, <1>2 DEF RestFirst, OneStaged, TouchesItemOnly
<1>5. FirstRun' /\ RestFirst' /\ QueueFirst'
  BY <1>1, <1>2, <1>3, <1>4, RestInFlight DEF Trying
<1>6. TriedFirst'
  <2>1. ItemFirst'
    BY <1>1, <1>2 DEF TriedFirst, ItemFirst, Blank, Own, Settled, Unreported
  <2>2. OwnKept'
    BY <1>1, <1>2 DEF TriedFirst, OwnKept, Blank, Cached, Own
  <2>3. \A s \in journal : Own(s)' => OwnFirst(s)'
    BY <1>1, <1>2 DEF TriedFirst, OwnFirst, Own, Unreported, Receipt
  <2>4. QED
    BY <1>2, <2>1, <2>2, <2>3 DEF TriedFirst
<1>7. QED
  BY <1>5, <1>6 DEF FirstSound

\* The collection and the attempt of a stage are numbers.
LEMMA StageNumbers ==
  ASSUME SyncInv
  PROVE  \A s \in journal : s \in StageRecords /\ s.c \in Nat /\ s.n \in Nat
<1>1. \A s \in journal : s \in StageRecords
  BY DEF SyncInv, JournalOK, Shaped
<1>2. \A s \in StageRecords : s.c \in Collections /\ s.n \in 1..Budget
  BY DEF StageRecords
<1>3. Collections \subseteq Nat /\ 1..Budget \subseteq Nat
  BY SyncConstants
<1>4. QED
  BY <1>1, <1>2, <1>3

\* The job begins, or ends before any collection is tried.
LEMMA OpenFirst ==
  ASSUME Ground, WorkSound, FirstSound, ~WriteFails, Open
  PROVE  FirstSound'
<1>1. SyncInv /\ FirstRun /\ RestFirst /\ QueueFirst
  BY DEF Ground, FirstSound
<1>2. /\ pc = "open" /\ pc' = "pick"
      /\ UNCHANGED <<job, journal, check, receipts, degraded, item, err>>
      /\ \/ UNCHANGED <<pending, run>>
         \/ pending' = <<>> /\ run' = [run EXCEPT !.result = "error"]
  BY DEF Open, jobVars, fileVars, cacheVars
<1>3. FirstRun'
  BY <1>1, <1>2 DEF SyncInv, WorkOK, Runs, FirstRun
<1>4. journal' = {}
  BY <1>1, <1>2 DEF RestFirst
<1>5. RestFirst'
  BY <1>1, <1>2, <1>4 DEF RestFirst, FullChecks, Scheduled, Whole, OthersOld, OneStaged
<1>6. QueueFirst'
  <2>1. CASE pending' = <<>>
    BY <1>2, <1>4, <2>1 DEF QueueFirst, NoneLeft, BlanksFirst, Queue
  <2>2. CASE UNCHANGED pending
    <3>1. Queue' = Queue /\ BlanksFirst'
      BY <1>1, <2>2 DEF Queue, QueueFirst, BlanksFirst
    <3>2. NoneLeft'
      BY <1>1, <1>2, <3>1 DEF QueueFirst, NoneLeft, Trying, Blank
    <3>3. ASSUME NEW p \in Queue
          PROVE  EntryFirst(p)'
      BY <1>1, <1>2, <1>4 DEF QueueFirst, EntryFirst, Trying, Blank
    <3>4. QED
      BY <3>1, <3>2, <3>3 DEF QueueFirst
  <2>3. QED
    BY <1>2, <2>1, <2>2
<1>7. QED
  BY <1>2, <1>3, <1>5, <1>6 DEF FirstSound, Trying

\* An entry that is taken becomes the item; the others wait as before.
LEMMA TakenFirst ==
  ASSUME SyncInv, QueueSound, FirstSound, pc = "pick", pc' \in Trying,
         NEW i \in 1..Len(pending), pending' = Without(i),
         NEW q \in Queue, q = pending[i], item'.c = q.c,
         \A p \in Queue' : p.n = 0 => q.c < p.c,
         UNCHANGED <<journal, check, receipts, run>>, job'.view = job.view
  PROVE  FirstRun' /\ RestFirst' /\ QueueFirst'
<1>1. FirstRun /\ RestFirst /\ QueueFirst
  BY DEF FirstSound
<1>2. FirstRun'
  BY <1>1 DEF FirstRun
<1>3. /\ \A c : Blank(c)' <=> Blank(c)
      /\ \A s : Unreported(s)' <=> Unreported(s)
  BY ViewsStay
<1>4. \A s : Settled(s) <=> Settled(s)'
  BY <1>3 DEF Settled
<1>5. \A s \in journal : OldStage(s)'
  <2>1. ASSUME NEW s \in journal
        PROVE  OldStage(s)'
    BY <1>1, <1>3, <1>4 DEF RestFirst, OthersOld, Trying, OldStage, Receipt
  <2>2. QED
    BY <2>1
<1>6. RestFirst'
  BY <1>1, <1>5 DEF RestFirst, FullChecks, Scheduled, Whole, OthersOld, OneStaged, Trying
<1>7. /\ BlanksFirst' /\ Queue' \subseteq Queue
      /\ \A p \in Queue : p = q \/ p \in Queue'
  BY <1>1, TakenFromQueue DEF QueueFirst, QueueSound
<1>8. NoneLeft'
  BY <1>1, <1>3, <1>7 DEF QueueFirst, NoneLeft, Trying
<1>9. ASSUME NEW p \in Queue'
      PROVE  EntryFirst(p)'
  BY <1>1, <1>7, <1>3, <1>4 DEF QueueFirst, EntryFirst
<1>10. QED
  BY <1>2, <1>6, <1>7, <1>8, <1>9 DEF QueueFirst

\* The next entry becomes the item.
LEMMA PickFirst ==
  ASSUME Ground, WorkSound, FirstSound, ~WriteFails, NEW i \in 1..Len(pending), Pick(i)
  PROVE  FirstSound'
<1>0. SyncInv /\ QueueSound /\ QueueFirst /\ Len(pending) \in Nat
  BY LenProperties DEF Ground, WorkSound, FirstSound, SyncInv, WorkOK
<1>1. PICK q \in Queue : q = pending[i] /\ q \in Waiting /\ q.c \in Nat /\ q.n \in Nat
  BY <1>0, QueueTyped
<1>2. /\ pc = "pick" /\ pc' = "fetch" /\ pending' = Without(i)
      /\ UNCHANGED <<journal, check, receipts, degraded, run>>
  BY DEF Pick, fileVars, cacheVars
<1>3. item' = [q EXCEPT !.n = q.n + 1, !.later = FALSE]
  BY <1>1 DEF Pick
<1>4. item'.c = q.c /\ item'.n = q.n + 1
  BY <1>1, <1>3 DEF Waiting
<1>5. job'.view = job.view
  BY Saved, ViewsOf DEF Pick, Ground, SyncInv
<1>7. /\ QueueOrdered' /\ Queue' \subseteq Queue
      /\ \A p \in Queue' : p.c # q.c
  BY <1>0, <1>1, <1>2, TakenFromQueue DEF QueueSound
<1>8. \A p \in Queue' : p.n = 0 => q.c < p.c
  <2>1. SUFFICES ASSUME NEW p \in Queue', p.n = 0 PROVE q.c < p.c
    OBVIOUS
  <2>2. PICK j \in 1..Len(pending) : p = pending[j]
    BY <1>7 DEF Queue
  <2>3. ~p.later
    BY <1>0, <1>7, <2>1 DEF QueueSound, EntrySound
  <2>4. ~(j < i)
    BY <1>0, <2>2, <2>3 DEF Pick, Due
  <2>5. j # i
    BY <1>1, <1>7, <2>2
  <2>6. i < j
    BY <1>0, <2>4, <2>5
  <2>7. q.n = 0
    BY <1>0, <1>1, <2>1, <2>2, <2>6 DEF QueueFirst, BlanksFirst
  <2>8. QED
    BY <1>0, <1>1, <2>1, <2>2, <2>6, <2>7 DEF QueueSound, QueueOrdered
<1>9. FirstRun' /\ RestFirst' /\ QueueFirst'
  BY <1>0, <1>1, <1>2, <1>4, <1>5, <1>8, TakenFirst DEF Trying
<1>10. EntryFirst(q)
  BY <1>0 DEF QueueFirst
<1>11. \A s \in journal : s \in StageRecords /\ s.c \in Nat /\ s.n \in Nat
  BY <1>0, StageNumbers
<1>12. ASSUME NEW s \in journal, s.c = q.c
       PROVE  q.n > 0 /\ s.n <= q.n /\ Settled(s)
  BY <1>1, <1>10, <1>11, <1>12 DEF EntryFirst
<1>13. TriedFirst'
  <2>1. ItemFirst'
    <3>1. job.view[q.c].n = q.n /\ item'.n - 1 = q.n
      BY <1>1, <1>4, <1>10 DEF EntryFirst
    <3>2. job.view[q.c].outcome \in {"none", "retry"}
      BY <1>1, <1>10 DEF EntryFirst, Blank
    <3>3. Blank(q.c) => item'.n = 1 /\ \A t \in journal : t.c < q.c
      BY <1>10, <1>1, <1>4 DEF EntryFirst, Blank
    <3>4. \A s \in journal : s.c = q.c => s.n < item'.n /\ Settled(s)'
      <4>1. ASSUME NEW s \in journal, s.c = q.c
            PROVE  s.n < item'.n /\ Settled(s)'
        BY <1>5, <1>1, <1>4, <1>11, <1>12, <4>1 DEF Settled, Unreported
      <4>2. QED
        BY <4>1
    <3>5. \A r \in receipts : r[1] = q.c => r[2] <= item'.n /\ r[2] < item'.n
      BY <1>0, SyncConstants, <1>1, <1>4, <1>10 DEF SyncInv, CacheOK, EntryFirst
    <3>6. Blank(item.c)' <=> Blank(q.c)
      BY <1>4, <1>5 DEF Blank
    <3>7. QED
      BY <1>2, <1>4, <1>5, <3>1, <3>2, <3>3, <3>4, <3>5, <3>6 DEF ItemFirst
  <2>2. OwnKept'
    BY <1>2 DEF OwnKept
  <2>3. ASSUME NEW s \in journal, Own(s)'
        PROVE  FALSE
    BY <1>4, <2>3, <1>12, <1>1 DEF Own
  <2>4. QED
    BY <1>2, <2>1, <2>2, <2>3 DEF TriedFirst
<1>14. QED
  BY <1>9, <1>13 DEF FirstSound

\* The wait for a retry is cancelled.
LEMMA WaitCancelledFirst ==
  ASSUME Ground, WorkSound, FirstSound, ~WriteFails, NEW i \in 1..Len(pending), WaitCancelled(i)
  PROVE  FirstSound'
<1>0. SyncInv /\ QueueSound /\ QueueFirst
  BY DEF Ground, WorkSound, FirstSound
<1>1. PICK q \in Queue : q = pending[i] /\ q \in Waiting /\ q.c \in Nat /\ q.n \in Nat
  BY <1>0, QueueTyped
<1>2. /\ pc = "pick" /\ pc' = "decide" /\ pending' = Without(i) /\ item' = q /\ err' = "cancelled"
      /\ UNCHANGED <<job, journal, check, receipts, degraded, run>>
  BY <1>1 DEF WaitCancelled, jobVars, fileVars, cacheVars
<1>3. \A p \in Queue : p.n > 0
  BY <1>0 DEF WaitCancelled, Queue, QueueSound, EntrySound
<1>4. Queue' \subseteq Queue
  BY <1>0, <1>1, <1>2, TakenFromQueue DEF QueueSound
<1>5. \A p \in Queue' : p.n = 0 => q.c < p.c
  BY <1>3, <1>4
<1>6. FirstRun' /\ RestFirst' /\ QueueFirst'
  BY <1>0, <1>1, <1>2, <1>5, TakenFirst DEF Trying
<1>7. EntryFirst(q) /\ q.n > 0
  BY <1>0, <1>3 DEF QueueFirst
<1>8. /\ job.view[q.c].outcome = "retry" /\ job.view[q.c].n = q.n
      /\ \A s \in journal : s.c = q.c => s.n <= q.n /\ Settled(s)
      /\ \A r \in receipts : r[1] = q.c => r[2] <= q.n
  BY <1>7 DEF EntryFirst
<1>9. \A s \in journal : s.c = q.c => /\ ~(s.n = q.n) => s.n < q.n
                                      /\ Settled(s)'
  BY <1>0, StageNumbers, <1>2, <1>1, <1>8 DEF Settled, Unreported
<1>10. TriedFirst'
  <2>1. ItemFirst'
    BY <1>2, <1>8, <1>9 DEF ItemFirst, Blank, Own
  <2>2. OwnKept'
    BY <1>2, <1>8 DEF OwnKept, Blank
  <2>3. ASSUME NEW s \in journal, Own(s)'
        PROVE  OwnFirst(s)'
    BY <1>2, <1>9, <2>3 DEF Own, OwnFirst, Settled
  <2>4. QED
    BY <1>2, <2>1, <2>2, <2>3 DEF TriedFirst
<1>11. QED
  BY <1>6, <1>10 DEF FirstSound

\* What the view of an attempt has seen of its stage.
LEMMA SeenByView ==
  ASSUME JournalInv, SyncInv, NEW s \in journal, Own(s), NEW o
  PROVE  /\ s.phase = "committed" => ViewOf(item, o).seen = s.g
         /\ s.phase # "committed" => ViewOf(item, o).seen = 0
<1> DEFINE S == {t \in journal : Id(t) = <<item.c, item.n>> /\ t.phase = "committed"}
<1>1. \A t \in journal : Id(t) = <<item.c, item.n>> => t = s
  BY DEF JournalInv, StagesDiffer, Own, Id
<1>2. Id(s) = <<item.c, item.n>>
  BY DEF Own, Id
<1>3. CommittedBatches(item.c, item.n) = {t.g : t \in S}
  BY DEF CommittedBatches
<1>4. CASE s.phase = "committed"
  BY <1>1, <1>2, <1>4, <1>3 DEF ViewOf
<1>5. CASE s.phase # "committed"
  BY <1>1, <1>5, <1>3 DEF ViewOf
<1>6. QED
  BY <1>4, <1>5

\* When the attempt of the item is reported, no stage of it is left to settle.
LEMMA ReportedFirst ==
  ASSUME Ground, WorkSound, FirstSound, pc \in {"decide", "observe"}, NEW o \in Outcomes \ {"none"},
         err = "cancelled" => o = "cancelled",
         job' = WithView(item.c, ViewOf(item, o)), UNCHANGED <<journal, check, receipts>>,
         pc' \notin Trying
  PROVE  /\ RestFirst' \/ pc' = "open"
         /\ \A s \in journal : s.c = item.c /\ (~Own(s) \/ s.phase = "committed") => Settled(s)'
         /\ \A p \in Queue : EntryFirst(p)'
         /\ \A d \in Collections : Blank(d)' => \E p \in Queue : p.c = d /\ p.n = 0
<1>1. SyncInv /\ JournalInv /\ QueueSound /\ RestFirst /\ QueueFirst /\ TriedFirst /\ pc \in HasItem
  BY DEF Ground, WorkSound, FirstSound, Trying, HasItem
<1>2. PICK c \in Collections : c = item.c
  BY <1>1 DEF SyncInv, ItemOK
<1>3. PICK v : v = ViewOf(item, o)
  OBVIOUS
<1>4. /\ v.outcome = o /\ v.n = item.n /\ Reports(c, v) /\ job'.view[c] = v
      /\ JobOK
  BY <1>1, <1>2, <1>3, ItemReported DEF SyncInv
<1>5. /\ \A d \in Collections \ {c} : job'.view[d] = job.view[d] /\ (Blank(d)' <=> Blank(d))
      /\ ~Blank(c)'
      /\ \A s \in StageRecords : s.c # c => (Unreported(s)' <=> Unreported(s))
      /\ \A s : s.c = c => (Unreported(s)' <=> v.n < s.n \/ (v.n = s.n /\ v.seen # s.g))
  BY <1>4, ViewChanges
<1>6. \A s \in journal : s \in StageRecords /\ s.c \in Nat /\ s.n \in Nat
  BY <1>1, StageNumbers
<1>7. item.n \in Nat
  BY <1>1, SyncConstants DEF SyncInv, WorkOK, Items
<1>8. ASSUME NEW s \in journal, s.c = c, ~Own(s)
      PROVE  Settled(s)'
  BY <1>1, <1>2, <1>8, <1>4, <1>6, <1>7, <1>5 DEF TriedFirst, ItemFirst, Settled
<1>9. ASSUME NEW s \in journal, Own(s)
      PROVE  /\ s.phase = "committed" => Settled(s)'
             /\ OldStage(s)'
  <2>1. s.c = c /\ v.n = s.n /\ ~(v.n < s.n)
    BY <1>2, <1>4, <1>6, <1>9 DEF Own
  <2>2. Unreported(s)' <=> v.seen # s.g
    BY <1>5, <2>1
  <2>3. s.phase = "committed" => Settled(s)'
    BY <1>1, <1>3, <1>9, <2>2, SeenByView DEF Settled
  <2>4. OwnFirst(s)
    BY <1>1, <1>9 DEF TriedFirst
  <2>5. CASE s.phase = "staged"
    <3>1. v.seen = 0
      BY <1>1, <1>3, <1>9, <2>5, SeenByView
    <3>2. s.g >= 1
      BY <1>1 DEF JournalInv, StageSound
    <3>3. v.seen # s.g
      BY <3>1, <3>2
    <3>4. Receipt(s) \notin receipts /\ o = "cancelled"
      BY <2>4, <2>5 DEF OwnFirst
    <3>5. QED
      BY <1>4, <2>1, <2>2, <2>3, <2>5, <3>3, <3>4 DEF OldStage, Receipt
  <2>6. CASE s.phase = "rejected"
    BY <2>3, <2>6 DEF OldStage
  <2>7. CASE s.phase = "committed"
    BY <2>3, <2>7 DEF OldStage
  <2>8. QED
    BY <2>4, <2>5, <2>6, <2>7 DEF OwnFirst
<1>10. \A s \in journal : s.c # c => (Unreported(s)' <=> Unreported(s))
  BY <1>5, <1>6
<1>11. ASSUME NEW s \in journal
       PROVE  OldStage(s)'
  <2>1. CASE s.c = c
    BY <1>8, <1>9, <2>1 DEF OldStage
  <2>2. CASE s.c # c
    <3>1. OldStage(s)
      BY <1>1, <1>2, <2>2 DEF RestFirst, OthersOld
    <3>2. s.c \in Collections
      BY <1>6 DEF StageRecords
    <3>3. job'.view[s.c] = job.view[s.c]
      BY <1>5, <2>2, <3>2
    <3>4. Unreported(s)' <=> Unreported(s)
      BY <1>10, <2>2
    <3>5. QED
      BY <3>1, <3>3, <3>4 DEF OldStage, Settled, Receipt
  <2>3. QED
    BY <2>1, <2>2
<1>12. RestFirst' \/ pc' = "open"
  BY <1>1, <1>11 DEF RestFirst, FullChecks, Scheduled, Whole, OthersOld, OneStaged
<1>13. ASSUME NEW p \in Queue
       PROVE  EntryFirst(p)'
  <2>1. EntryFirst(p) /\ p.c \in Collections
    BY <1>1, QueueTyped DEF QueueFirst
  <2>2. p.c # c
    BY <1>1, <1>2 DEF QueueSound, EntrySound, Flying
  <2>3. job'.view[p.c] = job.view[p.c] /\ (Blank(p.c)' <=> Blank(p.c))
    BY <1>5, <2>1, <2>2
  <2>4. \A s \in journal : s.c = p.c => (Settled(s)' <=> Settled(s))
    BY <1>10, <2>2 DEF Settled
  <2>5. QED
    BY <2>1, <2>3, <2>4 DEF EntryFirst
<1>14. ASSUME NEW d \in Collections, Blank(d)'
       PROVE  \E p \in Queue : p.c = d /\ p.n = 0
  BY <1>5, <1>14, <1>1, <1>2 DEF QueueFirst, NoneLeft
<1>15. QED
  BY <1>2, <1>8, <1>9, <1>12, <1>13, <1>14

\* A retry is shown with the number of its attempt.
LEMMA ObserveFirst ==
  ASSUME Ground, WorkSound, FirstSound, ~WriteFails, Observe
  PROVE  FirstSound'
<1>1. /\ SyncInv /\ QueueSound /\ FlightSound /\ QueueFirst /\ FirstRun /\ ItemFirst
      /\ \A s \in journal : Own(s) => OwnFirst(s)
      /\ pc = "observe" /\ pc \in HasItem
  BY DEF Ground, WorkSound, FirstSound, Observe, HasItem, Trying, TriedFirst
<1>2. /\ pc' = "pick" /\ job' = WithView(item.c, ViewOf(item, "retry"))
      /\ UNCHANGED <<journal, check, receipts, degraded, item, err, run>>
  BY Saved DEF Observe, fileVars, cacheVars
<1>3. PICK q : q = [item EXCEPT !.later = TRUE]
  OBVIOUS
<1>4. q.c = item.c /\ q.n = item.n /\ item.n \in Nat /\ item.n >= 1
  BY <1>1, <1>3, SyncConstants DEF SyncInv, WorkOK, Items, FlightSound, Flying
<1>5. \A p \in Queue : p.c # q.c
  BY <1>1, <1>4 DEF QueueSound, EntrySound, Flying
<1>6. BlanksFirst' /\ Queue' = Queue \cup {q}
  <2>1. pending' = Append(pending, q)
    BY <1>3 DEF Observe
  <2>2. q.n > 0 /\ q.n \in Nat /\ QueueOrdered /\ BlanksFirst
    BY <1>1, <1>4 DEF QueueSound, QueueFirst
  <2>3. QED
    BY <1>1, <1>5, <2>1, <2>2, RetryQueued
<1>7. err = "transient"
  BY <1>1 DEF ItemFirst
<1>8. /\ RestFirst'
      /\ \A s \in journal : s.c = item.c /\ (~Own(s) \/ s.phase = "committed") => Settled(s)'
      /\ \A p \in Queue : EntryFirst(p)'
      /\ \A d \in Collections : Blank(d)' => \E p \in Queue : p.c = d /\ p.n = 0
  BY <1>1, <1>2, <1>7, ReportedFirst DEF Outcomes, Trying
<1>9. EntryFirst(q)'
  <2>1. \A s \in journal : s.c = q.c => s.n <= q.n /\ Settled(s)'
    <3>1. ASSUME NEW s \in journal, s.c = item.c
          PROVE  s.n <= item.n /\ Settled(s)'
      <4>1. CASE Own(s)
        BY <1>1, <1>7, <4>1, <1>4, <1>8, <3>1 DEF OwnFirst, Own
      <4>2. CASE ~Own(s)
        BY <1>1, <3>1, <4>2, StageNumbers, <1>4, <1>8 DEF ItemFirst
      <4>3. QED
        BY <4>1, <4>2
    <3>2. QED
      BY <1>4, <3>1
  <2>2. PICK c : c = item.c
    OBVIOUS
  <2>3. job'.view[c].outcome = "retry" /\ job'.view[c].n = item.n
    BY <1>1, <1>2, <2>2, ItemReported DEF Outcomes
  <2>4. \A r \in receipts' : r[1] = q.c => r[2] <= q.n
    BY <1>1, <1>2, <1>4 DEF ItemFirst
  <2>5. ~(q.n = 0)
    BY <1>4
  <2>6. job'.view[q.c].outcome = "retry" /\ job'.view[q.c].n = q.n
    BY <1>4, <2>2, <2>3
  <2>7. QED
    BY <1>2, <2>1, <2>4, <2>5, <2>6 DEF EntryFirst
<1>10. QueueFirst'
  BY <1>6, <1>8, <1>9 DEF QueueFirst, NoneLeft
<1>11. QED
  BY <1>1, <1>2, <1>8, <1>10 DEF FirstSound, FirstRun, Trying

\* A final view covers every stage of its collection.
LEMMA SettleFirst ==
  ASSUME Ground, WorkSound, FirstSound, ~WriteFails, Settle
  PROVE  FirstSound'
<1>1. SyncInv /\ QueueFirst /\ FirstRun
  BY DEF Ground, FirstSound
<1>2. /\ pc = "decide" /\ pc' \in {"retire", "release"}
      /\ job' = WithView(item.c, ViewOf(item, Outcome(err)))
      /\ run' = [run EXCEPT !.result = IF @ = "ok" /\ err # "none" THEN "error" ELSE @]
      /\ UNCHANGED <<journal, check, receipts, degraded, pending, item, err>>
  BY SettleDoes
<1>3. PICK o : o = Outcome(err)
  OBVIOUS
<1>4. o \in Outcomes \ {"none"} /\ (err = "cancelled" => o = "cancelled")
  BY <1>1, <1>3, OutcomeIs DEF Outcomes, SyncInv, WorkOK
<1>5. /\ RestFirst' \/ pc' = "open"
      /\ \A p \in Queue : EntryFirst(p)'
      /\ \A d \in Collections : Blank(d)' => \E p \in Queue : p.c = d /\ p.n = 0
  BY <1>2, <1>3, <1>4, ReportedFirst DEF Trying
<1>6. Queue' = Queue /\ BlanksFirst'
  BY <1>1, <1>2 DEF Queue, QueueFirst, BlanksFirst
<1>7. QueueFirst'
  BY <1>5, <1>6 DEF QueueFirst, NoneLeft
<1>8. FirstRun'
  BY <1>1, <1>2 DEF SyncInv, WorkOK, Runs, FirstRun
<1>9. QED
  BY <1>2, <1>5, <1>7, <1>8 DEF FirstSound, Trying

\* Putting the evidence away changes nothing for the others.
LEMMA PutAwayFirst ==
  ASSUME Ground, WorkSound, FirstSound, ~WriteFails, Retire \/ Release
  PROVE  FirstSound'
<1>1. SyncInv /\ QueueFirst /\ FirstRun /\ RestFirst /\ QueueSound
  BY DEF Ground, FirstSound, WorkSound
<1>2. /\ pc \in {"retire", "release"} /\ pc' \in {"release", "pick"}
      /\ UNCHANGED <<job, receipts, degraded, pending, item, err, run>>
      /\ journal' \subseteq journal
  BY Saved DEF Retire, Release, jobVars, cacheVars, WithoutStages
<1>3. FullChecks'
  <2>1. CASE Retire
    BY <1>1, <2>1 DEF Retire, RestFirst, FullChecks, Scheduled
  <2>2. CASE Release
    <3>1. PICK c \in Collections : c = item.c
      BY <1>1, <2>2 DEF Release, SyncInv, ItemOK, HasItem
    <3>2. Unschedule(c)
      BY <2>2, <3>1, Saved DEF Release
    <3>3. Scheduled' = Scheduled \ {c} /\ \A d \in Collections \ {c} : check'[d] = check[d]
      BY <1>1, <3>2, UnscheduleDoes
    <3>4. Scheduled \subseteq Collections
      BY DEF Scheduled
    <3>5. QED
      BY <1>1, <3>3, <3>4 DEF RestFirst, FullChecks
  <2>3. QED
    BY <2>1, <2>2
<1>4. \A s : Settled(s)' <=> Settled(s)
  BY <1>2 DEF Settled, Unreported
<1>5. \A s : OldStage(s) => OldStage(s)'
  BY <1>2, <1>4 DEF OldStage, Receipt, Unreported
<1>6. \A s \in journal : OldStage(s)
  BY <1>1, <1>2 DEF RestFirst, OthersOld, Trying
<1>7. RestFirst'
  BY <1>1, <1>2, <1>3, <1>5, <1>6 DEF RestFirst, Whole, OthersOld, OneStaged
<1>8. Queue' = Queue /\ BlanksFirst'
  BY <1>1, <1>2 DEF Queue, QueueFirst, BlanksFirst
<1>9. NoneLeft'
  BY <1>1, <1>2, <1>8 DEF QueueFirst, NoneLeft, Trying, Blank
<1>10. ASSUME NEW p \in Queue
       PROVE  EntryFirst(p)'
  BY <1>1, <1>2, <1>4 DEF QueueFirst, Trying, EntryFirst, Blank
<1>11. QED
  BY <1>1, <1>2, <1>7, <1>8, <1>9, <1>10 DEF FirstSound, FirstRun, QueueFirst, Trying

\* The worker, from collection to collection of a first life.
LEMMA WorkerFirst ==
  ASSUME Ground, WorkSound, FirstSound, ~WriteFails, Open \/ AttemptStep, pc \in Working
  PROVE  FirstSound'
<1>1. ~CheckpointFails
  BY DEF CheckpointFails
<1>2. ASSUME NEW i \in 1..Len(pending), Pick(i) \/ WaitCancelled(i)
      PROVE  FirstSound'
  BY <1>2, PickFirst, WaitCancelledFirst
<1>3. CASE Install
  BY <1>3, InstallFirst DEF Install, Working
<1>4. QED
  BY <1>1, <1>2, <1>3, OpenFirst, FetchFailsFirst, FetchStagesFirst, RefuseFirst, MarkFirst, CheckpointFirst,
     ObserveFirst, SettleFirst, PutAwayFirst DEF AttemptStep

-----------------------------------------------------------------------------
(* The steps of the worker.                                                *)

\* From collection to collection.
LEMMA WorkingSteady ==
  ASSUME Ground, SteadyInv, ~WriteFails, Open \/ AttemptStep, pc \in Working, crashes' = crashes
  PROVE  SteadyInv'
<1>1. WorkerStep /\ [Next]_vars
  BY DEF WorkerStep, Next
<1>2. SyncInv /\ LedgerInv /\ ViewsSound /\ WorkSound
  BY DEF Ground, SteadyInv
<1>3. ViewsSound'
  BY <1>1, <1>2, ViewsStaySound
<1>4. rec = "off" /\ rec' = "off"
  BY <1>1, WorkerRuns DEF Ground, SyncInv, OneActive
<1>5. pc' \in Working
  <2>1. CASE Open
    BY <2>1 DEF Open, Working
  <2>2. ASSUME NEW i \in 1..Len(pending), Pick(i) \/ WaitCancelled(i)
        PROVE  pc' \in Working
    BY <2>2 DEF Pick, WaitCancelled, Working
  <2>3. CASE FetchFails \/ FetchStages \/ Refuse \/ Mark
    BY <2>3 DEF FetchFails, FetchStages, Refuse, Mark, Attempted, Working
  <2>4. CASE Install
    BY <2>4 DEF Install, Working
  <2>5. CASE Checkpoint \/ CheckpointFails \/ Observe \/ Settle \/ Retire \/ Release
    BY <2>5 DEF Checkpoint, CheckpointFails, Observe, Settle, Retire, Release, KeepEvidence, Working
  <2>6. QED
    BY <2>1, <2>2, <2>3, <2>4, <2>5 DEF AttemptStep
<1>6. pc' \notin Resuming /\ pc' # "idle" /\ pc' # "clean"
  BY <1>5 DEF Working, Resuming
<1>7. WorkSound'
  BY <1>2, WorkerWorks
<1>8. job'.status = "running"
  BY <1>2, <1>1, StepKinds, LedgerKept, <1>6 DEF Working, LedgerInv, Active
<1>9. crashes' = 0 => FirstLife'
  BY <1>2, WorkerFirst, <1>4, <1>6 DEF SteadyInv, FirstLife
<1>10. QED
  BY <1>3, <1>4, <1>5, <1>6, <1>7, <1>8, <1>9 DEF SteadyInv

\* When the views are the same, the job shows as much as before.
LEMMA ShownStays ==
  ASSUME job'.view = job.view, UNCHANGED <<receipts, degraded>>
  PROVE  /\ AllShown => AllShown'
         /\ AllKnown => AllKnown'
<1>1. /\ \A c : Blank(c)' <=> Blank(c)
      /\ \A c : Bad(c)' <=> Bad(c)
  BY ViewsStay
<1>2. QED
  BY <1>1 DEF AllShown, AllKnown, Cached

\* The worker ends with the verdict, or leaves the job to the next restart.
LEMMA FinishSteady ==
  ASSUME Ground, SteadyInv, ~WriteFails, Finish, crashes' = crashes
  PROVE  SteadyInv'
<1>1. WorkerStep /\ [Next]_vars
  BY DEF WorkerStep, Next
<1>2. SyncInv /\ ViewsSound /\ pc = "pick" /\ pc \in Working
  BY DEF Ground, Finish, Working
<1>3. WorkSound
  BY <1>2 DEF SteadyInv
<1>4. ViewsSound'
  BY <1>1, <1>2, ViewsStaySound
<1>5. rec' = "off"
  BY <1>1, WorkerRuns DEF Ground, SyncInv, OneActive
<1>6. /\ UNCHANGED <<receipts, degraded>>
      /\ \/ pc' = "idle" /\ job' = job /\ ~run.recovered /\ run.result = "evidence"
         \/ pc' = "clean" /\ job' = WithStatus(Verdict)
  BY Saved DEF Finish, cacheVars, jobVars
<1>7. job'.view = job.view
  BY <1>2, <1>6, ViewsOf DEF SyncInv
<1>8. AllShown /\ AllKnown
  BY <1>2, <1>3 DEF WorkSound, ShownInFlight, KnownInFlight, Erring, AllShown, AllKnown
<1>9. AllShown' /\ AllKnown'
  BY <1>6, <1>7, <1>8, ShownStays
<1>10. crashes' = 0 => FirstLife'
  BY <1>2, <1>6, <1>5 DEF SteadyInv, FirstLife, FirstSound, FirstRun, Working, Resuming
<1>11. pc' \notin Working /\ pc' \notin Resuming
  BY <1>6 DEF Working, Resuming
<1>12. QED
  BY <1>4, <1>5, <1>9, <1>10, <1>11 DEF SteadyInv

\* Cleaning up takes nothing from the cache and from the job.
LEMMA CleanSteady ==
  ASSUME Ground, SteadyInv, ~WriteFails, Clean, crashes' = crashes
  PROVE  SteadyInv'
<1>1. WorkerStep /\ [Next]_vars
  BY DEF WorkerStep, Next
<1>2. SyncInv /\ ViewsSound
  BY DEF Ground
<1>3. ViewsSound'
  BY <1>1, <1>2, ViewsStaySound
<1>4. rec' = "off"
  BY <1>1, WorkerRuns DEF Ground, SyncInv, OneActive
<1>5. pc = "clean" /\ pc' = "idle" /\ UNCHANGED <<job, receipts, degraded>>
  BY DEF Clean, cacheVars, jobVars
<1>6. job.status \in Terminal
  BY <1>5 DEF Ground, RetryInv, LedgerInv
<1>7. AllShown => AllShown'
  BY <1>5, ShownStays
<1>8. job'.status = "succeeded" => AllShown'
  BY <1>5, <1>7 DEF SteadyInv
<1>9. FirstLife'
  BY <1>4, <1>5, <1>6 DEF FirstLife, Resuming, Working
<1>10. QED
  BY <1>3, <1>4, <1>5, <1>6, <1>8, <1>9 DEF SteadyInv, Working, Resuming

-----------------------------------------------------------------------------
(* Going on after the furthest stage.                                      *)

\* The commit of a resumed stage fails, and nothing is left to try.
LEMMA RecoveredRefuseWorks ==
  ASSUME Ground, ResumeSound, RecoveredRefuse
  PROVE  WorkSound' /\ pc' = "pick"
<1>1. /\ pc = "rcommit" /\ pc' = "pick"
      /\ UNCHANGED <<job, receipts, degraded, pending>>
  BY DEF RecoveredRefuse, jobVars, cacheVars
<1>2. pending' = <<>> /\ AllShown /\ AllKnown
  BY <1>1 DEF ResumeSound
<1>3. AllShown' /\ AllKnown'
  BY <1>1, <1>2, ShownStays
<1>4. QueueSound'
  BY <1>2 DEF QueueSound, QueueOrdered, Queue
<1>5. FlightSound'
  BY <1>1 DEF FlightSound, Flying, Trying
<1>6. ShownInFlight' /\ KnownInFlight'
  BY <1>3 DEF ShownInFlight, KnownInFlight, AllShown, AllKnown
<1>7. QED
  BY <1>1, <1>4, <1>5, <1>6 DEF WorkSound

\* The batch of a resumed stage is installed.
LEMMA RecoveredInstallResumes ==
  ASSUME Ground, ResumeSound, Install, pc = "rcommit"
  PROVE  ResumeSound' /\ pc' = "rmark"
<1>1. SyncInv /\ JournalInv
  BY DEF Ground
<1>2. PICK s \in journal : s = ItemStage /\ Own(s) /\ \A t \in journal : Own(t) => t = s
  BY <1>1, TheOwnStage DEF HasStage
<1>3. /\ pc' = "rmark" /\ CommitBatch(s)
      /\ UNCHANGED <<job, journal, check, pending, item, err, run>>
  BY <1>2 DEF Install, jobVars
<1>4. s.c = item.c /\ degraded' = Frontiers(s) /\ receipts' = receipts \cup {Receipt(s)} /\ Receipt(s)[1] = item.c
  BY <1>2, <1>3 DEF CommitBatch, Own, Receipt
<1>5. AllShown /\ AllKnown /\ StageResumed(s) /\ Unreported(s)
  BY <1>2 DEF ResumeSound, StageResumed
<1>6. pending' = <<>> /\ Scheduled' = {}
  BY <1>3 DEF ResumeSound, Scheduled
<1>7. \A s1 \in journal' : Own(s1)' => s1 = s
  BY <1>2, <1>3 DEF Own
<1>8. StageResumed(s)'
  <2>1. \A c \in degraded' : Bad(c) \/ (c = item.c /\ s.err # "none")
    BY <1>4, <1>5 DEF Frontiers, AllShown
  <2>2. s.err = "none" => item.c \notin degraded'
    BY <1>4 DEF Frontiers
  <2>3. /\ \A c : Bad(c)' <=> Bad(c)
        /\ Unreported(s)' <=> Unreported(s)
        /\ \A e : FreshAhead(e)' <=> FreshAhead(e)
    BY <1>3 DEF Bad, Unreported, FreshAhead
  <2>4. Rest(s)' = Rest(s)
    BY DEF Rest
  <2>5. QED
    BY <1>3, <1>5, <2>1, <2>2, <2>3, <2>4 DEF StageResumed
<1>9. \A c \in Collections : Cached(c)' /\ Blank(c)' => c = item'.c
  BY <1>3, <1>4, <1>5 DEF AllKnown, Cached, Blank
<1>10. QED
  BY <1>3, <1>6, <1>7, <1>8, <1>9 DEF ResumeSound

\* The journal learns of it.
LEMMA RecoveredMarkResumes ==
  ASSUME Ground, ResumeSound, ~WriteFails, RecoveredMark
  PROVE  ResumeSound' /\ pc' = "rproject"
<1>1. SyncInv /\ JournalInv
  BY DEF Ground
<1>2. PICK s \in journal : s = ItemStage /\ Own(s) /\ \A t \in journal : Own(t) => t = s
  BY <1>1, TheOwnStage DEF RecoveredMark, HasStage
<1>3. /\ pc = "rmark" /\ pc' = "rproject" /\ journal' = InPhase(s, "committed")
      /\ UNCHANGED <<job, check, receipts, degraded, pending, item, err, run>>
  BY <1>2 DEF RecoveredMark, jobVars, cacheVars
<1>4. PICK u \in StageRecords : /\ InPhase(s, "committed") = (journal \ {s}) \cup {u}
                                /\ SameBatch(u, s) /\ u.phase = "committed"
  BY <1>1, PhaseStage DEF SyncInv, JournalInv
<1>5. Moves(s, "committed")
  BY <1>1, <1>3, WritingMoves DEF SyncInv, JournalInv
<1>6. pending' = <<>> /\ Scheduled' = {} /\ StageResumed(s)
  BY <1>2, <1>3 DEF ResumeSound, Scheduled
<1>7. \A t \in journal' : Own(t)' => t = u
  BY <1>2, <1>3, <1>4 DEF Own
<1>8. StageResumed(u)'
  <2>1. /\ \A c : Bad(c)' <=> Bad(c)
        /\ Unreported(u)' <=> Unreported(s)
    BY <1>4, SameBatchSame, <1>3 DEF Bad, Unreported
  <2>2. Rest(u)' = Rest(s) /\ u.list = s.list /\ u.err = s.err
    BY <1>4 DEF Rest, SameBatch
  <2>3. \A e \in Rest(s) : FreshAhead(e)'
    BY <1>5, <1>6, FreshStays DEF StageResumed
  <2>4. QED
    BY <1>3, <1>6, <2>1, <2>2, <2>3 DEF StageResumed
<1>9. \A c \in Collections : Cached(c)' /\ Blank(c)' => c = item'.c
  BY <1>3 DEF ResumeSound, Cached, Blank
<1>10. QED
  BY <1>3, <1>6, <1>7, <1>8, <1>9 DEF ResumeSound

\* The view of a recovered batch says whether the batch was whole.
LEMMA BatchReported ==
  ASSUME JobOK, NEW s \in StageRecords, job' = WithView(s.c, RecoveredView(s))
  PROVE  /\ \A d \in Collections \ {s.c} : /\ job'.view[d] = job.view[d]
                                           /\ Blank(d)' <=> Blank(d)
                                           /\ Bad(d)' <=> Bad(d)
         /\ ~Blank(s.c)'
         /\ Bad(s.c)' <=> s.err # "none"
         /\ job'.view[s.c].n = s.n /\ job'.view[s.c].seen = s.g
         /\ job'.view[s.c].outcome \in {"success", "failed"}
         /\ \A t \in StageRecords : t.c # s.c => (Unreported(t)' <=> Unreported(t))
         /\ \A t : t.c = s.c => (Unreported(t)' <=> s.n < t.n \/ (s.n = t.n /\ s.g # t.g))
<1>1. PICK v : v = RecoveredView(s)
  OBVIOUS
<1>2. s.c \in Collections
  BY DEF StageRecords
<1>3. v.n = s.n /\ v.seen = s.g /\ v.outcome = IF s.err = "none" THEN "success" ELSE "failed"
  BY <1>1 DEF RecoveredView
<1>4. v.outcome \in {"success", "failed"} /\ v.outcome # "none"
  BY <1>3
<1>5. Reports(s.c, v)
  BY <1>1, <1>2, <1>4, WithViewReports
<1>6. v.outcome \in {"failed", "cancelled", "retry"} <=> s.err # "none"
  BY <1>3
<1>7. /\ job'.view[s.c] = v
      /\ \A d \in Collections \ {s.c} : /\ job'.view[d] = job.view[d]
                                        /\ Blank(d)' <=> Blank(d)
                                        /\ Bad(d)' <=> Bad(d)
      /\ ~Blank(s.c)'
      /\ Bad(s.c)' <=> v.outcome \in {"failed", "cancelled", "retry"}
      /\ \A t \in StageRecords : t.c # s.c => (Unreported(t)' <=> Unreported(t))
      /\ \A t : t.c = s.c => (Unreported(t)' <=> v.n < t.n \/ (v.n = t.n /\ v.seen # t.g))
  BY <1>2, <1>5, ViewChanges
<1>8. \A t : t.c = s.c => (Unreported(t)' <=> s.n < t.n \/ (s.n = t.n /\ s.g # t.g))
  BY <1>3, <1>7
<1>9. QED
  BY <1>3, <1>4, <1>6, <1>7, <1>8

\* The queue of a schedule.
LEMMA ScheduleQueued ==
  ASSUME NEW S \in SUBSET Collections, pending' = Schedule(S)
  PROVE  /\ Queue' = {Entry(c) : c \in S}
         /\ \A i, j \in 1..Len(pending') : i < j => /\ pending'[i].c < pending'[j].c
                                                    /\ pending'[i].c # pending'[j].c
<1>1. /\ \A i \in 1..Len(pending') : \E c \in S : pending'[i] = Entry(c)
      /\ \A c \in S : \E i \in 1..Len(pending') : pending'[i] = Entry(c)
      /\ \A i, j \in 1..Len(pending') : i < j => pending'[i].c < pending'[j].c
  BY ScheduleHolds
<1>2. \A i \in 1..Len(pending') : pending'[i].c \in Nat
  <2>1. \A c \in S : Entry(c).c = c
    BY DEF Entry
  <2>2. QED
    BY <1>1, <2>1, SyncConstants
<1>3. \A i, j \in 1..Len(pending') : i < j => pending'[i].c # pending'[j].c
  BY <1>1, <1>2
<1>4. Queue' = {Entry(c) : c \in S}
  BY <1>1 DEF Queue
<1>5. QED
  BY <1>1, <1>3, <1>4

\* It is reported, and the rest of the workflow is scheduled.
LEMMA RecoveredProjectWorks ==
  ASSUME Ground, ResumeSound, ~WriteFails, RecoveredProject
  PROVE  WorkSound' /\ pc' \in {"pick", "open"}
<1>1. SyncInv /\ JournalInv /\ JobOK
  BY DEF Ground, SyncInv
<1>2. PICK s \in journal : s = ItemStage /\ Own(s)
  BY <1>1, TheOwnStage DEF RecoveredProject, HasStage
<1>3. /\ pc = "rproject" /\ pc' \in {"pick", "open"}
      /\ IF Unreported(s) THEN job' = WithView(s.c, RecoveredView(s)) ELSE job' = job
      /\ pending' = Schedule(Rest(s))
      /\ UNCHANGED <<journal, check, receipts, degraded, item, err, run>>
  BY <1>2, Saved DEF RecoveredProject, jobVars, cacheVars
<1>4. s \in StageRecords /\ s.n \in Nat /\ s.c \in Collections /\ s.n >= 1
  BY <1>1, StageNumbers, SyncConstants DEF StageRecords
<1>5. Rest(s) \in SUBSET Collections /\ Rest(s) \subseteq s.list
  BY <1>4 DEF Rest, StageRecords
<1>6. /\ Scheduled = {} /\ StageResumed(s) /\ s.c = item.c
      /\ \A c \in Collections : Cached(c) /\ Blank(c) => c = item.c
  BY <1>2, <1>3 DEF ResumeSound, Own
<1>7. Scheduled' = {}
  BY <1>3, <1>6 DEF Scheduled
<1>8. /\ Queue' = {Entry(c) : c \in Rest(s)}
      /\ \A i, j \in 1..Len(pending') : i < j => /\ pending'[i].c < pending'[j].c
                                                 /\ pending'[i].c # pending'[j].c
  BY <1>3, <1>5, ScheduleQueued
<1>9. QueueSound'
  <2>1. QueueOrdered'
    BY <1>8 DEF QueueOrdered
  <2>2. ASSUME NEW c \in Rest(s), NEW p, p = Entry(c)
        PROVE  EntrySound(p)'
    <3>1. check[c].n = 0
      <4>1. c \in Collections
        BY <1>5
      <4>2. check[c] \in Checks
        BY <1>1, <4>1 DEF SyncInv, CheckOK
      <4>3. check[c].n \in 0..(Budget - 1)
        BY <4>2 DEF Checks
      <4>4. ~(check[c].n > 0)
        BY <1>6, <4>1 DEF Scheduled
      <4>5. QED
        BY <4>3, <4>4, SyncConstants
    <3>2. p.c = c /\ p.n = 0 /\ p.later = FALSE
      <4>1. Entry(c).c = c /\ Entry(c).n = check[c].n /\ Entry(c).later = (check[c].n > 0)
        BY DEF Entry
      <4>2. (check[c].n > 0) = FALSE
        BY <3>1
      <4>3. QED
        BY <2>2, <3>1, <4>1, <4>2
    <3>3. Chosen(c)'
      BY <1>3, <1>5, <1>6, <1>7 DEF Chosen, StageResumed
    <3>4. FreshAhead(c)'
      BY <1>3, <1>6 DEF StageResumed, FreshAhead
    <3>5. Chosen(p.c)' /\ FreshAhead(p.c)'
      BY <3>2, <3>3, <3>4
    <3>6. pc' \notin Flying /\ ~(p.n > 0)
      BY <1>3, <3>2 DEF Flying
    <3>7. QED
      BY <3>2, <3>5, <3>6 DEF EntrySound
  <2>3. QED
    BY <1>8, <2>1, <2>2 DEF QueueSound
<1>10. FlightSound'
  BY <1>3 DEF FlightSound, Flying, Trying
<1>11. CASE Unreported(s)
  <2>1. /\ \A d \in Collections \ {s.c} : (Blank(d)' <=> Blank(d)) /\ (Bad(d)' <=> Bad(d))
        /\ ~Blank(s.c)' /\ (Bad(s.c)' <=> s.err # "none")
    BY <1>1, <1>3, <1>4, <1>11, BatchReported
  <2>2. ShownInFlight'
    <3>1. ASSUME NEW c \in degraded
          PROVE  Bad(c)'
      <4>1. c \in Collections
        BY <1>1 DEF SyncInv, CacheOK
      <4>2. CASE c # s.c
        BY <1>3, <1>6, <2>1, <4>1, <4>2 DEF StageResumed
      <4>3. CASE c = s.c
        BY <1>3, <1>6, <1>11, <4>3, <2>1 DEF StageResumed
      <4>4. QED
        BY <4>2, <4>3
    <3>2. QED
      BY <1>3, <3>1 DEF ShownInFlight
  <2>3. KnownInFlight'
    <3>1. ASSUME NEW c \in Collections, Cached(c)', Blank(c)'
          PROVE  FALSE
      BY <2>1, <3>1, <1>3, <1>6 DEF Cached
    <3>2. QED
      BY <3>1 DEF KnownInFlight
  <2>4. QED
    BY <1>3, <1>9, <1>10, <2>2, <2>3 DEF WorkSound
<1>12. CASE ~Unreported(s)
  <2>1. job' = job
    BY <1>3, <1>12
  <2>2. AllShown
    BY <1>3, <1>6, <1>12 DEF StageResumed, AllShown
  <2>3. AllKnown
    BY <1>4, <1>12, <1>6 DEF Ground, ViewsSound, Unreported, AllKnown
  <2>4. AllShown' /\ AllKnown'
    BY <1>3, <2>1, <2>2, <2>3, ShownStays
  <2>5. ShownInFlight' /\ KnownInFlight'
    BY <2>4 DEF ShownInFlight, KnownInFlight, AllShown, AllKnown
  <2>6. QED
    BY <1>3, <1>9, <1>10, <2>5 DEF WorkSound
<1>13. QED
  BY <1>11, <1>12

\* Going on keeps the rest of the invariant.
LEMMA ResumingSteady ==
  ASSUME Ground, SteadyInv, ~WriteFails, crashes' = crashes, pc \in Resuming,
         Install \/ RecoveredRefuse \/ RecoveredMark \/ RecoveredProject
  PROVE  SteadyInv'
<1>1. WorkerStep /\ [Next]_vars
  BY DEF WorkerStep, AttemptStep, Next
<1>2. SyncInv /\ LedgerInv /\ ViewsSound /\ ResumeSound
  BY DEF Ground, SteadyInv
<1>3. ViewsSound'
  BY <1>1, <1>2, ViewsStaySound
<1>4. rec' = "off"
  BY <1>1, WorkerRuns DEF Ground, SyncInv, OneActive
<1>5. \/ WorkSound' /\ pc' \in {"pick", "open"}
      \/ ResumeSound' /\ pc' \in {"rmark", "rproject"}
  <2>1. CASE Install
    BY <2>1, <1>2, RecoveredInstallResumes DEF Install, Resuming
  <2>2. QED
    BY <1>2, <2>1, RecoveredRefuseWorks, RecoveredMarkResumes, RecoveredProjectWorks
<1>6. pc' # "idle" /\ pc' # "clean"
  BY <1>5
<1>7. LedgerInv'
  BY <1>1, <1>2, StepKinds, LedgerKept
<1>8. job'.status = "running"
  BY <1>6, <1>7 DEF LedgerInv, Active
<1>9. crashes' # 0
  BY DEF SteadyInv, FirstLife
<1>10. (pc' \in Working => WorkSound') /\ (pc' \in Resuming => ResumeSound')
  BY <1>5 DEF Working, Resuming
<1>11. QED
  BY <1>3, <1>4, <1>6, <1>8, <1>9, <1>10 DEF SteadyInv

\* Every step of the worker.
LEMMA WorkerSteady ==
  ASSUME Ground, SteadyInv, ~WriteFails, crashes' = crashes, WorkerStep
  PROVE  SteadyInv'
<1>1. CASE pc \in Resuming
  <2>1. Install \/ RecoveredRefuse \/ RecoveredMark \/ RecoveredProject
    <3>1. ~Open /\ ~Finish /\ ~Clean /\ \A i \in 1..Len(pending) : ~Pick(i) /\ ~WaitCancelled(i)
      BY <1>1 DEF Open, Finish, Clean, Pick, WaitCancelled, Resuming
    <3>2. /\ ~FetchFails /\ ~FetchStages /\ ~Refuse /\ ~Mark /\ ~Checkpoint /\ ~CheckpointFails
          /\ ~Observe /\ ~Settle /\ ~Retire /\ ~Release
      BY <1>1 DEF FetchFails, FetchStages, Refuse, Mark, Checkpoint, CheckpointFails, Observe, Settle,
         Retire, Release, Resuming
    <3>3. QED
      BY <3>1, <3>2 DEF WorkerStep, AttemptStep
  <2>2. QED
    BY <1>1, <2>1, ResumingSteady
<1>2. CASE pc \notin Resuming
  <2>1. ~RecoveredRefuse /\ ~RecoveredMark /\ ~RecoveredProject
    BY <1>2 DEF RecoveredRefuse, RecoveredMark, RecoveredProject, Resuming
  <2>2. CASE Clean
    BY <2>2, CleanSteady
  <2>3. CASE Finish
    BY <2>3, FinishSteady
  <2>4. CASE Open \/ AttemptStep
    <3>1. pc \in Steps /\ pc # "idle"
      BY <2>4, WorkerRuns DEF Ground, SyncInv, WorkOK, WorkerStep
    <3>2. pc # "clean"
      <4>1. ~Clean \/ pc = "clean"
        BY DEF Clean
      <4>2. pc = "clean" => ~Open /\ ~AttemptStep
        BY DEF AttemptStep, Open, Pick, WaitCancelled, FetchFails, FetchStages, Install, Refuse,
           Mark, Checkpoint, CheckpointFails, Observe, Settle, Retire, Release
      <4>3. QED
        BY <2>4, <4>2
    <3>3. pc \in Working
      BY <1>2, <3>1, <3>2 DEF Steps, Working, Resuming
    <3>4. QED
      BY <2>4, <3>3, WorkingSteady
  <2>5. QED
    BY <2>1, <2>2, <2>3, <2>4 DEF WorkerStep
<1>3. QED
  BY <1>1, <1>2

-----------------------------------------------------------------------------
(* The steps of recovery.                                                  *)

\* What a step of recovery has to keep.
LEMMA RecoveringSteady ==
  ASSUME Ground, SteadyInv, ~WriteFails, crashes' = crashes, RecoveryStep,
         job'.status = "succeeded" => AllShown',
         pc' \in Working => WorkSound',
         pc' \in Resuming => ResumeSound',
         pc' = "idle" /\ rec' = "off" /\ job'.status \notin Terminal => AllKnown',
         rec' # "off" /\ job'.status \notin Terminal => RecoverySound'
  PROVE  SteadyInv'
<1>1. [Next]_vars /\ rec # "off"
  BY RecoveryRuns DEF Next
<1>2. ViewsSound'
  BY <1>1, ViewsStaySound DEF Ground
<1>3. crashes' # 0
  BY <1>1 DEF SteadyInv, FirstLife
<1>4. QED
  BY <1>2, <1>3 DEF SteadyInv

\* Where recovery is, nothing else runs.
LEMMA RecoveryAlone ==
  ASSUME Ground, SteadyInv, NEW r, Recovering(r), r # "off"
  PROVE  /\ rec = r /\ pc = "idle" /\ RecoverySound /\ job.status = "interrupted"
         /\ SyncInv /\ JournalInv /\ ViewsSound
  BY DEF Ground, SyncInv, OneActive, SteadyInv, Recovering, Terminal

\* A stage that changes its phase is what it was for recovery.
LEMMA MovedStages ==
  ASSUME StagesSound, NEW s \in journal, s.phase = "staged", NEW u,
         journal' = (journal \ {s}) \cup {u}, SameBatch(u, s), u.phase = "committed",
         UNCHANGED <<job, check, receipts, degraded>>
  PROVE  StagesSound'
<1>1. /\ Live(u)' <=> Live(s)
      /\ Counted(u)' <=> Counted(s)
      /\ u.c = s.c /\ u.n = s.n /\ u.err = s.err
  BY SameBatchSame DEF Unreported, Live, Counted, SameBatch
<1>2. \A t : /\ Live(t)' <=> Live(t)
             /\ Counted(t)' <=> Counted(t)
             /\ Unreported(t)' <=> Unreported(t)
  BY DEF Live, Counted, Unreported
<1>3. /\ \A c : (Bad(c)' <=> Bad(c)) /\ (Blank(c)' <=> Blank(c)) /\ (Cached(c)' <=> Cached(c))
      /\ \A c : (SettledBy(c)' <=> SettledBy(c))
      /\ Scheduled' = Scheduled
  BY DEF Bad, Blank, Cached, SettledBy, Scheduled
<1>4. \A t \in journal' : t = u \/ (t \in journal /\ t # s)
  OBVIOUS
<1>5. \A t \in journal : t = s \/ t \in journal'
  OBVIOUS
<1>6. u \in journal'
  OBVIOUS
<1>7. \A t \in journal' : Counted(t)' /\ t.err = "none" => t.c \notin degraded'
  BY <1>1, <1>2, <1>4 DEF StagesSound
<1>8. \A c \in degraded' : Bad(c)' \/ \E t \in journal' : t.c = c /\ Counted(t)' /\ t.err # "none"
  <2>1. ASSUME NEW c \in degraded', ~Bad(c)'
        PROVE  \E t \in journal' : t.c = c /\ Counted(t)' /\ t.err # "none"
    <3>1. PICK t \in journal : t.c = c /\ Counted(t) /\ t.err # "none"
      BY <1>3, <2>1 DEF StagesSound
    <3>2. CASE t = s
      BY <1>1, <1>6, <3>1, <3>2
    <3>3. CASE t # s
      BY <1>2, <1>5, <3>1, <3>3
    <3>4. QED
      BY <3>2, <3>3
  <2>2. QED
    BY <2>1
<1>9. \A t, w \in journal' : Live(t)' /\ Live(w)' /\ t.c = w.c => t = w
  <2>1. ASSUME NEW t \in journal', NEW w \in journal', Live(t)', Live(w)', t.c = w.c, t # w
        PROVE  FALSE
    BY <1>1, <1>2, <1>4, <2>1 DEF StagesSound
  <2>2. QED
    BY <2>1
<1>10. \A t \in journal' : t.phase = "staged" => Unreported(t)'
  BY <1>2, <1>4 DEF StagesSound
<1>11. \A c \in Collections : Cached(c)' /\ Blank(c)' => \E t \in journal' : t.c = c /\ Counted(t)'
  <2>1. ASSUME NEW c \in Collections, Cached(c)', Blank(c)'
        PROVE  \E t \in journal' : t.c = c /\ Counted(t)'
    <3>1. PICK t \in journal : t.c = c /\ Counted(t)
      BY <1>3, <2>1 DEF StagesSound
    <3>2. CASE t = s
      BY <1>1, <1>6, <3>1, <3>2
    <3>3. CASE t # s
      BY <1>2, <1>5, <3>1, <3>3
    <3>4. QED
      BY <3>2, <3>3
  <2>2. QED
    BY <2>1
<1>12. \A c \in Scheduled' : SettledBy(c)' /\ c \in degraded' => Bad(c)'
  BY <1>3 DEF StagesSound
<1>13. QED
  BY <1>7, <1>8, <1>9, <1>10, <1>11, <1>12 DEF StagesSound

\* Nor does the rest of what recovery reads change with a phase.
LEMMA MovedRest ==
  ASSUME NEW s \in journal, NEW u, NEW p, journal' \subseteq (journal \ {s}) \cup {u},
         SameBatch(u, s), u.phase = p, UNCHANGED <<job, check, receipts>>
  PROVE  /\ Whole => Whole'
         /\ NoneAhead => NoneAhead'
         /\ FullChecks => FullChecks'
         /\ FurthestCounts /\ s.phase # "rejected" => FurthestCounts'
<1>1. \A t \in journal' : t = u \/ (t \in journal /\ t # s)
  OBVIOUS
<1>2. u.c = s.c /\ u.n = s.n /\ u.list = s.list
  BY DEF SameBatch
<1>3. Whole => Whole'
  BY <1>1, <1>2 DEF Whole
<1>4. \A d : Blank(d)' <=> Blank(d)
  BY DEF Blank
<1>5. NoneAhead => NoneAhead'
  BY <1>1, <1>2, <1>4 DEF NoneAhead
<1>6. Scheduled' = Scheduled
  BY DEF Scheduled
<1>7. FullChecks => FullChecks'
  BY <1>6 DEF FullChecks
<1>8. ASSUME FurthestCounts, s.phase # "rejected"
      PROVE  FurthestCounts'
  <2>1. Counted(u)' => Counted(s)
    BY SameBatchSame, <1>8 DEF Unreported, Live, Counted
  <2>2. \A t : Counted(t)' <=> Counted(t)
    BY DEF Live, Counted, Unreported
  <2>3. ASSUME Scheduled' = {}, NEW x \in journal', NEW y \in journal', Counted(x)'
        PROVE  x.n = 1 /\ (y = x \/ y.c < x.c)
    <3>1. PICK a \in journal : /\ Counted(a) /\ a.c = x.c /\ a.n = x.n
                               /\ x = u => a = s
                               /\ x # u => a = x
      BY <1>1, <1>2, <2>1, <2>2, <2>3
    <3>2. PICK b \in journal : /\ b.c = y.c
                               /\ y = u => b = s
                               /\ y # u => b = y
      BY <1>1, <1>2, <2>3
    <3>3. a.n = 1 /\ (b = a \/ b.c < a.c)
      BY <1>6, <1>8, <2>3, <3>1 DEF FurthestCounts
    <3>4. b = a => y = x
      BY <1>1, <2>3, <3>1, <3>2
    <3>5. QED
      BY <3>1, <3>2, <3>3, <3>4
  <2>4. QED
    BY <2>3 DEF FurthestCounts
<1>9. QED
  BY <1>3, <1>5, <1>7, <1>8

\* A batch that is reported needs no recovery any more.
LEMMA ReportedStages ==
  ASSUME Ground, StagesSound, NEW s \in journal, s.phase = "committed", Unreported(s),
         job' = WithView(s.c, RecoveredView(s)), UNCHANGED <<journal, check, receipts, degraded>>
  PROVE  /\ StagesSound'
         /\ FurthestCounts => FurthestCounts'
         /\ NoneAhead => NoneAhead'
<1>1. SyncInv /\ JournalInv /\ JobOK /\ s \in StageRecords /\ s.c \in Collections
  BY StageNumbers DEF Ground, SyncInv, StageRecords
<1>2. /\ \A d \in Collections \ {s.c} : /\ job'.view[d] = job.view[d]
                                        /\ Blank(d)' <=> Blank(d)
                                        /\ Bad(d)' <=> Bad(d)
      /\ ~Blank(s.c)'
      /\ Bad(s.c)' <=> s.err # "none"
      /\ \A t \in StageRecords : t.c # s.c => (Unreported(t)' <=> Unreported(t))
      /\ \A t : t.c = s.c => (Unreported(t)' <=> s.n < t.n \/ (s.n = t.n /\ s.g # t.g))
  BY <1>1, BatchReported
<1>3. Live(s) /\ Counted(s)
  BY <1>1 DEF JournalInv, StageSound, Live, Counted
<1>4. ASSUME NEW t \in journal, t.c = s.c
      PROVE  ~Live(t)' /\ t.phase # "staged"
  <2>1. t.phase = "staged" => Live(t)
    BY DEF StagesSound, Live
  <2>2. Live(t) => t = s
    BY <1>3, <1>4 DEF StagesSound
  <2>3. t.phase # "staged"
    BY <2>1, <2>2
  <2>4. ASSUME Live(t)'
        PROVE  FALSE
    <3>1. t.phase # "rejected" /\ Unreported(t)'
      BY <2>4 DEF Live
    <3>2. s.n < t.n \/ (s.n = t.n /\ s.g # t.g)
      BY <1>2, <1>4, <3>1
    <3>3. s.n \in Nat /\ t.n \in Nat
      BY <1>1, StageNumbers
    <3>4. job.view[s.c].n \in Nat
      <4>1. job.view[s.c] \in Views
        BY <1>1 DEF JobOK, JobRecords
      <4>2. job.view[s.c].n \in 0..Budget
        BY <4>1 DEF Views
      <4>3. QED
        BY <4>2, SyncConstants
    <3>5. t # s
      BY <3>2, <3>3
    <3>6. ~Unreported(t)
      BY <2>2, <3>1, <3>5 DEF Live
    <3>7. s.n # t.n
      BY <1>1, <1>4, <3>5 DEF JournalInv, StagesDiffer, Id
    <3>8. job.view[s.c].n <= s.n
      BY <3>3, <3>4 DEF Unreported
    <3>9. t.n <= job.view[s.c].n
      BY <1>4, <3>3, <3>4, <3>6 DEF Unreported
    <3>10. QED
      BY <3>2, <3>3, <3>4, <3>7, <3>8, <3>9
  <2>5. QED
    BY <2>3, <2>4
<1>5. \A t \in journal : t.c # s.c => /\ Unreported(t)' <=> Unreported(t)
                                      /\ Live(t)' <=> Live(t)
                                      /\ Counted(t)' <=> Counted(t)
  BY <1>1, <1>2, StageNumbers DEF Live, Counted
<1>6. \A t \in journal : Counted(t)' => t.c # s.c /\ Counted(t)
  BY <1>4, <1>5 DEF Counted
<1>7. \A t \in journal : Live(t)' => t.c # s.c /\ Live(t)
  BY <1>4, <1>5
<1>8. \A c \in degraded : Bad(c)' \/ \E t \in journal : t.c = c /\ Counted(t)' /\ t.err # "none"
  <2>1. ASSUME NEW c \in degraded, ~Bad(c)'
        PROVE  \E t \in journal : t.c = c /\ Counted(t)' /\ t.err # "none"
    <3>1. c \in Collections
      BY <1>1 DEF SyncInv, CacheOK
    <3>2. c # s.c
      BY <1>2, <1>3, <2>1 DEF StagesSound
    <3>3. ~Bad(c)
      BY <1>2, <2>1, <3>1, <3>2
    <3>4. PICK t \in journal : t.c = c /\ Counted(t) /\ t.err # "none"
      BY <3>3 DEF StagesSound
    <3>5. QED
      BY <1>5, <3>2, <3>4
  <2>2. QED
    BY <2>1
<1>9. \A c \in Collections : Cached(c)' /\ Blank(c)' => \E t \in journal : t.c = c /\ Counted(t)'
  <2>1. ASSUME NEW c \in Collections, Cached(c)', Blank(c)'
        PROVE  \E t \in journal : t.c = c /\ Counted(t)'
    <3>1. c # s.c /\ Blank(c) /\ Cached(c)
      BY <1>2, <2>1 DEF Cached
    <3>2. PICK t \in journal : t.c = c /\ Counted(t)
      BY <3>1 DEF StagesSound
    <3>3. QED
      BY <1>5, <3>1, <3>2
  <2>2. QED
    BY <2>1
<1>10. \A c \in Scheduled : SettledBy(c)' /\ c \in degraded => Bad(c)'
  <2>1. ASSUME NEW c \in Scheduled, SettledBy(c)', c \in degraded
        PROVE  Bad(c)'
    <3>1. c \in Collections
      BY DEF Scheduled
    <3>2. CASE c = s.c
      BY <1>2, <1>3, <2>1, <3>2 DEF StagesSound
    <3>3. CASE c # s.c
      BY <1>2, <2>1, <3>1, <3>3 DEF SettledBy, StagesSound
    <3>4. QED
      BY <3>2, <3>3
  <2>2. QED
    BY <2>1
<1>11. Scheduled' = Scheduled
  BY DEF Scheduled
<1>12. \A t \in journal : t.phase = "staged" => Unreported(t)'
  BY <1>4, <1>5 DEF StagesSound
<1>13. \A t \in journal : Counted(t)' /\ t.err = "none" => t.c \notin degraded
  BY <1>6 DEF StagesSound
<1>14. \A t, w \in journal : Live(t)' /\ Live(w)' /\ t.c = w.c => t = w
  BY <1>7 DEF StagesSound
<1>15. StagesSound'
  BY <1>8, <1>9, <1>10, <1>11, <1>12, <1>13, <1>14 DEF StagesSound
<1>16. FurthestCounts => FurthestCounts'
  BY <1>6, <1>11 DEF FurthestCounts
<1>17. NoneAhead => NoneAhead'
  BY <1>2 DEF NoneAhead
<1>18. QED
  BY <1>15, <1>16, <1>17

\* A batch that recovery installs counts from then on.
LEMMA InstalledStages ==
  ASSUME Ground, StagesSound, NEW s \in journal, s.phase = "staged", Receipt(s) \notin receipts,
         s.c \in Scheduled => ~SettledBy(s.c), CommitBatch(s), UNCHANGED <<journal, check>>,
         job'.view = job.view
  PROVE  StagesSound'
<1>1. SyncInv /\ \A t \in journal : t \in StageRecords
  BY StageNumbers DEF Ground
<1>2. receipts' = receipts \cup {Receipt(s)} /\ degraded' = Frontiers(s)
  BY DEF CommitBatch
<1>3. /\ \A c : (Bad(c)' <=> Bad(c)) /\ (Blank(c)' <=> Blank(c))
      /\ \A t : Unreported(t)' <=> Unreported(t)
      /\ \A c : SettledBy(c)' <=> SettledBy(c)
      /\ Scheduled' = Scheduled
  BY DEF Bad, Blank, Unreported, SettledBy, Scheduled
<1>4. \A t : Live(t)' <=> Live(t)
  BY <1>3 DEF Live
<1>5. Live(s) /\ Counted(s)'
  BY <1>2, <1>4 DEF StagesSound, Live, Receipt, Counted
<1>6. \A t \in journal : t.c = s.c /\ Counted(t)' => t = s
  BY <1>4, <1>5 DEF Counted, StagesSound
<1>7. \A t \in journal : t.c # s.c => (Counted(t)' <=> Counted(t))
  BY <1>2, <1>4 DEF Counted, Receipt
<1>8. \A c : c # s.c => (c \in degraded' <=> c \in degraded)
  BY <1>2 DEF Frontiers
<1>9. s.c \in degraded' <=> s.err # "none"
  BY <1>2 DEF Frontiers
<1>10. \A t \in journal : Counted(t)' /\ t.err = "none" => t.c \notin degraded'
  BY <1>6, <1>7, <1>8, <1>9 DEF StagesSound
<1>11. \A c \in degraded' : Bad(c)' \/ \E t \in journal : t.c = c /\ Counted(t)' /\ t.err # "none"
  <2>1. ASSUME NEW c \in degraded', ~Bad(c)'
        PROVE  \E t \in journal : t.c = c /\ Counted(t)' /\ t.err # "none"
    <3>1. CASE c = s.c
      BY <1>5, <1>9, <2>1, <3>1
    <3>2. CASE c # s.c
      <4>1. PICK t \in journal : t.c = c /\ Counted(t) /\ t.err # "none"
        BY <1>3, <1>8, <2>1, <3>2 DEF StagesSound
      <4>2. QED
        BY <1>7, <3>2, <4>1
    <3>3. QED
      BY <3>1, <3>2
  <2>2. QED
    BY <2>1
<1>12. \A c \in Collections : Cached(c)' /\ Blank(c)' => \E t \in journal : t.c = c /\ Counted(t)'
  <2>1. ASSUME NEW c \in Collections, Cached(c)', Blank(c)', c # s.c
        PROVE  \E t \in journal : t.c = c /\ Counted(t)'
    <3>1. Cached(c)
      BY <1>2, <2>1 DEF Cached, Receipt
    <3>2. PICK t \in journal : t.c = c /\ Counted(t)
      BY <1>3, <2>1, <3>1 DEF StagesSound
    <3>3. QED
      BY <1>7, <2>1, <3>2
  <2>2. QED
    BY <1>5, <2>1
<1>13. \A c \in Scheduled' : SettledBy(c)' /\ c \in degraded' => Bad(c)'
  BY <1>3, <1>8 DEF StagesSound
<1>14. \A t, w \in journal : Live(t)' /\ Live(w)' /\ t.c = w.c => t = w
  BY <1>4 DEF StagesSound
<1>15. \A t \in journal : t.phase = "staged" => Unreported(t)'
  BY <1>3 DEF StagesSound
<1>16. QED
  BY <1>10, <1>11, <1>12, <1>13, <1>14, <1>15 DEF StagesSound

\* What recovery reads does not grow when it loses something.
LEMMA RestShrinks ==
  ASSUME journal' \subseteq journal, \A d \in Collections : Blank(d)' => Blank(d),
         Scheduled' \subseteq Scheduled, \A d \in Scheduled' : check'[d] = check[d]
  PROVE  /\ Whole => Whole'
         /\ NoneAhead => NoneAhead'
         /\ FullChecks => FullChecks'
<1>1. Whole => Whole'
  BY DEF Whole
<1>2. NoneAhead => NoneAhead'
  BY DEF NoneAhead
<1>3. FullChecks => FullChecks'
  BY DEF FullChecks
<1>4. QED
  BY <1>1, <1>2, <1>3

\* The stages of a job whose retries are resumed, one after the other.
LEMMA ReconcileInstallSteady ==
  ASSUME Ground, SteadyInv, ~WriteFails, crashes' = crashes, NEW s \in journal, ReconcileInstall(s)
  PROVE  SteadyInv'
<1>1. /\ Recovering("reconcile") /\ Scheduled # {} /\ s \in Unreconciled
      /\ s.phase = "staged" /\ Receipt(s) \notin receipts
      /\ UNCHANGED <<check, pc, pending, item, err, run>>
  BY DEF ReconcileInstall, Reconciling, workerVars
<1>2. /\ rec = "reconcile" /\ pc = "idle" /\ RecoverySound /\ job.status = "interrupted"
      /\ SyncInv /\ JournalInv
  BY <1>1, RecoveryAlone
<1>3. /\ job' = Show(Id(s))
      /\ \/ CommitBatch(s) /\ UNCHANGED <<journal, rec>>
         \/ journal' = InPhase(s, "rejected") /\ rec' = "failed" /\ UNCHANGED <<receipts, degraded>>
  BY Saved DEF ReconcileInstall, cacheVars
<1>4. job'.view = job.view /\ job'.status = "interrupted"
  BY <1>2, <1>3, ViewsOf, StatusOf DEF SyncInv
<1>5. RecoveryStep
  BY DEF RecoveryStep
<1>6. s.c \in Scheduled => ~SettledBy(s.c)
  BY <1>1 DEF Unreconciled
<1>7. StagesSound /\ Whole /\ NoneAhead /\ FullChecks /\ pending = <<>>
  BY <1>2 DEF RecoverySound
<1>8. Scheduled' = Scheduled
  BY <1>1 DEF Scheduled
<1>9. \A c : Blank(c)' <=> Blank(c)
  BY <1>4, ViewsStay
<1>10. RecoverySound'
  <2>1. CASE CommitBatch(s) /\ UNCHANGED <<journal, rec>>
    <3>1. StagesSound'
      BY <1>1, <1>4, <1>6, <1>7, <2>1, InstalledStages
    <3>2. FurthestCounts'
      BY <1>1, <1>8 DEF FurthestCounts
    <3>3. Whole' /\ NoneAhead' /\ FullChecks'
      BY <1>1, <1>7, <1>8, <1>9, <2>1, RestShrinks
    <3>4. QED
      BY <1>1, <1>2, <1>4, <1>7, <2>1, <3>1, <3>2, <3>3 DEF RecoverySound
  <2>2. CASE journal' = InPhase(s, "rejected") /\ rec' = "failed" /\ UNCHANGED <<receipts, degraded>>
    <3>1. PICK u \in StageRecords : InPhase(s, "rejected") = (journal \ {s}) \cup {u} /\ SameBatch(u, s)
      BY <1>2, PhaseStage DEF SyncInv, JournalInv
    <3>2. u.c = s.c
      BY <3>1 DEF SameBatch
    <3>3. \A c : Cached(c)' <=> Cached(c)
      BY <2>2 DEF Cached
    <3>4. ASSUME NEW c \in Collections, Cached(c)', Blank(c)'
          PROVE  \E t \in journal' : t.c = c
      <4>1. PICK t \in journal : t.c = c
        BY <1>7, <1>9, <3>3, <3>4 DEF StagesSound
      <4>2. QED
        BY <2>2, <3>1, <3>2, <4>1
    <3>5. QED
      BY <1>1, <1>4, <1>7, <2>2, <3>4 DEF RecoverySound
  <2>3. QED
    BY <1>3, <2>1, <2>2
<1>11. pc' = "idle" /\ rec' # "off"
  BY <1>1, <1>2, <1>3
<1>12. QED
  BY <1>4, <1>5, <1>10, <1>11, RecoveringSteady DEF Working, Resuming

\* A step that only moves a stage, or reports one.
LEMMA StagesSteady ==
  ASSUME Ground, SteadyInv, ~WriteFails, crashes' = crashes, RecoveryStep,
         NEW r \in {"reconcile", "stages"}, Recovering(r), rec' = r,
         UNCHANGED <<check, receipts, degraded, pc, pending, item, err, run>>,
         NEW s \in journal,
         \/ s.phase = "staged" /\ Receipt(s) \in receipts /\ journal' = InPhase(s, "committed") /\ job' = job
         \/ /\ s.phase = "committed" /\ Unreported(s)
            /\ job' = WithView(s.c, RecoveredView(s)) /\ journal' = journal
  PROVE  SteadyInv'
<1>1. /\ rec = r /\ pc = "idle" /\ RecoverySound /\ job.status = "interrupted"
      /\ SyncInv /\ JournalInv
  BY RecoveryAlone
<1>2. StagesSound /\ FurthestCounts /\ Whole /\ NoneAhead /\ FullChecks /\ pending = <<>>
  BY <1>1 DEF RecoverySound
<1>3. /\ StagesSound' /\ FurthestCounts' /\ Whole' /\ NoneAhead' /\ FullChecks'
      /\ job'.status = "interrupted"
  <2>1. CASE s.phase = "staged" /\ Receipt(s) \in receipts /\ journal' = InPhase(s, "committed") /\ job' = job
    <3>1. PICK u \in StageRecords : /\ InPhase(s, "committed") = (journal \ {s}) \cup {u}
                                    /\ SameBatch(u, s) /\ u.phase = "committed"
      BY <1>1, PhaseStage DEF SyncInv, JournalInv
    <3>2. StagesSound'
      BY <1>2, <2>1, <3>1, MovedStages
    <3>3. Whole' /\ NoneAhead' /\ FullChecks' /\ FurthestCounts'
      BY <1>2, <2>1, <3>1, MovedRest
    <3>4. QED
      BY <1>1, <2>1, <3>2, <3>3
  <2>2. CASE /\ s.phase = "committed" /\ Unreported(s)
             /\ job' = WithView(s.c, RecoveredView(s)) /\ journal' = journal
    <3>1. StagesSound' /\ FurthestCounts' /\ NoneAhead'
      BY <1>2, <2>2, ReportedStages
    <3>2. Scheduled' = Scheduled
      BY DEF Scheduled
    <3>3. Whole' /\ FullChecks'
      BY <1>2, <2>2, <3>2 DEF Whole, FullChecks
    <3>4. job'.status = "interrupted"
      BY <1>1, <2>2, StatusOf DEF SyncInv
    <3>5. QED
      BY <3>1, <3>3, <3>4
  <2>3. QED
    BY <2>1, <2>2
<1>4. RecoverySound'
  BY <1>2, <1>3 DEF RecoverySound
<1>5. QED
  BY <1>1, <1>3, <1>4, RecoveringSteady DEF Working, Resuming

\* The journal learns of a batch, and the views do.
LEMMA ReconcileSteady ==
  ASSUME Ground, SteadyInv, ~WriteFails, crashes' = crashes, NEW s \in journal,
         ReconcileMark(s) \/ ReconcileProject(s)
  PROVE  SteadyInv'
<1>1. RecoveryStep /\ Recovering("reconcile") /\ s \in Unreconciled
  BY DEF RecoveryStep, ReconcileMark, ReconcileProject, Reconciling
<1>2. rec = "reconcile"
  BY <1>1 DEF Recovering
<1>3. CASE ReconcileMark(s)
  BY <1>3, <1>1, <1>2, StagesSteady DEF ReconcileMark, jobVars, cacheVars, workerVars
<1>4. CASE ReconcileProject(s)
  BY <1>4, Saved, <1>1, <1>2, StagesSteady DEF ReconcileProject, fileVars, cacheVars, workerVars,
         Unreconciled
<1>5. QED
  BY <1>3, <1>4

\* Once every stage of a job with checkpoints is in its views, they say it all.
LEMMA ReconciledSteady ==
  ASSUME Ground, SteadyInv, ~WriteFails, crashes' = crashes, Reconciled
  PROVE  SteadyInv'
<1>1. /\ Recovering("reconcile") /\ RecoveryStep
      /\ \/ Scheduled = {} /\ rec' = "stages"
         \/ Scheduled # {} /\ Unreconciled = {} /\ rec' = "checks"
      /\ UNCHANGED <<job, journal, check, receipts, degraded, pc, pending, item, err, run>>
  BY DEF Reconciled, RecoveryStep, jobVars, fileVars, cacheVars, workerVars
<1>2. /\ pc = "idle" /\ RecoverySound /\ job.status = "interrupted" /\ rec = "reconcile"
      /\ SyncInv
  BY <1>1, RecoveryAlone
<1>3. StagesSound /\ FurthestCounts /\ Whole /\ NoneAhead /\ FullChecks /\ pending = <<>>
  BY <1>2 DEF RecoverySound
<1>4. Scheduled' = Scheduled
  BY <1>1 DEF Scheduled
<1>5. Whole' /\ NoneAhead' /\ FullChecks'
  BY <1>1, <1>3, <1>4, RestShrinks DEF Blank
<1>6. CASE rec' = "stages"
  <2>1. StagesSound'
    BY <1>1, <1>3, <1>4 DEF Unreported, Live, Counted, Receipt, Bad, Blank, Cached, SettledBy, StagesSound
  <2>2. FurthestCounts'
    BY <1>1, <1>3 DEF FurthestCounts, Counted, Live, Unreported, Receipt, Scheduled
  <2>3. RecoverySound'
    BY <1>1, <1>2, <1>3, <1>5, <1>6, <2>1, <2>2 DEF RecoverySound
  <2>4. QED
    BY <1>1, <1>2, <1>6, <2>3, RecoveringSteady DEF Working, Resuming
<1>7. CASE rec' = "checks"
  <2>1. Unreconciled = {}
    BY <1>1, <1>7
  <2>2. ASSUME NEW s \in journal, Counted(s)
        PROVE  s.c \in Scheduled /\ SettledBy(s.c)
    BY <2>2, <2>1 DEF Counted, Live, Unreconciled
  <2>3. AllShown
    BY <1>3, <2>2 DEF StagesSound, AllShown
  <2>4. \A c \in Scheduled : SettledBy(c) => ~Blank(c)
    BY DEF SettledBy, Blank
  <2>5. AllKnown
    BY <1>3, <2>2, <2>4 DEF StagesSound, AllKnown
  <2>6. AllShown' /\ AllKnown'
    BY <1>1, <2>3, <2>5, ShownStays
  <2>7. RecoverySound'
    BY <1>1, <1>2, <1>3, <1>5, <1>7, <2>6 DEF RecoverySound
  <2>8. QED
    BY <1>1, <1>2, <1>7, <2>7, RecoveringSteady DEF Working, Resuming
<1>8. QED
  BY <1>1, <1>6, <1>7

\* A settled checkpoint is of no use any more.
LEMMA DropSettledSteady ==
  ASSUME Ground, SteadyInv, ~WriteFails, crashes' = crashes, NEW c \in Collections, DropSettled(c)
  PROVE  SteadyInv'
<1>1. /\ Recovering("checks") /\ RecoveryStep
      /\ \/ journal' = WithoutStages(c) /\ UNCHANGED <<check, rec>>
         \/ Unschedule(c) /\ UNCHANGED <<journal, rec>>
      /\ UNCHANGED <<job, receipts, degraded, pc, pending, item, err, run>>
  BY DEF DropSettled, RecoveryStep, jobVars, cacheVars, workerVars
<1>2. /\ pc = "idle" /\ RecoverySound /\ job.status = "interrupted" /\ rec = "checks"
      /\ SyncInv
  BY <1>1, RecoveryAlone
<1>3. Whole /\ NoneAhead /\ FullChecks /\ AllShown /\ AllKnown /\ pending = <<>>
  BY <1>2 DEF RecoverySound
<1>4. journal' \subseteq journal
  BY <1>1 DEF WithoutStages
<1>5. Scheduled' \subseteq Scheduled /\ \A d \in Scheduled' : check'[d] = check[d]
  <2>1. CASE UNCHANGED check
    BY <2>1 DEF Scheduled
  <2>2. CASE Unschedule(c)
    BY <1>2, <2>2, UnscheduleDoes DEF Scheduled
  <2>3. QED
    BY <1>1, <2>1, <2>2
<1>6. \A d \in Collections : Blank(d)' => Blank(d)
  BY <1>1 DEF Blank
<1>7. Whole' /\ NoneAhead' /\ FullChecks'
  BY <1>3, <1>4, <1>5, <1>6, RestShrinks
<1>8. AllShown' /\ AllKnown'
  BY <1>1, <1>3, ShownStays
<1>9. rec' = "checks"
  BY <1>1, <1>2
<1>10. RecoverySound'
  BY <1>1, <1>2, <1>3, <1>7, <1>8, <1>9 DEF RecoverySound
<1>11. QED
  BY <1>1, <1>2, <1>9, <1>10, RecoveringSteady DEF Working, Resuming

\* An expired one fails its collection.
LEMMA DropExpiredSteady ==
  ASSUME Ground, SteadyInv, ~WriteFails, crashes' = crashes, NEW c \in Collections, DropExpired(c)
  PROVE  SteadyInv'
<1> DEFINE v == ViewOf([NoItem EXCEPT !.c = c, !.n = check[c].n], "failed")
<1>1. /\ Recovering("checks") /\ RecoveryStep
      /\ job' = WithView(c, v)
      /\ Unschedule(c) \/ UNCHANGED check
      /\ rec' \in {"failed", rec}
      /\ UNCHANGED <<journal, receipts, degraded, pc, pending, item, err, run>>
  BY Saved DEF DropExpired, RecoveryStep, cacheVars, workerVars
<1>2. /\ pc = "idle" /\ RecoverySound /\ job.status = "interrupted" /\ rec = "checks"
      /\ SyncInv
  BY <1>1, RecoveryAlone
<1>3. Whole /\ NoneAhead /\ FullChecks /\ AllShown /\ AllKnown /\ pending = <<>>
  BY <1>2 DEF RecoverySound
<1>4. Scheduled' \subseteq Scheduled /\ \A d \in Scheduled' : check'[d] = check[d]
  <2>1. CASE UNCHANGED check
    BY <2>1 DEF Scheduled
  <2>2. CASE Unschedule(c)
    BY <1>2, <2>2, UnscheduleDoes DEF Scheduled
  <2>3. QED
    BY <1>1, <2>1, <2>2
<1>5. v.outcome = "failed"
  BY ViewOfItem
<1>6. /\ \A d \in Collections \ {c} : (Blank(d)' <=> Blank(d)) /\ (Bad(d)' <=> Bad(d))
      /\ ~Blank(c)' /\ Bad(c)'
  <2>1. PICK w : w = v
    OBVIOUS
  <2>2. w.outcome = "failed" /\ job' = WithView(c, w)
    BY <1>1, <1>5, <2>1
  <2>3. JobOK /\ Reports(c, w)
    BY <1>2, <2>2, WithViewReports DEF SyncInv
  <2>4. /\ \A d \in Collections \ {c} : /\ job'.view[d] = job.view[d]
                                        /\ Blank(d)' <=> Blank(d)
                                        /\ Bad(d)' <=> Bad(d)
        /\ ~Blank(c)'
        /\ Bad(c)' <=> w.outcome \in {"failed", "cancelled", "retry"}
    BY <2>3, ViewChanges
  <2>5. QED
    BY <2>2, <2>4
<1>7. \A d \in Collections : Blank(d)' => Blank(d)
  BY <1>6
<1>8. Whole' /\ NoneAhead' /\ FullChecks'
  BY <1>1, <1>3, <1>4, <1>7, RestShrinks
<1>9. degraded \subseteq Collections
  BY <1>2 DEF SyncInv, CacheOK
<1>10. AllShown'
  BY <1>1, <1>3, <1>6, <1>9 DEF AllShown
<1>11. AllKnown'
  BY <1>1, <1>3, <1>7 DEF AllKnown, Cached
<1>12. job'.status = "interrupted"
  BY <1>2, <1>1, StatusOf DEF SyncInv
<1>13. RecoverySound'
  BY <1>1, <1>2, <1>11, <1>3, <1>8, <1>10, <1>12 DEF AllKnown, RecoverySound
<1>14. pc' = "idle" /\ rec' # "off" /\ job'.status # "succeeded"
  BY <1>1, <1>2, <1>12
<1>15. QED
  BY <1>1, <1>13, <1>14, RecoveringSteady DEF Working, Resuming

\* The retries of a job are resumed with the rest of what was asked for.
LEMMA ResumeRetrySteady ==
  ASSUME Ground, SteadyInv, ~WriteFails, crashes' = crashes, NEW c \in Collections, ResumeRetry(c)
  PROVE  SteadyInv'
<1>1. /\ Recovering("checks") /\ RecoveryStep /\ c \in Scheduled
      /\ job' = WithStatus("running")
      /\ run' = [NoRun EXCEPT !.list = Selection(c), !.sel = Selection(c)]
      /\ pending' = Schedule(Selection(c))
      /\ pc' = "open" /\ rec' = "off" /\ journal' = Swept(journal)
      /\ UNCHANGED <<check, receipts, degraded, item, err>>
  BY Saved DEF ResumeRetry, RecoveryStep, RecoveryReturns, cacheVars
<1>2. /\ pc = "idle" /\ RecoverySound /\ job.status = "interrupted" /\ rec = "checks"
      /\ SyncInv /\ ViewsSound
  BY <1>1, RecoveryAlone
<1>3. Whole /\ NoneAhead /\ FullChecks /\ AllShown /\ AllKnown
  BY <1>2 DEF RecoverySound
<1>4. Scheduled' = Scheduled
  BY <1>1 DEF Scheduled
<1>5. /\ job'.view = job.view /\ job'.status = "running"
  BY <1>1, <1>2, ViewsOf, StatusOf DEF SyncInv
<1>6. AllShown' /\ AllKnown'
  BY <1>1, <1>3, <1>5, ShownStays
<1>7. run'.list = Selection(c) /\ run'.sel = Selection(c)
  BY <1>1 DEF NoRun
<1>8. Selection(c) \in SUBSET Collections
  BY <1>2 DEF SyncInv, CheckOK, Checks, Selection, Scheduled
<1>9. /\ Queue' = {Entry(e) : e \in Selection(c)}
      /\ \A i, j \in 1..Len(pending') : i < j => /\ pending'[i].c < pending'[j].c
                                                 /\ pending'[i].c # pending'[j].c
  BY <1>1, <1>8, ScheduleQueued
<1>10. QueueSound'
  <2>1. QueueOrdered'
    BY <1>9 DEF QueueOrdered
  <2>2. ASSUME NEW e \in Selection(c), NEW p, p = Entry(e)
        PROVE  EntrySound(p)'
    <3>1. e \in Collections
      BY <1>8
    <3>2. p.c = e /\ p.n = check[e].n /\ (p.later <=> p.n > 0)
      BY <2>2 DEF Entry
    <3>3. check[e].n > 0 <=> e \in Scheduled
      BY <3>1 DEF Scheduled
    <3>4. p.n = 0 => e \notin Scheduled
      BY <3>2, <3>3
    <3>5. ASSUME e \notin Scheduled
          PROVE  FreshAhead(e)'
      <4>1. Blank(e)
        <5>1. job.view[e].outcome \in {"none", "retry"}
          BY <2>2, <3>5 DEF Selection
        <5>2. job.view[e].outcome # "retry"
          BY <1>2, <3>1, <3>5 DEF ViewsSound, Terminal, Ground, RetryInv, Retried
        <5>3. QED
          BY <5>1, <5>2 DEF Blank
      <4>2. ASSUME NEW t \in journal', t.n = 1, t.c # e
            PROVE  t.c < e /\ e \in t.list
        <5>1. t \in journal
          BY <1>1, <4>2, SweptShrinks
        <5>2. t.c <= e
          BY <3>1, <4>1, <5>1, <1>3 DEF NoneAhead
        <5>3. t.c \in Nat /\ e \in Nat
          BY <1>2, <3>1, <5>1, StageNumbers, SyncConstants
        <5>4. t.list = Collections
          BY <1>3, <4>2, <5>1 DEF Whole
        <5>5. QED
          BY <3>1, <4>2, <5>2, <5>3, <5>4
      <4>3. QED
        BY <4>2 DEF FreshAhead
    <3>6. Chosen(e)'
      BY <1>1, <1>3, <1>4, <3>1, <1>7, <2>2 DEF FullChecks, Chosen
    <3>7. Chosen(p.c)' /\ (p.n = 0 => FreshAhead(p.c)') /\ (p.n > 0 => p.c \in Scheduled')
      BY <1>4, <3>2, <3>3, <3>4, <3>5, <3>6
    <3>8. pc' \notin Flying
      BY <1>1 DEF Flying
    <3>9. QED
      BY <3>2, <3>7, <3>8 DEF EntrySound
  <2>3. QED
    BY <1>9, <2>1, <2>2 DEF QueueSound
<1>11. FlightSound'
  BY <1>1 DEF FlightSound, Flying, Trying
<1>12. ShownInFlight' /\ KnownInFlight'
  BY <1>6 DEF ShownInFlight, KnownInFlight, AllShown, AllKnown
<1>13. WorkSound'
  BY <1>10, <1>11, <1>12 DEF WorkSound
<1>14. QED
  BY <1>1, <1>5, <1>13, RecoveringSteady DEF Resuming

\* In the order of the collections, a later collection has more behind it.
LEMMA CurGrows ==
  ASSUME NEW a \in StageRecords, NEW b \in StageRecords, b.list = Collections, a.c < b.c
  PROVE  Cur(a) < Cur(b)
<1> DEFINE A == {d \in a.list : d < a.c}
<1> DEFINE B == {d \in b.list : d < b.c}
<1>1. a.c \in Collections /\ a.c \in Nat /\ b.c \in Nat /\ a.list \subseteq Collections
  BY SyncConstants DEF StageRecords
<1>2. IsFiniteSet(B)
  BY SyncConstants, FS_Subset
<1>3. A \subseteq B
  BY <1>1, SyncConstants
<1>4. a.c \in B /\ a.c \notin A
  BY <1>1
<1>5. Cardinality(A) <= Cardinality(B) /\ (Cardinality(A) = Cardinality(B) => A = B)
  BY <1>2, <1>3, FS_Subset
<1>6. Cur(a) = Cardinality(A) /\ Cur(b) = Cardinality(B)
  BY DEF Cur
<1>7. A # B
  BY <1>4
<1>8. Cur(a) \in Nat /\ Cur(b) \in Nat
  BY CurTyped
<1>9. QED
  BY <1>5, <1>6, <1>7, <1>8

\* A stage that counts is the furthest one, when no retry was scheduled.
LEMMA CountedIsFurthest ==
  ASSUME SyncInv, Whole, FurthestCounts, Scheduled = {}, NEW s, IsLatest(s),
         NEW w \in journal, Counted(w)
  PROVE  w = s
<1>1. s \in journal /\ \A t \in journal \ {s} : Later(s, t)
  BY DEF IsLatest
<1>2. w.n = 1 /\ (s = w \/ s.c < w.c)
  BY <1>1 DEF FurthestCounts
<1>3. s \in StageRecords /\ w \in StageRecords
  BY <1>1, StageNumbers
<1>4. ASSUME s # w
      PROVE  FALSE
  <2>1. s.c < w.c /\ w.list = Collections
    BY <1>2, <1>4 DEF Whole
  <2>2. Cur(s) < Cur(w)
    BY <1>3, <2>1, CurGrows
  <2>3. Cur(s) \in Nat /\ Cur(w) \in Nat
    BY <1>3, CurTyped
  <2>4. Later(s, w)
    BY <1>1, <1>4
  <2>5. QED
    BY <2>2, <2>3, <2>4 DEF Later
<1>5. QED
  BY <1>4

\* What recovery knows when it looks at the furthest stage only.
LEMMA AtFurthest ==
  ASSUME Ground, SteadyInv, Recovering("stages")
  PROVE  /\ rec = "stages" /\ pc = "idle" /\ job.status = "interrupted"
         /\ SyncInv /\ JournalInv /\ pending = <<>> /\ Scheduled = {}
         /\ StagesSound /\ FurthestCounts /\ Whole /\ NoneAhead /\ FullChecks
         /\ \A s : IsLatest(s) => \A w \in journal : Counted(w) => w = s
         /\ (\A w \in journal : ~Counted(w)) => AllShown /\ AllKnown
<1>1. /\ rec = "stages" /\ pc = "idle" /\ job.status = "interrupted" /\ RecoverySound
      /\ SyncInv /\ JournalInv
  BY RecoveryAlone
<1>2. /\ pending = <<>> /\ StagesSound /\ FurthestCounts
      /\ Whole /\ NoneAhead /\ FullChecks
  BY <1>1 DEF RecoverySound
<1>3. Scheduled = {}
  BY <1>1 DEF Ground, CompleteInv
<1>4. \A s : IsLatest(s) => \A w \in journal : Counted(w) => w = s
  BY <1>1, <1>2, <1>3, CountedIsFurthest
<1>5. (\A w \in journal : ~Counted(w)) => AllShown /\ AllKnown
  BY <1>2 DEF StagesSound, AllShown, AllKnown
<1>6. QED
  BY <1>1, <1>2, <1>3, <1>4, <1>5

\* The job ends with the verdict of its views, which show everything.
LEMMA CompleteSteady ==
  ASSUME Ground, SteadyInv, ~WriteFails, crashes' = crashes, RecoveryStep, Complete,
         UNCHANGED <<check, receipts, degraded, pc, pending, item, err, run>>, AllShown
  PROVE  SteadyInv'
<1>1. job' = WithStatus(RecoveredVerdict) /\ rec' = "off"
  BY Saved DEF Complete
<1>2. JobOK /\ rec # "off" /\ pc = "idle"
  BY RecoveryRuns DEF Ground, SyncInv, OneActive
<1>3. job'.view = job.view /\ job'.status = RecoveredVerdict
  BY <1>1, <1>2, ViewsOf, StatusOf
<1>4. AllShown'
  BY <1>3, ShownStays
<1>5. job'.status \in Terminal
  BY <1>3, VerdictTyped
<1>6. QED
  BY <1>1, <1>2, <1>4, <1>5, RecoveringSteady DEF Working, Resuming

\* A job whose checkpoints are all settled is complete.
LEMMA CompleteRetrySteady ==
  ASSUME Ground, SteadyInv, ~WriteFails, crashes' = crashes, CompleteRetry
  PROVE  SteadyInv'
<1>1. /\ Recovering("checks") /\ Complete /\ RecoveryStep
      /\ UNCHANGED <<check, receipts, degraded, pc, pending, item, err, run>>
  BY DEF CompleteRetry, RecoveryStep, cacheVars, workerVars
<1>2. rec = "checks" /\ RecoverySound
  BY <1>1, RecoveryAlone
<1>3. AllShown
  BY <1>2 DEF RecoverySound
<1>4. QED
  BY <1>1, <1>3, CompleteSteady

\* The furthest stage has its receipt.
LEMMA MarkFurthestSteady ==
  ASSUME Ground, SteadyInv, ~WriteFails, crashes' = crashes, NEW s \in journal, MarkFurthest(s)
  PROVE  SteadyInv'
<1>1. /\ RecoveryStep /\ Recovering("stages") /\ s.phase = "staged" /\ Receipt(s) \in receipts
      /\ journal' = InPhase(s, "committed") /\ job' = job /\ rec' = rec
      /\ UNCHANGED <<check, receipts, degraded, pc, pending, item, err, run>>
  BY DEF RecoveryStep, MarkFurthest, Furthest, jobVars, cacheVars, workerVars
<1>2. rec = "stages"
  BY <1>1 DEF Recovering
<1>3. QED
  BY <1>1, <1>2, StagesSteady

\* The furthest stage ends its workflow: it is reported, then the job ends.
LEMMA CompleteFurthestSteady ==
  ASSUME Ground, SteadyInv, ~WriteFails, crashes' = crashes, NEW s \in journal, CompleteFurthest(s)
  PROVE  SteadyInv'
<1>1. /\ RecoveryStep /\ Recovering("stages") /\ IsLatest(s) /\ s.phase = "committed"
      /\ UNCHANGED <<check, receipts, degraded, pc, pending, item, err, run>>
  BY DEF RecoveryStep, CompleteFurthest, Furthest, cacheVars, workerVars
<1>2. rec = "stages"
  BY <1>1 DEF Recovering
<1>3. CASE Unreported(s)
  BY <1>3, Saved, <1>1, <1>2, StagesSteady DEF CompleteFurthest
<1>4. CASE ~Unreported(s)
  <2>1. Complete
    BY <1>4 DEF CompleteFurthest
  <2>2. ~Counted(s)
    BY <1>4 DEF Counted, Live
  <2>3. \A w \in journal : ~Counted(w)
    BY <1>1, <2>2, AtFurthest
  <2>4. AllShown
    BY <1>1, <2>3, AtFurthest
  <2>5. QED
    BY <1>1, <2>1, <2>4, CompleteSteady
<1>5. QED
  BY <1>3, <1>4

\* The workflow goes on where its furthest stage stands.
LEMMA ResumeFurthestSteady ==
  ASSUME Ground, SteadyInv, ~WriteFails, crashes' = crashes, NEW s \in journal, ResumeFurthest(s)
  PROVE  SteadyInv'
<1>1. /\ RecoveryStep /\ Recovering("stages") /\ IsLatest(s)
      /\ \/ s.phase = "committed"
         \/ s.phase = "staged" /\ Receipt(s) \notin receipts
      /\ job' = [WithStatus("running") EXCEPT !.shown = Id(s)]
      /\ run' = [list |-> s.list, sel |-> Rest(s), recovered |-> TRUE, result |-> "ok"]
      /\ item' = [NoItem EXCEPT !.c = s.c, !.n = s.n]
      /\ pc' = IF s.phase = "staged" THEN "rcommit" ELSE "rproject"
      /\ rec' = "off" /\ journal' = Swept(journal)
      /\ UNCHANGED <<pending, check, receipts, degraded, err>>
  BY Saved DEF RecoveryStep, ResumeFurthest, Furthest, RecoveryReturns, cacheVars
<1>2. /\ pc = "idle" /\ job.status = "interrupted" /\ SyncInv /\ JournalInv
      /\ pending = <<>> /\ Scheduled = {}
      /\ StagesSound /\ FurthestCounts /\ Whole /\ NoneAhead /\ FullChecks
      /\ \A w \in journal : Counted(w) => w = s
      /\ (\A w \in journal : ~Counted(w)) => AllShown /\ AllKnown
  BY <1>1, AtFurthest
<1>3. JobOK /\ s \in StageRecords /\ s.c \in Nat /\ s.n \in Nat
  BY <1>2, StageNumbers DEF SyncInv
<1>4. job'.view = job.view /\ job'.status # "succeeded"
  BY <1>1, <1>3, ViewsOf DEF WithStatus, JobOK, JobRecords
<1>5. item'.c = s.c /\ item'.n = s.n
  <2>1. PICK i : i = [NoItem EXCEPT !.c = s.c, !.n = s.n]
    OBVIOUS
  <2>2. i.c = s.c /\ i.n = s.n
    BY <2>1 DEF NoItem
  <2>3. QED
    BY <1>1, <2>1, <2>2
<1>6. journal' \subseteq journal /\ Scheduled' = {}
  BY <1>1, <1>2, SweptShrinks DEF Scheduled
<1>7. /\ \A t : Unreported(t)' <=> Unreported(t)
      /\ \A c : (Bad(c)' <=> Bad(c)) /\ (Blank(c)' <=> Blank(c)) /\ (Cached(c)' <=> Cached(c))
  BY <1>1, <1>4 DEF Unreported, Bad, Blank, Cached
<1>8. \A e \in Rest(s) : FreshAhead(e)'
  <2>1. ASSUME NEW e \in Rest(s), NEW t \in journal', t.n = 1, t.c # e
        PROVE  t.c < e /\ e \in t.list
    <3>1. e \in s.list /\ e > s.c /\ e \in Collections /\ e \in Nat
      BY <1>3, SyncConstants DEF Rest, StageRecords
    <3>2. t \in journal /\ t \in StageRecords /\ t.c \in Nat
      BY <1>2, <1>6, StageNumbers
    <3>3. t.list = Collections
      BY <1>2, <2>1, <3>2 DEF Whole
    <3>4. t.c < e
      <4>1. CASE t = s
        BY <1>3, <3>1, <4>1
      <4>2. CASE t # s
        <5>1. Later(s, t)
          BY <1>1, <3>2, <4>2 DEF IsLatest
        <5>2. Cur(t) <= Cur(s)
          BY <1>3, <3>2, <5>1, CurTyped DEF Later
        <5>3. ~(Cur(s) < Cur(t))
          BY <1>3, <3>2, <5>2, CurTyped
        <5>4. ~(s.c < t.c)
          BY <1>3, <3>2, <3>3, <5>3, CurGrows
        <5>5. QED
          BY <1>3, <3>1, <3>2, <5>4
      <4>3. QED
        BY <4>1, <4>2
    <3>5. QED
      BY <3>1, <3>3, <3>4
  <2>2. QED
    BY <2>1 DEF FreshAhead
<1>9. s.phase = "committed" => Receipt(s) \in receipts
  BY <1>2 DEF JournalInv, StageSound
<1>10. s.phase = "staged" => Unreported(s)
  BY <1>2 DEF StagesSound
<1>11. ASSUME NEW t \in journal', Own(t)'
       PROVE  StageResumed(t)'
  <2>1. t = s
    BY <1>5, <1>11, <1>2, <1>6 DEF Own, JournalInv, StagesDiffer, Id
  <2>2. PICK rest : rest = Rest(s)
    OBVIOUS
  <2>3. Rest(s)' = Rest(s)
    BY DEF Rest
  <2>4. run'.sel = Rest(s)' /\ run'.list = s.list
    BY <1>1, <2>3
  <2>5. pc' \in {"rcommit", "rmark"} => Unreported(s)'
    BY <1>1, <1>7, <1>10
  <2>6. ASSUME pc' # "rcommit"
        PROVE  /\ \A c \in degraded : Bad(c)' \/ (c = item'.c /\ s.err # "none" /\ Unreported(s)')
               /\ Unreported(s)' /\ s.err = "none" => item'.c \notin degraded
    <3>1. s.phase = "committed"
      BY <1>1, <2>6
    <3>2. \A c \in degraded : Bad(c)' \/ (c = item'.c /\ s.err # "none" /\ Unreported(s)')
      <4>1. ASSUME NEW c \in degraded, ~Bad(c)'
            PROVE  c = item'.c /\ s.err # "none" /\ Unreported(s)'
        <5>1. PICK w \in journal : w.c = c /\ Counted(w) /\ w.err # "none"
          BY <1>2, <1>7, <4>1 DEF StagesSound
        <5>2. w = s
          BY <1>2, <5>1
        <5>3. QED
          BY <1>5, <1>7, <5>1, <5>2 DEF Counted, Live
      <4>2. QED
        BY <4>1
    <3>3. Unreported(s) => Counted(s)
      BY <1>9, <3>1 DEF Counted, Live
    <3>4. Unreported(s)' /\ s.err = "none" => item'.c \notin degraded
      BY <1>2, <1>5, <1>7, <3>3 DEF StagesSound
    <3>5. QED
      BY <3>2, <3>4
  <2>7. QED
    BY <1>1, <1>8, <2>1, <2>3, <2>4, <2>5, <2>6 DEF StageResumed
<1>12. ASSUME pc' = "rcommit"
       PROVE  AllShown' /\ AllKnown'
  BY <1>1, <1>12, <1>2, <1>4, ShownStays DEF Counted
<1>13. ASSUME NEW c \in Collections, Cached(c)', Blank(c)'
       PROVE  c = item'.c
  <2>1. PICK w \in journal : w.c = c /\ Counted(w)
    BY <1>2, <1>7, <1>13 DEF StagesSound
  <2>2. QED
    BY <1>2, <1>5, <2>1
<1>14. ResumeSound'
  BY <1>1, <1>2, <1>6, <1>11, <1>12, <1>13 DEF ResumeSound
<1>15. pc' \in {"rcommit", "rproject"}
  BY <1>1
<1>16. QED
  BY <1>1, <1>4, <1>14, <1>15, RecoveringSteady DEF Working

\* A rejected stage, or no stage at all, leaves the verdict to the views.
LEMMA NothingFurtherSteady ==
  ASSUME Ground, SteadyInv, ~WriteFails, crashes' = crashes,
         NoStages \/ \E s \in journal : RejectFurthest(s)
  PROVE  SteadyInv'
<1>1. RecoveryStep /\ Recovering("stages") /\ rec' = "settled"
  BY DEF RecoveryStep, NoStages, RejectFurthest, Furthest
<1>2. UNCHANGED <<journal, check, receipts, degraded, pc, pending, item, err, run>>
  BY DEF NoStages, RejectFurthest, fileVars, cacheVars, workerVars
<1>3. job' = job \/ job' = WithStatus("failed")
  BY Saved DEF NoStages, RejectFurthest, jobVars
<1>4. /\ pc = "idle" /\ job.status = "interrupted" /\ SyncInv /\ pending = <<>>
      /\ \A s : IsLatest(s) => \A w \in journal : Counted(w) => w = s
      /\ (\A w \in journal : ~Counted(w)) => AllShown /\ AllKnown
  BY <1>1, AtFurthest
<1>5. \A w \in journal : ~Counted(w)
  <2>1. CASE NoStages
    BY <2>1 DEF NoStages
  <2>2. ASSUME NEW s \in journal, RejectFurthest(s)
        PROVE  \A w \in journal : ~Counted(w)
    BY <2>2, <1>4 DEF RejectFurthest, Furthest, Counted, Live
  <2>3. QED
    BY <2>1, <2>2
<1>6. job'.view = job.view /\ job'.status \in {"interrupted", "failed"}
  BY <1>3, <1>4, ViewsOf, StatusOf DEF SyncInv
<1>7. AllShown' /\ AllKnown'
  BY <1>2, <1>4, <1>5, <1>6, ShownStays
<1>8. job'.status \notin Terminal => RecoverySound'
  BY <1>1, <1>2, <1>4, <1>6, <1>7 DEF RecoverySound, Terminal
<1>9. QED
  BY <1>1, <1>2, <1>4, <1>6, <1>8, RecoveringSteady DEF Working, Resuming

\* The ends of recovery.
LEMMA RecoveryEndsSteady ==
  ASSUME Ground, SteadyInv, ~WriteFails, crashes' = crashes,
         CompleteSettled \/ FailInterrupted \/ DropTerminal
  PROVE  SteadyInv'
<1>1. RecoveryStep /\ rec' = "off" /\ rec # "off"
  BY Saved DEF RecoveryStep, CompleteSettled, FailInterrupted, DropTerminal, Complete, RecoveryReturns
<1>2. UNCHANGED <<receipts, degraded, pc, pending, item, err, run>>
  BY DEF CompleteSettled, FailInterrupted, DropTerminal, cacheVars, workerVars
<1>3. SyncInv /\ JobOK /\ pc = "idle"
  BY <1>1 DEF Ground, SyncInv, OneActive
<1>4. job.status \notin Terminal => RecoverySound
  BY <1>1 DEF SteadyInv
<1>5. CASE CompleteSettled
  <2>1. /\ rec = "settled" /\ UNCHANGED check
        /\ \/ Complete /\ job.status = "interrupted"
           \/ job' = job
    BY <1>5 DEF CompleteSettled, jobVars
  <2>2. CASE Complete /\ job.status = "interrupted"
    BY <1>4, <2>1, <2>2, <1>1, <1>2, CompleteSteady DEF RecoverySound, Terminal
  <2>3. CASE job' = job
    <3>1. job.status \notin Terminal => AllShown /\ AllKnown
      BY <1>4, <2>1 DEF RecoverySound
    <3>2. job.status = "succeeded" => AllShown
      BY DEF SteadyInv
    <3>3. /\ job'.status \notin Terminal => AllKnown'
          /\ job'.status = "succeeded" => AllShown'
      BY <1>2, <2>3, <3>1, <3>2, ShownStays
    <3>4. QED
      BY <1>1, <1>2, <1>3, <3>3, RecoveringSteady DEF Working, Resuming
  <2>4. QED
    BY <2>1, <2>2, <2>3
<1>6. CASE FailInterrupted \/ DropTerminal
  <2>1. /\ job.status = "interrupted" => job' = WithStatus("failed")
        /\ job.status # "interrupted" => job' = job
    BY <1>6, Saved DEF FailInterrupted, DropTerminal, jobVars, Terminal
  <2>2. job.status \notin Terminal => job.status = "interrupted"
    BY <1>4 DEF RecoverySound
  <2>3. job'.view = job.view /\ (job.status = "interrupted" => job'.status = "failed")
    BY <1>3, <2>1, ViewsOf, StatusOf
  <2>4. job'.status \in Terminal
    BY <2>1, <2>2, <2>3 DEF Terminal
  <2>5. job'.status = "succeeded" => job.status = "succeeded"
    BY <2>1, <2>3
  <2>6. job'.status = "succeeded" => AllShown'
    BY <1>2, <2>3, <2>5, ShownStays DEF SteadyInv
  <2>7. QED
    BY <1>1, <1>2, <1>3, <2>4, <2>6, RecoveringSteady DEF Working, Resuming
<1>7. QED
  BY <1>5, <1>6

\* Every step of recovery.
LEMMA RecoverySteady ==
  ASSUME Ground, SteadyInv, ~WriteFails, crashes' = crashes, RecoveryStep
  PROVE  SteadyInv'
<1>1. ASSUME NEW s \in journal,
             \/ ReconcileInstall(s) \/ ReconcileMark(s) \/ ReconcileProject(s)
             \/ MarkFurthest(s) \/ CompleteFurthest(s) \/ ResumeFurthest(s) \/ RejectFurthest(s)
      PROVE  SteadyInv'
  BY <1>1, ReconcileInstallSteady, ReconcileSteady, MarkFurthestSteady, CompleteFurthestSteady,
     ResumeFurthestSteady, NothingFurtherSteady
<1>2. ASSUME NEW c \in Collections, DropSettled(c) \/ DropExpired(c) \/ ResumeRetry(c)
      PROVE  SteadyInv'
  BY <1>2, DropSettledSteady, DropExpiredSteady, ResumeRetrySteady
<1>3. CASE DropTerminal \/ Reconciled \/ CompleteRetry \/ NoStages \/ CompleteSettled \/ FailInterrupted
  BY <1>3, RecoveryEndsSteady, ReconciledSteady, CompleteRetrySteady, NothingFurtherSteady
<1>4. QED
  BY <1>1, <1>2, <1>3 DEF RecoveryStep

-----------------------------------------------------------------------------
(* The first crash.                                                        *)

\* Every stage of a first life is the item's, or settled, or old.
LEMMA StageOfFirst ==
  ASSUME SyncInv, FirstSound, NEW s \in journal
  PROVE  \/ pc \in Trying /\ Own(s) /\ OwnFirst(s)
         \/ pc \in Trying /\ s.c = item.c /\ ~Own(s) /\ Settled(s)
         \/ (pc \in Trying => s.c # item.c) /\ OldStage(s)
<1>1. RestFirst /\ (pc \in Trying => TriedFirst)
  BY DEF FirstSound
<1>2. (pc \in Trying => s.c # item.c) => OldStage(s)
  BY <1>1 DEF RestFirst, OthersOld
<1>3. CASE pc \in Trying /\ s.c = item.c
  BY <1>1, <1>3 DEF TriedFirst, ItemFirst
<1>4. QED
  BY <1>2, <1>3

\* The stage that counts when a first life ends is the item's, and it is not
\* reported.
LEMMA CountedFirst ==
  ASSUME Ground, WorkSound, FirstSound, NEW s \in journal, Counted(s)
  PROVE  /\ pc \in {"mark", "decide", "observe"} /\ Own(s)
         /\ pc \in {"decide", "observe"} => s.phase = "committed" /\ s.err = err
<1>1. SyncInv /\ Live(s) /\ Receipt(s) \in receipts /\ s.phase # "rejected" /\ Unreported(s)
  BY DEF Ground, Counted, Live
<1>2. ~OldStage(s) /\ ~Settled(s)
  BY <1>1 DEF OldStage, Settled
<1>3. pc \in Trying /\ Own(s) /\ OwnFirst(s)
  BY <1>1, <1>2, StageOfFirst
<1>4. pc \notin {"fetch", "commit"}
  BY <1>1, <1>3, NothingCached
<1>5. pc \in {"mark", "decide", "observe"}
  BY <1>3, <1>4 DEF Trying
<1>6. pc \in {"decide", "observe"} => s.phase = "committed" /\ s.err = err
  BY <1>1, <1>3 DEF OwnFirst
<1>7. QED
  BY <1>3, <1>5, <1>6

\* What is in the cache and in no view is the item's stage.
LEMMA KnownCounts ==
  ASSUME Ground, WorkSound, FirstSound, pc \in {"mark", "decide", "observe"},
         NEW c, c = item.c, Cached(c), pc # "mark" => Blank(c)
  PROVE  \E s \in journal : s.c = c /\ Counted(s)
<1>1. SyncInv /\ JournalInv /\ ViewsSound
  BY DEF Ground
<1>2. TriedFirst /\ item.c \in Collections
  BY <1>1 DEF FirstSound, Trying, SyncInv, ItemOK, HasItem
<1>3. \A s \in journal : s.n \in Nat /\ s.n >= 1
  <2>1. ASSUME NEW s \in journal
        PROVE  s.n \in Nat /\ s.n >= 1
    BY <1>1, StageNumbers, SyncConstants DEF StageRecords
  <2>2. QED
    BY <2>1
<1>4. CASE pc = "mark"
  <2>1. PICK s \in journal : Own(s)
    BY <1>1, <1>4, TheOwnStage DEF HasStage
  <2>2. Receipt(s) \in receipts
    BY <1>1, <1>4, <2>1 DEF JournalInv
  <2>3. OwnFirst(s)
    BY <1>2, <2>1 DEF TriedFirst
  <2>4. s.phase = "staged"
    BY <1>4, <2>3 DEF OwnFirst
  <2>5. job.view[item.c].n = item.n - 1 /\ s.n = item.n /\ s.c = item.c
    BY <1>2, <1>4, <2>1 DEF TriedFirst, ItemFirst, Own
  <2>6. Unreported(s)
    BY <1>3, <2>5 DEF Unreported
  <2>7. QED
    BY <2>2, <2>4, <2>5, <2>6 DEF Counted, Live
<1>5. CASE pc \in {"decide", "observe"}
  <2>1. PICK s \in journal : Own(s) /\ s.phase = "committed"
    BY <1>2, <1>5 DEF TriedFirst, OwnKept
  <2>2. Receipt(s) \in receipts
    BY <1>1, <2>1 DEF JournalInv, StageSound
  <2>3. job.view[c].n = 0
    BY <1>1, <1>2, <1>5 DEF ViewsSound
  <2>4. s.c = c
    BY <2>1 DEF Own
  <2>5. Unreported(s)
    BY <1>3, <2>3, <2>4 DEF Unreported
  <2>6. QED
    BY <2>1, <2>2, <2>4, <2>5 DEF Counted, Live
<1>6. QED
  BY <1>4, <1>5

\* What the first crash leaves for recovery.
LEMMA FirstLeavesStages ==
  ASSUME Ground, WorkSound, FirstSound
  PROVE  StagesSound
<1>1. SyncInv /\ JournalInv /\ ViewsSound /\ FlightSound /\ ShownInFlight /\ KnownInFlight
  BY DEF Ground, WorkSound
<1>2. RestFirst /\ (pc \in Trying => TriedFirst)
  BY DEF FirstSound
<1>3. ASSUME NEW s \in journal, Counted(s), s.err = "none"
      PROVE  s.c \notin degraded
  BY <1>3, CountedFirst, <1>2, <1>1 DEF TriedFirst, ItemFirst, Trying, FlightSound, Own
<1>4. ASSUME NEW c \in degraded, ~Bad(c)
      PROVE  \E s \in journal : s.c = c /\ Counted(s) /\ s.err # "none"
  <2>1. c = item.c /\ Erring /\ pc \in {"mark", "decide", "observe"}
    BY <1>1, <1>4 DEF ShownInFlight, Erring
  <2>2. Cached(c)
    BY <1>1 DEF JournalInv, DegradedCached
  <2>3. Blank(c)
    BY <1>2, <1>4, <2>1 DEF TriedFirst, ItemFirst, Trying, Bad, Blank
  <2>4. PICK s \in journal : s.c = c /\ Counted(s)
    BY <2>1, <2>2, <2>3, KnownCounts
  <2>5. Own(s) /\ (pc \in {"decide", "observe"} => s.err = err)
    BY <2>4, CountedFirst
  <2>6. s.err # "none"
    BY <2>1, <2>5 DEF Erring
  <2>7. QED
    BY <2>4, <2>6
<1>5. ASSUME NEW s \in journal, NEW t \in journal, Live(s), Live(t), s.c = t.c
      PROVE  s = t
  <2>1. /\ s.phase # "rejected" /\ Unreported(s) /\ ~Settled(s)
        /\ t.phase # "rejected" /\ Unreported(t) /\ ~Settled(t)
    BY <1>5 DEF Live, Settled
  <2>2. OldStage(s) => s.phase = "staged"
    BY <2>1 DEF OldStage
  <2>3. OldStage(t) => t.phase = "staged"
    BY <2>1 DEF OldStage
  <2>4. CASE pc \in Trying /\ s.c = item.c
    BY <1>1, <1>5, <2>1, <2>4, StageOfFirst DEF JournalInv, StagesDiffer, Own, Id
  <2>5. CASE ~(pc \in Trying /\ s.c = item.c)
    BY <1>5, <2>5, <1>1, <2>1, StageOfFirst, <1>2, <2>2, <2>3 DEF Own, RestFirst, OneStaged
  <2>6. QED
    BY <2>4, <2>5
<1>6. ASSUME NEW s \in journal, s.phase = "staged"
      PROVE  Unreported(s)
  <2>1. CASE OldStage(s)
    BY <1>6, <2>1 DEF OldStage, Settled
  <2>2. CASE pc \in Trying /\ Own(s) /\ OwnFirst(s)
    <3>1. /\ pc \in {"commit", "mark"} => job.view[item.c].n = item.n - 1
          /\ s.c = item.c /\ s.n = item.n
      BY <1>2, <2>2 DEF TriedFirst, ItemFirst, Own
    <3>2. pc \in {"decide", "observe"} => job.view[item.c].n < item.n
      BY <1>6, <2>2 DEF OwnFirst
    <3>3. pc \in {"commit", "mark", "decide", "observe"}
      BY <2>2 DEF OwnFirst, Trying
    <3>4. s.n \in Nat
      BY <1>1, StageNumbers
    <3>5. job.view[s.c].n < s.n
      BY <3>1, <3>2, <3>3, <3>4
    <3>6. QED
      BY <3>5 DEF Unreported
  <2>3. ~Settled(s)
    BY <1>6 DEF Settled
  <2>4. QED
    BY <1>1, <2>1, <2>2, <2>3, StageOfFirst
<1>7. ASSUME NEW c \in Collections, Cached(c), Blank(c)
      PROVE  \E s \in journal : s.c = c /\ Counted(s)
  BY <1>1, <1>7, KnownCounts DEF KnownInFlight
<1>8. ASSUME NEW c \in Scheduled, SettledBy(c), c \in degraded
      PROVE  Bad(c)
  <2>1. ASSUME ~Bad(c)
        PROVE  FALSE
    BY <1>1, <1>8, <2>1, <1>2 DEF ShownInFlight, Erring, Trying, TriedFirst, ItemFirst, SettledBy
  <2>2. QED
    BY <2>1
<1>9. QED
  BY <1>3, <1>4, <1>5, <1>6, <1>7, <1>8 DEF StagesSound

\* And the rest of what recovery reads.
LEMMA FirstLeavesRest ==
  ASSUME Ground, WorkSound, FirstSound, job.status \notin Terminal
  PROVE  FurthestCounts /\ Whole /\ NoneAhead /\ FullChecks
<1>1. SyncInv /\ JournalInv /\ ViewsSound /\ FlightSound /\ RetryInv
  BY DEF Ground, WorkSound
<1>2. RestFirst /\ QueueFirst /\ (pc \in Trying => TriedFirst)
  BY DEF FirstSound
<1>3. Whole /\ FullChecks
  BY <1>2 DEF RestFirst
<1>4. NoneAhead
  <2>1. ASSUME NEW t \in journal, NEW d \in Collections, Blank(d)
        PROVE  t.c <= d
    <3>1. t.c \in Nat /\ d \in Nat
      BY <1>1, StageNumbers, SyncConstants
    <3>2. \/ pc \in Trying /\ item.c = d
          \/ \E p \in Queue : p.c = d /\ p.n = 0
      BY <1>2, <2>1 DEF QueueFirst, NoneLeft
    <3>3. CASE pc \in Trying /\ item.c = d
      BY <1>2, <2>1, <3>3, <3>1 DEF TriedFirst, ItemFirst, Own
    <3>4. ASSUME NEW p \in Queue, p.c = d, p.n = 0
          PROVE  t.c <= d
      BY <1>2, <3>4, <3>1 DEF QueueFirst, EntryFirst
    <3>5. QED
      BY <3>2, <3>3, <3>4
  <2>2. QED
    BY <2>1 DEF NoneAhead
<1>5. ASSUME Scheduled = {}, NEW s \in journal, NEW t \in journal, Counted(s)
      PROVE  s.n = 1 /\ (t = s \/ t.c < s.c)
  <2>1. pc \in {"mark", "decide", "observe"} /\ Own(s) /\ pc \in Trying /\ pc \in Flying
    BY <1>5, CountedFirst DEF Trying, Flying
  <2>2. item.n >= 1 /\ ~(item.n > 1)
    BY <1>1, <1>5, <2>1 DEF FlightSound
  <2>3. s.c = item.c /\ s.n = item.n /\ s.n \in Nat /\ item.c \in Collections
    BY <1>1, <2>1, StageNumbers DEF Own, StageRecords
  <2>4. s.n = 1
    BY <2>2, <2>3
  <2>5. Blank(item.c)
    BY <1>2, <2>1, <1>1, <1>5, <2>3 DEF TriedFirst, ItemFirst, ViewsSound, RetryInv, Retried, Blank
  <2>6. t.c < item.c \/ Own(t)
    BY <1>2, <2>1, <2>5 DEF TriedFirst, ItemFirst
  <2>7. Own(t) => t = s
    BY <1>1, <2>1 DEF JournalInv, StagesDiffer, Own, Id
  <2>8. QED
    BY <2>3, <2>4, <2>6, <2>7
<1>6. FurthestCounts
  BY <1>5 DEF FurthestCounts
<1>7. QED
  BY <1>3, <1>4, <1>6

\* The first crash, at any point.
LEMMA CrashSteady ==
  ASSUME Ground, SteadyInv, ~WriteFails, crashes = 0, Crash
  PROVE  SteadyInv'
<1>1. /\ job' = IF disk.status \in Terminal THEN disk ELSE [disk EXCEPT !.status = "interrupted"]
      /\ pc' = "idle" /\ pending' = <<>> /\ rec' = "reconcile"
      /\ UNCHANGED <<journal, check, receipts, degraded>>
  BY DEF Crash, fileVars, cacheVars
<1>2. SyncInv /\ ViewsSound /\ disk = job /\ [Next]_vars /\ FirstLife
  BY DEF Ground, ViewsSound, SteadyInv, Next
<1>3. ViewsSound'
  BY <1>2, ViewsStaySound
<1>4. /\ job'.view = job.view
      /\ job.status \in Terminal => job'.status = job.status
      /\ job.status \notin Terminal => job'.status = "interrupted"
  <2>1. JobOK
    BY <1>2 DEF SyncInv
  <2>2. [disk EXCEPT !.status = "interrupted"] = WithStatus("interrupted")
    BY <1>2 DEF WithStatus
  <2>3. job' = job \/ job' = WithStatus("interrupted")
    BY <1>1, <1>2, <2>2
  <2>4. job.status \in Terminal => job' = job
    BY <1>1, <1>2
  <2>5. job.status \notin Terminal => job' = WithStatus("interrupted")
    BY <1>1, <1>2, <2>2
  <2>6. QED
    BY <2>1, <2>3, <2>4, <2>5, ViewsOf, StatusOf
<1>5. job'.status = "succeeded" => AllShown'
  BY <1>4, <1>1, ShownStays DEF SteadyInv
<1>6. crashes' # 0
  BY DEF Crash
<1>7. job'.status \notin Terminal => RecoverySound'
  <2>1. SUFFICES ASSUME job.status \notin Terminal
                 PROVE  RecoverySound'
    BY <1>4
  <2>2. pc \in Working
    BY <1>2, <2>1 DEF Ground, RetryInv, FirstLife, SyncInv, WorkOK, Steps, Working, Resuming
  <2>3. WorkSound /\ FirstSound
    BY <1>2, <2>2 DEF SteadyInv, FirstLife
  <2>4. StagesSound
    BY <2>3, FirstLeavesStages
  <2>5. FurthestCounts /\ Whole /\ NoneAhead /\ FullChecks
    BY <2>1, <2>3, FirstLeavesRest
  <2>6. \A t : /\ Unreported(t)' <=> Unreported(t)
               /\ Live(t)' <=> Live(t)
               /\ Counted(t)' <=> Counted(t)
    BY <1>1, <1>4 DEF Unreported, Live, Counted, Receipt
  <2>7. \A e : /\ Bad(e)' <=> Bad(e)
               /\ Blank(e)' <=> Blank(e)
               /\ Cached(e)' <=> Cached(e)
               /\ SettledBy(e)' <=> SettledBy(e)
    BY <1>1, <1>4 DEF Bad, Blank, Cached, SettledBy
  <2>8. Scheduled' = Scheduled
    BY <1>1 DEF Scheduled
  <2>9. StagesSound'
    BY <1>1, <2>4, <2>6, <2>7, <2>8 DEF StagesSound
  <2>10. FurthestCounts'
    BY <1>1, <2>5, <2>6, <2>8 DEF FurthestCounts
  <2>11. Whole' /\ NoneAhead' /\ FullChecks'
    BY <1>1, <2>5, <2>7, <2>8 DEF Whole, NoneAhead, FullChecks
  <2>12. QED
    BY <1>1, <1>4, <2>1, <2>9, <2>10, <2>11 DEF RecoverySound
<1>8. QED
  BY <1>1, <1>3, <1>5, <1>6, <1>7 DEF SteadyInv, Working, Resuming

\* A cancellation, which only the worker will see, and a stuttering step.
LEMMA NothingSteady ==
  ASSUME SteadyInv,
         UNCHANGED <<job, disk, journal, check, receipts, degraded, pc, pending, item, err, run, rec, crashes>>
  PROVE  SteadyInv'
<1>1. /\ \A c : /\ Blank(c)' <=> Blank(c)
                /\ Bad(c)' <=> Bad(c)
                /\ Cached(c)' <=> Cached(c)
                /\ SettledBy(c)' <=> SettledBy(c)
                /\ FreshAhead(c)' <=> FreshAhead(c)
      /\ \A s : /\ Unreported(s)' <=> Unreported(s)
                /\ Own(s)' <=> Own(s)
                /\ Rest(s)' = Rest(s)
                /\ Receipt(s)' = Receipt(s)
      /\ Scheduled' = Scheduled /\ Queue' = Queue
  BY DEF Blank, Bad, Cached, SettledBy, FreshAhead, Unreported, Own, Rest, Receipt, Scheduled, Queue
<1>2. /\ \A s : /\ Live(s)' <=> Live(s)
                /\ Counted(s)' <=> Counted(s)
                /\ Settled(s)' <=> Settled(s)
                /\ OldStage(s)' <=> OldStage(s)
                /\ StageResumed(s)' <=> StageResumed(s)
                /\ OwnFirst(s)' <=> OwnFirst(s)
      /\ \A c : Chosen(c)' <=> Chosen(c)
  BY <1>1 DEF Live, Counted, Settled, OldStage, StageResumed, Chosen, OwnFirst
<1>3. /\ AllShown' <=> AllShown
      /\ AllKnown' <=> AllKnown
      /\ ViewsSound' <=> ViewsSound
  BY <1>1 DEF AllShown, AllKnown, ViewsSound
<1>4. \A c : Covered(c)' <=> Covered(c)
  BY <1>1 DEF LeftToDo, Rest, Scheduled, StopsAtRejected, IsLatest, Later, Cur, Covered
<1>5. WorkSound' <=> WorkSound
  <2>1. QueueSound' <=> QueueSound
    BY <1>1, <1>2 DEF QueueSound, QueueOrdered, EntrySound, Flying
  <2>2. FlightSound' <=> FlightSound
    BY <1>1, <1>2 DEF FlightSound, Flying, Trying
  <2>3. ShownInFlight' <=> ShownInFlight
    BY <1>1 DEF ShownInFlight, Erring
  <2>4. KnownInFlight' <=> KnownInFlight
    BY <1>1, <1>4 DEF KnownInFlight
  <2>5. QED
    BY <2>1, <2>2, <2>3, <2>4 DEF WorkSound
<1>6. /\ Whole' <=> Whole
      /\ NoneAhead' <=> NoneAhead
      /\ FullChecks' <=> FullChecks
  BY <1>1 DEF Whole, NoneAhead, FullChecks
<1>7. ResumeSound' <=> ResumeSound
  BY <1>1, <1>2, <1>3 DEF ResumeSound
<1>8. StagesSound' <=> StagesSound
  BY <1>1, <1>2 DEF StagesSound
<1>9. FurthestCounts' <=> FurthestCounts
  BY <1>1, <1>2 DEF FurthestCounts
<1>10. RecoverySound' <=> RecoverySound
  BY <1>1, <1>3, <1>6, <1>8, <1>9 DEF RecoverySound
<1>11. FirstSound' <=> FirstSound
  <2>1. FirstRun' <=> FirstRun
    BY DEF FirstRun
  <2>2. RestFirst' <=> RestFirst
    BY <1>2, <1>6 DEF RestFirst, OthersOld, OneStaged, Trying
  <2>3. NoneLeft' <=> NoneLeft
    BY <1>1 DEF NoneLeft, Trying
  <2>4. BlanksFirst' <=> BlanksFirst
    BY DEF BlanksFirst
  <2>5. \A p : EntryFirst(p)' <=> EntryFirst(p)
    BY <1>1, <1>2 DEF EntryFirst, Trying
  <2>6. QueueFirst' <=> QueueFirst
    BY <1>1, <2>3, <2>4, <2>5 DEF QueueFirst
  <2>7. ItemFirst' <=> ItemFirst
    BY <1>1, <1>2 DEF ItemFirst
  <2>8. OwnKept' <=> OwnKept
    BY <1>1 DEF OwnKept
  <2>9. TriedFirst' <=> TriedFirst
    BY <1>1, <1>2, <2>7, <2>8 DEF TriedFirst
  <2>10. QED
    BY <2>1, <2>2, <2>6, <2>9 DEF FirstSound, Trying
<1>12. FirstLife' <=> FirstLife
  BY <1>11 DEF FirstLife, Working, Resuming
<1>13. QED
  BY <1>3, <1>5, <1>7, <1>10, <1>12 DEF SteadyInv, Working, Resuming

\* The queue a job starts with: every collection, in order, none of them tried.
LEMMA QueueStarts ==
  ASSUME Init
  PROVE  /\ \A p \in Queue : \E c \in Collections : p.c = c /\ p.n = 0 /\ p.later = FALSE
         /\ \A c \in Collections : \E p \in Queue : p.c = c /\ p.n = 0
         /\ QueueOrdered /\ BlanksFirst
<1>1. pending = Schedule(Collections) /\ check = [c \in Collections |-> NoCheck]
  BY DEF Init
<1>2. /\ \A i \in 1..Len(pending) : \E c \in Collections : pending[i] = Entry(c)
      /\ \A c \in Collections : \E i \in 1..Len(pending) : pending[i] = Entry(c)
      /\ \A i, j \in 1..Len(pending) : i < j => pending[i].c < pending[j].c
  BY <1>1, ScheduleHolds
<1>3. ASSUME NEW c \in Collections
      PROVE  Entry(c).c = c /\ Entry(c).n = 0 /\ Entry(c).later = FALSE
  <2>1. check[c].n = 0
    BY <1>1 DEF NoCheck
  <2>2. Entry(c).c = c /\ Entry(c).n = check[c].n /\ Entry(c).later = (check[c].n > 0)
    BY DEF Entry
  <2>3. (check[c].n > 0) = FALSE
    BY <2>1
  <2>4. QED
    BY <2>1, <2>2, <2>3
<1>4. \A i \in 1..Len(pending) : \E c \in Collections :
         pending[i].c = c /\ pending[i].n = 0 /\ pending[i].later = FALSE
  <2>1. ASSUME NEW i \in 1..Len(pending)
        PROVE  \E c \in Collections : pending[i].c = c /\ pending[i].n = 0 /\ pending[i].later = FALSE
    <3>1. PICK c \in Collections : pending[i] = Entry(c)
      BY <1>2
    <3>2. QED
      BY <1>3, <3>1
  <2>2. QED
    BY <2>1
<1>5. ASSUME NEW i \in 1..Len(pending), NEW j \in 1..Len(pending), i < j
      PROVE  pending[i].c # pending[j].c
  <2>1. pending[i].c \in Nat /\ pending[j].c \in Nat
    BY <1>4, SyncConstants
  <2>2. pending[i].c < pending[j].c
    BY <1>2, <1>5
  <2>3. QED
    BY <2>1, <2>2
<1>6. QueueOrdered
  BY <1>2, <1>5 DEF QueueOrdered
<1>7. BlanksFirst
  BY <1>4 DEF BlanksFirst
<1>8. \A p \in Queue : \E c \in Collections : p.c = c /\ p.n = 0 /\ p.later = FALSE
  BY <1>4 DEF Queue
<1>9. \A c \in Collections : \E p \in Queue : p.c = c /\ p.n = 0
  <2>1. ASSUME NEW c \in Collections
        PROVE  \E p \in Queue : p.c = c /\ p.n = 0
    <3>1. PICK i \in 1..Len(pending) : pending[i] = Entry(c)
      BY <1>2
    <3>2. pending[i] \in Queue
      BY DEF Queue
    <3>3. QED
      BY <1>3, <3>1, <3>2
  <2>2. QED
    BY <2>1
<1>10. QED
  BY <1>6, <1>7, <1>8, <1>9

\* A job that has just been started.
LEMMA SurvivalStarts == Init => SurvivalInv
<1> SUFFICES ASSUME Init PROVE SurvivalInv
  OBVIOUS
<1>1. /\ job = [status |-> "running", view |-> [c \in Collections |-> NoView], shown |-> NoStage]
      /\ disk = job /\ journal = {} /\ receipts = {} /\ degraded = {}
      /\ check = [c \in Collections |-> NoCheck]
      /\ pc = "open" /\ rec = "off" /\ cancelled = FALSE
      /\ run = [NoRun EXCEPT !.list = Collections, !.sel = Collections]
  BY DEF Init
<1>2. \A c \in Collections : job.view[c] = NoView /\ check[c] = NoCheck
  BY <1>1
<1>3. \A c \in Collections : Blank(c) /\ job.view[c].n = 0 /\ check[c].n = 0
  BY <1>2 DEF Blank, NoView, NoCheck
<1>4. Scheduled = {}
  BY <1>3 DEF Scheduled
<1>5. /\ run.list = Collections /\ run.sel = Collections
      /\ run.recovered = FALSE /\ run.result = "ok"
  BY <1>1 DEF NoRun
<1>6. ViewsSound
  BY <1>1, <1>3 DEF ViewsSound
<1>7. QueueOrdered /\ BlanksFirst
  BY QueueStarts
<1>8. QueueSound
  <2>1. ASSUME NEW p \in Queue
        PROVE  EntrySound(p)
    <3>1. PICK c \in Collections : p.c = c /\ p.n = 0 /\ p.later = FALSE
      BY QueueStarts
    <3>2. Chosen(p.c)
      BY <1>4, <1>5, <3>1 DEF Chosen
    <3>3. FreshAhead(p.c)
      BY <1>1 DEF FreshAhead
    <3>4. pc \notin Flying
      BY <1>1 DEF Flying
    <3>5. ~(p.n > 0)
      BY <3>1
    <3>6. QED
      BY <3>1, <3>2, <3>3, <3>4, <3>5 DEF EntrySound
  <2>2. QED
    BY <1>7, <2>1 DEF QueueSound
<1>9. FlightSound /\ ShownInFlight
  BY <1>1 DEF FlightSound, ShownInFlight, Flying, Trying
<1>10. KnownInFlight
  BY <1>1 DEF KnownInFlight, Cached
<1>11. FirstSound
  <2>1. FirstRun
    BY <1>5 DEF FirstRun
  <2>2. RestFirst
    BY <1>1, <1>4 DEF RestFirst, FullChecks, Whole, OthersOld, OneStaged
  <2>3. NoneLeft
    BY QueueStarts DEF NoneLeft
  <2>4. ASSUME NEW p \in Queue
        PROVE  EntryFirst(p)
    <3>1. PICK c \in Collections : p.c = c /\ p.n = 0
      BY QueueStarts
    <3>2. job.view[p.c].n = p.n /\ Blank(p.c) /\ ~(p.n > 0)
      BY <1>3, <3>1
    <3>3. QED
      BY <1>1, <3>2 DEF EntryFirst, Trying
  <2>5. pc \notin Trying
    BY <1>1 DEF Trying
  <2>6. QED
    BY <1>7, <2>1, <2>2, <2>3, <2>4, <2>5 DEF FirstSound, QueueFirst
<1>12. FirstLife
  BY <1>1, <1>11 DEF FirstLife, Resuming
<1>13. SteadyInv
  BY <1>1, <1>6, <1>8, <1>9, <1>10, <1>12 DEF SteadyInv, WorkSound, Resuming
<1>14. QED
  BY <1>13, JournalStarts DEF SurvivalInv

\* Every step keeps the invariant.
LEMMA SurvivalStep ==
  ASSUME SyncInv, LedgerInv, RetryInv, CompleteInv, SurvivalInv, [Next]_vars
  PROVE  SurvivalInv'
<1>1. JournalInv'
  BY JournalKept DEF SurvivalInv
<1>2. SUFFICES ASSUME Steady' PROVE SteadyInv'
  BY <1>1 DEF SurvivalInv
<1>3. Steady /\ ~WriteFails /\ SteadyInv
  BY <1>2, SteadyBefore DEF SurvivalInv
<1>4. Ground
  BY <1>3 DEF Ground, SurvivalInv, SteadyInv
<1>5. CASE Crash
  <2>1. crashes = 0
    BY <1>2, <1>5, SyncConstants DEF Crash, Steady, SyncInv, CountOK
  <2>2. QED
    BY <1>3, <1>4, <1>5, <2>1, CrashSteady
<1>6. CASE ~Crash
  <2>1. crashes' = crashes
    BY <1>6, FailuresCounted
  <2>2. CASE WorkerStep
    BY <1>3, <1>4, <2>1, <2>2, WorkerSteady
  <2>3. CASE RecoveryStep
    BY <1>3, <1>4, <2>1, <2>3, RecoverySteady
  <2>4. CASE Cancel \/ UNCHANGED vars
    BY <2>4, <1>3, NothingSteady DEF Cancel, vars, jobVars, fileVars, cacheVars, workerVars
  <2>5. QED
    BY <1>6, <2>2, <2>3, <2>4 DEF Next
<1>7. QED
  BY <1>5, <1>6

\* What the invariant says to whoever reads the job and the files.
LEMMA SurvivalMeans ==
  ASSUME SyncInv, LedgerInv, RetryInv, CompleteInv, SurvivalInv
  PROVE  OneCrashIsSurvived
<1>1. ASSUME Steady
      PROVE  Ground /\ SteadyInv /\ disk = job
  BY <1>1 DEF SurvivalInv, SteadyInv, ViewsSound, Ground
<1>2. NoFalseSuccess
  <2>1. ASSUME Steady, disk.status = "succeeded", Health(disk) = "succeeded", NEW c \in degraded
        PROVE  FALSE
    <3>1. AllShown /\ disk = job
      BY <1>1, <2>1 DEF SteadyInv
    <3>2. c \in Collections
      BY <2>1 DEF SyncInv, CacheOK
    <3>3. Bad(c)
      BY <2>1, <3>1 DEF AllShown
    <3>4. Has(disk, "failed") \/ Has(disk, "cancelled") \/ Has(disk, "retry")
      BY <3>1, <3>2, <3>3 DEF Bad, Has
    <3>5. QED
      BY <2>1, <3>4 DEF Health
  <2>2. QED
    BY <2>1 DEF NoFalseSuccess, Steady
<1>3. CommitLeavesEvidence
  <2>1. ASSUME Steady, disk.status \notin Terminal, NEW c \in Collections, Cached(c), Blank(c)
        PROVE  Covered(c)
    <3>1. Ground /\ SteadyInv /\ disk = job /\ JournalInv
      BY <1>1, <2>1 DEF SurvivalInv
    <3>2. rec \in Progress /\ pc \in Steps
      BY DEF SyncInv, CountOK, WorkOK
    <3>3. CASE rec # "off"
      <4>1. RecoverySound
        BY <2>1, <3>1, <3>3 DEF SteadyInv
      <4>2. ~AllKnown
        BY <2>1 DEF AllKnown
      <4>3. rec \in {"reconcile", "stages", "failed"}
        BY <3>2, <3>3, <4>1, <4>2 DEF RecoverySound, Progress
      <4>4. \E s \in journal : s.c = c
        BY <2>1, <4>1, <4>3 DEF RecoverySound, StagesSound
      <4>5. QED
        BY <4>4 DEF Covered
    <3>4. CASE rec = "off" /\ pc \in Working
      BY <3>1, <3>4, <2>1 DEF SteadyInv, WorkSound, KnownInFlight
    <3>5. CASE rec = "off" /\ pc \in Resuming
      <4>1. ResumeSound
        BY <3>1, <3>5 DEF SteadyInv
      <4>2. c = item.c
        BY <2>1, <4>1 DEF ResumeSound, AllKnown
      <4>3. \E s \in journal : Own(s)
        BY <3>1, <3>5, TheOwnStage DEF HasStage, Resuming
      <4>4. QED
        BY <4>2, <4>3 DEF Covered, Own
    <3>6. CASE rec = "off" /\ pc = "idle"
      BY <2>1, <3>1, <3>6 DEF SteadyInv, AllKnown
    <3>7. pc # "clean"
      BY <2>1 DEF RetryInv
    <3>8. QED
      BY <3>2, <3>3, <3>4, <3>5, <3>6, <3>7 DEF Steps, Working, Resuming
  <2>2. ASSUME Steady, disk.status \notin Terminal, NEW c \in Collections, Cached(c)
        PROVE  \/ disk.view[c].outcome # "none"
               \/ c \in Scheduled \/ \E s \in journal : s.c = c
               \/ c \in LeftToDo
               \/ Scheduled = {} /\ StopsAtRejected
    BY <1>1, <2>2, <2>1 DEF Covered, Blank
  <2>3. QED
    BY <2>2 DEF CommitLeavesEvidence, Steady
<1>4. QED
  BY <1>2, <1>3 DEF OneCrashIsSurvived

\* Unless a write fails, what one crash at any point may find is neither lost
\* nor reported as more than it is: no saved healthy success over a partial
\* batch, and no batch in the cache that the files do not lead back to
\* (recoveredSyncCollectionView, SyncStageJournal.GC).
THEOREM OneCrashSurvived == Spec => []OneCrashIsSurvived
<1>1. Init => CompleteInv /\ SurvivalInv
  BY SurvivalStarts DEF Init, CompleteInv, RecoveryIsComplete
<1>2. SyncInv /\ LedgerInv /\ RetryInv /\ CompleteInv /\ SurvivalInv /\ [Next]_vars
        => CompleteInv' /\ SurvivalInv'
  BY CompleteStep, SurvivalStep
<1>3. SyncInv /\ LedgerInv /\ RetryInv /\ CompleteInv /\ SurvivalInv => OneCrashIsSurvived
  BY SurvivalMeans
<1>4. QED
  BY <1>1, <1>2, <1>3, SyncSound, VerdictsStand, RetriesAreKept, PTL DEF Spec
===============================================================================
