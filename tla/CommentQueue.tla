---------------------------- MODULE CommentQueue ----------------------------
(***************************************************************************)
(* The durable queue of issue comment coverage.                            *)
(*                                                                         *)
(* Storing an issue queues its comments when its revision moved.  Three    *)
(* readers drain the queue: a foreground run that reads issue by issue, a  *)
(* foreground run that walks the comments of the whole repository in pages *)
(* and reconciles them by count, and the daemon, which reads one issue,    *)
(* stages the answer, and commits it later.  A row names the revision of   *)
(* its issue that the comments belong to; 0 means none.                    *)
(*                                                                         *)
(* A foreground reader holds the cache writer, `pass` is where it stands.  *)
(***************************************************************************)
EXTENDS Integers, FiniteSets

CONSTANTS
    Issues,
    NoIssue,       \* a deleted comment's home, and an idle reader's issue
    MaxComments,   \* bound on comments ever posted
    MaxRevision,   \* bound on revisions of an issue
    MaxPasses,     \* bound on foreground readings
    AggregatePage, \* page size of the repository comment list
    NewestFirst    \* order of that list

ASSUME QueueAssumption ==
    /\ IsFiniteSet(Issues) /\ NoIssue \notin Issues
    /\ {MaxComments, MaxPasses} \subseteq Nat
    /\ {MaxRevision, AggregatePage} \subseteq Nat \ {0}
    /\ NewestFirst \in BOOLEAN

VARIABLES
    home,     \* comment -> its issue at the provider; NoIssue: not posted, or deleted
    posted,   \* comments posted so far; their ids are 1..posted
    revision, \* issue -> revision at the provider
    parent,   \* issue -> revision in the cache
    row,      \* issue -> issue_comment_sync row: [status, revision, expected]
    shown,    \* issue -> cached comments
    owed,     \* history: issues stored but not queued by a run that died; it left no frontier
    pass,     \* foreground reader: [at, issue, got, pend, page, listed, total, failed]
    staged,   \* daemon stage: [on, issue, revision, got]
    passes    \* foreground readings so far

queueVars == <<home, posted, revision, parent, row, shown, owed, pass, staged, passes>>
provider == <<home, posted, revision>>

Comments == 1..MaxComments
Thread(i) == {c \in Comments : home[c] = i}
Waiting == {"pending", "deferred"}
NoRow == [status |-> "none", revision |-> 0, expected |-> 0]
NoPass == [at |-> "idle", issue |-> NoIssue, got |-> {}, pend |-> {},
           page |-> 1, listed |-> 0, total |-> 0, failed |-> FALSE]
NotStaged == [on |-> FALSE, issue |-> NoIssue, revision |-> 0, got |-> {}]

QueueInit ==
    /\ home = [c \in Comments |-> NoIssue]
    /\ posted = 0
    /\ revision = [i \in Issues |-> 1]
    /\ parent = [i \in Issues |-> 0]
    /\ row = [i \in Issues |-> NoRow]
    /\ shown = [i \in Issues |-> {}]
    /\ owed = {}
    /\ pass = NoPass
    /\ staged = NotStaged
    /\ passes = 0

------------------------------------------------------------------------------
(* The provider: every change of a thread is a change of its issue. *)

Touch(i) == revision[i] < MaxRevision /\ revision' = [revision EXCEPT ![i] = @ + 1]
mirror == <<parent, row, shown, owed, pass, staged, passes>>

Post(i) ==
    /\ posted < MaxComments
    /\ Touch(i)
    /\ posted' = posted + 1
    /\ home' = [home EXCEPT ![posted + 1] = i]
    /\ UNCHANGED mirror

Delete(c) ==
    /\ home[c] # NoIssue
    /\ Touch(home[c])
    /\ home' = [home EXCEPT ![c] = NoIssue]
    /\ UNCHANGED <<posted, mirror>>

------------------------------------------------------------------------------
(* Storing an issue. *)

(* The row an issue listed at revision r with n comments leaves: a revision  *)
(* already in the queue keeps its progress, a new one starts over, and an    *)
(* issue without comments has nothing to read.                               *)
QueuedKeepsProgress(i, r, n) ==
    [status |-> IF n = 0 THEN "complete"
                ELSE IF row[i].status # "none" THEN row[i].status ELSE "pending",
     revision |-> r, expected |-> n]
Queued(i, r, n) ==
    [status |-> IF n = 0 THEN "complete"
                ELSE IF row[i].revision = r THEN row[i].status ELSE "pending",
     revision |-> r, expected |-> n]

ShownAfter(i, n) == IF n = 0 THEN [shown EXCEPT ![i] = {}] ELSE shown

(* The daemon commits the issue and its row in one transaction. *)
CommitParent(i) ==
    LET n == Cardinality(Thread(i)) IN
    /\ pass.at = "idle"
    /\ parent' = [parent EXCEPT ![i] = revision[i]]
    /\ row' = [row EXCEPT ![i] = Queued(i, revision[i], n)]
    /\ shown' = ShownAfter(i, n)
    /\ owed' = owed \ {i}
    /\ UNCHANGED <<provider, pass, staged, passes>>

(* The foreground stores the issue first and queues it in a second one. *)
Begin(at) == pass.at = "idle" /\ passes < MaxPasses /\ passes' = passes + 1 /\ pass' = at

StoreParent(i) ==
    /\ Begin([NoPass EXCEPT !.at = "enqueue", !.issue = i, !.listed = revision[i], !.got = Thread(i)])
    /\ parent' = [parent EXCEPT ![i] = revision[i]]
    /\ owed' = owed \union {i}
    /\ UNCHANGED <<provider, row, shown, staged>>

Enqueue ==
    LET i == pass.issue  n == Cardinality(pass.got) IN
    /\ pass.at = "enqueue"
    /\ row' = [row EXCEPT ![i] = Queued(i, pass.listed, n)]
    /\ shown' = ShownAfter(i, n)
    /\ owed' = owed \ {i}
    /\ pass' = NoPass
    /\ UNCHANGED <<provider, parent, staged, passes>>

------------------------------------------------------------------------------
(* Draining issue by issue. *)

(* Issues cached before there was a queue, or by a run that died before it   *)
(* queued them, get a row that expects no particular count.                  *)
Seeded == [i \in Issues |->
    IF parent[i] # 0 /\ row[i].status = "none"
    THEN [status |-> "pending", revision |-> parent[i], expected |-> -1] ELSE row[i]]

Complete(i, r, got) == [status |-> "complete", revision |-> r, expected |-> Cardinality(got)]

DrainRead(i) ==
    /\ Seeded[i].status \in Waiting
    /\ Begin([NoPass EXCEPT !.at = "read", !.issue = i, !.got = Thread(i)])
    /\ row' = Seeded
    /\ UNCHANGED <<provider, parent, shown, owed, staged>>

DrainReplace ==
    /\ pass.at = "read"
    /\ shown' = [shown EXCEPT ![pass.issue] = pass.got]
    /\ pass' = [pass EXCEPT !.at = "replaced"]
    /\ UNCHANGED <<provider, parent, row, owed, staged, passes>>

DrainDone ==
    LET i == pass.issue IN
    /\ pass.at = "replaced"
    /\ row' = [row EXCEPT ![i] = Complete(i, @.revision, pass.got)]
    /\ pass' = NoPass
    /\ UNCHANGED <<provider, parent, shown, owed, staged, passes>>

(* The provider limits or refuses the read: the row is put off. *)
DrainDeferred ==
    /\ pass.at = "read"
    /\ row' = [row EXCEPT ![pass.issue].status = "deferred"]
    /\ pass' = NoPass
    /\ UNCHANGED <<provider, parent, shown, owed, staged, passes>>

------------------------------------------------------------------------------
(* Draining by walking the comments of the repository. *)

Existing == {c \in Comments : home[c] # NoIssue}
Before(c) == {d \in Existing : IF NewestFirst THEN d > c ELSE d < c}
CommentsOn(p) ==
    {c \in Existing : LET n == Cardinality(Before(c)) IN
                         (p - 1) * AggregatePage <= n /\ n < p * AggregatePage}

AggregateBegins ==
    /\ \E i \in Issues : Seeded[i].status \in Waiting
    /\ Begin([NoPass EXCEPT !.at = "walk", !.pend = {i \in Issues : Seeded[i].status \in Waiting}])
    /\ row' = Seeded
    /\ UNCHANGED <<provider, parent, shown, owed, staged>>

(* One page: every comment must belong to a queued issue; those of waiting   *)
(* issues are added to the cache; the total must not move.                   *)
AggregateListsPage ==
    LET page == CommentsOn(pass.page)
        total == Cardinality(Existing)
        known == {c \in page : row[home[c]].status # "none"}
        kept == {c \in known : home[c] \in pass.pend}
        last == pass.page * AggregatePage >= total
    IN /\ pass.at = "walk"
       /\ shown' = [i \in Issues |-> shown[i] \union {c \in kept : home[c] = i}]
       /\ pass' = [pass EXCEPT
             !.at = IF last THEN "reconcile" ELSE "walk",
             !.page = @ + 1,
             !.listed = @ + Cardinality(page),
             !.got = @ \union {<<home[c], c>> : c \in kept},
             !.total = IF @ = 0 THEN total ELSE @,
             !.failed = @ \/ known # page \/ (pass.total # 0 /\ total # 0 /\ pass.total # total)]
       /\ UNCHANGED <<provider, parent, row, owed, staged, passes>>

Agrees(listed, total) == total = 0 \/ listed = total
Expects(i, got) == row[i].expected < 0 \/ row[i].expected = Cardinality(got)

(* After the last page each waiting issue is settled: its comments replace   *)
(* what was cached, unless their number is not what the issue announced.     *)
AggregateReconciles(i) ==
    LET got == {c \in Comments : <<i, c>> \in pass.got} IN
    /\ pass.at = "reconcile" /\ ~pass.failed /\ Agrees(pass.listed, pass.total)
    /\ i \in pass.pend
    /\ pass' = [pass EXCEPT !.pend = @ \ {i}]
    /\ IF Expects(i, got)
       THEN /\ shown' = [shown EXCEPT ![i] = got]
            /\ row' = [row EXCEPT ![i] = Complete(i, @.revision, got)]
       ELSE UNCHANGED <<shown, row>>
    /\ UNCHANGED <<provider, parent, owed, staged, passes>>

AggregateEnds ==
    /\ pass.at = "reconcile"
    /\ pass.failed \/ ~Agrees(pass.listed, pass.total) \/ pass.pend = {}
    /\ pass' = NoPass
    /\ UNCHANGED <<provider, parent, row, shown, owed, staged, passes>>

(* A bound, a cancellation, a provider error or the death of the process. *)
PassBreaks ==
    /\ pass.at # "idle"
    /\ pass' = NoPass
    /\ UNCHANGED <<provider, parent, row, shown, owed, staged, passes>>

------------------------------------------------------------------------------
(* The daemon: pending rows before deferred ones, one issue to a stage. *)

FirstWaiting == IF \E i \in Issues : row[i].status = "pending" THEN "pending" ELSE "deferred"

FetchComments(i) ==
    /\ ~staged.on
    /\ row[i].status = FirstWaiting
    /\ staged' = [on |-> TRUE, issue |-> i, revision |-> row[i].revision, got |-> Thread(i)]
    /\ UNCHANGED <<provider, parent, row, shown, owed, pass, passes>>

(* The row must still name the revision it had when the comments were read.  *)
SameParent(i, r) == row[i].revision = r

CommitComments ==
    LET i == staged.issue IN
    /\ staged.on
    /\ pass.at = "idle"
    /\ SameParent(i, staged.revision)
    /\ shown' = [shown EXCEPT ![i] = staged.got]
    /\ row' = [row EXCEPT ![i] = Complete(i, staged.revision, staged.got)]
    /\ staged' = NotStaged
    /\ UNCHANGED <<provider, parent, owed, pass, passes>>

DropComments ==
    /\ staged.on
    /\ staged' = NotStaged
    /\ UNCHANGED <<provider, parent, row, shown, owed, pass, passes>>

QueueNext ==
    \/ \E i \in Issues : Post(i) \/ CommitParent(i) \/ StoreParent(i) \/ DrainRead(i)
                         \/ AggregateReconciles(i) \/ FetchComments(i)
    \/ \E c \in Comments : Delete(c)
    \/ Enqueue \/ DrainReplace \/ DrainDone \/ DrainDeferred
    \/ AggregateBegins \/ AggregateListsPage \/ AggregateEnds \/ PassBreaks
    \/ CommitComments \/ DropComments

QueueSpec == QueueInit /\ [][QueueNext]_queueVars

------------------------------------------------------------------------------
(* Every variable keeps its type, and a row names a revision of its issue. *)
QueueTypeOK ==
    /\ home \in [Comments -> Issues \union {NoIssue}]
    /\ posted \in 0..MaxComments
    /\ revision \in [Issues -> 1..MaxRevision]
    /\ parent \in [Issues -> 0..MaxRevision]
    /\ row \in [Issues -> [status : Waiting \union {"none", "complete"},
                           revision : 0..MaxRevision, expected : -1..MaxComments]]
    /\ \A i \in Issues : (row[i].status = "none") <=> (row[i].revision = 0)
    /\ shown \in [Issues -> SUBSET Comments]
    /\ owed \subseteq Issues
    /\ pass.at \in {"idle", "enqueue", "read", "replaced", "walk", "reconcile"}
    /\ pass.pend \subseteq Issues /\ pass.failed \in BOOLEAN
    /\ staged.got \subseteq Comments
    /\ passes \in 0..MaxPasses

(* A row that is complete for the revision its issue has, here and at the    *)
(* provider, shows exactly the provider's comments: no drain that was        *)
(* delayed, interrupted, or overtaken by another page hides a comment or     *)
(* keeps a deleted one.                                                      *)
CompleteIsExact ==
    \A i \in Issues :
        row[i].status = "complete" /\ parent[i] = revision[i] /\ i \notin owed =>
            shown[i] = Thread(i)

(* The queue never falls behind the issue it describes, except where a run   *)
(* died between the two writes.                                              *)
RowFollowsParent ==
    \A i \in Issues : i \notin owed => row[i].revision = parent[i]

\* Between them: the comments of an issue are exact when they are said to be,
\* and said to be of the right revision (durable_comment_sync.go).
CommentsAreExact == CompleteIsExact /\ RowFollowsParent
=============================================================================
