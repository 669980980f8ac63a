----------------------------- MODULE RecordSync -----------------------------
(* One record at a time, and a collection as its records: targeted sync    *)
(* under an idempotency key, the wiki listing that skips what it has, PR   *)
(* comments under their cached pull request, and the daemon's batches,     *)
(* fetched outside the cache's writer lock and committed under it.         *)
EXTENDS Naturals

CONSTANTS
  Callers,        \* processes: foreground commands and the daemon's workers
  Pages,          \* wiki pages; each has one explicit idempotency key
  MaxVersions,    \* edits of the provider's records
  MaxOps,         \* operations begun
  MaxMishaps,     \* failures and deaths
  Reverts,        \* a page may return to the content of an earlier revision
  NoCaller        \* the writer lock is free

ASSUME RecordBounds ==
    /\ {MaxVersions, MaxOps, MaxMishaps} \subseteq Nat /\ Reverts \in BOOLEAN
    /\ NoCaller \notin Callers

VARIABLES
  wiki,           \* the content of each page, which is its revision; 0: deleted
  talk,           \* the comments of the pull request at the provider
  latest,         \* the last version anyone wrote
  local,          \* the cached page: sources and remote_revisions
  pull,           \* the pull request is cached
  thread,         \* its cached comments, 0 for none
  event,          \* sync_events under the explicit key of each page
  lock,           \* who holds the writer lock
  call,           \* what each process is doing
  stuck,          \* keys whose owner died or could not record its end
  opsBegun, mishaps

remoteVars == <<wiki, talk, latest>>
rowVars    == <<local, pull, thread, event>>
syncVars   == <<lock, call, stuck, opsBegun, mishaps>>
recordVars == <<remoteVars, rowVars, syncVars>>

Versions == 0..MaxVersions + 1
NoPage == [label |-> 0, body |-> 0, status |-> "absent"]
PageRow(l, b) == [label |-> l, body |-> b, status |-> "fresh"]
Stored(p) == local[p].status # "absent"
Upsert(p, l, b) == local' = [local EXCEPT ![p] = PageRow(l, b)]

\* What is in a process's hands: the pages it has yet to stage, as listed or as
\* fetched, the page it is at with the revision and body it read.
Idle == [op |-> "none", at |-> "idle", key |-> FALSE, started |-> FALSE,
         left |-> {}, batch |-> [p \in Pages |-> NoPage], page |-> {}, meta |-> 0, body |-> 0]
Ops == {"none", "sync", "bulk", "batch", "comments", "all comments", "comment batch"}

RecordInit ==
    /\ wiki = [p \in Pages |-> 1] /\ talk = 1 /\ latest = 1
    /\ local = [p \in Pages |-> NoPage] /\ pull = FALSE /\ thread = 0
    /\ event = [p \in Pages |-> "none"]
    /\ lock = NoCaller /\ call = [c \in Callers |-> Idle]
    /\ stuck = {} /\ opsBegun = 0 /\ mishaps = 0

Rewrite(c, at) == call' = [call EXCEPT ![c].at = at]
EndOp(c) == call' = [call EXCEPT ![c] = Idle]
Release(c) == lock' = IF lock = c THEN NoCaller ELSE lock
Mishap == mishaps < MaxMishaps /\ mishaps' = mishaps + 1
At(c, op, at) == call[c].op = op /\ call[c].at = at
BeginOp(c) == call[c] = Idle /\ opsBegun < MaxOps /\ opsBegun' = opsBegun + 1

\* Others edit, delete and restore pages, and comment on the pull request.
Written == latest <= MaxVersions /\ latest' = latest + 1
Edit(p) ==
    /\ \/ Written /\ wiki' = [wiki EXCEPT ![p] = latest']
       \/ Reverts /\ UNCHANGED latest /\ \E v \in 0..latest : wiki' = [wiki EXCEPT ![p] = v]
       \/ wiki[p] # 0 /\ Written /\ wiki' = [wiki EXCEPT ![p] = 0]
    /\ UNCHANGED <<talk, rowVars, syncVars>>
Comment ==
    /\ Written /\ talk' = latest'
    /\ UNCHANGED <<wiki, rowVars, syncVars>>

-----------------------------------------------------------------------------
\* A targeted sync looks its key up before it asks for the lock.
BeginSync(c, p, k) ==
    /\ BeginOp(c)
    /\ call' = [call EXCEPT ![c] =
         IF k /\ event[p] \in {"succeeded", "in_progress"} THEN Idle    \* replayed, or refused
         ELSE [Idle EXCEPT !.op = "sync", !.at = "asked", !.key = k, !.page = {p}]]
    /\ UNCHANGED <<remoteVars, rowVars, lock, stuck, mishaps>>

\* A bug: a lock that is held does not stop a sync.
LockSyncShared(c) ==
    /\ At(c, "sync", "asked")
    /\ \E p \in call[c].page :
            LET marks == Stored(p) IN
            /\ lock' = IF lock = NoCaller THEN c ELSE lock
            /\ call' = [call EXCEPT ![c].at = "meta", ![c].started = marks]
            /\ event' = IF marks /\ call[c].key THEN [event EXCEPT ![p] = "in_progress"] ELSE event
    /\ UNCHANGED <<remoteVars, local, pull, thread, stuck, opsBegun, mishaps>>

\* The lock is asked for once; the mark of a started sync hangs on the record,
\* so a page not cached yet gets none.
LockSync(c) ==
    /\ At(c, "sync", "asked")
    /\ IF lock # NoCaller THEN EndOp(c) /\ UNCHANGED <<event, lock>>
       ELSE \E p \in call[c].page :
            LET marks == Stored(p) IN
            /\ lock' = c
            /\ call' = [call EXCEPT ![c].at = "meta", ![c].started = marks]
            /\ event' = IF marks /\ call[c].key THEN [event EXCEPT ![p] = "in_progress"] ELSE event
    /\ UNCHANGED <<remoteVars, local, pull, thread, stuck, opsBegun, mishaps>>

\* The end of a failed sync: a failed event, where there was a mark, whose own
\* write may fail unnoticed.
Fails(c, p, unnoticed) ==
    LET marked == call[c].started /\ call[c].key IN
    /\ event' = IF marked /\ ~unnoticed THEN [event EXCEPT ![p] = "failed"] ELSE event
    /\ stuck' = IF marked /\ unnoticed THEN stuck \union {p} ELSE stuck
    /\ EndOp(c) /\ Release(c)

\* A page is read twice, its revision first and then its raw body; without the
\* body, the content that came with the revision serves.
ReadMeta(c, p) ==
    /\ call[c].at = "meta" /\ call[c].page = {p} /\ wiki[p] # 0
    /\ call' = [call EXCEPT ![c].at = "body", ![c].meta = wiki[p]]
    /\ UNCHANGED <<remoteVars, rowVars, lock, stuck, opsBegun, mishaps>>
BodyRead(c, p) == IF wiki[p] = 0 THEN call[c].meta ELSE wiki[p]
ReadBody(c, p) ==
    /\ call[c].at = "body" /\ call[c].page = {p}
    /\ call' = [call EXCEPT ![c].at = IF call[c].op = "batch" THEN "fetch" ELSE "stage",
                            ![c].body = BodyRead(c, p),
                            ![c].batch = IF call[c].op = "batch" THEN [@ EXCEPT ![p] = PageRow(call[c].meta, BodyRead(c, p))] ELSE @,
                            ![c].page = IF call[c].op = "batch" THEN {} ELSE @]
    /\ UNCHANGED <<remoteVars, rowVars, lock, stuck, opsBegun, mishaps>>

\* A read that failed on the network or a limit is tried again, from the first.
RetryRead(c) ==
    /\ call[c].op \in {"sync", "bulk"} /\ call[c].at = "body" /\ Mishap
    /\ call' = [call EXCEPT ![c].at = "meta", ![c].meta = 0]
    /\ UNCHANGED <<remoteVars, rowVars, lock, stuck, opsBegun>>

\* A page gone at the provider keeps its content and loses its revision.
MarkMissing(c, p) ==
    /\ At(c, "sync", "meta") /\ call[c].page = {p} /\ wiki[p] = 0
    /\ local' = IF Stored(p) THEN [local EXCEPT ![p].label = 0, ![p].status = "not_found"] ELSE local
    /\ Fails(c, p, FALSE)
    /\ UNCHANGED <<remoteVars, pull, thread, opsBegun, mishaps>>

\* A bug: the revision is read after the body.
StageRelabelled(c, p) ==
    /\ At(c, "sync", "stage") /\ call[c].page = {p}
    /\ Upsert(p, wiki[p], call[c].body)
    /\ event' = IF call[c].key THEN [event EXCEPT ![p] = "succeeded"] ELSE event
    /\ Rewrite(c, "checkpoint")
    /\ UNCHANGED <<remoteVars, pull, thread, lock, stuck, opsBegun, mishaps>>

\* The record and the event of its success are one transaction.
StageSync(c, p) ==
    /\ At(c, "sync", "stage") /\ call[c].page = {p}
    /\ Upsert(p, call[c].meta, call[c].body)
    /\ event' = IF call[c].key THEN [event EXCEPT ![p] = "succeeded"] ELSE event
    /\ Rewrite(c, "checkpoint")
    /\ UNCHANGED <<remoteVars, pull, thread, lock, stuck, opsBegun, mishaps>>
EndSync(c) ==
    /\ At(c, "sync", "checkpoint")
    /\ EndOp(c) /\ Release(c)
    /\ UNCHANGED <<remoteVars, rowVars, stuck, opsBegun, mishaps>>

-----------------------------------------------------------------------------
\* Foreground collection syncs hold the lock from the listing on.
BeginBulk(c) ==
    /\ BeginOp(c)
    /\ IF lock # NoCaller THEN EndOp(c) /\ UNCHANGED lock
       ELSE /\ lock' = c
            /\ call' = [call EXCEPT ![c] = [Idle EXCEPT !.op = "bulk", !.at = "next",
                          !.left = {p \in Pages : wiki[p] # 0}, !.batch = [p \in Pages |-> PageRow(wiki[p], 0)]]]
    /\ UNCHANGED <<remoteVars, rowVars, stuck, mishaps>>

\* A page of the listing whose revision is the cached one is skipped; any other
\* is fetched, and its record is a transaction of its own.
Fresh(p, revision) == local[p].status = "fresh" /\ local[p].label = revision
NextPage(c, p) ==
    /\ At(c, "bulk", "next") /\ p \in call[c].left
    /\ call' = [call EXCEPT ![c].left = @ \ {p},
                            ![c].at = IF Fresh(p, call[c].batch[p].label) THEN "next" ELSE "meta",
                            ![c].page = IF Fresh(p, call[c].batch[p].label) THEN {} ELSE {p}]
    /\ UNCHANGED <<remoteVars, rowVars, lock, stuck, opsBegun, mishaps>>
StageBulk(c, p) ==
    /\ At(c, "bulk", "stage") /\ call[c].page = {p}
    /\ Upsert(p, call[c].meta, call[c].body)
    /\ call' = [call EXCEPT ![c].at = "next", ![c].page = {}, ![c].meta = 0, ![c].body = 0]
    /\ UNCHANGED <<remoteVars, pull, thread, event, lock, stuck, opsBegun, mishaps>>
PageFails(c, p) ==
    /\ call[c].op = "bulk" /\ call[c].at \in {"meta", "body"} /\ call[c].page = {p}
    /\ IF wiki[p] = 0 /\ call[c].at = "meta" THEN UNCHANGED mishaps ELSE Mishap
    /\ call' = [call EXCEPT ![c].at = "next", ![c].page = {}]
    /\ UNCHANGED <<remoteVars, rowVars, lock, stuck, opsBegun>>
EndBulk(c) ==
    /\ At(c, "bulk", "next") /\ call[c].left = {}
    /\ EndOp(c) /\ Release(c)
    /\ UNCHANGED <<remoteVars, rowVars, stuck, opsBegun, mishaps>>

\* A daemon's batch is fetched without the lock and committed whole under it.
BeginBatch(c) ==
    /\ BeginOp(c)
    /\ call' = [call EXCEPT ![c] = [Idle EXCEPT !.op = "batch", !.at = "fetch", !.left = {p \in Pages : wiki[p] # 0}]]
    /\ UNCHANGED <<remoteVars, rowVars, lock, stuck, mishaps>>
FetchNext(c, p) ==
    /\ At(c, "batch", "fetch") /\ p \in call[c].left
    /\ call' = [call EXCEPT ![c].left = @ \ {p}, ![c].at = "meta", ![c].page = {p}]
    /\ UNCHANGED <<remoteVars, rowVars, lock, stuck, opsBegun, mishaps>>
CommitBatch(c) ==
    /\ At(c, "batch", "fetch") /\ call[c].left = {} /\ lock = NoCaller
    /\ local' = [p \in Pages |-> IF call[c].batch[p] # NoPage THEN call[c].batch[p] ELSE local[p]]
    /\ EndOp(c)
    /\ UNCHANGED <<remoteVars, pull, thread, event, lock, stuck, opsBegun, mishaps>>

-----------------------------------------------------------------------------
\* The pulls collection brings the pull request.
SyncPull(c) ==
    /\ call[c] = Idle /\ lock = NoCaller /\ ~pull /\ opsBegun < MaxOps
    /\ pull' = TRUE /\ opsBegun' = opsBegun + 1
    /\ UNCHANGED <<remoteVars, local, thread, event, lock, call, stuck, mishaps>>

\* Comments are synced for a pull request found in the cache: under the lock (all
\* comments), before the lock is waited for (comments), or before they are
\* fetched (comment batch).
BeginComments(c, o) ==
    /\ BeginOp(c)
    /\ pull /\ (o = "all comments" => lock = NoCaller)
    /\ lock' = IF o = "all comments" THEN c ELSE lock
    /\ call' = [call EXCEPT ![c] = [Idle EXCEPT !.op = o, !.at = IF o = "comments" THEN "asked" ELSE "list"]]
    /\ UNCHANGED <<remoteVars, rowVars, stuck, mishaps>>
LockComments(c) ==
    /\ At(c, "comments", "asked")
    /\ \/ lock = NoCaller /\ lock' = c /\ Rewrite(c, "list")
       \/ lock # NoCaller /\ EndOp(c) /\ UNCHANGED lock
    /\ UNCHANGED <<remoteVars, rowVars, stuck, opsBegun, mishaps>>
ListComments(c) ==
    /\ call[c].at = "list"
    /\ call' = [call EXCEPT ![c].at = "stage", ![c].body = talk]
    /\ UNCHANGED <<remoteVars, rowVars, lock, stuck, opsBegun, mishaps>>

\* A comment links to its pull request; the link's foreign key, and for a batch
\* the second look at the parent, refuse one that is gone.
ParentStands == pull
StageComments(c) ==
    /\ call[c].op \in {"comments", "all comments"} /\ call[c].at = "stage"
    /\ thread' = IF ParentStands THEN call[c].body ELSE thread
    /\ EndOp(c) /\ Release(c)
    /\ UNCHANGED <<remoteVars, local, pull, event, stuck, opsBegun, mishaps>>
CommitThread(c) ==
    /\ At(c, "comment batch", "stage") /\ lock = NoCaller
    /\ thread' = IF ParentStands THEN call[c].body ELSE thread
    /\ EndOp(c)
    /\ UNCHANGED <<remoteVars, local, pull, event, lock, stuck, opsBegun, mishaps>>

-----------------------------------------------------------------------------
\* A reset removes every record of the provider and, by its foreign keys, what
\* hangs on one.
DropLive(c) ==
    /\ call[c] = Idle /\ lock = NoCaller /\ opsBegun < MaxOps /\ opsBegun' = opsBegun + 1
    /\ local' = [p \in Pages |-> NoPage] /\ pull' = FALSE /\ thread' = 0
    /\ event' = [p \in Pages |-> IF Stored(p) THEN "none" ELSE event[p]]
    /\ UNCHANGED <<remoteVars, lock, call, stuck, mishaps>>

\* A provider or a database failure in the middle, or after the commit, at the
\* checkpoint; the event of the failure may be lost too.
Break(c) ==
    /\ call[c].op = "sync" /\ call[c].at \in {"meta", "body", "stage", "checkpoint"} /\ Mishap
    /\ \E p \in call[c].page, u \in BOOLEAN : Fails(c, p, u)
    /\ UNCHANGED <<remoteVars, local, pull, thread, opsBegun>>

\* A process dies; the operating system frees its lock.  What a daemon fetched
\* is on disk and survives.
Die(c) ==
    /\ call[c].op \in {"sync", "bulk", "comments", "all comments"} /\ Mishap
    /\ call' = [call EXCEPT ![c] = Idle] /\ Release(c)
    /\ stuck' = stuck \union {p \in call[c].page : call[c].key /\ lock = c /\ event[p] = "in_progress"}
    /\ UNCHANGED <<remoteVars, rowVars, opsBegun>>

SyncStep(c) ==
    \/ LockSync(c) \/ RetryRead(c) \/ EndSync(c) \/ Break(c)
    \/ \E p \in Pages : ReadMeta(c, p) \/ ReadBody(c, p) \/ MarkMissing(c, p) \/ StageSync(c, p)
BulkStep(c) ==
    \/ BeginBulk(c) \/ EndBulk(c) \/ BeginBatch(c) \/ CommitBatch(c) \/ DropLive(c)
    \/ \E p \in Pages : NextPage(c, p) \/ StageBulk(c, p) \/ PageFails(c, p) \/ FetchNext(c, p)
CommentStep(c) ==
    \/ SyncPull(c) \/ LockComments(c) \/ ListComments(c) \/ StageComments(c) \/ CommitThread(c)
    \/ \E o \in {"comments", "all comments", "comment batch"} : BeginComments(c, o)

RecordNext ==
    \/ Comment \/ \E p \in Pages : Edit(p)
    \/ \E c \in Callers :
         \/ Die(c) \/ SyncStep(c) \/ BulkStep(c) \/ CommentStep(c)
         \/ \E p \in Pages, k \in BOOLEAN : BeginSync(c, p, k)

RecordSpec == RecordInit /\ [][RecordNext]_recordVars

-----------------------------------------------------------------------------
PageRows == [label : Versions, body : Versions, status : {"absent", "fresh", "not_found"}]
RecordTypeOK ==
    /\ wiki \in [Pages -> Versions] /\ talk \in Versions /\ latest \in Versions
    /\ local \in [Pages -> PageRows]
    /\ pull \in BOOLEAN /\ thread \in Versions
    /\ event \in [Pages -> {"none", "in_progress", "succeeded", "failed"}]
    /\ lock \in Callers \union {NoCaller} /\ stuck \subseteq Pages
    /\ \A c \in Callers : call[c].op \in Ops /\ call[c].page \subseteq Pages /\ call[c].batch \in [Pages -> PageRows]
    /\ opsBegun \in 0..MaxOps /\ mishaps \in 0..MaxMishaps

\* A page the listing may skip is the provider's page: a fresh row under the
\* provider's revision has its body, though revision and body are read apart and
\* a batch may be older than the row it replaces.
SkipsAreRight ==
    \A p \in Pages : Stored(p) /\ Fresh(p, wiki[p]) => local[p].body = wiki[p]

\* What a key or a comment speaks of is in the cache, and a key marked in
\* progress has a sync at work, unless its owner died or could not record its end.
KeysAreTrue ==
    /\ \A p \in Pages : event[p] = "succeeded" => Stored(p)
    /\ \A p \in Pages : event[p] = "in_progress" =>
         p \in stuck \/ \E c \in Callers : lock = c /\ call[c].key /\ call[c].started /\ p \in call[c].page
    /\ thread # 0 => pull

\* What the cache holds and remembers of single records.
CacheSpeaksTrue == SkipsAreRight /\ KeysAreTrue

\* Only a batch, fetched before the lock was its own, may put an older revision
\* back; a page's content is never dropped but by a reset.
RowAdvances ==
    /\ Reverts \/ \A p \in Pages : local'[p].label < local[p].label =>
         local'[p].status # "fresh" \/ \E c \in Callers : At(c, "batch", "fetch") /\ call'[c] = Idle
    /\ \A p \in Pages : Stored(p) /\ local'[p].body = 0 => ~pull' /\ (\A q \in Pages : local'[q] = NoPage)
RowsAdvance == [][RowAdvances]_recordVars
=============================================================================
