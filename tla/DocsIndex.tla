------------------------------ MODULE DocsIndex ------------------------------
(* Indexing of repository documentation: internal/repositorydocs (Indexer,  *)
(* Retriever, FileVectorCheckpointStore), the tables of                     *)
(* internal/cache/repository_docs.go, and their two callers, the daemon     *)
(* (servicectl/repository_docs_jobs.go: one worker at a time, registered    *)
(* sources, overlays) and local projects (service/local_project_search.go:  *)
(* any number of processes, committed trees).                               *)
(*                                                                          *)
(* A document is one chunk, named by its content; the identity of a         *)
(* revision set is what it is made from.  Every withWriter block is one     *)
(* step: the writer lease excludes the other processes, and only a crash    *)
(* cuts it short.                                                           *)
EXTENDS Naturals, FiniteSets, Sequences, SequencesExt

CONSTANTS
    Runners,          \* processes (or the daemon's workers) that index
    DocPaths,         \* 1..n, in the order of the tree walk
    Edited,           \* the paths somebody edits, walked last
    Texts,            \* contents of regular documents
    OtherDoc, NoDoc,  \* a pointer or binary file; no document at the path
    BatchSize,        \* chunks per provider call
    Budgets,          \* max_chunks of a request; 0 is no limit
    RetainCommitted,  \* RetainCommittedPerIdentity
    MaxVectors,       \* the vector byte ceiling, in vectors; 0 is none
    MaxRequests, MaxEdits, MaxFaults, MaxStops  \* bounds of the model

Bodies == Texts \union {OtherDoc, NoDoc}
Trees == [DocPaths -> Bodies]
Models == 0..MaxEdits

\* The committed tree at first: some regular documents.
AllRegular(t) == IsInjective(t) /\ \A p \in DocPaths : t[p] \in Texts
FirstTree == CHOOSE t \in Trees : AllRegular(t)

ASSUME DocsIndexAssumption ==
    /\ IsFiniteSet(DocPaths) /\ DocPaths = 1..Cardinality(DocPaths)
    /\ Edited \subseteq DocPaths /\ \A p \in DocPaths \ Edited, q \in Edited : p < q
    /\ OtherDoc \notin Texts /\ NoDoc \notin Texts /\ BatchSize \in Nat \ {0}
    /\ \E t \in Trees : AllRegular(t)

VARIABLES
    docsMode,    \* "daemon" or "local"
    head, work,  \* the committed tree and the tracked worktree
    embedder,    \* the model the provider serves now
    docSets,     \* repo_doc_revision_sets: state and counters by identity
    docOrder,    \* their identities by updated_at, newest first
    docMembers,  \* repo_doc_membership
    docOmitted,  \* repo_doc_exclusions
    docVectors,  \* repo_doc_vectors, with the model that made each
    handoffs,    \* the files of the checkpoint store
    handed,      \* ghost: <<set, text>> handed over, not yet in the cache and still wanted
    runner,
    searcher,
    docsSpent    \* what the bounds count

tableVars == <<docSets, docOrder, docMembers, docOmitted, docVectors>>
sourceVars == <<docsMode, head, work, embedder>>
docsVars == <<sourceVars, tableVars, handoffs, handed, runner, searcher, docsSpent>>

\* NewRevisionSetIdentity: commit, overlay and embedding namespace.
Identities == [commit : Trees, tree : Trees, overlay : BOOLEAN, ns : Models]
SetOf(overlay, ns) == [commit |-> head, tree |-> IF overlay THEN work ELSE head,
                       overlay |-> overlay, ns |-> ns]
Changed(id, p) == id.commit[p] # id.tree[p]
Documents(id) == {<<p, id.tree[p]>> : p \in {q \in DocPaths : id.tree[q] \in Texts}}

Undelivered(key) == {h \in handed : <<h[1].ns, h[2]>> # key}
Members(id) == {m \in docMembers : m[1] = id}
Omitted(id) == {m \in docOmitted : m[1] = id}
Lists(id, body) == \E m \in Members(id) : m[3] = body
HasVector(ns, body) == \E v \in docVectors : v[1] = ns /\ v[2] = body

NoCounts == [eligible |-> 0, embedded |-> 0, reused |-> 0, failed |-> 0, omitted |-> 0, missing |-> 0]
IdleRunner == [pc |-> "idle", id |-> SetOf(FALSE, 0), budget |-> 0, at |-> 1, batch |-> {}, answers |-> {},
               saved |-> FALSE, tried |-> 0, n |-> NoCounts, cancelled |-> FALSE]
IdleSearch == [pc |-> "idle", id |-> SetOf(FALSE, 0), hits |-> {}]

DocsInit ==
    /\ docsMode \in {"daemon", "local"}
    /\ head = FirstTree /\ work = FirstTree /\ embedder = 0
    /\ docSets = <<>> /\ docOrder = <<>>
    /\ docMembers = {} /\ docOmitted = {} /\ docVectors = {}
    /\ handoffs = {} /\ handed = {}
    /\ runner = [i \in Runners |-> IdleRunner]
    /\ searcher = IdleSearch
    /\ docsSpent = [requests |-> 0, edits |-> 0, faults |-> 0, stops |-> 0]

Spend(k, bound) == docsSpent[k] < bound /\ docsSpent' = [docsSpent EXCEPT ![k] = @ + 1]
Fault == Spend("faults", MaxFaults)
NoFault == UNCHANGED docsSpent

TheWorker == CHOOSE i \in Runners : TRUE
At(i, pc) == runner[i].pc = pc
LeaveRun(i) == runner' = [runner EXCEPT ![i] = IdleRunner]

-----------------------------------------------------------------------------
(* The repository and the provider.                                        *)

EditWorktree ==
    /\ Spend("edits", MaxEdits)
    /\ \E p \in Edited, b \in Bodies : b # work[p] /\ work' = [work EXCEPT ![p] = b]
    /\ UNCHANGED <<docsMode, head, embedder, tableVars, handoffs, handed, runner, searcher>>

CommitWorktree ==
    /\ head # work /\ head' = work
    /\ UNCHANGED <<docsMode, work, embedder, tableVars, handoffs, handed, runner, searcher, docsSpent>>

UpgradeModel ==
    /\ Spend("edits", MaxEdits)
    /\ embedder' = embedder + 1
    /\ UNCHANGED <<docsMode, head, work, tableVars, handoffs, handed, runner, searcher>>

-----------------------------------------------------------------------------
(* The tables.                                                             *)

Published(id) == id \in DOMAIN docSets /\ docSets[id].state = "ready"
Resumable(id) == id \in DOMAIN docSets /\ docSets[id].state \in {"building", "partial", "blocked"}
Building(id) == id \in DOMAIN docSets /\ docSets[id].state = "building"

\* upsertRepositoryDocRevisionSet: a ready row is never written again.
PutSet(id, state, n) ==
    /\ docSets' = [s \in DOMAIN docSets \union {id} |->
                      IF s = id THEN [state |-> state, n |-> n] ELSE docSets[s]]
    /\ docOrder' = <<id>> \o SelectSeq(docOrder, LAMBDA s : s # id)

\* validateStagedRepositoryDocPublication.
Publishable(id, state, n) ==
    /\ id \in DOMAIN docSets
    /\ Cardinality(Members(id)) = n.eligible
    /\ Cardinality(Omitted(id)) = n.omitted
    /\ n.embedded + n.reused <= n.eligible
    /\ state = "ready" =>
          /\ n.failed = 0 /\ n.missing = 0 /\ n.embedded + n.reused = n.eligible
          /\ \A m \in Members(id) : HasVector(id.ns, m[3])

\* What is left of the tables without some sets: their rows cascade, then the
\* vectors and chunks of no membership go.
MembersWithout(gone) == {m \in docMembers : m[1] \notin gone}
VectorsWithout(gone) == {v \in docVectors : \E m \in MembersWithout(gone) : m[3] = v[2]}

\* PruneRepositoryDocRevisionSets: the newest ready committed set of every
\* namespace and the one just indexed are kept; age is a suffix of the order,
\* and the three cutoffs are 30 days (committed), 24 hours (overlay) and
\* 7 days (not ready).  No run lasts 7 days.
Aged(id, older) == \E k \in 1..Len(docOrder) : docOrder[k] = id /\ k > older
Newer(id) == {docOrder[j] : j \in {k \in 1..Len(docOrder) : \E l \in k..Len(docOrder) : docOrder[l] = id}}
LatestReady == {s \in DOMAIN docSets :
                   /\ Published(s) /\ ~s.overlay
                   /\ \A t \in Newer(s) \ {s} : ~(Published(t) /\ ~t.overlay /\ t.ns = s.ns)}
Expired(id, terminal) ==
    /\ docSets[id].state # "ready" /\ Aged(id, terminal)
    /\ \A i \in Runners : runner[i].pc # "idle" => runner[i].id # id
Counted(id, terminal) ==
    {s \in Newer(id) : s.ns = id.ns /\ s.overlay = id.overlay
                       /\ (docSets[s].state # "building" \/ Expired(s, terminal))}
Outdated(keep, committed, overlays, terminal) ==
    {s \in DOMAIN docSets \ keep :
       /\ docSets[s].state # "building" \/ Expired(s, terminal)
       /\ \/ Expired(s, terminal)
          \/ Aged(s, IF s.overlay THEN overlays ELSE committed)
          \/ ~s.overlay /\ Cardinality(Counted(s, terminal)) > RetainCommitted}
\* Under byte pressure sets are evicted from the oldest on, as far as needed.
Evictable(keep, gone) ==
    SelectSeq(Reverse(docOrder), LAMBDA s : s \notin keep \union gone /\ docSets[s].state # "building")
Evicted(keep, gone) ==
    LET order == Evictable(keep, gone)
        First(k) == {order[j] : j \in 1..k}
        Fits(k) == Cardinality(VectorsWithout(gone \union First(k))) <= MaxVectors
    IN  IF MaxVectors = 0 THEN {}
        ELSE IF \E k \in 0..Len(order) : Fits(k)
             THEN First(CHOOSE k \in 0..Len(order) : Fits(k) /\ \A l \in 0..(k - 1) : ~Fits(l))
             ELSE First(Len(order))

DropSets(gone) ==
    /\ docSets' = [s \in DOMAIN docSets \ gone |-> docSets[s]]
    /\ docOrder' = SelectSeq(docOrder, LAMBDA s : s \notin gone)
    /\ docMembers' = MembersWithout(gone)
    /\ docOmitted' = {m \in docOmitted : m[1] \notin gone}
    /\ docVectors' = VectorsWithout(gone)

-----------------------------------------------------------------------------
(* One run of the indexer.                                                 *)

\* StartRepositoryDocsIndex and LocalProjects.Index: what is to be indexed is
\* settled now; the daemon admits one writer.
RequestIndex(i) ==
    /\ At(i, "idle")
    /\ Spend("requests", MaxRequests)
    /\ docsMode = "daemon" => i = TheWorker
    /\ \E overlay \in BOOLEAN, budget \in Budgets :
          /\ overlay => docsMode = "daemon"
          /\ runner' = [runner EXCEPT ![i] =
                [IdleRunner EXCEPT !.pc = "prepare", !.id = SetOf(overlay, embedder), !.budget = budget]]
    /\ UNCHANGED <<sourceVars, tableVars, handoffs, handed, searcher>>

\* Mutant: only the sets still building count as resumable.
PendingBuilding ==
    {<<m[1].ns, m[3]>> : m \in {x \in docMembers :
        docSets[x[1]].state = "building" /\ ~HasVector(x[1].ns, x[3])}}

\* ListRepositoryDocPendingVectorIdentities: what a set that can be resumed
\* has as members without vectors.
PendingVectors ==
    {<<m[1].ns, m[3]>> : m \in {x \in docMembers :
        Resumable(x[1]) /\ ~HasVector(x[1].ns, x[3])}}

\* The daemon prunes orphaned checkpoints and refuses a snapshot that moved;
\* a local project is pinned to its commit.  A set that is ready is final.
PrepareIndex(i) ==
    /\ At(i, "prepare")
    /\ handoffs' = IF docsMode = "daemon" THEN handoffs \intersect PendingVectors ELSE handoffs
    /\ LET id == [runner[i].id EXCEPT !.ns = embedder]
           stale == docsMode = "daemon" /\ id # SetOf(id.overlay, runner[i].id.ns)
           next == IF Published(id) THEN "retain" ELSE "build"
       IN runner' = [runner EXCEPT ![i] =
              IF stale \/ runner[i].cancelled THEN IdleRunner ELSE [@ EXCEPT !.id = id, !.pc = next]]
    /\ handed' = IF docsMode = "daemon" THEN {h \in handed : Resumable(h[1]) /\ Lists(h[1], h[2])} ELSE handed
    /\ UNCHANGED <<sourceVars, tableVars, searcher, docsSpent>>

\* repository-docs-set-building: the row, then no members, then no exclusions;
\* whoever finds it published takes its result.
BuildSet(i) ==
    LET id == runner[i].id IN
    /\ At(i, "build")
    /\ ~runner[i].cancelled
    /\ IF Published(id)
       THEN /\ runner' = [runner EXCEPT ![i].pc = "retain"]
            /\ UNCHANGED tableVars
       ELSE /\ PutSet(id, "building", NoCounts)
            /\ docMembers' = docMembers \ Members(id)
            /\ docOmitted' = docOmitted \ Omitted(id)
            /\ runner' = [runner EXCEPT ![i].pc = "walk"]
            /\ UNCHANGED docVectors
    /\ UNCHANGED <<sourceVars, handoffs, handed, searcher, docsSpent>>

\* The process dies between the statements of that block.
BuildDies(i) ==
    LET id == runner[i].id IN
    /\ At(i, "build") /\ ~Published(id)
    /\ Spend("stops", MaxStops)
    /\ PutSet(id, "building", NoCounts)
    /\ docMembers' \in {docMembers, docMembers \ Members(id)}
    /\ LeaveRun(i)
    /\ UNCHANGED <<sourceVars, docOmitted, docVectors, handoffs, handed, searcher>>

\* superseded and fail write the row unless it is ready; partial publishes
\* what is staged, if the counters agree with it.  An error ends the run.
EndsAs(i, state, next) ==
    LET id == runner[i].id
        wrote == CASE state = "partial" -> ~Published(id) /\ Publishable(id, state, runner[i].n)
                   [] OTHER -> ~Published(id)
    IN  /\ IF wrote THEN PutSet(id, state, runner[i].n) ELSE UNCHANGED <<docSets, docOrder>>
        /\ runner' = [runner EXCEPT ![i] = IF wrote /\ next # "idle" THEN [@ EXCEPT !.pc = next] ELSE IdleRunner]
        /\ UNCHANGED <<docMembers, docOmitted, docVectors>>

\* A cancelled request shows at the next read of the tree (partial) or at the
\* next write of the overlay (blocked).
Interrupted(i) ==
    IF runner[i].at \in DocPaths /\ Changed(runner[i].id, runner[i].at) /\ runner[i].pc # "embed"
    THEN "blocked" ELSE "partial"

StopIndex(i) ==
    /\ runner[i].cancelled
    /\ runner[i].pc \in {"walk", "look", "embed"}
    /\ EndsAs(i, Interrupted(i), "idle")
    /\ UNCHANGED <<sourceVars, handoffs, handed, searcher, docsSpent>>

\* A withWriter block of a cancelled request returns its error at once.
AbandonIndex(i) ==
    /\ runner[i].cancelled
    /\ runner[i].pc \in {"build", "publish", "retain"}
    /\ LeaveRun(i)
    /\ UNCHANGED <<sourceVars, tableVars, handoffs, handed, searcher, docsSpent>>

Step(i, r) == runner' = [runner EXCEPT ![i] = r]
Past(r) == [r EXCEPT !.at = @ + 1, !.pc = IF Cardinality(r.batch) >= BatchSize THEN "embed" ELSE "walk"]

\* recordExclusion, and the count of the document it leaves out.
Omit(i, lost) ==
    LET r == runner[i] IN
    /\ IF Building(r.id)
       THEN /\ docOmitted' = docOmitted \union {<<r.id, r.at>>}
            /\ Step(i, Past([r EXCEPT !.n.omitted = @ + 1, !.n.missing = @ + lost]))
            /\ UNCHANGED <<docSets, docOrder, docMembers, docVectors>>
       ELSE EndsAs(i, "blocked", "idle")

\* One document of the walk: excluded, not in the object store (git only),
\* changed since the overlay was read, or a member of the set.
WalkDocument(i) ==
    LET r == runner[i]
        body == r.id.tree[r.at]
    IN
    /\ At(i, "walk") /\ r.at \in DocPaths /\ ~r.cancelled
    /\ \/ /\ body = NoDoc
          /\ Step(i, [r EXCEPT !.at = @ + 1])
          /\ UNCHANGED <<tableVars, docsSpent>>
       \/ /\ body # NoDoc /\ Changed(r.id, r.at) /\ work[r.at] # body
          /\ EndsAs(i, "superseded", "retain")
          /\ NoFault
       \/ /\ body = OtherDoc /\ (Changed(r.id, r.at) => work[r.at] = body)
          /\ Omit(i, 0)
          /\ NoFault
       \/ /\ body \in Texts /\ ~Changed(r.id, r.at)
          /\ Fault
          /\ Omit(i, 1)
       \/ /\ body \in Texts /\ (Changed(r.id, r.at) => work[r.at] = body)
          /\ NoFault
          /\ IF Building(r.id)
             THEN /\ docMembers' = docMembers \union {<<r.id, r.at, body>>}
                  /\ Step(i, [r EXCEPT !.pc = "look", !.n.eligible = @ + 1])
                  /\ UNCHANGED <<docSets, docOrder, docOmitted, docVectors>>
             ELSE EndsAs(i, "blocked", "idle")
    /\ UNCHANGED <<sourceVars, handoffs, handed, searcher>>

\* Its vector: in the cache, in the checkpoint store, over the budget of the
\* request, or to be asked for.
LookUp(i) ==
    LET r == runner[i]
        key == <<r.id.ns, r.id.tree[r.at]>>
    IN
    /\ At(i, "look") /\ ~r.cancelled
    /\ \/ /\ HasVector(key[1], key[2])
          /\ Step(i, Past([r EXCEPT !.n.reused = @ + 1]))
          /\ handoffs' = handoffs \ {key} /\ handed' = Undelivered(key)
          /\ UNCHANGED <<tableVars, docsSpent>>
       \/ /\ ~HasVector(key[1], key[2]) /\ key \in handoffs
          /\ docVectors' = docVectors \union {<<key[1], key[2], key[1]>>}
          /\ handoffs' = handoffs \ {key} /\ handed' = Undelivered(key)
          /\ Step(i, Past([r EXCEPT !.n.embedded = @ + 1]))
          /\ UNCHANGED <<docSets, docOrder, docMembers, docOmitted, docsSpent>>
       \/ /\ ~HasVector(key[1], key[2]) /\ key \in handoffs
          /\ Fault
          /\ EndsAs(i, "blocked", "idle")
          /\ UNCHANGED <<handoffs, handed>>
       \/ /\ ~HasVector(key[1], key[2]) /\ key \notin handoffs
          /\ Step(i, IF r.budget > 0 /\ r.tried >= r.budget
                     THEN [r EXCEPT !.n.failed = @ + 1, !.at = @ + 1, !.pc = "walk"]
                     ELSE Past([r EXCEPT !.tried = @ + 1, !.batch = @ \union {r.at}]))
          /\ UNCHANGED <<tableVars, handoffs, handed, docsSpent>>
    /\ UNCHANGED <<sourceVars, searcher>>

WalkEnds(i) ==
    /\ At(i, "walk") /\ runner[i].at \notin DocPaths
    /\ ~runner[i].cancelled \/ runner[i].batch = {}
    /\ Step(i, [runner[i] EXCEPT !.pc = IF runner[i].batch = {} THEN "publish" ELSE "embed"])
    /\ UNCHANGED <<sourceVars, tableVars, handoffs, handed, searcher, docsSpent>>

\* The model named by the answer is the one of the namespace.
ModelMatches(i) == embedder = runner[i].id.ns

\* flushPending: one call for the batch; when it fails, one for every chunk,
\* and some of them fail for good.  An answer of another model ends the run.
AskProvider(i) ==
    LET r == runner[i] IN
    /\ At(i, "embed") /\ ~r.cancelled
    /\ \/ /\ ~ModelMatches(i)
          /\ EndsAs(i, "partial", "idle")
          /\ NoFault
       \/ /\ ModelMatches(i)
          /\ \E answered \in SUBSET r.batch :
                /\ IF answered = r.batch THEN NoFault ELSE Fault
                /\ Step(i, [r EXCEPT !.batch = {}, !.answers = {<<p, embedder>> : p \in answered},
                                     !.n.failed = @ + Cardinality(r.batch \ answered),
                                     !.pc = IF answered = {} THEN "walk" ELSE "keep"])
          /\ UNCHANGED tableVars
    /\ UNCHANGED <<sourceVars, handoffs, handed, searcher>>

\* persistProviderVector: first the checkpoint, cancelled or not,
NextAnswer(r) == CHOOSE a \in r.answers : \A b \in r.answers : a[1] <= b[1]
KeyOf(r) == <<r.id.ns, r.id.tree[NextAnswer(r)[1]]>>
KeepAnswer(i) ==
    LET r == runner[i] IN
    /\ At(i, "keep")
    /\ \/ /\ handoffs' = handoffs \union {KeyOf(r)}
          /\ handed' = IF HasVector(KeyOf(r)[1], KeyOf(r)[2]) THEN handed
                       ELSE handed \union {<<r.id, KeyOf(r)[2]>>}
          /\ Step(i, [r EXCEPT !.pc = "store", !.saved = TRUE])
          /\ NoFault
       \/ /\ Fault
          /\ Step(i, [r EXCEPT !.pc = "store", !.saved = FALSE])
          /\ UNCHANGED <<handoffs, handed>>
    /\ UNCHANGED <<sourceVars, tableVars, searcher>>

\* then the vector; the checkpoint goes once the vector is there, and stays
\* when the writer is busy, the request cancelled, or the cache has a
\* different vector.  (The error of Delete is ignored.)
Answered(r, ok) ==
    LET rest == r.answers \ {NextAnswer(r)} IN
    [r EXCEPT !.answers = rest, !.pc = IF rest = {} THEN "walk" ELSE "keep", !.saved = FALSE,
              !.n.embedded = @ + (IF ok THEN 1 ELSE 0), !.n.failed = @ + (IF ok THEN 0 ELSE 1)]
StoreAnswer(i) ==
    LET r == runner[i]
        vector == <<KeyOf(r)[1], KeyOf(r)[2], NextAnswer(r)[2]>>
    IN
    /\ At(i, "store")
    /\ \/ /\ ~r.cancelled
          /\ docVectors' = IF HasVector(vector[1], vector[2]) THEN docVectors ELSE docVectors \union {vector}
          /\ IF r.saved
             THEN handoffs' \in {handoffs \ {KeyOf(r)}, handoffs}
             ELSE UNCHANGED handoffs
          /\ handed' = Undelivered(KeyOf(r))
          /\ Step(i, Answered(r, TRUE))
          /\ NoFault
       \/ /\ IF r.cancelled THEN NoFault ELSE Fault
          /\ Step(i, Answered(r, FALSE))
          /\ UNCHANGED <<docVectors, handoffs, handed>>
    /\ UNCHANGED <<sourceVars, docSets, docOrder, docMembers, docOmitted, searcher>>

\* The overlay must still be what it was; then the set is ready if every
\* chunk has its vector, else partial.  Whoever finds it published takes that
\* result; any other refusal is an error.
PublishSet(i) ==
    LET r == runner[i]
        moved == r.id.overlay /\ r.id # SetOf(TRUE, r.id.ns)
        complete == r.n.failed = 0 /\ r.n.missing = 0 /\ r.n.embedded + r.n.reused = r.n.eligible
        state == IF complete THEN "ready" ELSE "partial"
    IN
    /\ At(i, "publish") /\ ~r.cancelled
    /\ \/ /\ moved
          /\ EndsAs(i, "superseded", "retain")
       \/ /\ ~moved /\ ~Published(r.id) /\ Publishable(r.id, state, r.n)
          /\ PutSet(r.id, state, r.n)
          /\ Step(i, [r EXCEPT !.pc = "retain"])
          /\ UNCHANGED <<docMembers, docOmitted, docVectors>>
       \/ /\ ~moved /\ (Published(r.id) \/ ~Publishable(r.id, state, r.n))
          /\ runner' = [runner EXCEPT ![i] = IF Published(r.id) THEN [@ EXCEPT !.pc = "retain"] ELSE IdleRunner]
          /\ UNCHANGED tableVars
    /\ UNCHANGED <<sourceVars, handoffs, handed, searcher, docsSpent>>

\* Retention after a run that ended without an error; a busy writer defers it.
RetainSets(i) ==
    /\ At(i, "retain") /\ ~runner[i].cancelled
    /\ \/ /\ Fault
          /\ UNCHANGED <<tableVars, handed>>
       \/ \E committed, overlays, terminal \in 0..Len(docOrder) :
             /\ overlays <= terminal /\ terminal <= committed
             /\ LET keep == {runner[i].id} \union LatestReady
                    old == Outdated(keep, committed, overlays, terminal)
                    gone == old \union Evicted(keep, old)
                IN /\ DropSets(gone)
                   /\ handed' = {h \in handed : h[1] \notin gone}
             /\ NoFault
    /\ LeaveRun(i)
    /\ UNCHANGED <<sourceVars, handoffs, searcher>>

CancelIndex(i) ==
    /\ ~At(i, "idle") /\ ~runner[i].cancelled
    /\ Spend("stops", MaxStops)
    /\ runner' = [runner EXCEPT ![i].cancelled = TRUE]
    /\ UNCHANGED <<sourceVars, tableVars, handoffs, handed, searcher>>

IndexerDies(i) ==
    /\ ~At(i, "idle")
    /\ Spend("stops", MaxStops)
    /\ LeaveRun(i)
    /\ UNCHANGED <<sourceVars, tableVars, handoffs, handed, searcher>>

-----------------------------------------------------------------------------
(* Retriever.Search in hybrid mode.                                        *)

\* The set of exactly this snapshot is used if it is ready; otherwise the
\* answer is lexical and no step is taken.
SeekSet ==
    /\ searcher.pc = "idle"
    /\ \E overlay \in BOOLEAN :
          /\ overlay => docsMode = "daemon"
          /\ Published(SetOf(overlay, embedder))
          /\ searcher' = [pc |-> "query", id |-> SetOf(overlay, embedder), hits |-> {}]
    /\ UNCHANGED <<sourceVars, tableVars, handoffs, handed, runner, docsSpent>>

\* An overlay that moved since the search began makes it an error.
AnswerSearch ==
    /\ searcher.pc = "found"
    /\ searcher' = IdleSearch
    /\ UNCHANGED <<sourceVars, tableVars, handoffs, handed, runner, docsSpent>>

\* semantic: the query is embedded, then LoadRepositoryDocSearchSnapshot; a
\* set evicted since, or another model, means a lexical answer.
LoadSet ==
    /\ searcher.pc = "query"
    /\ searcher' = IF embedder = searcher.id.ns /\ Published(searcher.id)
                   THEN [searcher EXCEPT !.pc = "found", !.hits = Members(searcher.id)]
                   ELSE IdleSearch
    /\ UNCHANGED <<sourceVars, tableVars, handoffs, handed, runner, docsSpent>>

DocsNext ==
    \/ EditWorktree \/ CommitWorktree \/ UpgradeModel
    \/ \E i \in Runners :
          \/ RequestIndex(i) \/ PrepareIndex(i) \/ BuildSet(i) \/ BuildDies(i)
          \/ WalkDocument(i) \/ LookUp(i) \/ WalkEnds(i)
          \/ AskProvider(i) \/ KeepAnswer(i) \/ StoreAnswer(i)
          \/ PublishSet(i) \/ RetainSets(i)
          \/ StopIndex(i) \/ AbandonIndex(i) \/ CancelIndex(i) \/ IndexerDies(i)
    \/ SeekSet \/ LoadSet \/ AnswerSearch

DocsSpec == DocsInit /\ [][DocsNext]_docsVars

-----------------------------------------------------------------------------
DocsTypeOK ==
    /\ docsMode \in {"daemon", "local"} /\ {head, work} \subseteq Trees /\ embedder \in Models
    /\ \A s \in DOMAIN docSets : s \in Identities /\ docSets[s].state \in
          {"building", "partial", "ready", "blocked", "superseded"}
    /\ ToSet(docOrder) = DOMAIN docSets /\ IsInjective(docOrder)
    /\ docMembers \subseteq Identities \X DocPaths \X Texts /\ docOmitted \subseteq Identities \X DocPaths
    /\ docVectors \subseteq Models \X Texts \X Models
    /\ handoffs \subseteq Models \X Texts /\ handed \subseteq Identities \X Texts
    /\ \A i \in Runners : runner[i].pc \in
          {"idle", "prepare", "build", "walk", "look", "embed", "keep", "store", "publish", "retain"}
    /\ searcher.pc \in {"idle", "query", "found"}

\* A published set has a member for every document of the snapshot it is named
\* after and no other, and for each a vector of its own embedding namespace:
\* whatever other runs, resets, crashes and retention do to the shared rows.
ReadyIsExact ==
    \A s \in DOMAIN docSets : Published(s) =>
        /\ {<<m[2], m[3]>> : m \in Members(s)} = Documents(s)
        /\ \A d \in Documents(s) : <<s.ns, d[2], s.ns>> \in docVectors

\* What a set says of its coverage is not more than the cache has.  (Of a
\* partial set this is said where one worker writes: three runs of one commit
\* in three processes can publish counters of members that are gone.)
CoverageIsTrue ==
    \A s \in DOMAIN docSets : docSets[s].state \in {"ready", "partial"} =>
        /\ Cardinality(Members(s)) = docSets[s].n.eligible
        /\ Published(s) \/ docsMode = "daemon" =>
             docSets[s].n.embedded + docSets[s].n.reused
               <= Cardinality({m \in Members(s) : HasVector(s.ns, m[3])})

\* A semantic answer ranks every document of the snapshot that was asked about.
SearchIsExact ==
    searcher.pc = "found" => {<<m[2], m[3]>> : m \in searcher.hits} = Documents(searcher.id)

\* docs/repository-documentation-rag.md: vectors that were fetched and not
\* stored "are checkpointed in a vector-only durable handoff and replayed
\* without another provider call": the file is there until the vector is in
\* the cache, the set is gone, or the daemon prunes while its set has ended or
\* no longer lists the text.
HandoffsAreKept == \A h \in handed : <<h[1].ns, h[2]>> \in handoffs

\* Whoever searches gets exactly what was indexed, and what was paid for is
\* not paid for again (indexer.go, vector_checkpoint.go, repository_docs.go).
IndexIsExact == ReadyIsExact /\ CoverageIsTrue /\ SearchIsExact /\ HandoffsAreKept
=============================================================================
