------------------------------ MODULE LocalGit ------------------------------
(***************************************************************************)
(* The local Git project store (internal/localgit): entities, id counters  *)
(* and idempotency receipts live in the tree of one branch.  A mutation    *)
(* holds a non-blocking file lock, reads a pinned snapshot, looks its key  *)
(* up, builds a commit on the snapshot, publishes it by compare-and-swap   *)
(* on the ref, and reads the ref again to learn what happened.  Git itself *)
(* is run by a subprocess that may be killed before or after it has moved  *)
(* the ref, and people commit to the branch without the lock.              *)
(*                                                                         *)
(* Abstractions: the branch is the sequence of its first-parent commits    *)
(* and a commit is known by its place; a blob is known by its content; the *)
(* states open, closed and active are part of the body.                    *)
(***************************************************************************)
EXTENDS Naturals, FiniteSets, SequencesExt

CONSTANTS Callers,          \* goroutines and processes that use the store
          GitKeys,          \* idempotency keys
          Kinds,            \* a subset of {"issue", "comment", "wiki"}
          Bodies,
          MaxId,            \* maxID of schema.go
          MaxHistory,       \* Limits.History
          MaxCalls,         \* bound: calls made
          MaxOutside,       \* bound: commits made by others
          NoEntity, NoGitReceipt, NoBody, NoGitKey, NoCaller

ASSUME GitAssumption ==
    /\ Kinds \subseteq {"issue", "comment", "wiki"}
    /\ {MaxId, MaxHistory} \subseteq Nat \ {0}
    /\ {MaxCalls, MaxOutside} \subseteq Nat
    /\ NoGitKey \notin GitKeys /\ NoCaller \notin Callers

VARIABLES log,        \* the commits of the branch, oldest first
          gitLock,    \* who holds harness-writer.lock
          call,       \* what each caller is doing
          answers,    \* ghost: results ever given to callers
          bundles,    \* exported bundles: the head promised, the head within
          calls, outside

gitVars == <<log, gitLock, call, answers, bundles, calls, outside>>

GitIds == [kind: Kinds, n: 1..MaxId]
Entity == [state: {"live", "deleted"}, body: Bodies \union {NoBody}, parent: 0..MaxId]
Intent == [op: {"create", "update", "delete"}, kind: Kinds, n: 0..MaxId,
           parent: 0..MaxId, body: Bodies \union {NoBody}]
GitReceipt == [intent: Intent, id: GitIds, blob: Entity]
Commit == [next: [Kinds -> 1..MaxId], ents: [GitIds -> Entity \union {NoEntity}],
           receipts: [GitKeys -> GitReceipt \union {NoGitReceipt}], by: GitKeys \union {NoGitKey}]
ASSUME GitNothings == NoEntity \notin Entity /\ NoGitReceipt \notin GitReceipt

\* What validateMutationInput lets through.
GitIntents ==
    {i \in Intent :
        /\ (i.op = "create") <=> (i.n = 0)
        /\ (i.op = "create" /\ i.kind = "comment") <=> (i.parent # 0)
        /\ (i.op = "delete") <=> (i.body = NoBody)}

GitIdle == [at |-> "idle", key |-> NoGitKey, code |-> "none"]
Tip == log[Len(log)]
NoReceipts == [k \in GitKeys |-> NoGitReceipt]

-----------------------------------------------------------------------------
(* Snapshots and receipts                                                  *)

\* Snapshot, Get: counters are ahead of the ids in use, comments have a parent.
WellFormed(c) ==
    \A i \in GitIds : c.ents[i] # NoEntity =>
        /\ i.n < c.next[i.kind]
        /\ i.kind = "comment" =>
              /\ c.ents[i].parent # 0
              /\ "issue" \in Kinds
              /\ c.ents[[kind |-> "issue", n |-> c.ents[i].parent]] # NoEntity

LiveIn(c, kind, n) ==
    /\ n # 0 /\ kind \in Kinds
    /\ c.ents[[kind |-> kind, n |-> n]] # NoEntity
    /\ c.ents[[kind |-> kind, n |-> n]].state = "live"

\* resultAt: the commit that brought the receipt really is that operation.
Describes(c, parent, k) ==
    LET r == c.receipts[k]  e == c.ents[r.id]
    IN /\ e = r.blob /\ e # NoEntity /\ r.id.kind = r.intent.kind
       /\ (r.intent.op = "delete") <=> (e.state = "deleted")
       /\ IF r.intent.op = "create"
          THEN /\ parent.ents[r.id] = NoEntity /\ r.id.n = parent.next[r.id.kind]
               /\ c.next[r.id.kind] = parent.next[r.id.kind] + 1
               /\ r.id.kind = "comment" => LiveIn(parent, "issue", e.parent)
          ELSE LiveIn(parent, r.id.kind, r.id.n)

\* The commit since which the first-parent history holds the receipt.
Origin(l, k) ==
    CHOOSE o \in 1..Len(l) :
        /\ \A i \in o..Len(l) : l[i].receipts[k] = l[Len(l)].receipts[k]
        /\ o = 1 \/ l[o - 1].receipts[k] = NoGitReceipt

\* receiptResult walks back to the commit before the origin, or gives up.
Found(l, k) ==
    LET o == Origin(l, k)
    IN /\ o > 1 /\ Len(l) - o + 1 < MaxHistory
       /\ Describes(l[o], l[o - 1], k)
Result(l, k) ==
    LET o == Origin(l, k)
    IN [key |-> k, origin |-> o, id |-> l[o].receipts[k].id, entity |-> l[o].receipts[k].blob]

Known(l, k) == l[Len(l)].receipts[k] # NoGitReceipt

-----------------------------------------------------------------------------
(* prepareMutationEntity                                                   *)

GuardsHold(c, at, r) ==
    LET i == r.intent
    IN /\ r.head \in {0, at}
       /\ IF i.op = "create"
          THEN c.next[i.kind] < MaxId /\ (i.kind = "comment" => LiveIn(c, "issue", i.parent))
          ELSE /\ LiveIn(c, i.kind, i.n)
               /\ r.rev \in {NoEntity, c.ents[[kind |-> i.kind, n |-> i.n]]}

Target(c, i) == [kind |-> i.kind, n |-> IF i.op = "create" THEN c.next[i.kind] ELSE i.n]
Edited(c, i) ==
    CASE i.op = "create" -> [state |-> "live", body |-> i.body, parent |-> i.parent]
      [] i.op = "update" -> [c.ents[Target(c, i)] EXCEPT !.body = i.body]
      [] i.op = "delete" -> [c.ents[Target(c, i)] EXCEPT !.state = "deleted", !.body = NoBody]

\* Mutant: creating does not move the counter.
CandidateUncounted(c, k, i) ==
    [next |-> c.next,
     ents |-> [c.ents EXCEPT ![Target(c, i)] = Edited(c, i)],
     receipts |-> [c.receipts EXCEPT ![k] =
                      [intent |-> i, id |-> Target(c, i), blob |-> Edited(c, i)]],
     by |-> k]
\* Mutant: the receipt is not part of the commit.
CandidateUnreceipted(c, k, i) ==
    [next |-> IF i.op = "create" THEN [c.next EXCEPT ![i.kind] = @ + 1] ELSE c.next,
     ents |-> [c.ents EXCEPT ![Target(c, i)] = Edited(c, i)],
     receipts |-> c.receipts, by |-> k]
\* The entity, the counters and the receipt are changed by one commit.
Candidate(c, k, i) ==
    [next |-> IF i.op = "create" THEN [c.next EXCEPT ![i.kind] = @ + 1] ELSE c.next,
     ents |-> [c.ents EXCEPT ![Target(c, i)] = Edited(c, i)],
     receipts |-> [c.receipts EXCEPT ![k] =
                      [intent |-> i, id |-> Target(c, i), blob |-> Edited(c, i)]],
     by |-> k]

-----------------------------------------------------------------------------
(* Calls                                                                   *)

GitInit ==
    /\ log = <<>> /\ gitLock = NoCaller
    /\ call = [p \in Callers |-> GitIdle]
    /\ answers = {} /\ bundles = {} /\ calls = 0 /\ outside = 0

\* Initialize makes a store where there was none; its ref comes last.
Initialize ==
    /\ log = <<>>
    /\ log' = <<[next |-> [k \in Kinds |-> 1], ents |-> [i \in GitIds |-> NoEntity],
                 receipts |-> NoReceipts, by |-> NoGitKey]>>
    /\ UNCHANGED <<gitLock, call, answers, bundles, calls, outside>>

\* A client reads the head or the entity it guards against, then asks.
Ask(p, k, i) ==
    /\ call[p].at = "idle" /\ log # <<>> /\ calls < MaxCalls
    /\ calls' = calls + 1
    /\ \E head \in {0, Len(log)} :
         LET rev == IF i.op = "create" THEN NoEntity
                    ELSE Tip.ents[[kind |-> i.kind, n |-> i.n]]
         IN /\ (i.op = "create") => head # 0
            /\ (head = 0) => rev # NoEntity
            /\ call' = [call EXCEPT ![p] =
                  [at |-> "called", key |-> k, intent |-> i, head |-> head,
                   rev |-> IF head = 0 THEN rev ELSE NoEntity, code |-> "none"]]
    /\ UNCHANGED <<log, gitLock, answers, bundles, outside>>

GitReturn(p, code) ==
    /\ call' = [call EXCEPT ![p] = [GitIdle EXCEPT !.key = call[p].key, !.code = code]]
    /\ gitLock' = IF gitLock = p THEN NoCaller ELSE gitLock
Answer(p) ==
    /\ answers' = answers \union {Result(log, call[p].key)}
    /\ GitReturn(p, "answered")

\* writerLock, which does not wait.
Lock(p) ==
    /\ call[p].at = "called"
    /\ IF gitLock = NoCaller
       THEN gitLock' = p /\ call' = [call EXCEPT ![p].at = "locked"]
       ELSE GitReturn(p, "writer_busy")
    /\ UNCHANGED <<log, answers, bundles, calls, outside>>

\* MutateProject up to the candidate: the key is looked up before any guard.
Replay(p) ==
    LET k == call[p].key
    IN /\ call[p].at = "locked" /\ Known(log, k)
       /\ IF Tip.receipts[k].intent # call[p].intent
          THEN GitReturn(p, "idempotency_conflict") /\ UNCHANGED answers
          ELSE IF Found(log, k) THEN Answer(p)
          ELSE GitReturn(p, "history_unavailable") /\ UNCHANGED answers
       /\ UNCHANGED <<log, bundles, calls, outside>>
PrepareCommit(p) ==
    /\ call[p].at = "locked" /\ ~Known(log, call[p].key)
    /\ IF GuardsHold(Tip, Len(log), call[p])
       THEN /\ call' = [call EXCEPT ![p] =
                  [at |-> "publishing", key |-> call[p].key, intent |-> call[p].intent,
                   pin |-> Len(log), code |-> "none",
                   commit |-> Candidate(Tip, call[p].key, call[p].intent)]]
            /\ UNCHANGED gitLock
       ELSE GitReturn(p, "write_conflict")
    /\ UNCHANGED <<log, answers, bundles, calls, outside>>

\* Mutant: the ref is set without the old value.
PublishAnyway(p) ==
    /\ call[p].at = "publishing"
    /\ log' = Append(SubSeq(log, 1, call[p].pin), call[p].commit)
    /\ call' = [call EXCEPT ![p].at = "confirming"]
    /\ UNCHANGED <<gitLock, answers, bundles, calls, outside>>
\* update-ref with the old value: it may fail, or be killed when it is done.
PublishRef(p) ==
    /\ call[p].at = "publishing"
    /\ \/ /\ call[p].pin = Len(log)
          /\ log' = Append(log, call[p].commit)
          /\ call' \in {[call EXCEPT ![p].at = at] : at \in {"confirming", "doubting"}}
       \/ call' = [call EXCEPT ![p].at = "doubting"] /\ UNCHANGED log
    /\ UNCHANGED <<gitLock, answers, bundles, calls, outside>>

ConfirmedIn(p) ==
    /\ Tip.receipts[call[p].key] = call[p].commit.receipts[call[p].key]
    /\ Found(log, call[p].key)

\* What is said when the receipt is not found in the ref.
Refusal(p) ==
    IF Known(log, call[p].key) THEN "publication_ambiguous"
    ELSE CASE call[p].at = "doubting" /\ Len(log) # call[p].pin /\ Tip # call[p].commit
                -> "write_conflict"
           [] call[p].at = "doubting" /\ Len(log) = call[p].pin -> "publication_rejected"
           [] OTHER -> "publication_ambiguous"

Confirm(p) ==
    /\ call[p].at \in {"confirming", "doubting"}
    /\ \/ IF ConfirmedIn(p) THEN Answer(p) ELSE GitReturn(p, Refusal(p)) /\ UNCHANGED answers
       \/ GitReturn(p, "publication_ambiguous") /\ UNCHANGED answers
    /\ UNCHANGED <<log, bundles, calls, outside>>

\* A Git command fails or the ten seconds are over before the ref is touched.
Abort(p) ==
    /\ call[p].at \in {"locked", "publishing", "exporting", "bundled"}
    /\ GitReturn(p, "unavailable")
    /\ UNCHANGED <<log, answers, bundles, calls, outside>>
\* The process dies; the kernel gives the lock back.
GitCrash(p) ==
    /\ call[p].at # "idle"
    /\ GitReturn(p, "crashed")
    /\ UNCHANGED <<log, answers, bundles, calls, outside>>

\* Somebody edits or deletes an entity, or changes what the store does not read.
OutsideCommit ==
    /\ log # <<>> /\ outside < MaxOutside /\ outside' = outside + 1
    /\ \/ log' = Append(log, [Tip EXCEPT !.by = NoGitKey])
       \/ \E i \in GitIds, b \in Bodies :
             /\ LiveIn(Tip, i.kind, i.n)
             /\ \/ log' = Append(log, [Tip EXCEPT !.by = NoGitKey, !.ents[i].body = b])
                \/ log' = Append(log, [Tip EXCEPT !.by = NoGitKey, !.ents[i].state = "deleted",
                                                  !.ents[i].body = NoBody])
    /\ UNCHANGED <<gitLock, call, answers, bundles, calls>>

-----------------------------------------------------------------------------
(* Backups                                                                 *)

\* validateBackup over the complete history.
ValidHistory(l) ==
    /\ Len(l) <= MaxHistory
    /\ \A i \in 1..Len(l) : WellFormed(l[i])
    /\ \A k \in GitKeys : l[1].receipts[k] = NoGitReceipt
    /\ \A i \in 2..Len(l) :
         /\ \A kind \in Kinds : l[i].next[kind] >= l[i - 1].next[kind]
         /\ \A k \in GitKeys :
               IF l[i - 1].receipts[k] = NoGitReceipt
               THEN l[i].receipts[k] # NoGitReceipt => Describes(l[i], l[i - 1], k)
               ELSE l[i].receipts[k] = l[i - 1].receipts[k]
         /\ \A e \in GitIds : l[i - 1].ents[e] # NoEntity =>
               l[i].ents[e] # NoEntity /\ l[i].ents[e].parent = l[i - 1].ents[e].parent

AskExport(p) ==
    /\ call[p].at = "idle" /\ log # <<>> /\ calls < MaxCalls /\ gitLock = NoCaller
    /\ calls' = calls + 1
    /\ IF ValidHistory(log)
       THEN /\ gitLock' = p
            /\ call' = [call EXCEPT ![p] =
                  [at |-> "exporting", key |-> NoGitKey, pin |-> Len(log), code |-> "none"]]
       ELSE UNCHANGED <<gitLock, call>>
    /\ UNCHANGED <<log, answers, bundles, outside>>

\* git bundle create reads the ref for itself.
Bundle(p) ==
    /\ call[p].at = "exporting"
    /\ call' = [call EXCEPT ![p] =
          [at |-> "bundled", key |-> NoGitKey, pin |-> @.pin, data |-> Len(log), code |-> "none"]]
    /\ UNCHANGED <<log, gitLock, answers, bundles, calls, outside>>

\* The branch has not moved, and validateBundleHead reads the file back.
Unmoved(p) == Len(log) = call[p].pin /\ call[p].data = call[p].pin
Export(p) ==
    /\ call[p].at = "bundled"
    /\ IF Unmoved(p)
       THEN /\ bundles' = bundles \union {[head |-> call[p].pin, data |-> call[p].data]}
            /\ GitReturn(p, "exported")
       ELSE GitReturn(p, "write_conflict") /\ UNCHANGED bundles
    /\ UNCHANGED <<log, answers, calls, outside>>

\* RestoreBundle publishes the history of a bundle whose head is the expected one.
Restorable(b) == b.data = b.head /\ ValidHistory(SubSeq(log, 1, b.data))

-----------------------------------------------------------------------------
GitStep(p) ==
    \/ \E k \in GitKeys, i \in GitIntents : Ask(p, k, i)
    \/ Lock(p) \/ Replay(p) \/ PrepareCommit(p) \/ PublishRef(p) \/ Confirm(p)
    \/ Abort(p) \/ GitCrash(p)
    \/ AskExport(p) \/ Bundle(p) \/ Export(p)

GitNext == Initialize \/ OutsideCommit \/ \E p \in Callers : GitStep(p)
GitSpec == GitInit /\ [][GitNext]_gitVars

-----------------------------------------------------------------------------
(* History: the citations of one entity, newest first                      *)

Blob(l, c, e) == l[c].ents[e]

\* One commit of the walk: the citation at hand is complete when an older
\* commit has another blob or none.
Cite(l, e, walk, c) ==
    LET blob == Blob(l, c, e)
        done == /\ walk.pending # <<>>
                /\ blob = NoEntity \/ walk.pending[1].blob # blob
    IN [cited |-> IF done THEN walk.cited \o walk.pending ELSE walk.cited,
        pending |-> IF blob # NoEntity THEN <<[commit |-> c, blob |-> blob]>>
                    ELSE IF done THEN <<>> ELSE walk.pending]
Citations(l, e) ==
    LET Walk[n \in 0..Len(l)] ==
            IF n = 0 THEN [cited |-> <<>>, pending |-> <<>>]
            ELSE Cite(l, e, Walk[n - 1], Len(l) + 1 - n)
    IN Walk[Len(l)].cited \o Walk[Len(l)].pending

-----------------------------------------------------------------------------
(* Properties                                                              *)

GitStages == {"idle", "called", "locked", "publishing", "confirming", "doubting",
           "exporting", "bundled"}

GitTypeOK ==
    /\ log \in Seq(Commit) /\ gitLock \in Callers \union {NoCaller}
    /\ \A p \in Callers : call[p].at \in GitStages /\ call[p].key \in GitKeys \union {NoGitKey}
    /\ \A a \in answers : a.key \in GitKeys /\ a.origin \in Nat /\ a.id \in GitIds /\ a.entity \in Entity
    /\ \A b \in bundles : b.head \in Nat /\ b.data \in Nat
    /\ calls \in 0..MaxCalls /\ outside \in 0..MaxOutside

\* Nobody's commit is lost: whatever lock, ref update or crash comes between,
\* the branch only grows (update-ref names the old value).
NothingIsLost == [][IsPrefix(log, log')]_log

\* A key takes effect at most once, however often the call is repeated after a
\* kill, an ambiguous answer or a crash.
AppliedOnce ==
    \A k \in GitKeys : Cardinality({c \in 1..Len(log) : log[c].by = k}) <= 1

\* Every answer to a key is the same, and describes a commit of the branch that
\* was made for that key: a replay never reports the state of today.
AnswersAgree ==
    /\ \A a, b \in answers : a.key = b.key => a = b
    /\ \A a \in answers :
          /\ a.origin \in 1..Len(log) /\ log[a.origin].by = a.key
          /\ log[a.origin].ents[a.id] = a.entity

\* When a caller is told that its write was refused, the branch holds no effect
\* of its key: update-ref may have been killed after it had moved the ref.
RefusalHasNoEffect ==
    [][\A p \in Callers :
          /\ call[p].at # "idle" /\ call'[p].at = "idle"
          /\ call'[p].code \in {"write_conflict", "publication_rejected"}
          => call'[p].key = NoGitKey \/ Tip.receipts[call'[p].key] = NoGitReceipt]_call

\* What the writers publish is what the validator of backups accepts: counters,
\* receipts and identities never go back, and each receipt describes its commit.
HistoryStaysValid == log # <<>> /\ Len(log) <= MaxHistory => ValidHistory(log)

\* A tombstone is final: no id is edited or used again after its deletion.
TombstonesAreFinal ==
    \A c \in 2..Len(log), e \in GitIds :
        log[c - 1].ents[e] # NoEntity /\ log[c - 1].ents[e].state = "deleted"
            => log[c].ents[e] = log[c - 1].ents[e]

\* An exported bundle can be restored under the head it was reported with,
\* although the branch may move while git reads it.
BundlesRestore == \A b \in bundles : Restorable(b)

\* History cites each change of an entity once, at the commit that made it,
\* newest first.
HistoryCitesChanges ==
    \A e \in GitIds :
        LET changed == {c \in 1..Len(log) : /\ Blob(log, c, e) # NoEntity
                                            /\ c = 1 \/ Blob(log, c - 1, e) # Blob(log, c, e)}
            cites == Citations(log, e)
        IN /\ {cites[n].commit : n \in DOMAIN cites} = changed
           /\ \A m, n \in DOMAIN cites : m < n => cites[m].commit > cites[n].commit

\* A repeated call is harmless: one effect and one answer (mutation.go,
\* MutateProject, receiptResult).
MutationsApplyOnce == AppliedOnce /\ AnswersAgree

\* The history of the branch is sound for all its readers: validation, backup,
\* restore and the history of an entity (backup.go, reader.go).
HistoryIsSound ==
    HistoryStaysValid /\ TombstonesAreFinal /\ BundlesRestore /\ HistoryCitesChanges

\* What is published stays, and what is reported as refused is not there
\* (mutation.go, the ambiguous outcome of update-ref).
EffectsStand == NothingIsLost /\ RefusalHasNoEffect
=============================================================================
