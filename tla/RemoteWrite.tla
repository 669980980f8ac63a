---------------------------- MODULE RemoteWrite ----------------------------
(***************************************************************************)
(* One live write to GitCode under one idempotency key (executeWrite of    *)
(* internal/service and what it calls): the receipt of the key in the      *)
(* audit table, the remote object, and the cached copy.  Several callers,  *)
(* in several processes, use the key; a call may die at any step, a        *)
(* request may be refused, lost, or applied long after its caller gave up, *)
(* and other people edit the object.                                       *)
(*                                                                         *)
(* Abstractions: the object is a requested field f and a preserved field   *)
(* o; a receipt's created_at is a generation number; hashes are the values *)
(* they are taken of; a failed database call that leaves the receipt as it *)
(* is looks like the death of the call.                                    *)
(***************************************************************************)
EXTENDS Naturals, FiniteSets

CONSTANTS Writers,        \* concurrent calls
          Commands,       \* kinds of command to explore
          Payloads,       \* request payloads that use the key
          MaxWrites,      \* bound: calls made
          MaxEdits,       \* bound: edits by other people
          MaxFaults,      \* bound: failed database calls
          NoRow, NoDoc, NoPayload

Creations == {"create-issue", "create-pr"}
PRUpdates == {"update-pr", "merge-pr"}
Updates == PRUpdates \union {"update-issue"}
Fenced == {"wiki", "milestone", "label"}
Comments == {"comment", "mirror"}
Unfenced == Comments \union {"update-issue", "plain"}

ASSUME WriteAssumption ==
    /\ Commands \subseteq Creations \union Updates \union Fenced \union Unfenced
    /\ {MaxWrites, MaxEdits, MaxFaults} \subseteq Nat

VARIABLES command,      \* the command the key belongs to
          row,          \* the receipt of the key in audit_trail
          remote,       \* the remote object
          flying,       \* requests that were sent and may still be applied
          cached,       \* the cached copy of the object
          writer,       \* what each call is doing
          sent, applied, payloads, told, wanted,    \* ghosts
          gens, writes, edits, faults

writeState == <<row, remote, flying, cached, writer>>
writeGhosts == <<sent, applied, payloads, told, wanted>>
writeCounts == <<gens, writes, edits, faults>>
writeVars == <<command, writeState, writeGhosts, writeCounts>>

Doc == [f: {"old", "want", "other"}, o: 0..MaxEdits]
Row == [status: {"in_progress", "failed", "conflict", "pending", "cachefail",
                 "auditfail", "unsafe", "succeeded"},
        gen: Nat, payload: Payloads, phase: {"claimed", "tried"},
        known: BOOLEAN, pre: Doc \union {NoDoc}, graph: Doc \union {NoDoc}]
ASSUME NoneAssumption == NoRow \notin Row /\ NoDoc \notin Doc
Resting == [at |-> "idle", seen |-> NoRow, pre |-> NoDoc, graph |-> NoDoc,
            gen |-> 0, outcome |-> "none", recovers |-> FALSE,
            payload |-> NoPayload]

-----------------------------------------------------------------------------
(* The audit table                                                         *)

NewRow(w, status) ==
    [status |-> status, gen |-> gens + 1, payload |-> writer[w].payload,
     phase |-> "claimed", known |-> FALSE, pre |-> writer[w].pre, graph |-> NoDoc]

\* RecordAuditEvent: written whatever the row is; created_at is kept.
Recorded(w, status, pre, graph) ==
    [status |-> status, gen |-> IF row = NoRow THEN gens + 1 ELSE row.gen,
     payload |-> writer[w].payload, phase |-> "tried", known |-> status = "unsafe",
     pre |-> pre, graph |-> graph]

Record(w, status, pre, graph) ==
    /\ row' = Recorded(w, status, pre, graph)
    /\ gens' = IF row = NoRow THEN gens + 1 ELSE gens

\* ClaimAuditEvent: inserts, or takes any failed row with the same payload.
Claimable(w) ==
    \/ row = NoRow
    \/ /\ row.status \in {"failed", "conflict"}
       /\ row.payload = writer[w].payload

\* ClaimAuditEventGeneration: inserts, or takes the very failure it has seen.
ClaimableGeneration(w) ==
    \/ row = NoRow
    \/ /\ Claimable(w)
       /\ writer[w].seen # NoRow
       /\ row.gen = writer[w].seen.gen

\* TransitionAuditEventGeneration, from any of the given statuses.
Owned(gen, statuses) ==
    /\ row # NoRow
    /\ row.gen = gen
    /\ row.status \in statuses

\* The same claim, whatever has been staged under it since.
SameClaim(seen) == row # NoRow /\ row.gen = seen.gen

\* StageWriteGraphGeneration and SettleWriteGraphGeneration: the exact receipt.
SameReceipt(seen) == row = seen

Succeeded == row # NoRow /\ row.status = "succeeded"
Confirmed(gen) == Owned(gen, {"succeeded"})

-----------------------------------------------------------------------------
(* Moves of a call                                                         *)

Stands(w, at) == writer[w].at = at
Goto(w, at) == writer' = [writer EXCEPT ![w].at = at]
Return(w) == writer' = [writer EXCEPT ![w] = Resting]
\* currentResult and auditGenerationSucceeded: someone else has settled it.
ReturnCurrent(w) ==
    /\ Return(w)
    /\ told' = (told \/ Confirmed(writer[w].gen))

WriteInit ==
    /\ command \in Commands
    /\ row = NoRow /\ cached = NoDoc
    /\ remote = [f |-> "old", o |-> 0]
    /\ flying = 0
    /\ writer = [w \in Writers |-> Resting]
    /\ sent = 0 /\ applied = 0 /\ payloads = {}
    /\ told = FALSE /\ wanted = FALSE
    /\ gens = 0 /\ writes = 0 /\ edits = 0 /\ faults = 0

-----------------------------------------------------------------------------
(* Looking the key up                                                      *)

\* Lookup.Replay: answered from the receipt.
ReplayAnswer(w) ==
    /\ Stands(w, "idle") /\ writes < MaxWrites /\ Succeeded
    /\ told' = TRUE /\ writes' = writes + 1
    /\ UNCHANGED <<command, writeState, sent, applied, payloads, wanted, gens, edits, faults>>

\* Where a call with payload p goes on; a call not listed is answered here.
Route(p) ==
    IF row = NoRow THEN "prepare"
    ELSE IF row.payload # p \/ Succeeded THEN "idle"
    ELSE IF command \in Fenced THEN "reconcile"
    ELSE CASE row.status = "failed" -> "prepare"
           [] row.status \in {"pending", "cachefail"} ->
                IF command = "merge-pr" THEN "recover" ELSE "repair"
           [] row.status = "in_progress" /\ command \in Updates -> "recover"
           [] OTHER -> "idle"

Lookup(w, p) ==
    /\ Stands(w, "idle") /\ writes < MaxWrites /\ Route(p) # "idle"
    /\ writer' = [writer EXCEPT ![w] = [Resting EXCEPT
                     !.at = Route(p), !.seen = row, !.payload = p,
                     !.gen = IF row = NoRow THEN 0 ELSE row.gen]]
    /\ writes' = writes + 1
    /\ UNCHANGED <<command, row, remote, flying, cached, writeGhosts, gens, edits, faults>>

-----------------------------------------------------------------------------
(* Claiming the key                                                        *)

Claimed(w) == [NewRow(w, "in_progress") EXCEPT
                  !.gen = IF row # NoRow /\ command \in Unfenced THEN row.gen ELSE gens + 1]

MayClaim(w) ==
    CASE command \in Creations \union PRUpdates -> ClaimableGeneration(w)
      [] command \in Fenced -> row = NoRow
      [] OTHER -> Claimable(w)

Claim(w) ==
    IF MayClaim(w)
    THEN /\ row' = Claimed(w)
         /\ gens' = IF Claimed(w).gen = gens + 1 THEN gens + 1 ELSE gens
         /\ writer' = [writer EXCEPT ![w].at = "send", ![w].gen = Claimed(w).gen,
                                     ![w].seen = Claimed(w)]
    ELSE Return(w) /\ UNCHANGED <<row, gens>>

\* create-*, comments, mirror triggers and the fenced commands claim at once;
\* a label that exists already is a conflict.
ClaimFirst(w) ==
    /\ Stands(w, "prepare") /\ command \in Creations \union Comments \union Fenced
    /\ command = "label" => remote.f # "want"
    /\ Claim(w)
    /\ UNCHANGED <<command, remote, flying, cached, writeGhosts, writes, edits, faults>>

\* UpdateIssue, UpdatePR, MergePR: the canonical preimage is read first.
ReadPreimage(w) ==
    /\ Stands(w, "prepare") /\ command \in Updates
    /\ writer' = [writer EXCEPT ![w].at = "claim", ![w].pre = remote]
    /\ UNCHANGED <<command, row, remote, flying, cached, writeGhosts, writeCounts>>

\* The preimage cannot be read.  Only update-issue writes a receipt, and it
\* does so without owning one.
PreflightFails(w) ==
    /\ Stands(w, "prepare") /\ command \in Updates
    /\ IF command = "update-issue" THEN Record(w, "failed", NoDoc, NoDoc)
                                   ELSE UNCHANGED <<row, gens>>
    /\ Return(w)
    /\ UNCHANGED <<command, remote, flying, cached, writeGhosts, writes, edits, faults>>

\* A merge is bound to the head alone, an update to the whole document.
SamePreimage(a, b) == IF command = "merge-pr" THEN a.o = b.o ELSE a = b
Stale(w) ==
    /\ writer[w].seen # NoRow
    /\ writer[w].seen.pre # NoDoc
    /\ ~SamePreimage(writer[w].seen.pre, writer[w].pre)

ClaimConflict(w) ==
    /\ Stands(w, "claim") /\ Stale(w)
    /\ IF command = "update-issue" THEN Record(w, "conflict", writer[w].seen.pre, NoDoc)
                                   ELSE UNCHANGED <<row, gens>>
    /\ Return(w)
    /\ UNCHANGED <<command, remote, flying, cached, writeGhosts, writes, edits, faults>>

ClaimUpdate(w) ==
    /\ Stands(w, "claim") /\ ~Stale(w)
    /\ Claim(w)
    /\ UNCHANGED <<command, remote, flying, cached, writeGhosts, writes, edits, faults>>

\* The claim meets a database error; update-issue records it as a failure.
ClaimBreaks(w) ==
    /\ Stands(w, "claim") /\ command = "update-issue" /\ faults < MaxFaults
    /\ Record(w, "failed", writer[w].pre, NoDoc)
    /\ Return(w)
    /\ faults' = faults + 1
    /\ UNCHANGED <<command, remote, flying, cached, writeGhosts, writes, edits>>

-----------------------------------------------------------------------------
(* The request and its outcome                                             *)

Apply ==
    /\ remote' = [remote EXCEPT !.f = "want"]
    /\ applied' = applied + 1
    /\ wanted' = TRUE

\* MergePR finds the request merged already and sends nothing.
AlreadyMerged(w) == command = "merge-pr" /\ writer[w].pre.f = "want"
MaySend(w) ==
    \/ Stands(w, "send") /\ ~AlreadyMerged(w)
    \/ Stands(w, "prepare") /\ command = "plain"

Departs(w) ==
    /\ sent' = sent + 1
    /\ payloads' = payloads \union {writer[w].payload}

\* Not attempted, or refused with a status that proves it was not applied.
SendRefused(w, outcome) ==
    /\ MaySend(w)
    /\ writer' = [writer EXCEPT ![w].at = "sent", ![w].outcome = outcome]
    /\ IF outcome = "refused" THEN Departs(w) ELSE UNCHANGED <<sent, payloads>>
    /\ UNCHANGED <<command, row, remote, flying, cached, applied, told, wanted, writeCounts>>

\* No usable answer: the request may still be on its way.
SendLost(w) ==
    /\ MaySend(w)
    /\ writer' = [writer EXCEPT ![w].at = "sent", ![w].outcome = "lost"]
    /\ flying' = flying + 1
    /\ Departs(w)
    /\ UNCHANGED <<command, row, remote, cached, applied, told, wanted, writeCounts>>

\* An answer that names the object.  Some commands trust it.
TrustsAnswer == command \in Comments \union {"plain", "create-issue"}
SendDone(w) ==
    /\ MaySend(w)
    /\ Apply /\ Departs(w)
    /\ writer' = [writer EXCEPT ![w].at = IF TrustsAnswer THEN "confirmed" ELSE "readback",
                                ![w].outcome = "done", ![w].graph = remote']
    /\ UNCHANGED <<command, row, flying, cached, told, writeCounts>>

\* bytesWithOptions repeats a request of create-issue within the call.
SendAgain(w) ==
    /\ Stands(w, "sent") /\ writer[w].outcome = "lost" /\ command = "create-issue"
    /\ sent < MaxWrites
    /\ Goto(w, "send")
    /\ UNCHANGED <<command, row, remote, flying, cached, writeGhosts, writeCounts>>

SkipMerge(w) ==
    /\ Stands(w, "send") /\ AlreadyMerged(w)
    /\ writer' = [writer EXCEPT ![w].at = "confirmed", ![w].graph = writer[w].pre]
    /\ UNCHANGED <<command, row, remote, flying, cached, writeGhosts, writeCounts>>

\* safeTopLevelCommentFailure looks at the error, not at whether it was sent.
Refused(w) ==
    \/ writer[w].outcome = "refused"
    \/ writer[w].outcome = "unsent" /\ command \notin Comments

\* The failure paths of executeWrite, one row of receipts per command.
AfterFailure(w) ==
    LET reopens == Refused(w) \/ command \in {"create-issue", "plain"} IN
    CASE command \in PRUpdates ->
            IF Owned(writer[w].gen, {"in_progress"})
            THEN row' = [row EXCEPT !.status = IF Refused(w) THEN "failed" ELSE @,
                                    !.phase = "tried"] /\ UNCHANGED gens
            ELSE UNCHANGED <<row, gens>>
      [] command \in Fenced ->
            IF Owned(writer[w].gen, {"in_progress"})
            THEN row' = [row EXCEPT !.phase = "tried", !.known = writer[w].outcome = "done"]
                 /\ UNCHANGED gens
            ELSE UNCHANGED <<row, gens>>
      [] command = "create-pr" /\ ~Refused(w) ->
            IF writer[w].outcome = "done" THEN Record(w, "unsafe", NoDoc, NoDoc)
                                          ELSE UNCHANGED <<row, gens>>
      [] command = "mirror" /\ ~Refused(w) -> UNCHANGED <<row, gens>>
      [] OTHER ->
            Record(w, IF reopens THEN "failed" ELSE "in_progress", writer[w].pre, NoDoc)

Fail(w) ==
    /\ Stands(w, "sent")
    /\ AfterFailure(w)
    /\ ReturnCurrent(w)
    /\ UNCHANGED <<command, remote, flying, cached, sent, applied, payloads, wanted,
                   writes, edits, faults>>

\* What the canonical readback must show.
Matches(pre) ==
    /\ remote.f = "want"
    /\ command \in {"update-issue", "update-pr"} => remote.o = pre.o

ReadBack(w) ==
    /\ Stands(w, "readback") /\ Matches(writer[w].pre)
    /\ writer' = [writer EXCEPT ![w].at = "confirmed", ![w].graph = remote]
    /\ UNCHANGED <<command, row, remote, flying, cached, writeGhosts, writeCounts>>

\* The readback fails or shows something else: the write is ambiguous.
ReadBackFails(w) ==
    /\ Stands(w, "readback")
    /\ AfterFailure(w)
    /\ ReturnCurrent(w)
    /\ UNCHANGED <<command, remote, flying, cached, sent, applied, payloads, wanted,
                   writes, edits, faults>>

-----------------------------------------------------------------------------
(* Recovery by reading                                                     *)

\* Recovery that believes any answer of the provider.
RecoversAnyway(seen) == seen.pre # NoDoc

\* prUpdateRecoveryMatches, issueUpdateRecoveryMatches, and for a merge the
\* head that was claimed.
Recovers(seen) == seen.pre # NoDoc /\ remote.f = "want" /\ remote.o = seen.pre.o

RecoverWith(w, matches) ==
    /\ Stands(w, "recover")
    /\ IF matches
       THEN writer' = [writer EXCEPT ![w].at = "confirmed", ![w].graph = remote,
                                     ![w].pre = writer[w].seen.pre, ![w].recovers = TRUE]
       ELSE Return(w)
    /\ UNCHANGED <<command, row, remote, flying, cached, writeGhosts, writeCounts>>

RecoverMerge(w) == command = "merge-pr" /\ RecoverWith(w, Recovers(writer[w].seen))
RecoverPRUpdate(w) == command = "update-pr" /\ RecoverWith(w, Recovers(writer[w].seen))
RecoverIssueUpdate(w) == command = "update-issue" /\ RecoverWith(w, Recovers(writer[w].seen))

ReconcileWith(w, found) ==
    /\ Stands(w, "reconcile")
    /\ IF found
       THEN writer' = [writer EXCEPT ![w].at = "confirmed", ![w].graph = remote,
                                     ![w].recovers = TRUE]
       ELSE Return(w)
    /\ UNCHANGED <<command, row, remote, flying, cached, writeGhosts, writeCounts>>

\* A wiki page and a label are found by name, a milestone only by its id.
ReconcileWiki(w) == command = "wiki" /\ ReconcileWith(w, remote.f = "want")
ReconcileLabel(w) == command = "label" /\ ReconcileWith(w, remote.f = "want")
ReconcileMilestone(w) ==
    command = "milestone" /\ ReconcileWith(w, remote.f = "want" /\ writer[w].seen.known)

\* replayWriteGraph: the object is read, or rebuilt from the request.
Repair(w) ==
    /\ Stands(w, "repair")
    /\ writer' = [writer EXCEPT
                     ![w].at = IF command \in Creations THEN "confirmed" ELSE "repairing",
                     ![w].graph = remote, ![w].recovers = TRUE]
    /\ UNCHANGED <<command, row, remote, flying, cached, writeGhosts, writeCounts>>

RepairCache(w) ==
    /\ Stands(w, "repairing")
    /\ cached' = writer[w].graph
    /\ Goto(w, "repaired")
    /\ UNCHANGED <<command, row, remote, flying, writeGhosts, writeCounts>>

RepairFails(w) ==
    /\ Stands(w, "repairing") /\ faults < MaxFaults
    /\ Record(w, "cachefail", writer[w].seen.pre, NoDoc)
    /\ Return(w)
    /\ faults' = faults + 1
    /\ UNCHANGED <<command, remote, flying, cached, writeGhosts, writes, edits>>

RepairDone(w) ==
    /\ Stands(w, "repaired")
    /\ Record(w, "succeeded", writer[w].seen.pre, writer[w].graph)
    /\ Return(w)
    /\ told' = TRUE
    /\ UNCHANGED <<command, remote, flying, cached, sent, applied, payloads, wanted,
                   writes, edits, faults>>

-----------------------------------------------------------------------------
(* Settling a confirmed write                                              *)

PendingRow(w) == [writer[w].seen EXCEPT !.status = "pending", !.graph = writer[w].graph,
                                     !.known = TRUE]

\* settlePrimaryCreation and the fenced commands: stage the exact receipt.
Stage(w) ==
    /\ Stands(w, "confirmed") /\ command \in Creations \union Fenced
    /\ IF SameReceipt(writer[w].seen)
       THEN /\ row' = PendingRow(w)
            /\ writer' = [writer EXCEPT ![w].at = "staged", ![w].seen = PendingRow(w)]
            /\ UNCHANGED told
       ELSE ReturnCurrent(w) /\ UNCHANGED row
    /\ UNCHANGED <<command, remote, flying, cached, sent, applied, payloads, wanted,
                   writeCounts>>

\* One transaction: the cached graph and the receipt's success.
SettleAtomically(w) ==
    /\ Stands(w, "staged")
    /\ IF SameReceipt(writer[w].seen)
       THEN /\ row' = [row EXCEPT !.status = "succeeded"]
            /\ cached' = writer[w].graph
            /\ told' = TRUE
            /\ Return(w)
       ELSE ReturnCurrent(w) /\ UNCHANGED <<row, cached>>
    /\ UNCHANGED <<command, remote, flying, sent, applied, payloads, wanted, writeCounts>>

\* update-pr and merge-pr: every transition is fenced by the generation.
StageFrom(w) ==
    {"pending"}
        \union (IF writer[w].recovers THEN {writer[w].seen.status, "cachefail"}
                                      ELSE {"in_progress"})
        \union (IF command = "merge-pr" THEN {"cachefail"} ELSE {})

StageGeneration(w) ==
    /\ Stands(w, "confirmed") /\ command \in PRUpdates
    /\ IF Owned(writer[w].gen, StageFrom(w))
       THEN /\ row' = IF row.status = "pending" THEN row
                      ELSE [row EXCEPT !.status = "pending", !.graph = writer[w].graph]
            /\ Goto(w, "publish") /\ UNCHANGED told
       ELSE ReturnCurrent(w) /\ UNCHANGED row
    /\ UNCHANGED <<command, remote, flying, cached, sent, applied, payloads, wanted,
                   writeCounts>>

\* A database error while staging: update-pr leaves a note of it.
StageBreaks(w) ==
    /\ Stands(w, "confirmed") /\ command = "update-pr" /\ ~writer[w].recovers
    /\ Owned(writer[w].gen, {"in_progress", "pending"}) /\ faults < MaxFaults
    /\ row' = [row EXCEPT !.status = "auditfail"]
    /\ Return(w)
    /\ faults' = faults + 1
    /\ UNCHANGED <<command, remote, flying, cached, writeGhosts, gens, writes, edits>>

PublishGeneration(w) ==
    /\ Stands(w, "publish") /\ command \in PRUpdates
    /\ cached' = writer[w].graph
    /\ Goto(w, "finish")
    /\ UNCHANGED <<command, row, remote, flying, writeGhosts, writeCounts>>

PublishGenerationFails(w) ==
    /\ Stands(w, "publish") /\ command \in PRUpdates /\ faults < MaxFaults
    /\ row' = IF Owned(writer[w].gen, {"pending"}) THEN [row EXCEPT !.status = "cachefail"]
                                                   ELSE row
    /\ ReturnCurrent(w)
    /\ faults' = faults + 1
    /\ UNCHANGED <<command, remote, flying, cached, sent, applied, payloads, wanted,
                   gens, writes, edits>>

FinishGeneration(w) ==
    /\ Stands(w, "finish")
    /\ IF Owned(writer[w].gen, {"pending", "cachefail", "succeeded"})
       THEN row' = [row EXCEPT !.status = "succeeded"] /\ told' = TRUE
       ELSE UNCHANGED <<row, told>>
    /\ Return(w)
    /\ UNCHANGED <<command, remote, flying, cached, sent, applied, payloads, wanted,
                   writeCounts>>

FinishBreaks(w) ==
    /\ Stands(w, "finish") /\ faults < MaxFaults /\ Owned(writer[w].gen, {"pending"})
    /\ row' = [row EXCEPT !.status = "auditfail"]
    /\ Return(w)
    /\ faults' = faults + 1
    /\ UNCHANGED <<command, remote, flying, cached, writeGhosts, gens, writes, edits>>

\* The other commands record success first and refresh the cache afterwards.
RecordSuccess(w) ==
    /\ Stands(w, "confirmed") /\ command \in Unfenced
    /\ Record(w, "succeeded", writer[w].pre, writer[w].graph)
    /\ Goto(w, "publish")
    /\ UNCHANGED <<command, remote, flying, cached, writeGhosts, writes, edits, faults>>

RecordBreaks(w) ==
    /\ Stands(w, "confirmed") /\ command \in Unfenced /\ ~writer[w].recovers
    /\ faults < MaxFaults
    /\ Record(w, "auditfail", writer[w].pre, NoDoc)
    /\ Return(w)
    /\ faults' = faults + 1
    /\ UNCHANGED <<command, remote, flying, cached, writeGhosts, writes, edits>>

Publish(w) ==
    /\ Stands(w, "publish") /\ command \in Unfenced
    /\ cached' = writer[w].graph
    /\ Return(w)
    /\ told' = TRUE
    /\ UNCHANGED <<command, row, remote, flying, sent, applied, payloads, wanted, writeCounts>>

PublishFails(w) ==
    /\ Stands(w, "publish") /\ command \in Unfenced /\ faults < MaxFaults
    /\ Record(w, "cachefail", writer[w].pre, NoDoc)
    /\ Return(w)
    /\ faults' = faults + 1
    /\ UNCHANGED <<command, remote, flying, cached, writeGhosts, writes, edits>>

-----------------------------------------------------------------------------
(* The rest of the world                                                   *)

WriterCrash(w) ==
    /\ ~Stands(w, "idle")
    /\ Return(w)
    /\ UNCHANGED <<command, row, remote, flying, cached, writeGhosts, writeCounts>>

\* A request whose answer was lost takes effect now.
Land ==
    /\ flying > 0
    /\ flying' = flying - 1
    /\ Apply
    /\ UNCHANGED <<command, row, cached, writer, sent, payloads, told, writeCounts>>

\* Somebody else changes the object; a merge cannot be undone.
OutsideEdit ==
    /\ edits < MaxEdits
    /\ \/ \E f \in {"other", "want"} \ {remote.f} :
             /\ command = "merge-pr" => f = "want"
             /\ remote' = [remote EXCEPT !.f = f]
             /\ wanted' = (wanted \/ f = "want")
       \/ remote' = [remote EXCEPT !.o = @ + 1] /\ UNCHANGED wanted
    /\ edits' = edits + 1
    /\ UNCHANGED <<command, row, flying, cached, writer, sent, applied, payloads, told,
                   gens, writes, faults>>

WriteStep(w) ==
    \/ ReplayAnswer(w) \/ (\E p \in Payloads : Lookup(w, p))
    \/ ClaimFirst(w) \/ ReadPreimage(w) \/ PreflightFails(w)
    \/ ClaimConflict(w) \/ ClaimUpdate(w) \/ ClaimBreaks(w)
    \/ (\E outcome \in {"unsent", "refused"} : SendRefused(w, outcome))
    \/ SendLost(w) \/ SendDone(w) \/ SendAgain(w) \/ SkipMerge(w)
    \/ Fail(w) \/ ReadBack(w) \/ ReadBackFails(w)
    \/ RecoverMerge(w) \/ RecoverPRUpdate(w) \/ RecoverIssueUpdate(w)
    \/ ReconcileWiki(w) \/ ReconcileLabel(w) \/ ReconcileMilestone(w)
    \/ Repair(w) \/ RepairCache(w) \/ RepairFails(w) \/ RepairDone(w)
    \/ Stage(w) \/ SettleAtomically(w)
    \/ StageGeneration(w) \/ StageBreaks(w)
    \/ PublishGeneration(w) \/ PublishGenerationFails(w)
    \/ FinishGeneration(w) \/ FinishBreaks(w)
    \/ RecordSuccess(w) \/ RecordBreaks(w) \/ Publish(w) \/ PublishFails(w)
    \/ WriterCrash(w)

WriteNext == (\E w \in Writers : WriteStep(w)) \/ Land \/ OutsideEdit
WriteSpec == WriteInit /\ [][WriteNext]_writeVars

-----------------------------------------------------------------------------
(* Properties                                                              *)

\* The receipt and every call have their types, and a receipt awaiting its
\* publication says what it will publish.
WriteTypeOK ==
    /\ row \in Row \union {NoRow}
    /\ row # NoRow => row.gen \in 1..gens
    /\ remote \in Doc /\ cached \in Doc \union {NoDoc}
    /\ \A w \in Writers : writer[w].gen <= gens
    /\ applied + flying <= sent

\* However calls race, die, are refused or go unanswered, one key changes the
\* remote object at most once: comments, mirror triggers, pull requests,
\* merges and the fenced commands.  (Issue creation, issue updates and the
\* commands without a claim do not promise it, see the README.)
Guarded == command \notin {"create-issue", "update-issue", "plain"}
ChangedOnce == Guarded => applied <= 1

\* Wiki pages, milestones and labels are sent once per key even after a
\* refusal: every later call only reads (wiki_write.go, milestone_write.go,
\* repository_bootstrap.go).
FencedSentOnce == command \in Fenced => sent <= 1

\* A key that is claimed before it is sent is never sent with two payloads.
OnePayload == Guarded => Cardinality(payloads) <= 1

\* A caller is told of success only if the object has been as it asked.
SuccessIsReal == told => wanted

\* For creations, pull requests and the fenced commands success comes last:
\* it finds the graph in the cache, and for the atomic settlements the very
\* graph that its receipt names.
SuccessIsPublished ==
    (Succeeded /\ command \notin Unfenced) =>
        /\ cached # NoDoc
        /\ command \in Creations \union Fenced => cached = row.graph

\* A late caller, in particular one whose publication fails, never takes the
\* success of a creation, a merge or a fenced command back.
SuccessSticks ==
    [][(Succeeded /\ command \notin Unfenced \union {"update-pr"})
            => row'.status = "succeeded"]_writeVars

\* One key, one payload, one change of the remote object (service.go,
\* executeWrite and the claims of the audit trail).
SentOnce == ChangedOnce /\ FencedSentOnce /\ OnePayload

\* Success is reported and recorded only for what the provider has and the
\* cache shows (service.go, the recovery and settlement of executeWrite).
SuccessIsTrue == SuccessIsReal /\ SuccessIsPublished

\* Whatever is lost or repeated, a remote write is made once, and is reported
\* and recorded for good as what became of it (service.go, executeWrite).
RemoteWriteIsSound == []SentOnce /\ []SuccessIsTrue /\ SuccessSticks
=============================================================================
