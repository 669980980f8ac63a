----------------------------- MODULE JobHistory -----------------------------
(***************************************************************************)
(* The bounded job history (servicectl/jobs.go) and the admin actions over *)
(* it (servicectl/job_actions.go): two managers with a mutex and a file    *)
(* each.  Every save of the history prunes it; a retry action writes a     *)
(* pending receipt, admits work through a maintenance reconcile that pins  *)
(* the admitted job, settles the receipt, and releases the pin.  A crash   *)
(* can fall between any two of these writes.                               *)
(*                                                                         *)
(* Abstractions: a registration has one kind of work, so the work key, the *)
(* registration and the key of protectedDiagnosticJobs are one value; the  *)
(* statuses are "active", "success" (succeeded, superseded) and "diag"     *)
(* (failed, cancelled, interrupted); an idempotency key stands for the key *)
(* and its intent.  A failed write leaves its file as it was.  Cancelling  *)
(* actions hold no durable intent and appear as the end of a job.          *)
(***************************************************************************)
EXTENDS Integers, FiniteSets

CONSTANTS Keys,           \* retry intents (idempotency keys)
          Regs,           \* maintenance registrations
          MaxJobs,        \* bound: job ids are 1..MaxJobs
          MaxTime,        \* bound of the clock
          SuccessTTL, DiagnosticTTL, MaxTerminalJobs, MaxDiagnosticJobs,
          MaxReceipts,    \* maxJobActionReceipts
          MaxFails,       \* bound: writes that fail
          MaxRestarts,    \* bound: crashes
          NoJob, NoReceipt, NoKey

ASSUME HistoryAssumption ==
    /\ {MaxJobs, MaxTime, SuccessTTL, DiagnosticTTL, MaxTerminalJobs,
        MaxDiagnosticJobs, MaxFails, MaxRestarts} \subseteq Nat
    /\ MaxReceipts \in Nat \ {0}
    /\ NoKey \notin Keys

VARIABLES
    now,
    jobs, disk,         \* JobManager.jobs and jobs.json
    nextId,             \* JobManager.nextID
    inflight,           \* JobManager.inflightWorkers: goroutines not unwound
    receipts, saved,    \* JobActionManager.receipts and its file
    act,                \* the caller that holds JobActionManager.mu
    boot,               \* "up", or how far JobActionManager.Load has come
    todo,               \* pending receipts recoverPendingLocked has yet to see
    admitted,           \* ghost: jobs created for or joined by a claimed key
    fails, restarts

historyVars == <<now, jobs, disk, nextId, inflight, receipts, saved, act, boot, todo,
          admitted, fails, restarts>>
history == <<jobs, disk, nextId, inflight>>
actions == <<receipts, saved, act, boot, todo>>

Ids == 1..MaxJobs
Job == [reg: Regs, st: {"active", "success", "diag"}, fin: 0..MaxTime,
        pins: SUBSET Keys]
Receipt == [outcome: {"pending", "settled"}, target: Ids, source: Regs,
            at: 0..MaxTime]
ASSUME NoRecordsAssumption == NoJob \notin Job /\ NoReceipt \notin Receipt
Idle == [key |-> NoKey, at |-> "idle", reg |-> NoKey]

Live(js) == {i \in Ids : js[i] # NoJob}
Active(js) == {i \in Live(js) : js[i].st = "active"}
Terminal(js) == {i \in Live(js) : js[i].st # "active"}

-----------------------------------------------------------------------------
(* Pruning (pruneLocked)                                                   *)

\* terminalJobLess
Older(js, x, y) ==
    js[x].fin < js[y].fin \/ (js[x].fin = js[y].fin /\ x < y)

\* The newest diagnostic job of each registration ...
LatestDiagnostic(js) ==
    {i \in Terminal(js) :
        /\ js[i].st = "diag"
        /\ \A x \in Terminal(js) :
              js[x].st = "diag" /\ js[x].reg = js[i].reg => ~Older(js, i, x)}

\* Mutant: pruning protects the newest diagnostics only.
ProtectedNoPins(js) ==
    LET latest == LatestDiagnostic(js)
    IN {i \in latest :
          Cardinality({x \in latest : Older(js, i, x)}) < MaxDiagnosticJobs}

\* ... of which the MaxDiagnosticJobs newest are protected, and every pinned job.
Protected(js) ==
    LET latest == LatestDiagnostic(js)
    IN {i \in latest :
          Cardinality({x \in latest : Older(js, i, x)}) < MaxDiagnosticJobs}
         \union {i \in Terminal(js) : js[i].pins # {}}

Expired(js) ==
    {i \in Terminal(js) \ Protected(js) :
        now - js[i].fin >= IF js[i].st = "diag" THEN DiagnosticTTL ELSE SuccessTTL}

Truncated(js) ==
    LET rest == Terminal(js) \ Expired(js)
        evictable == rest \ Protected(js)
    IN {i \in evictable :
           Cardinality({x \in evictable : Older(js, x, i)})
               < Cardinality(rest) - MaxTerminalJobs}

Prune(js) ==
    LET gone == Expired(js) \union Truncated(js)
    IN [i \in Ids |-> IF i \in gone THEN NoJob ELSE js[i]]

\* saveLocked: the pruned history reaches memory and disk, ...
Save(js) == jobs' = Prune(js) /\ disk' = jobs' /\ UNCHANGED fails
\* ... or nothing is written and what was changed before stays in memory.
SaveFails(js) ==
    /\ fails < MaxFails /\ fails' = fails + 1
    /\ jobs' = js /\ UNCHANGED disk

\* RetainedRetryIntentResult finds a job that carries the reference.
Pinned(js, k) == {i \in Live(js) : k \in js[i].pins}
Unpin(js, k) ==
    [i \in Ids |-> IF js[i] = NoJob THEN NoJob
                   ELSE [js[i] EXCEPT !.pins = @ \ {k}]]

-----------------------------------------------------------------------------
(* Receipts                                                                *)

Kept(rs) == {k \in Keys : rs[k] # NoReceipt}
Pending(rs) == {k \in Kept(rs) : rs[k].outcome = "pending"}
Settled(rs) == {k \in Kept(rs) : rs[k].outcome = "settled"}

\* pruneToLimitLocked: pending and still pinned receipts stay, of the others
\* the oldest go; equal times are ordered by a hash, here in any order.
Evicted(rs, limit) ==
    LET free == {k \in Settled(rs) : Pinned(jobs, k) = {}}
        over == Cardinality(Kept(rs)) - limit
        n == IF over < Cardinality(free) THEN over ELSE Cardinality(free)
    IN IF over <= 0 THEN {{}}
       ELSE {gone \in SUBSET free :
                /\ Cardinality(gone) = n
                /\ \A g \in gone, k \in free \ gone : rs[g].at <= rs[k].at}

Without(rs, gone) == [k \in Keys |-> IF k \in gone THEN NoReceipt ELSE rs[k]]

-----------------------------------------------------------------------------
HistoryInit ==
    /\ now = 0 /\ nextId = 0 /\ inflight = {} /\ fails = 0 /\ restarts = 0
    /\ jobs = [i \in Ids |-> NoJob] /\ disk = jobs
    /\ receipts = [k \in Keys |-> NoReceipt] /\ saved = receipts
    /\ act = Idle /\ boot = "up" /\ todo = {}
    /\ admitted = [k \in Keys |-> 0]

Tick ==
    /\ now < MaxTime /\ now' = now + 1
    /\ UNCHANGED <<history, actions, admitted, fails, restarts>>

-----------------------------------------------------------------------------
(* Jobs                                                                    *)

\* A job of r that carries pins p gets the next id and is saved, or the
\* admission is undone (createCoalescedJobWithIntent).
Create(r, p) ==
    LET id == nextId + 1
        js == [jobs EXCEPT ![id] = [reg |-> r, st |-> "active", fin |-> 0, pins |-> p]]
    IN /\ id <= MaxJobs
       /\ Save(js)
       /\ nextId' = id /\ inflight' = inflight \union {id}
CreateFails ==
    /\ nextId < MaxJobs
    /\ fails < MaxFails /\ fails' = fails + 1
    /\ UNCHANGED history

ActiveOf(r) == {i \in Active(jobs) : jobs[i].reg = r}

\* Work that no action asked for: a schedule or a client request.
Start(r) ==
    /\ boot = "up" /\ ActiveOf(r) = {}
    /\ (Create(r, {}) \/ CreateFails)
    /\ UNCHANGED <<now, actions, admitted, restarts>>

\* updateJob: the verdict of a worker; a failed save keeps it in memory only.
Finish(i, st) ==
    /\ i \in Active(jobs) /\ st \in {"success", "diag"}
    /\ LET js == [jobs EXCEPT ![i].st = st, ![i].fin = now]
       IN (Save(js) \/ SaveFails(js))
    /\ UNCHANGED <<now, nextId, inflight, actions, admitted, restarts>>

\* markWorkerFinished
Unwind(i) ==
    /\ i \in inflight \ Active(jobs)
    /\ inflight' = inflight \ {i}
    /\ UNCHANGED <<now, jobs, disk, nextId, actions, admitted, fails, restarts>>

\* JobManager.Prune at the start of a reconcile pass.
PruneHistory ==
    /\ boot = "up" /\ Prune(jobs) # jobs
    /\ Save(jobs)
    /\ UNCHANGED <<now, nextId, inflight, actions, admitted, restarts>>

-----------------------------------------------------------------------------
(* Retry actions: JobActionManager.apply, one caller at a time             *)

\* prepare: the pending receipt of a new key for a terminal job.
Prepare(k, i) ==
    /\ boot = "up" /\ act = Idle
    /\ receipts[k] = NoReceipt /\ i \in Terminal(jobs)
    /\ \E gone \in Evicted(receipts, MaxReceipts - 1) :
        LET rs == [Without(receipts, gone) EXCEPT ![k] =
                      [outcome |-> "pending", target |-> i,
                       source |-> jobs[i].reg, at |-> now]]
        IN /\ Cardinality(Kept(receipts) \ gone) < MaxReceipts
           /\ \/ /\ receipts' = rs /\ saved' = rs
                 /\ act' = [key |-> k, at |-> "reconcile", reg |-> jobs[i].reg]
                 /\ admitted' = [c \in Keys |-> IF c \in gone THEN 0 ELSE admitted[c]]
                 /\ UNCHANGED fails
              \/ /\ fails < MaxFails /\ fails' = fails + 1
                 /\ UNCHANGED <<receipts, saved, act, admitted>>
    /\ UNCHANGED <<now, history, boot, todo, restarts>>

\* Where a pending receipt is taken up again, by its key or at a start.
MayResume(k) ==
    /\ act = Idle /\ k \in Pending(receipts)
    /\ boot = "up" \/ (boot = "recover" /\ k \in todo)

\* An admitted job carries the key: nothing is driven again, only settled.
ReplayAdmitted(k) ==
    /\ MayResume(k) /\ Pinned(jobs, k) # {}
    /\ act' = [key |-> k, at |-> "settle", reg |-> NoKey]
    /\ UNCHANGED <<now, history, receipts, saved, boot, todo, admitted, fails, restarts>>

\* The job the receipt names, and if it is not retained the authority kept in
\* the receipt, says which registration is reconciled.
Authority(k) ==
    LET i == receipts[k].target
    IN IF i \in Live(jobs) THEN jobs[i].reg ELSE receipts[k].source
\* Mutant: a pending receipt is driven again without looking for its job.
ReplayBlindly(k) ==
    /\ MayResume(k)
    /\ act' = [key |-> k, at |-> "reconcile", reg |-> Authority(k)]
    /\ UNCHANGED <<now, history, receipts, saved, boot, todo, admitted, fails, restarts>>
ReplayUnadmitted(k) ==
    /\ MayResume(k) /\ Pinned(jobs, k) = {}
    /\ (boot = "up") => receipts[k].target \notin Active(jobs)
    /\ act' = [key |-> k, at |-> "reconcile", reg |-> Authority(k)]
    /\ UNCHANGED <<now, history, receipts, saved, boot, todo, admitted, fails, restarts>>
\* A settled key is only released again, should the release have failed.
ReplaySettled(k) ==
    /\ boot = "up" /\ act = Idle /\ k \in Settled(receipts)
    /\ act' = [key |-> k, at |-> "release", reg |-> NoKey]
    /\ UNCHANGED <<now, history, receipts, saved, boot, todo, admitted, fails, restarts>>

\* The reconcile fails (fence, busy writer, unreadable cache, failed write):
\* the receipt stays pending.
GiveUp ==
    /\ act' = Idle
    /\ todo' = todo \ {act.key}
ReconcileFails ==
    /\ act.at = "reconcile" /\ GiveUp
    /\ UNCHANGED <<now, history, receipts, saved, boot, admitted, fails, restarts>>

ToSettle == act' = [act EXCEPT !.at = "settle"] /\ UNCHANGED todo

NoWorkNeeded ==
    /\ act.at = "reconcile" /\ ActiveOf(act.reg) = {}
    /\ ToSettle
    /\ UNCHANGED <<now, history, receipts, saved, boot, admitted, fails, restarts>>

\* The pin is part of the same save as the job.
AdmitCreated ==
    /\ act.at = "reconcile" /\ ActiveOf(act.reg) = {}
    /\ \/ /\ Create(act.reg, {act.key}) /\ ToSettle
          /\ admitted' = [admitted EXCEPT ![act.key] = @ + 1]
       \/ /\ CreateFails /\ GiveUp
          /\ UNCHANGED admitted
    /\ UNCHANGED <<now, receipts, saved, boot, restarts>>

\* AttachActionIntent writes without pruning; createCoalescedJobWithIntent,
\* which finds the active job in a race, saves.
AdmitCoalesced(i) ==
    /\ act.at = "reconcile" /\ i \in ActiveOf(act.reg)
    /\ LET js == [jobs EXCEPT ![i].pins = @ \union {act.key}]
       IN \/ /\ jobs' \in {js, Prune(js)} /\ disk' = jobs'
             /\ ToSettle
             /\ admitted' = [admitted EXCEPT ![act.key] = @ + 1]
             /\ UNCHANGED fails
          \/ /\ fails < MaxFails /\ fails' = fails + 1
             /\ GiveUp
             /\ UNCHANGED <<jobs, disk, admitted>>
    /\ UNCHANGED <<now, nextId, inflight, receipts, saved, boot, restarts>>

SettledReceipts(k) == [receipts EXCEPT ![k].outcome = "settled"]

\* The terminal receipt replaces the pending one.  At a start it does so in
\* memory, and all of them are saved together.
Settle ==
    /\ act.at = "settle"
    /\ \/ /\ boot = "up"
          /\ receipts' = SettledReceipts(act.key) /\ saved' = receipts'
          /\ act' = [act EXCEPT !.at = "release"]
          /\ UNCHANGED <<todo, fails>>
       \/ /\ boot = "up"
          /\ fails < MaxFails /\ fails' = fails + 1
          /\ act' = Idle
          /\ UNCHANGED <<receipts, saved, todo>>
       \/ /\ boot = "recover"
          /\ receipts' = SettledReceipts(act.key)
          /\ GiveUp
          /\ UNCHANGED <<saved, fails>>
    /\ UNCHANGED <<now, history, boot, admitted, restarts>>

\* ReleaseActionIntent: the history without the pin is written first and then
\* saved, which prunes; the second write may fail alone.
Release(k) ==
    \/ jobs' = Prune(Unpin(jobs, k)) /\ disk' = jobs' /\ UNCHANGED fails
    \/ /\ fails < MaxFails /\ fails' = fails + 1
       /\ \/ jobs' = Unpin(jobs, k) /\ disk' = jobs'
          \/ UNCHANGED <<jobs, disk>>
ReleasePin ==
    /\ act.at = "release"
    /\ IF Pinned(jobs, act.key) = {} THEN UNCHANGED <<jobs, disk, fails>>
                                     ELSE Release(act.key)
    /\ act' = Idle
    /\ UNCHANGED <<now, nextId, inflight, receipts, saved, boot, todo, admitted, restarts>>

-----------------------------------------------------------------------------
(* Starts                                                                  *)

Interrupt(js) ==
    [i \in Ids |-> IF i \in Active(js) THEN [js[i] EXCEPT !.st = "diag", !.fin = now]
                   ELSE js[i]]
\* Mutant: the next id to hand out instead of the last one in use.
HighestIdPlusOne(js) == CHOOSE n \in 1..(MaxJobs + 1) :
    /\ n = 1 \/ n - 1 \in Live(js)
    /\ \A i \in Live(js) : i < n
HighestId(js) == CHOOSE n \in 0..MaxJobs :
    /\ n = 0 \/ n \in Live(js)
    /\ \A i \in Live(js) : i <= n

\* The process ends anywhere; LoadAndMarkInterrupted and the reading half of
\* JobActionManager.Load.  A load that cannot write does not come up.
Restart ==
    /\ restarts < MaxRestarts /\ restarts' = restarts + 1
    /\ Save(Interrupt(disk))
    /\ nextId' = HighestId(disk) /\ inflight' = {}
    /\ receipts' = saved /\ act' = Idle
    /\ boot' = "recover" /\ todo' = Pending(saved)
    /\ UNCHANGED <<now, saved, admitted>>

\* recoverPendingLocked is through: one write for everything it settled.
BootSave ==
    /\ boot = "recover" /\ todo = {} /\ act = Idle
    /\ saved' = receipts /\ boot' = "release"
    /\ UNCHANGED <<now, history, receipts, act, todo, admitted, fails, restarts>>

\* Load releases the pins of all settled retries; a failed release fails the start.
BootRelease(k) ==
    /\ boot = "release" /\ k \in Settled(receipts) /\ Pinned(jobs, k) # {}
    /\ jobs' = Prune(Unpin(jobs, k)) /\ disk' = jobs'
    /\ UNCHANGED <<now, nextId, inflight, actions, admitted, fails, restarts>>
BootDone ==
    /\ boot = "release"
    /\ \A k \in Settled(receipts) : Pinned(jobs, k) = {}
    /\ boot' = "up"
    /\ UNCHANGED <<now, history, receipts, saved, act, todo, admitted, fails, restarts>>

-----------------------------------------------------------------------------
HistoryNext ==
    \/ Tick \/ PruneHistory
    \/ \E r \in Regs : Start(r)
    \/ \E i \in Ids, st \in {"success", "diag"} : Finish(i, st)
    \/ \E i \in Ids : Unwind(i) \/ AdmitCoalesced(i)
    \/ \E k \in Keys, i \in Ids : Prepare(k, i)
    \/ \E k \in Keys : \/ ReplayAdmitted(k) \/ ReplayUnadmitted(k)
                       \/ ReplaySettled(k) \/ BootRelease(k)
    \/ ReconcileFails \/ NoWorkNeeded \/ AdmitCreated \/ Settle \/ ReleasePin
    \/ Restart \/ BootSave \/ BootDone

HistorySpec == HistoryInit /\ [][HistoryNext]_historyVars

-----------------------------------------------------------------------------
(* Properties                                                              *)

HistoryTypeOK ==
    /\ now \in 0..MaxTime /\ nextId \in 0..MaxJobs /\ inflight \subseteq Ids
    /\ jobs \in [Ids -> Job \union {NoJob}] /\ disk \in [Ids -> Job \union {NoJob}]
    /\ receipts \in [Keys -> Receipt \union {NoReceipt}]
    /\ saved \in [Keys -> Receipt \union {NoReceipt}]
    /\ act \in [key: Keys \union {NoKey}, at: {"idle", "reconcile", "settle", "release"},
                reg: Regs \union {NoKey}]
    /\ boot \in {"up", "recover", "release"} /\ todo \subseteq Keys
    /\ admitted \in [Keys -> Nat]
    /\ fails \in 0..MaxFails /\ restarts \in 0..MaxRestarts

\* A retry intent for which a job was admitted, and whose receipt on disk is
\* still pending, finds that job after a crash: it is in jobs.json under the
\* pin, whatever was pruned meanwhile.
AdmissionIsEvident ==
    \A k \in Pending(saved) : admitted[k] > 0 => Pinned(disk, k) # {}

\* No pin outlives the receipt that releases it: such a job would be protected
\* from pruning for ever.
PinsHaveReceipts ==
    \A k \in Keys : Pinned(jobs, k) \union Pinned(disk, k) # {} => saved[k] # NoReceipt

\* Each durable claim is worked on at most once and is forgotten only when
\* settled, across crashes at every point of the action.
claimOf == [k \in Keys |-> IF saved[k] = NoReceipt THEN "none" ELSE saved[k].outcome]
Ledger == INSTANCE IntentLedger WITH
    claim <- claimOf, worked <- admitted
ExactlyOnce == Ledger!LedgerSpec

\* Between them: an intent keeps the job that answers it as long as its receipt
\* is open, and no longer (jobs.go pruneLocked, job_actions.go
\* pruneToLimitLocked).
IntentsAreKept == AdmissionIsEvident /\ PinsHaveReceipts
=============================================================================
