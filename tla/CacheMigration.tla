--------------------------- MODULE CacheMigration ---------------------------
(***************************************************************************)
(* migrate-cache --confirm (executeMigrateCacheCommand): the command       *)
(* quiesces the daemon, upgrades the cache in one transaction, installs    *)
(* and starts a compatible daemon and leaves a receipt.  A recovery intent *)
(* beside the cache lets a later run resume when one dies on the way.      *)
(*                                                                         *)
(* Abstractions: the schema is old or new and so is a binary; an intent    *)
(* that cannot be written looks like the death of the command; backup and  *)
(* identity verification are one evidence flag (CacheSchema has them).     *)
(***************************************************************************)
EXTENDS ServiceLifecycle

CONSTANTS Commands,     \* migrate-cache processes
          MaxCommands,  \* bound: runs of the command
          NoIntent, NoReceipt

ASSUME CommandAssumption ==
    /\ MaxCommands \in Nat
    /\ Commands \cap ({"free"} \union Kinds) = {}
ASSUME ValueAssumption ==
    /\ NoState \notin [pid: 1..MaxBoots, bin: Binaries]
    /\ NoIntent \notin [evidence: BOOLEAN, installed: BOOLEAN, wasRunning: BOOLEAN]

VARIABLES schema,       \* the schema of the cache file
          lease,        \* holder of the cache's writer lock, or "free"
          intent,       \* the recovery intent file
          receipt,      \* the completion receipt file
          command,      \* the running commands
          stopped,      \* ghost: a command stopped a running daemon
          commands      \* runs so far

migrationState == <<schema, lease, intent, receipt, command, stopped, commands>>
migrationVars == <<serviceVars, migrationState>>

Intent == [evidence: BOOLEAN, installed: BOOLEAN, wasRunning: BOOLEAN]
Absent == [installed |-> FALSE, running |-> FALSE, pid |-> FALSE]
AtRest == [at |-> "idle", needs |-> FALSE, mem |-> NoIntent, status |-> Absent]

Goto(c, step) == command' = [command EXCEPT ![c].at = step]
Give(c) == /\ command' = [command EXCEPT ![c] = AtRest]
           /\ lease' = IF lease = c THEN "free" ELSE lease
Pending(c) == command[c].mem # NoIntent

MigrationInit ==
    /\ ServiceInit
    /\ schema = "old"
    /\ lease = "free"
    /\ intent = NoIntent /\ receipt = NoReceipt
    /\ command = [c \in Commands |-> AtRest]
    /\ stopped = FALSE
    /\ commands = 0

-----------------------------------------------------------------------------
Inspect(c) ==
    /\ command[c].at = "idle" /\ commands < MaxCommands
    /\ commands' = commands + 1
    /\ command' = [command EXCEPT ![c].at = "status", ![c].needs = (schema = "old")]
    /\ UNCHANGED <<serviceVars, schema, lease, intent, receipt, stopped>>

ReadStatus(c) ==
    /\ command[c].at = "status"
    /\ command' = [command EXCEPT ![c].at = "plan", ![c].mem = intent,
                                  ![c].status = ServiceStatus]
    /\ UNCHANGED <<serviceVars, schema, lease, intent, receipt, stopped, commands>>

AfterQuiesce(c, mem) == IF command[c].needs THEN "migrate"
                        ELSE IF mem # NoIntent THEN "install" ELSE "idle"

Plan(c) ==
    LET s == command[c].status
        plans == command[c].needs /\ ~Pending(c) /\ (s.installed \/ s.pid)
        mem == IF plans THEN [evidence |-> FALSE, installed |-> s.installed,
                              wasRunning |-> s.running]
               ELSE command[c].mem
        next == IF s.pid /\ (command[c].needs \/ mem # NoIntent) THEN "quiesce"
                ELSE AfterQuiesce(c, mem)
    IN  /\ command[c].at = "plan"
        /\ intent' = IF plans THEN mem ELSE intent
        /\ command' = [command EXCEPT ![c] = IF next = "idle" THEN AtRest
                                             ELSE [@ EXCEPT !.at = next, !.mem = mem]]
        /\ UNCHANGED <<serviceVars, schema, lease, receipt, stopped, commands>>

\* A coordinator that is not installed is refused; the intent stays.
QuiesceRefused(c) ==
    /\ command[c].at = "quiesce"
    /\ Installed \/ StatePidAlive
    /\ Give(c)
    /\ UNCHANGED <<serviceVars, schema, intent, receipt, stopped, commands>>

Quiesce(c) ==
    /\ command[c].at = "quiesce"
    /\ Goto(c, "stopping")
    /\ IF Installed THEN Unload ELSE ~StatePidAlive /\ UNCHANGED <<daemon, socket>>
    /\ stopped' = (stopped \/ (Running /\ Pending(c) /\ command[c].mem.installed
                               /\ command[c].mem.wasRunning))
    /\ UNCHANGED <<unit, stateFile, boots, schema, lease, intent, receipt, commands>>

Stopped(c) ==
    /\ command[c].at = "stopping" /\ ~StatePidAlive /\ ~SocketPresent
    /\ intent' = IF Pending(c) THEN command[c].mem ELSE intent
    /\ Goto(c, AfterQuiesce(c, command[c].mem))
    /\ UNCHANGED <<serviceVars, schema, lease, receipt, stopped, commands>>

StopTimesOut(c) ==
    /\ command[c].at = "stopping" /\ (StatePidAlive \/ SocketPresent)
    /\ Give(c)
    /\ UNCHANGED <<serviceVars, schema, intent, receipt, stopped, commands>>

-----------------------------------------------------------------------------
(* MigrateCacheWithConfirm, then what it proved goes into the intent       *)

TakeLease(c) ==
    /\ command[c].at = "migrate" /\ lease = "free"
    /\ lease' = c
    /\ Goto(c, "upgrade")
    /\ UNCHANGED <<serviceVars, schema, intent, receipt, stopped, commands>>

\* A cache that is current by now is left alone: no backup, no evidence.
Migrate(c) ==
    /\ command[c].at = "upgrade"
    /\ schema' = "new"
    /\ lease' = "free"
    /\ command' = [command EXCEPT
           ![c] = IF Pending(c)
                  THEN [@ EXCEPT !.at = "journal", !.mem.evidence = (schema = "old")]
                  ELSE AtRest]
    /\ UNCHANGED <<serviceVars, intent, receipt, stopped, commands>>

Journal(c) ==
    /\ command[c].at = "journal"
    /\ intent' = command[c].mem
    /\ Goto(c, "install")
    /\ UNCHANGED <<serviceVars, schema, lease, receipt, stopped, commands>>

\* A busy lease or a failed transaction: the daemon that was running is
\* started again, otherwise the intent is simply dropped.
ForgetFailure(c) ==
    /\ Give(c)
    /\ intent' = IF Pending(c) THEN NoIntent ELSE intent
AfterFailure(c) ==
    IF Pending(c) /\ command[c].mem.installed /\ command[c].mem.wasRunning
    THEN /\ Goto(c, "restart") /\ UNCHANGED intent
         /\ lease' = IF lease = c THEN "free" ELSE lease
    ELSE ForgetFailure(c)
CommandFails(c) ==
    /\ \/ command[c].at = "migrate" /\ lease # "free"
       \/ command[c].at = "upgrade"
    /\ AfterFailure(c)
    /\ UNCHANGED <<serviceVars, schema, receipt, stopped, commands>>

\* Start asks the platform manager and waits until Status says running.
Restarted(c) ==
    /\ command[c].at = "restart"
    /\ Installed => Running
    /\ intent' = NoIntent
    /\ Give(c)
    /\ UNCHANGED <<serviceVars, schema, receipt, stopped, commands>>
RestartFails(c) ==
    /\ command[c].at = "restart" /\ Installed
    /\ Give(c)
    /\ UNCHANGED <<serviceVars, schema, intent, receipt, stopped, commands>>

-----------------------------------------------------------------------------
GiveUp(c) == Give(c) /\ intent' = command[c].mem

InstallCompatible(c) ==
    /\ command[c].at = "install"
    /\ IF ~command[c].mem.installed
       THEN Goto(c, "evidence") /\ UNCHANGED <<serviceVars, lease, intent>>
       ELSE IF StatePidAlive \/ SocketPresent \/ ~Installed
            THEN GiveUp(c) /\ UNCHANGED serviceVars
            ELSE /\ Install("new")
                 /\ intent' = command[c].mem
                 /\ Goto(c, "health")
                 /\ UNCHANGED lease
    /\ UNCHANGED <<schema, receipt, stopped, commands>>

Healthy(c) ==
    /\ command[c].at = "health" /\ Running
    /\ IF stateFile.bin = "new" THEN Goto(c, "evidence") /\ UNCHANGED <<lease, intent>>
       ELSE GiveUp(c)
    /\ UNCHANGED <<serviceVars, schema, receipt, stopped, commands>>
HealthTimesOut(c) ==
    /\ command[c].at = "health"
    /\ GiveUp(c)
    /\ UNCHANGED <<serviceVars, schema, receipt, stopped, commands>>

Proved(c) == command[c].mem.evidence
CheckEvidence(c) ==
    /\ command[c].at = "evidence"
    /\ IF Proved(c) THEN Goto(c, "receipt") /\ UNCHANGED <<lease, intent>>
       ELSE GiveUp(c)
    /\ UNCHANGED <<serviceVars, schema, receipt, stopped, commands>>

WriteReceipt(c) ==
    /\ command[c].at = "receipt"
    /\ receipt' = [evidence |-> command[c].mem.evidence,
                   bin |-> IF command[c].mem.installed THEN "new" ELSE "none"]
    /\ Goto(c, "clear")
    /\ UNCHANGED <<serviceVars, schema, lease, intent, stopped, commands>>

ClearIntent(c) ==
    /\ command[c].at = "clear"
    /\ intent' = NoIntent
    /\ Give(c)
    /\ UNCHANGED <<serviceVars, schema, receipt, stopped, commands>>

CommandCrash(c) ==
    /\ command[c].at # "idle"
    /\ Give(c)
    /\ UNCHANGED <<serviceVars, schema, intent, receipt, stopped, commands>>

-----------------------------------------------------------------------------
(* The daemon writes the cache under the lease; its death frees it         *)

DaemonWrites(k) ==
    /\ lease = "free"
    /\ daemon[k].at = "serving" /\ daemon[k].bin = schema
    /\ lease' = k
    /\ UNCHANGED <<serviceVars, schema, intent, receipt, command, stopped, commands>>
DaemonWrote(k) ==
    /\ lease = k
    /\ lease' = "free"
    /\ UNCHANGED <<serviceVars, schema, intent, receipt, command, stopped, commands>>

ServiceStep ==
    /\ ServiceNext
    /\ lease' = IF lease \in Kinds /\ daemon'[lease].at = "off" THEN "free" ELSE lease
    /\ stopped' = (stopped /\ unit' # "none" /\ \A k \in Kinds : daemon'[k].at # "serving")
    /\ UNCHANGED <<schema, intent, receipt, command, commands>>

MigrationNext ==
    \/ ServiceStep
    \/ \E k \in Kinds : DaemonWrites(k) \/ DaemonWrote(k)
    \/ \E c \in Commands :
         \/ Inspect(c) \/ ReadStatus(c) \/ Plan(c)
         \/ QuiesceRefused(c) \/ Quiesce(c) \/ Stopped(c) \/ StopTimesOut(c)
         \/ TakeLease(c) \/ Migrate(c) \/ CommandFails(c) \/ Journal(c)
         \/ Restarted(c) \/ RestartFails(c)
         \/ InstallCompatible(c) \/ Healthy(c) \/ HealthTimesOut(c)
         \/ CheckEvidence(c) \/ WriteReceipt(c) \/ ClearIntent(c) \/ CommandCrash(c)

MigrationSpec == MigrationInit /\ [][MigrationNext]_migrationVars

-----------------------------------------------------------------------------
AllIdle == \A c \in Commands : command[c].at = "idle"

\* Types of the cache, its files and the commands; a lease does not outlive
\* the transaction or the process that took it.
MigrationTypeOK ==
    /\ ServiceTypeOK
    /\ schema \in Binaries
    /\ lease \in {"free"} \union Kinds \union Commands
    /\ intent \in Intent \union {NoIntent}
    /\ receipt \in [evidence: BOOLEAN, bin: {"new", "none"}] \union {NoReceipt}
    /\ \A c \in Commands : /\ command[c].mem \in Intent \union {NoIntent}
                           /\ lease = c <=> command[c].at = "upgrade"
    /\ lease \in Kinds => daemon[lease].at # "off"
    /\ stopped \in BOOLEAN /\ commands \in 0..MaxCommands

\* A receipt is the evidence of a verified upgrade that did take place.
ReceiptIsEarned == receipt # NoReceipt => schema = "new" /\ receipt.evidence

\* The command that stops a running daemon to migrate never leaves it stopped
\* without an intent that says so, whatever fails or dies on the way.
StoppedIsRemembered == stopped /\ AllIdle => intent # NoIntent

\* A migration is accounted for at any time: its receipt is earned, and a
\* daemon that it stopped is not forgotten (cli.go executeMigrateCacheCommand).
MigrationIsAccounted == ReceiptIsEarned /\ StoppedIsRemembered

\* The command and the service it stops and starts agree on what happened
\* (migrate_cache.go and manager.go).
MigrationIsSound == MigrationIsAccounted /\ ReadyIsListening
=============================================================================
