---------------------------- MODULE CacheSchema ----------------------------
(***************************************************************************)
(* The schema of one cache file and the processes that open or upgrade it: *)
(* compatibility check, writer lease, migrations 1 to 21, the backup of    *)
(* migrate-cache, and crashes between any two steps.                       *)
(*                                                                         *)
(* Abstractions: a schema is the set of its tables and of the columns that *)
(* some migration adds later; the rows are the set of tables that have     *)
(* any; a cache file is what its main file and its WAL say together, and   *)
(* unflushed tells that the main file alone says less.                     *)
(***************************************************************************)
EXTENDS Integers, FiniteSets

CONSTANTS Clients,      \* processes that open the cache
          MaxVisits,    \* bound: opens and upgrades
          NoClient

ASSUME VisitAssumption == MaxVisits \in Nat /\ NoClient \notin Clients

VARIABLES cache,        \* the cache file
          backups,      \* the backup files beside it
          holder,       \* who holds the writer lock file
          client,       \* what each process is doing: [at, version it saw, its backup file]
          born,         \* ghost: the version the file was found at
          visits        \* opens and upgrades so far

schemaVars == <<cache, backups, holder, client, born, visits>>

CurrentVersion == 21            \* currentSchemaVersion
Unversioned == -1       \* there is no schema_version table

-----------------------------------------------------------------------------
(* What each migration creates                                             *)

ApplyInitial == {"repos", "sources", "chunks", "identity_map", "links",
                 "remote_revisions", "sync_events", "sync_frontiers", "conflicts"}
ApplyRepoScopedCache == {"records", "record_comments", "audit_trail", "snapshots",
                         "snapshot_chunks"}
ApplyChunkPolicy == {"chunks.policy"}
ApplyStoredSnapshot == {"snapshots.manifest", "snapshot_chunks.ordinal"}
ApplySyncEventTimestamps == {"sync_events.started_at"}
ApplySyncEventZeroDelta == {"sync_events.zero_delta"}
ApplyAuditIdempotency == {"audit_trail.unique_key"}
ApplyCacheConfirmations == {"cache_confirmations"}
ApplyAuditConfirmations == {"audit_trail.command"}
ApplySourceOriginProvenance == {"sources.provenance"}
ApplyRecordProvenance == {"records.live_provenance"}
ApplyPRReviewComments == {"pr_review_comments"}
ApplyPRReviewPositions == {"pr_review_discussions", "pr_review_positions"}
ApplySyncFrontiers == {"sync_frontiers"}
ApplyRAGEmbedding == {"embedding_namespaces", "chunk_embeddings", "rag_index_runs"}
ApplyIssueCommentSync == {"issue_comment_sync"}
ApplyMaintenanceLifecycle == {"cache_identity", "repo_content_state", "rag_coverage_state",
                              "maintenance_frontiers"}
ApplyRepositoryDocs == {"repo_doc_revision_sets", "repo_doc_chunks",
                        "repo_doc_membership", "repo_doc_vectors"}
ApplyRepositoryDocsIdentity == {"revision_sets.registration", "repo_doc_exclusions"}
ApplySyncCommitReceipts == {"sync_commit_receipts"}
ApplyMaintenanceLastSuccess == {"maintenance_frontiers.last_success_at"}

Migrations == <<ApplyInitial, ApplyRepoScopedCache, ApplyChunkPolicy, ApplyStoredSnapshot,
    ApplySyncEventTimestamps, ApplySyncEventZeroDelta, ApplyAuditIdempotency,
    ApplyCacheConfirmations, ApplyAuditConfirmations, ApplySourceOriginProvenance,
    ApplyRecordProvenance, ApplyPRReviewComments, ApplyPRReviewPositions,
    ApplySyncFrontiers, ApplyRAGEmbedding, ApplyIssueCommentSync,
    ApplyMaintenanceLifecycle, ApplyRepositoryDocs, ApplyRepositoryDocsIdentity,
    ApplySyncCommitReceipts, ApplyMaintenanceLastSuccess>>

\* Columns and tables that today's CREATE statements of an earlier migration
\* already include: a new file has them from the start, an old one may not.
Early == [v \in 1..CurrentVersion |->
            CASE v = 1 -> ApplyChunkPolicy \union ApplySyncEventTimestamps
                            \union ApplySyncEventZeroDelta \union ApplySourceOriginProvenance
              [] v = 2 -> ApplyStoredSnapshot \union ApplyAuditConfirmations
                            \union ApplyAuditIdempotency
              [] OTHER -> {}]
Upto(v) == {u \in 1..CurrentVersion : u <= v}
Guaranteed(v) == UNION {Migrations[u] : u \in Upto(v)}

Tables == {"sources", "records", "record_comments", "cache_confirmations",
           "maintenance_frontiers", "repo_content_state", "last_success_at"}

\* Migration 11 copies records, drops the old table and renames the new one.
\* Its PRAGMA foreign_keys = OFF has no effect inside the transaction, and
\* dropping the table cascades to the tables that refer to it.
RowsAfter(pending, rows) ==
    (IF 11 \in pending THEN rows \ {"record_comments", "cache_confirmations"} ELSE rows)
        \union {t \in {"repo_content_state"} : 17 \in pending /\ "sources" \in rows}
        \union {t \in {"last_success_at"} : 21 \in pending /\ "maintenance_frontiers" \in rows}

\* The pending migrations in their order: CREATE TABLE IF NOT EXISTS, ADD COLUMN
\* only when the column is missing.
Migrated(c, from, to) ==
    LET pending == (from + 1)..to
    IN  [c EXCEPT !.version = to, !.rows = RowsAfter(pending, @),
                  !.schema = @ \union UNION {Early[v] \union Migrations[v] : v \in pending}]

-----------------------------------------------------------------------------
(* CheckVersionCompatibility                                               *)

Blank(c) == c.version = Unversioned /\ c.schema = {}
Compatible(c) == Blank(c) \/ c.version \in 1..CurrentVersion
PermitWrites(c) == Blank(c) \/ c.version = CurrentVersion
IsCurrent(c) == c.version = CurrentVersion

Settled(c) == [version |-> c.version, rows |-> c.rows]     \* what a checkpoint leaves
At0 == [at |-> "idle", seen |-> 0, copy |-> {}]
To(p, step) == client' = [client EXCEPT ![p].at = step]
QuitWithLock(p) == client' = [client EXCEPT ![p] = At0] /\ UNCHANGED holder
Quit(p) == /\ client' = [client EXCEPT ![p] = At0]
           /\ holder' = IF holder = p THEN NoClient ELSE holder

-----------------------------------------------------------------------------
Found(v, early, full, flushed) ==
    LET schema == IF v < 0 THEN IF full THEN ApplyInitial ELSE {}
                  ELSE Guaranteed(v) \union
                       (IF early THEN UNION {Early[u] : u \in Upto(v)} ELSE {})
        rows == {t \in Tables : /\ full
                                /\ t = "last_success_at" => v >= 21
                                /\ t \in {"maintenance_frontiers", "repo_content_state"} => v >= 17
                                /\ t = "cache_confirmations" => v >= 8
                                /\ t \in {"records", "record_comments"} => v >= 2
                                /\ v >= 1}
    IN  [version |-> v, schema |-> schema, rows |-> rows,
         main |-> [version |-> v, rows |-> IF flushed THEN rows ELSE {}]]

SchemaInit ==
    /\ \E v \in Unversioned..(CurrentVersion + 1), early, full, flushed \in BOOLEAN :
          cache = Found(v, early, full, flushed) /\ born = v
    /\ backups = {}
    /\ holder = NoClient
    /\ client = [p \in Clients |-> At0]
    /\ visits = 0

\* newSQLiteStore: the check is made without the lease.
Open(p) ==
    /\ client[p].at = "idle" /\ visits < MaxVisits
    /\ visits' = visits + 1
    /\ To(p, CASE ~PermitWrites(cache) -> "idle"
               [] PermitWrites(cache) /\ IsCurrent(cache) -> "ready"
               [] OTHER -> "locking")
    /\ UNCHANGED <<cache, backups, holder, born>>

OpenContended(p) ==
    /\ client[p].at = "locking" /\ holder # NoClient
    /\ Quit(p)
    /\ UNCHANGED <<cache, backups, born, visits>>

\* CREATE TABLE schema_version is a statement of its own; the version is read
\* again, under the lease.
Recheck(p) == IF cache.version = Unversioned THEN 0 ELSE cache.version

BeginMigrations(p) ==
    /\ client[p].at = "locking" /\ holder = NoClient
    /\ holder' = p
    /\ cache' = [cache EXCEPT !.version = IF @ = Unversioned THEN 0 ELSE @]
    /\ client' = [client EXCEPT ![p].at = "migrating", ![p].seen = Recheck(p)]
    /\ UNCHANGED <<backups, born, visits>>

MigrateNext(p) ==
    /\ client[p].at = "migrating" /\ client[p].seen < CurrentVersion
    /\ cache' = Migrated(cache, client[p].seen, client[p].seen + 1)
    /\ client' = [client EXCEPT ![p].seen = @ + 1]
    /\ UNCHANGED <<backups, holder, born, visits>>

MigrateFails(p) ==
    /\ client[p].at = "migrating" /\ client[p].seen < CurrentVersion
    /\ Quit(p)
    /\ UNCHANGED <<cache, backups, born, visits>>

FinishOpen(p) ==
    /\ client[p].at = "migrating" /\ client[p].seen >= CurrentVersion
    /\ To(p, "ready")
    /\ holder' = NoClient
    /\ UNCHANGED <<cache, backups, born, visits>>

\* NewSQLiteReadOnlyStore
OpenReadOnly(p) ==
    /\ client[p].at = "idle" /\ visits < MaxVisits
    /\ Compatible(cache)
    /\ visits' = visits + 1
    /\ To(p, "reading")
    /\ UNCHANGED <<cache, backups, holder, born>>

Leave(p) ==
    /\ client[p].at \in {"ready", "reading"}
    /\ Quit(p)
    /\ UNCHANGED <<cache, backups, born, visits>>

WriteRows(p) ==
    /\ client[p].at = "ready"
    /\ cache' = [cache EXCEPT !.rows = Tables]
    /\ UNCHANGED <<backups, holder, client, born, visits>>

-----------------------------------------------------------------------------
(* MigrateCacheWithConfirm                                                 *)

Upgrading == {"checking", "copying", "verifying", "upgrading"}

Upgrade(p) ==
    /\ client[p].at = "idle" /\ visits < MaxVisits
    /\ holder = NoClient
    /\ visits' = visits + 1
    /\ holder' = p
    /\ To(p, "checking")
    /\ UNCHANGED <<cache, backups, born>>

Upgradable(c) == Compatible(c) /\ c.version > 1 /\ ~IsCurrent(c)

DeclineUpgrade(p) ==
    /\ client[p].at = "checking" /\ ~Upgradable(cache)
    /\ Quit(p)
    /\ UNCHANGED <<cache, backups, born, visits>>

\* PRAGMA wal_checkpoint(TRUNCATE) answers "busy" as a row that nobody reads:
\* a reader of an old snapshot keeps the main file behind.
FlushForUpgrade(p) ==
    /\ client[p].at = "checking" /\ Upgradable(cache)
    /\ \/ cache' = [cache EXCEPT !.main = Settled(cache)]
       \/ (\E q \in Clients : client[q].at = "reading") /\ UNCHANGED cache
    /\ client' = [client EXCEPT ![p].at = "copying", ![p].seen = cache.version]
    /\ UNCHANGED <<backups, holder, born, visits>>

CopyBackup(p) ==
    /\ client[p].at = "copying"
    /\ backups' = backups \union {cache.main}
    /\ client' = [client EXCEPT ![p].at = "verifying", ![p].copy = {cache.main}]
    /\ UNCHANGED <<cache, holder, born, visits>>

\* A backup of another version than the one to upgrade from is removed.
VerifyBackup(p) ==
    /\ client[p].at = "verifying"
    /\ IF \A b \in client[p].copy : b.version = client[p].seen
       THEN To(p, "upgrading") /\ UNCHANGED <<backups, holder>>
       ELSE backups' = backups \ client[p].copy /\ Quit(p)
    /\ UNCHANGED <<cache, born, visits>>

\* Every pending migration and the verification are one transaction.
CommitUpgrade(p) ==
    /\ client[p].at = "upgrading"
    /\ cache' = Migrated(cache, cache.version, CurrentVersion)
    /\ Quit(p)
    /\ UNCHANGED <<backups, born, visits>>

UpgradeFails(p) ==
    /\ client[p].at \in Upgrading
    /\ backups' \in {backups, IF client[p].at = "verifying"
                              THEN backups \ client[p].copy ELSE backups}
    /\ Quit(p)
    /\ UNCHANGED <<cache, born, visits>>

-----------------------------------------------------------------------------
\* SQLite writes the WAL back on its own account.
AutoCheckpoint ==
    /\ cache' = [cache EXCEPT !.main = Settled(cache)]
    /\ UNCHANGED <<backups, holder, client, born, visits>>

\* An open transaction is rolled back; the kernel drops the lock.
ClientCrash(p) ==
    /\ client[p].at # "idle"
    /\ Quit(p)
    /\ UNCHANGED <<cache, backups, born, visits>>

SchemaNext ==
    \/ AutoCheckpoint
    \/ \E p \in Clients :
         \/ Open(p) \/ OpenContended(p) \/ BeginMigrations(p) \/ MigrateNext(p)
         \/ MigrateFails(p) \/ FinishOpen(p) \/ OpenReadOnly(p) \/ Leave(p)
         \/ WriteRows(p) \/ Upgrade(p) \/ DeclineUpgrade(p) \/ FlushForUpgrade(p)
         \/ CopyBackup(p) \/ VerifyBackup(p) \/ CommitUpgrade(p)
         \/ UpgradeFails(p) \/ ClientCrash(p)

SchemaSpec == SchemaInit /\ [][SchemaNext]_schemaVars

-----------------------------------------------------------------------------
Snapshots == [version: Unversioned..(CurrentVersion + 1), rows: SUBSET Tables]

\* Types of the cache file, its backups, the lock and the processes.
SchemaTypeOK ==
    /\ cache.version \in Unversioned..(CurrentVersion + 1)
    /\ cache.rows \subseteq Tables
    /\ cache.main \in Snapshots
    /\ backups \subseteq Snapshots
    /\ holder \in Clients \union {NoClient}
    /\ client \in [Clients -> [at: {"idle", "locking", "migrating", "ready", "reading"}
                                     \union Upgrading,
                               seen: 0..CurrentVersion, copy: SUBSET Snapshots]]
    /\ visits \in 0..MaxVisits

\* Whatever the order in which processes check, lock and migrate, the version
\* of a cache only grows: nobody migrates from the version of an old check.
VersionNeverFalls == [][cache'.version >= cache.version]_schemaVars

\* A cache at a version has all that the migrations up to it promise, also when
\* it was made by an older build and upgraded in one transaction.
SchemaIsWhole == cache.version >= 1 => Guaranteed(cache.version) \subseteq cache.schema

\* The writer lock file is held exactly while its holder migrates: no two
\* migrators, and no lock left behind by an error or a death.
OneMigrator ==
    \A p \in Clients : (client[p].at \in Upgrading \union {"migrating"}) <=> (holder = p)

\* A process that may write works on the current schema, although others
\* create, migrate and upgrade the same file.
WritersSeeCurrent == \A p \in Clients : client[p].at = "ready" => cache.version = CurrentVersion

\* A cache that was found at an older version only changes version when a
\* verified backup of that version is beside it.
OldCacheIsBackedUp ==
    born \in 2..(CurrentVersion - 1) /\ cache.version # born
        => \E b \in backups : b.version = born

\* Cached content always has a content generation, so that the maintenance of
\* derived indexes sees it (seeded by migration 17, then kept by triggers).
ContentIsCounted ==
    cache.version >= 17 /\ "sources" \in cache.rows => "repo_content_state" \in cache.rows

\* Openers and upgraders exclude one another, and nobody writes to a schema
\* that is not the one its build expects (sqlite.go, lock_unix.go, migrate.go).
MigratorsExclude == OneMigrator /\ WritersSeeCurrent

\* Whatever fails or dies during an upgrade, the cache is of one version whole,
\* counted, and beside its backup (schema.go, migrate.go).
UpgradesAreWhole == SchemaIsWhole /\ OldCacheIsBackedUp /\ ContentIsCounted
=============================================================================
