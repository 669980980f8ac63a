------------------------- MODULE CacheSchema_proofs -------------------------
(***************************************************************************)
(* Any number of processes open, migrate and upgrade one cache file.  The  *)
(* first check of an opener is made without the lease, so what it saw may  *)
(* be old when it acts; the invariant says what the lease guarantees to    *)
(* its holder (the version it works from is the version of the file) and   *)
(* what the check guarantees to everybody else (a file that was found at   *)
(* an older version is left to migrate-cache).                             *)
(*                                                                         *)
(* The second part is about the rows of the comment queue in that file,    *)
(* the third about migrate-cache, which upgrades it beside the service.    *)
(***************************************************************************)
EXTENDS CacheSchema, CommentQueue, CacheMigration, FiniteSetTheorems, TLAPS

States == {"idle", "locking", "migrating", "ready", "reading"} \union Upgrading
ClientType == [at: States, seen: 0..CurrentVersion, copy: SUBSET Snapshots]

\* The cache file is a record of its four parts.
CacheTyped ==
    /\ cache = [version |-> cache.version, schema |-> cache.schema,
                rows |-> cache.rows, main |-> cache.main]
    /\ cache.version \in Unversioned..(CurrentVersion + 1)
    /\ cache.rows \subseteq Tables
    /\ cache.main \in Snapshots
FilesTyped == backups \subseteq Snapshots /\ visits \in 0..MaxVisits
ClientsTyped ==
    /\ holder \in Clients \union {NoClient}
    /\ client \in [Clients -> ClientType]

\* The holder of the lease works from the version of the file.
SeenIsCurrent ==
    \A p \in Clients :
        /\ client[p].at = "migrating" => cache.version = client[p].seen
        /\ client[p].at \in {"copying", "verifying", "upgrading"} =>
               cache.version = client[p].seen /\ cache.version \in 2..(CurrentVersion - 1)
\* An opener that passed its check does not meet a newer schema at the lock.
LockersFit == \A p \in Clients : client[p].at = "locking" => cache.version <= CurrentVersion
\* A backup is there from its copy to the end of the upgrade.
BackupStays ==
    \A p \in Clients :
        /\ client[p].at = "verifying" => \E s \in backups : client[p].copy = {s}
        /\ client[p].at = "upgrading" => \E s \in backups : s.version = cache.version
\* A file that was found at an older version changes by an upgrade only.
OldIsLeftAlone ==
    born \in 2..(CurrentVersion - 1) =>
        /\ cache.version \in {born, CurrentVersion}
        /\ cache.version # born => \E b \in backups : b.version = born
        /\ \A p \in Clients : client[p].at \notin {"locking", "migrating"}
Whole == cache.version >= 0 => Guaranteed(cache.version) \subseteq cache.schema

SInv ==
    /\ CacheTyped /\ FilesTyped /\ ClientsTyped
    /\ OneMigrator /\ SeenIsCurrent /\ LockersFit /\ WritersSeeCurrent
    /\ BackupStays /\ OldIsLeftAlone
    /\ Whole /\ ContentIsCounted

-----------------------------------------------------------------------------
\* A file as it may be found has what its version promises.
LEMMA FoundFacts ==
    ASSUME NEW v \in Unversioned..(CurrentVersion + 1), NEW early \in BOOLEAN,
           NEW full \in BOOLEAN, NEW flushed \in BOOLEAN, cache = Found(v, early, full, flushed)
    PROVE  CacheTyped /\ cache.version = v /\ Whole /\ ContentIsCounted
<1> DEFINE rows == {t \in Tables : /\ full
                                   /\ t = "last_success_at" => v >= 21
                                   /\ t \in {"maintenance_frontiers", "repo_content_state"} => v >= 17
                                   /\ t = "cache_confirmations" => v >= 8
                                   /\ t \in {"records", "record_comments"} => v >= 2
                                   /\ v >= 1}
           main == [version |-> v, rows |-> IF flushed THEN rows ELSE {}]
<1>1. cache.version = v /\ cache.rows = rows /\ cache.main = main
  BY DEF Found
<1>2. main \in Snapshots
  BY DEF Snapshots, CurrentVersion, Unversioned
<1>3. CacheTyped
  BY <1>1, <1>2 DEF CacheTyped, Found
<1>4. Whole
  BY <1>1 DEF Whole, Found, Unversioned, CurrentVersion
<1>5. ContentIsCounted
  BY <1>1 DEF ContentIsCounted, Tables, Unversioned, CurrentVersion
<1>. QED  BY <1>1, <1>3, <1>4, <1>5

\* The invariant holds of the file as found, with nobody at it.
LEMMA InitSInv == SchemaInit => SInv
<1> SUFFICES ASSUME SchemaInit PROVE SInv
  OBVIOUS
<1>1. CacheTyped /\ cache.version = born /\ Whole /\ ContentIsCounted
  BY FoundFacts DEF SchemaInit
<1>2. FilesTyped /\ ClientsTyped
  BY VisitAssumption DEF SchemaInit, FilesTyped, ClientsTyped, ClientType, States, At0, CurrentVersion
<1>3. \A p \in Clients : client[p].at = "idle" /\ holder # p
  BY VisitAssumption DEF SchemaInit, At0
<1>4. OneMigrator /\ SeenIsCurrent /\ LockersFit /\ WritersSeeCurrent /\ BackupStays
  BY <1>3 DEF OneMigrator, SeenIsCurrent, LockersFit, WritersSeeCurrent, BackupStays, Upgrading
<1>5. OldIsLeftAlone
  BY <1>1, <1>3 DEF OldIsLeftAlone
<1>. QED  BY <1>1, <1>2, <1>4, <1>5 DEF SInv

-----------------------------------------------------------------------------
\* Applying pending migrations from the version of the file: nothing that the
\* new version promises is missing, and cached content is counted.
LEMMA MigratedFacts ==
    ASSUME CacheTyped, Whole, ContentIsCounted,
           NEW to \in 0..CurrentVersion, cache.version \in 0..to,
           cache' = Migrated(cache, cache.version, to)
    PROVE  /\ CacheTyped' /\ Whole' /\ ContentIsCounted'
           /\ cache'.version = to
<1> DEFINE pending == (cache.version + 1)..to
           rows == RowsAfter(pending, cache.rows)
           made == cache.schema \union UNION {Early[v] \union Migrations[v] : v \in pending}
<1>1. cache' = [version |-> to, schema |-> made, rows |-> rows, main |-> cache.main]
  BY DEF Migrated, CacheTyped
<1>2. rows \subseteq Tables
  BY DEF RowsAfter, CacheTyped, Tables
<1>3. CacheTyped' /\ cache'.version = to
  <2> HIDE DEF rows, made
  <2>. QED  BY <1>1, <1>2 DEF CacheTyped, CurrentVersion, Unversioned
<1>4. Whole'
  <2> SUFFICES ASSUME NEW x \in Guaranteed(to) PROVE x \in made
    <3> HIDE DEF rows, made
    <3>. QED  BY <1>1 DEF Whole
  <2>1. PICK u \in Upto(to) : x \in Migrations[u]
    BY DEF Guaranteed
  <2>2. CASE u <= cache.version
    BY <2>1, <2>2 DEF Whole, Guaranteed, Upto
  <2>3. CASE u > cache.version
    BY <2>1, <2>3 DEF Upto, CurrentVersion
  <2>. QED  BY <2>1, <2>2, <2>3 DEF Upto
<1>5. ContentIsCounted'
  <2> SUFFICES ASSUME to >= 17, "sources" \in rows PROVE "repo_content_state" \in rows
    <3> HIDE DEF rows, made
    <3>. QED  BY <1>1 DEF ContentIsCounted
  <2>1. "sources" \in cache.rows
    BY DEF RowsAfter
  <2>2. CASE cache.version >= 17
    BY <2>1, <2>2 DEF ContentIsCounted, RowsAfter
  <2>3. CASE cache.version < 17
    BY <2>1, <2>3 DEF RowsAfter
  <2>. QED  BY <2>2, <2>3
<1>. QED  BY <1>3, <1>4, <1>5

-----------------------------------------------------------------------------
\* Leaving, for whatever reason: the lease goes with the process.
LEMMA QuitFacts ==
    ASSUME ClientsTyped, OneMigrator, NEW p \in Clients, Quit(p)
    PROVE  /\ ClientsTyped' /\ OneMigrator'
           /\ client'[p] = At0 /\ \A q \in Clients \ {p} : client'[q] = client[q]
<1>1. client' = [client EXCEPT ![p] = At0] /\ holder' = IF holder = p THEN NoClient ELSE holder
  BY DEF Quit
<1>2. At0 \in ClientType /\ At0.at = "idle"
  BY DEF At0, ClientType, States, CurrentVersion
<1>3. client'[p] = At0 /\ \A q \in Clients \ {p} : client'[q] = client[q]
  BY <1>1 DEF ClientsTyped
<1>4. ClientsTyped'
  BY <1>1, <1>2 DEF ClientsTyped
<1>5. OneMigrator'
  BY <1>1, <1>2, <1>3, VisitAssumption DEF OneMigrator, Upgrading
<1>. QED  BY <1>3, <1>4, <1>5

\* A step that only ends what p was doing, and may remove the backup that p had
\* not verified yet.
LEMMA QuitStep ==
    ASSUME SInv, NEW p \in Clients, Quit(p), UNCHANGED <<cache, born, visits>>,
           backups' \subseteq backups,
           backups' = backups \/ client[p].at = "verifying"
    PROVE  SInv'
<1>1. /\ ClientsTyped' /\ OneMigrator'
      /\ client'[p].at = "idle" /\ \A q \in Clients \ {p} : client'[q] = client[q]
  BY QuitFacts DEF SInv, At0
<1>2. CacheTyped' /\ FilesTyped' /\ Whole' /\ ContentIsCounted'
  BY DEF SInv, CacheTyped, FilesTyped, Whole, ContentIsCounted
<1>3. SeenIsCurrent' /\ LockersFit' /\ WritersSeeCurrent'
  BY <1>1 DEF SInv, SeenIsCurrent, LockersFit, WritersSeeCurrent
<1>4. BackupStays'
  BY <1>1 DEF SInv, BackupStays, OneMigrator, Upgrading
<1>5. OldIsLeftAlone'
  <2>1. CASE backups' = backups
    BY <1>1, <2>1 DEF SInv, OldIsLeftAlone
  <2>2. CASE client[p].at = "verifying"
    BY <2>2, <1>1 DEF SInv, SeenIsCurrent, OldIsLeftAlone, CurrentVersion
  <2>. QED  BY <2>1, <2>2
<1>. QED  BY <1>1, <1>2, <1>3, <1>4, <1>5 DEF SInv

-----------------------------------------------------------------------------
(* Openers.                                                                *)

\* The check without the lease.
LEMMA OpenStep == ASSUME SInv, NEW p \in Clients, Open(p) PROVE SInv'
<1>1. client[p].at = "idle" /\ UNCHANGED <<cache, backups, holder, born>>
  BY DEF Open
<1>2. visits' \in 0..MaxVisits
  BY VisitAssumption DEF Open, SInv, FilesTyped
<1>3. PICK at \in {"idle", "ready", "locking"} :
         /\ client' = [client EXCEPT ![p].at = at]
         /\ at = "ready" => cache.version = CurrentVersion
         /\ at = "locking" => cache.version = Unversioned
  BY DEF Open, To, PermitWrites, IsCurrent, Blank
<1>4. client'[p].at = at /\ \A q \in Clients \ {p} : client'[q] = client[q]
  BY <1>3 DEF SInv, ClientsTyped, ClientType
<1>5. ClientsTyped'
  BY <1>1, <1>3 DEF SInv, ClientsTyped, ClientType, States
<1>6. CacheTyped' /\ FilesTyped' /\ Whole' /\ ContentIsCounted'
  BY <1>1, <1>2 DEF SInv, CacheTyped, FilesTyped, Whole, ContentIsCounted
<1>7. OneMigrator' /\ SeenIsCurrent' /\ LockersFit' /\ WritersSeeCurrent' /\ BackupStays'
  BY <1>1, <1>3, <1>4
     DEF SInv, OneMigrator, SeenIsCurrent, LockersFit, WritersSeeCurrent, BackupStays, Upgrading,
         CurrentVersion, Unversioned
<1>8. OldIsLeftAlone'
  BY <1>1, <1>3, <1>4 DEF SInv, OldIsLeftAlone, CurrentVersion, Unversioned
<1>. QED  BY <1>5, <1>6, <1>7, <1>8 DEF SInv

\* A reader takes no lease.
LEMMA OpenReadOnlyStep == ASSUME SInv, NEW p \in Clients, OpenReadOnly(p) PROVE SInv'
<1>1. client[p].at = "idle" /\ UNCHANGED <<cache, backups, holder, born>>
  BY DEF OpenReadOnly
<1>2. visits' \in 0..MaxVisits
  BY VisitAssumption DEF OpenReadOnly, SInv, FilesTyped
<1>3. client' = [client EXCEPT ![p].at = "reading"]
  BY DEF OpenReadOnly, To
<1>4. client'[p].at = "reading" /\ \A q \in Clients \ {p} : client'[q] = client[q]
  BY <1>3 DEF SInv, ClientsTyped, ClientType
<1>5. ClientsTyped'
  BY <1>1, <1>3 DEF SInv, ClientsTyped, ClientType, States
<1>6. CacheTyped' /\ FilesTyped' /\ Whole' /\ ContentIsCounted'
  BY <1>1, <1>2 DEF SInv, CacheTyped, FilesTyped, Whole, ContentIsCounted
<1>7. OneMigrator' /\ SeenIsCurrent' /\ LockersFit' /\ WritersSeeCurrent' /\ BackupStays'
  BY <1>1, <1>4
     DEF SInv, OneMigrator, SeenIsCurrent, LockersFit, WritersSeeCurrent, BackupStays, Upgrading
<1>8. OldIsLeftAlone'
  BY <1>1, <1>4 DEF SInv, OldIsLeftAlone
<1>. QED  BY <1>5, <1>6, <1>7, <1>8 DEF SInv

\* Under the lease the version is read again; an unversioned file becomes 0.
LEMMA BeginMigrationsStep == ASSUME SInv, NEW p \in Clients, BeginMigrations(p) PROVE SInv'
<1> DEFINE v == IF cache.version = Unversioned THEN 0 ELSE cache.version
<1>1. client[p].at = "locking" /\ holder = NoClient /\ holder' = p /\ UNCHANGED <<backups, born, visits>>
  BY DEF BeginMigrations
<1>2. cache' = [cache EXCEPT !.version = v]
  BY DEF BeginMigrations
<1>3. client' = [client EXCEPT ![p].at = "migrating", ![p].seen = v]
  BY DEF BeginMigrations, Recheck
<1>4. cache.version \in Unversioned..CurrentVersion /\ v \in 0..CurrentVersion
  BY <1>1 DEF SInv, LockersFit, CacheTyped, CurrentVersion, Unversioned
<1>5. cache' = [version |-> v, schema |-> cache.schema, rows |-> cache.rows, main |-> cache.main]
  BY <1>2 DEF SInv, CacheTyped
<1>6. born \notin 2..(CurrentVersion - 1)
  BY <1>1 DEF SInv, OldIsLeftAlone
<1> HIDE DEF v
<1>7. /\ client'[p].at = "migrating" /\ client'[p].seen = v
      /\ \A q \in Clients \ {p} : client'[q] = client[q]
  BY <1>3 DEF SInv, ClientsTyped, ClientType
<1>8. ClientsTyped'
  BY <1>1, <1>3, <1>4 DEF SInv, ClientsTyped, ClientType, States
<1>9. CacheTyped' /\ FilesTyped'
  BY <1>1, <1>4, <1>5 DEF SInv, CacheTyped, FilesTyped, CurrentVersion, Unversioned
<1>10. Whole'
  BY <1>5 DEF Whole, Guaranteed, Upto, v, CurrentVersion, SInv
<1>11. ContentIsCounted'
  BY <1>5 DEF SInv, ContentIsCounted, v
<1>12. OneMigrator'
  BY <1>1, <1>7, VisitAssumption DEF SInv, OneMigrator, Upgrading
<1>13. \A q \in Clients \ {p} : client[q].at \notin Upgrading \union {"migrating"}
  BY <1>1, VisitAssumption DEF SInv, OneMigrator
<1>14. SeenIsCurrent' /\ BackupStays'
  BY <1>1, <1>5, <1>7, <1>13 DEF SeenIsCurrent, BackupStays, Upgrading
<1>15. LockersFit'
  BY <1>4, <1>5, <1>7 DEF SInv, LockersFit, CurrentVersion
<1>16. WritersSeeCurrent'
  BY <1>5, <1>7 DEF SInv, WritersSeeCurrent, v, CurrentVersion, Unversioned
<1>17. OldIsLeftAlone'
  BY <1>1, <1>6 DEF OldIsLeftAlone
<1>. QED  BY <1>8, <1>9, <1>10, <1>11, <1>12, <1>14, <1>15, <1>16, <1>17 DEF SInv

\* The holder of the lease applies the next migration.
LEMMA MigrateNextStep == ASSUME SInv, NEW p \in Clients, MigrateNext(p) PROVE SInv'
<1> DEFINE to == client[p].seen + 1
<1>1. /\ client[p].at = "migrating" /\ client[p].seen < CurrentVersion
      /\ cache' = Migrated(cache, client[p].seen, to)
      /\ UNCHANGED <<backups, holder, born, visits>>
  BY DEF MigrateNext
<1>2. client' = [client EXCEPT ![p].seen = to]
  BY DEF MigrateNext
<1>3. client[p].seen = cache.version /\ client[p].seen \in 0..CurrentVersion
  BY <1>1 DEF SInv, SeenIsCurrent, ClientsTyped, ClientType
<1>4. to \in 1..CurrentVersion /\ cache.version \in 0..to /\ cache.version < CurrentVersion
  BY <1>1, <1>3 DEF CurrentVersion
<1>5. CacheTyped' /\ Whole' /\ ContentIsCounted' /\ cache'.version = to
  <2> HIDE DEF to
  <2>1. to \in 0..CurrentVersion /\ cache' = Migrated(cache, cache.version, to)
    BY <1>1, <1>3, <1>4 DEF CurrentVersion
  <2>. QED  BY <1>4, <2>1, MigratedFacts DEF SInv
<1>6. /\ client'[p].at = "migrating" /\ client'[p].seen = to
      /\ \A q \in Clients \ {p} : client'[q] = client[q]
  BY <1>1, <1>2 DEF SInv, ClientsTyped, ClientType
<1>7. ClientsTyped'
  <2> HIDE DEF to
  <2>1. to \in 0..CurrentVersion
    BY <1>4 DEF CurrentVersion
  <2>. QED  BY <1>1, <1>2, <2>1 DEF SInv, ClientsTyped, ClientType
<1>8. FilesTyped'
  BY <1>1 DEF SInv, FilesTyped
<1>9. OneMigrator'
  BY <1>1, <1>6 DEF SInv, OneMigrator
<1>10. \A q \in Clients \ {p} : client[q].at \notin Upgrading \union {"migrating"}
  BY <1>1 DEF SInv, OneMigrator
<1>11. born \notin 2..(CurrentVersion - 1)
  BY <1>1 DEF SInv, OldIsLeftAlone
<1> HIDE DEF to
<1>12. SeenIsCurrent' /\ BackupStays'
  BY <1>5, <1>6, <1>10 DEF SeenIsCurrent, BackupStays, Upgrading
<1>13. LockersFit'
  BY <1>4, <1>5 DEF LockersFit, CurrentVersion
<1>14. WritersSeeCurrent'
  BY <1>4, <1>6 DEF SInv, WritersSeeCurrent
<1>15. OldIsLeftAlone'
  BY <1>1, <1>11 DEF OldIsLeftAlone
<1>. QED  BY <1>5, <1>7, <1>8, <1>9, <1>12, <1>13, <1>14, <1>15 DEF SInv

\* All migrations are applied; the lease is given back.
LEMMA FinishOpenStep == ASSUME SInv, NEW p \in Clients, FinishOpen(p) PROVE SInv'
<1>1. /\ client[p].at = "migrating" /\ client[p].seen >= CurrentVersion
      /\ holder' = NoClient /\ UNCHANGED <<cache, backups, born, visits>>
  BY DEF FinishOpen
<1>2. client' = [client EXCEPT ![p].at = "ready"]
  BY DEF FinishOpen, To
<1>3. cache.version = CurrentVersion
  BY <1>1 DEF SInv, SeenIsCurrent, ClientsTyped, ClientType, CurrentVersion
<1>4. client'[p].at = "ready" /\ \A q \in Clients \ {p} : client'[q] = client[q]
  BY <1>2 DEF SInv, ClientsTyped, ClientType
<1>5. ClientsTyped'
  BY <1>1, <1>2 DEF SInv, ClientsTyped, ClientType, States
<1>6. CacheTyped' /\ FilesTyped' /\ Whole' /\ ContentIsCounted'
  BY <1>1 DEF SInv, CacheTyped, FilesTyped, Whole, ContentIsCounted
<1>7. \A q \in Clients \ {p} : client[q].at \notin Upgrading \union {"migrating"}
  BY <1>1 DEF SInv, OneMigrator
<1>8. OneMigrator'
  BY <1>1, <1>4, <1>7, VisitAssumption DEF OneMigrator, Upgrading
<1>9. SeenIsCurrent' /\ LockersFit' /\ WritersSeeCurrent' /\ BackupStays'
  BY <1>1, <1>3, <1>4 DEF SInv, SeenIsCurrent, LockersFit, WritersSeeCurrent, BackupStays
<1>10. OldIsLeftAlone'
  BY <1>1, <1>4 DEF SInv, OldIsLeftAlone
<1>. QED  BY <1>5, <1>6, <1>8, <1>9, <1>10 DEF SInv

\* A writer of the current schema fills the tables.
LEMMA WriteRowsStep == ASSUME SInv, NEW p \in Clients, WriteRows(p) PROVE SInv'
<1>1. UNCHANGED <<backups, holder, client, born, visits>>
  BY DEF WriteRows
<1>2. cache' = [version |-> cache.version, schema |-> cache.schema, rows |-> Tables, main |-> cache.main]
  BY DEF WriteRows, SInv, CacheTyped
<1>3. CacheTyped' /\ FilesTyped' /\ Whole'
  BY <1>1, <1>2 DEF SInv, CacheTyped, FilesTyped, Whole
<1>4. ContentIsCounted'
  BY <1>2 DEF ContentIsCounted, Tables
<1>5. ClientsTyped' /\ OneMigrator' /\ SeenIsCurrent' /\ LockersFit' /\ WritersSeeCurrent' /\ BackupStays' /\ OldIsLeftAlone'
  BY <1>1, <1>2 DEF SInv, ClientsTyped, OneMigrator, SeenIsCurrent, LockersFit, WritersSeeCurrent, BackupStays, OldIsLeftAlone
<1>. QED  BY <1>3, <1>4, <1>5 DEF SInv

\* SQLite's own checkpoint.
LEMMA AutoCheckpointStep == ASSUME SInv, AutoCheckpoint PROVE SInv'
<1>1. UNCHANGED <<backups, holder, client, born, visits>>
  BY DEF AutoCheckpoint
<1>2. /\ cache' = [version |-> cache.version, schema |-> cache.schema, rows |-> cache.rows,
                   main |-> Settled(cache)]
      /\ Settled(cache) \in Snapshots
  BY DEF AutoCheckpoint, SInv, CacheTyped, Settled, Snapshots
<1>3. CacheTyped' /\ FilesTyped' /\ Whole' /\ ContentIsCounted'
  BY <1>1, <1>2 DEF SInv, CacheTyped, FilesTyped, Whole, ContentIsCounted
<1>4. ClientsTyped' /\ OneMigrator' /\ SeenIsCurrent' /\ LockersFit' /\ WritersSeeCurrent' /\ BackupStays' /\ OldIsLeftAlone'
  BY <1>1, <1>2 DEF SInv, ClientsTyped, OneMigrator, SeenIsCurrent, LockersFit, WritersSeeCurrent, BackupStays, OldIsLeftAlone
<1>. QED  BY <1>3, <1>4 DEF SInv

-----------------------------------------------------------------------------
(* migrate-cache.                                                          *)

\* The upgrade takes the lease of a file nobody migrates.
LEMMA UpgradeStep == ASSUME SInv, NEW p \in Clients, Upgrade(p) PROVE SInv'
<1>1. client[p].at = "idle" /\ holder = NoClient /\ holder' = p /\ UNCHANGED <<cache, backups, born>>
  BY DEF Upgrade
<1>2. visits' \in 0..MaxVisits
  BY VisitAssumption DEF Upgrade, SInv, FilesTyped
<1>3. client' = [client EXCEPT ![p].at = "checking"]
  BY DEF Upgrade, To
<1>4. client'[p].at = "checking" /\ \A q \in Clients \ {p} : client'[q] = client[q]
  BY <1>3 DEF SInv, ClientsTyped, ClientType
<1>5. ClientsTyped'
  BY <1>1, <1>3 DEF SInv, ClientsTyped, ClientType, States, Upgrading
<1>6. CacheTyped' /\ FilesTyped' /\ Whole' /\ ContentIsCounted'
  BY <1>1, <1>2 DEF SInv, CacheTyped, FilesTyped, Whole, ContentIsCounted
<1>7. OneMigrator'
  BY <1>1, <1>4, VisitAssumption DEF SInv, OneMigrator, Upgrading
<1>8. SeenIsCurrent' /\ LockersFit' /\ WritersSeeCurrent' /\ BackupStays' /\ OldIsLeftAlone'
  BY <1>1, <1>4 DEF SInv, SeenIsCurrent, LockersFit, WritersSeeCurrent, BackupStays, OldIsLeftAlone
<1>. QED  BY <1>5, <1>6, <1>7, <1>8 DEF SInv

\* A step of the upgrade that leaves the version of the file alone.
LEMMA UpgradeFrame ==
    ASSUME SInv, NEW p \in Clients, client[p].at \in Upgrading,
           UNCHANGED <<holder, born, visits>>,
           CacheTyped', cache'.version = cache.version, cache'.rows = cache.rows, cache'.schema = cache.schema,
           backups \subseteq backups', backups' \subseteq Snapshots,
           NEW c \in ClientType, client' = [client EXCEPT ![p] = c], c.at \in Upgrading,
           c.at # "checking" => cache.version = c.seen /\ cache.version \in 2..(CurrentVersion - 1),
           c.at = "verifying" => \E s \in backups' : c.copy = {s},
           c.at = "upgrading" => \E s \in backups' : s.version = cache.version
    PROVE  SInv'
<1>1. client'[p] = c /\ \A q \in Clients \ {p} : client'[q] = client[q]
  BY DEF SInv, ClientsTyped
<1>2. ClientsTyped' /\ FilesTyped'
  BY DEF SInv, ClientsTyped, FilesTyped
<1>3. Whole' /\ ContentIsCounted'
  BY DEF SInv, Whole, ContentIsCounted
<1>4. OneMigrator'
  BY <1>1 DEF SInv, OneMigrator, Upgrading
<1>5. SeenIsCurrent' /\ LockersFit' /\ WritersSeeCurrent' /\ BackupStays'
  BY <1>1 DEF SInv, SeenIsCurrent, LockersFit, WritersSeeCurrent, BackupStays, Upgrading
<1>6. OldIsLeftAlone'
  BY <1>1 DEF SInv, OldIsLeftAlone, Upgrading
<1>. QED  BY <1>2, <1>3, <1>4, <1>5, <1>6 DEF SInv

\* The WAL is flushed, or a reader keeps it.
LEMMA FlushForUpgradeStep == ASSUME SInv, NEW p \in Clients, FlushForUpgrade(p) PROVE SInv'
<1> DEFINE c == [client[p] EXCEPT !.at = "copying", !.seen = cache.version]
<1>1. client[p].at = "checking" /\ Upgradable(cache) /\ UNCHANGED <<backups, holder, born, visits>>
  BY DEF FlushForUpgrade
<1>2. cache' \in {[cache EXCEPT !.main = Settled(cache)], cache}
  BY DEF FlushForUpgrade
<1>3. cache.version \in 2..(CurrentVersion - 1) /\ cache.version \in 0..CurrentVersion
  BY <1>1 DEF Upgradable, Compatible, Blank, IsCurrent, CurrentVersion, Unversioned
<1>4. c \in ClientType /\ c.at = "copying" /\ c.seen = cache.version
  BY <1>3 DEF SInv, ClientsTyped, ClientType, States, Upgrading
<1>5. client' = [client EXCEPT ![p] = c]
  BY DEF FlushForUpgrade, SInv, ClientsTyped, ClientType
<1>6. /\ CacheTyped' /\ cache'.version = cache.version /\ cache'.rows = cache.rows
      /\ cache'.schema = cache.schema
  <2>1. CASE cache' = cache
    BY <2>1 DEF SInv, CacheTyped
  <2>2. CASE cache' = [cache EXCEPT !.main = Settled(cache)]
    <3>1. /\ cache' = [version |-> cache.version, schema |-> cache.schema, rows |-> cache.rows,
                       main |-> Settled(cache)]
          /\ Settled(cache) \in Snapshots
      BY <2>2 DEF SInv, CacheTyped, Settled, Snapshots
    <3>. QED  BY <3>1 DEF SInv, CacheTyped
  <2>. QED  BY <1>2, <2>1, <2>2
<1>7. backups' \subseteq Snapshots /\ backups \subseteq backups'
  BY <1>1 DEF SInv, FilesTyped
<1> HIDE DEF c
<1>. QED  BY <1>1, <1>3, <1>4, <1>5, <1>6, <1>7, UpgradeFrame DEF Upgrading

\* The main file is copied.
LEMMA CopyBackupStep == ASSUME SInv, NEW p \in Clients, CopyBackup(p) PROVE SInv'
<1> DEFINE c == [client[p] EXCEPT !.at = "verifying", !.copy = {cache.main}]
<1>1. /\ client[p].at = "copying" /\ backups' = backups \union {cache.main}
      /\ UNCHANGED <<cache, holder, born, visits>>
  BY DEF CopyBackup
<1>2. cache.main \in Snapshots /\ backups' \subseteq Snapshots
  BY <1>1 DEF SInv, CacheTyped, FilesTyped
<1>3. c \in ClientType /\ c.at = "verifying" /\ c.seen = client[p].seen /\ c.copy = {cache.main}
  BY <1>2 DEF SInv, ClientsTyped, ClientType, States, Upgrading
<1>4. client' = [client EXCEPT ![p] = c]
  BY DEF CopyBackup, SInv, ClientsTyped, ClientType
<1>5. cache.version = client[p].seen /\ cache.version \in 2..(CurrentVersion - 1)
  BY <1>1 DEF SInv, SeenIsCurrent
<1>6. CacheTyped'
  BY <1>1 DEF SInv, CacheTyped
<1> HIDE DEF c
<1>. QED  BY <1>1, <1>2, <1>3, <1>4, <1>5, <1>6, UpgradeFrame DEF Upgrading

\* The copy is read back; one of another version is removed.
LEMMA VerifyBackupStep == ASSUME SInv, NEW p \in Clients, VerifyBackup(p) PROVE SInv'
<1>1. client[p].at = "verifying" /\ UNCHANGED <<cache, born, visits>>
  BY DEF VerifyBackup
<1>2. CASE \A b \in client[p].copy : b.version = client[p].seen
  <2> DEFINE c == [client[p] EXCEPT !.at = "upgrading"]
  <2>1. client' = [client EXCEPT ![p] = c] /\ UNCHANGED <<backups, holder>>
    BY <1>2 DEF VerifyBackup, To, SInv, ClientsTyped, ClientType
  <2>2. c \in ClientType /\ c.at = "upgrading" /\ c.seen = client[p].seen
    BY DEF SInv, ClientsTyped, ClientType, States, Upgrading
  <2>3. cache.version = client[p].seen /\ cache.version \in 2..(CurrentVersion - 1)
    BY <1>1 DEF SInv, SeenIsCurrent
  <2>4. \E s \in backups : s.version = cache.version
    BY <1>1, <1>2, <2>3 DEF SInv, BackupStays
  <2>5. CacheTyped' /\ backups' \subseteq Snapshots
    BY <1>1, <2>1 DEF SInv, CacheTyped, FilesTyped
  <2> HIDE DEF c
  <2>. QED  BY <1>1, <2>1, <2>2, <2>3, <2>4, <2>5, UpgradeFrame DEF Upgrading
<1>3. CASE ~(\A b \in client[p].copy : b.version = client[p].seen)
  BY <1>3, <1>1, QuitStep DEF VerifyBackup
<1>. QED  BY <1>2, <1>3

\* The transaction commits: the file is current, and its backup is beside it.
LEMMA CommitUpgradeStep == ASSUME SInv, NEW p \in Clients, CommitUpgrade(p) PROVE SInv'
<1>1. /\ client[p].at = "upgrading" /\ Quit(p) /\ UNCHANGED <<backups, born, visits>>
      /\ cache' = Migrated(cache, cache.version, CurrentVersion)
  BY DEF CommitUpgrade
<1>2. cache.version \in 2..(CurrentVersion - 1) /\ \E s \in backups : s.version = cache.version
  BY <1>1 DEF SInv, SeenIsCurrent, BackupStays
<1>3. CurrentVersion \in 0..CurrentVersion /\ cache.version \in 0..CurrentVersion
  BY <1>2 DEF CurrentVersion
<1>4. CacheTyped' /\ Whole' /\ ContentIsCounted' /\ cache'.version = CurrentVersion
  BY <1>1, <1>3, MigratedFacts DEF SInv
<1>5. /\ ClientsTyped' /\ OneMigrator'
      /\ client'[p].at = "idle" /\ \A q \in Clients \ {p} : client'[q] = client[q]
  BY <1>1, QuitFacts DEF SInv, At0
<1>6. \A q \in Clients \ {p} : client[q].at \notin Upgrading \union {"migrating"}
  BY <1>1 DEF SInv, OneMigrator, Upgrading
<1>7. FilesTyped'
  BY <1>1 DEF SInv, FilesTyped
<1>8. SeenIsCurrent' /\ BackupStays'
  BY <1>5, <1>6 DEF SeenIsCurrent, BackupStays, Upgrading
<1>9. LockersFit' /\ WritersSeeCurrent'
  BY <1>4 DEF LockersFit, WritersSeeCurrent, CurrentVersion
<1>10. OldIsLeftAlone'
  BY <1>1, <1>2, <1>4, <1>5 DEF SInv, OldIsLeftAlone, CurrentVersion
<1>. QED  BY <1>4, <1>5, <1>7, <1>8, <1>9, <1>10 DEF SInv

-----------------------------------------------------------------------------
\* Every step of every process keeps the invariant.
LEMMA NextSInv == SInv /\ [SchemaNext]_schemaVars => SInv'
<1> SUFFICES ASSUME SInv, [SchemaNext]_schemaVars PROVE SInv'
  OBVIOUS
<1>1. CASE UNCHANGED schemaVars
  BY <1>1 DEF schemaVars, SInv, CacheTyped, FilesTyped, ClientsTyped, OneMigrator, SeenIsCurrent,
              LockersFit, WritersSeeCurrent, BackupStays, OldIsLeftAlone, Whole, ContentIsCounted
<1>2. ASSUME NEW p \in Clients,
             OpenContended(p) \/ MigrateFails(p) \/ Leave(p) \/ DeclineUpgrade(p) \/ ClientCrash(p)
      PROVE  SInv'
  BY <1>2, QuitStep DEF OpenContended, MigrateFails, Leave, DeclineUpgrade, ClientCrash
<1>3. ASSUME NEW p \in Clients, UpgradeFails(p) PROVE SInv'
  BY <1>3, QuitStep DEF UpgradeFails
<1>4. CASE SchemaNext
  BY <1>2, <1>3, <1>4, AutoCheckpointStep, OpenStep, BeginMigrationsStep, MigrateNextStep, FinishOpenStep,
     OpenReadOnlyStep, WriteRowsStep, UpgradeStep, FlushForUpgradeStep, CopyBackupStep, VerifyBackupStep,
     CommitUpgradeStep
     DEF SchemaNext
<1>. QED  BY <1>1, <1>4

\* The invariant holds for any number of processes and visits.
LEMMA SchemaInvariance == SchemaSpec => []SInv
BY InitSInv, NextSInv, PTL DEF SchemaSpec

\* The cache file, its backups, the lease and the processes keep their types.
THEOREM SchemaTyped == SchemaSpec => []SchemaTypeOK
<1>1. SInv => SchemaTypeOK
  BY DEF SInv, CacheTyped, FilesTyped, ClientsTyped, ClientType, States, SchemaTypeOK
<1>. QED  BY <1>1, SchemaInvariance, PTL

\* Openers and upgraders exclude one another, and a process that may write works
\* on the current schema.
THEOREM MigratorsAreExclusive == SchemaSpec => []MigratorsExclude
<1>1. SInv => MigratorsExclude
  BY DEF SInv, MigratorsExclude
<1>. QED  BY <1>1, SchemaInvariance, PTL

\* Whatever fails or dies during an upgrade, the cache is of one version whole,
\* counted, and beside the backup of the version it was found at.
THEOREM UpgradesStayWhole == SchemaSpec => []UpgradesAreWhole
<1>1. SInv => SchemaIsWhole
  BY DEF SInv, CacheTyped, Whole, SchemaIsWhole, CurrentVersion, Unversioned
<1>2. SInv => OldCacheIsBackedUp
  BY DEF SInv, OldIsLeftAlone, OldCacheIsBackedUp
<1>3. SInv => UpgradesAreWhole
  BY <1>1, <1>2 DEF SInv, UpgradesAreWhole
<1>. QED  BY <1>3, SchemaInvariance, PTL

\* Nobody migrates from the version of an old check: the version only grows.
THEOREM VersionsGrow == SchemaSpec => VersionNeverFalls
<1>1. SInv /\ [SchemaNext]_schemaVars => [cache'.version >= cache.version]_schemaVars
  <2> SUFFICES ASSUME SInv, SchemaNext PROVE cache'.version >= cache.version
    OBVIOUS
  <2>1. cache.version \in Int
    BY DEF SInv, CacheTyped, CurrentVersion, Unversioned
  <2>2. CASE UNCHANGED cache
    BY <2>1, <2>2
  <2>3. CASE AutoCheckpoint
    BY <2>1, <2>3 DEF AutoCheckpoint, SInv, CacheTyped
  <2>4. ASSUME NEW p \in Clients, WriteRows(p) \/ FlushForUpgrade(p) PROVE cache'.version >= cache.version
    BY <2>1, <2>4 DEF WriteRows, FlushForUpgrade, SInv, CacheTyped
  <2>5. ASSUME NEW p \in Clients, BeginMigrations(p) PROVE cache'.version >= cache.version
    BY <2>1, <2>5 DEF BeginMigrations, SInv, CacheTyped, Unversioned
  <2>6. ASSUME NEW p \in Clients, MigrateNext(p) PROVE cache'.version >= cache.version
    BY <2>6, <2>1 DEF MigrateNext, SInv, SeenIsCurrent, Migrated, CacheTyped
  <2>7. ASSUME NEW p \in Clients, CommitUpgrade(p) PROVE cache'.version >= cache.version
    BY <2>7 DEF CommitUpgrade, SInv, SeenIsCurrent, Migrated, CacheTyped, CurrentVersion
  <2>8. ASSUME NEW p \in Clients,
               \/ Open(p) \/ OpenContended(p) \/ MigrateFails(p) \/ FinishOpen(p) \/ OpenReadOnly(p)
               \/ Leave(p) \/ Upgrade(p) \/ DeclineUpgrade(p) \/ CopyBackup(p) \/ VerifyBackup(p)
               \/ UpgradeFails(p) \/ ClientCrash(p)
        PROVE  UNCHANGED cache
    BY <2>8 DEF Open, OpenContended, MigrateFails, FinishOpen, OpenReadOnly, Leave, Upgrade,
                DeclineUpgrade, CopyBackup, VerifyBackup, UpgradeFails, ClientCrash
  <2>. QED  BY <2>2, <2>3, <2>4, <2>5, <2>6, <2>7, <2>8 DEF SchemaNext
<1>. QED  BY <1>1, SchemaInvariance, PTL DEF SchemaSpec, VersionNeverFalls

-----------------------------------------------------------------------------
(* The comment queue: what a row says, what a reading has in hand, what is   *)
(* staged.  Everything is said of the revision a row names: should the issue *)
(* still be at that revision, then its thread is what was read.              *)

\* Rows, readings and stages are records of these parts.
QueueRows == [status : Waiting \union {"none", "complete"}, revision : 0..MaxRevision, expected : -1..MaxComments]
QueuePasses == [at : {"idle", "enqueue", "read", "replaced", "walk", "reconcile"}, issue : Issues \union {NoIssue},
                got : SUBSET (Comments \union (Issues \X Comments)), pend : SUBSET Issues,
                page : Nat \ {0}, listed : Nat, total : Nat, failed : BOOLEAN]
QueueStages == [on : BOOLEAN, issue : Issues \union {NoIssue}, revision : 0..MaxRevision, got : SUBSET Comments]

\* What the variables are; a comment not posted yet has no home.
QueueTyped ==
    /\ home \in [Comments -> Issues \union {NoIssue}] /\ posted \in 0..MaxComments
    /\ revision \in [Issues -> 1..MaxRevision] /\ parent \in [Issues -> 0..MaxRevision]
    /\ row \in [Issues -> QueueRows] /\ shown \in [Issues -> SUBSET Comments] /\ owed \subseteq Issues
    /\ pass \in QueuePasses /\ staged \in QueueStages /\ passes \in 0..MaxPasses
    /\ \A c \in Comments : c > posted => home[c] = NoIssue

\* A row names a revision the issue had, and shows what it says while the issue stays.
RowSound(i) ==
    /\ (row[i].status = "none") <=> (row[i].revision = 0)
    /\ row[i].revision <= revision[i] /\ parent[i] <= revision[i]
    /\ i \notin owed => row[i].revision = parent[i]
    /\ NewestFirst /\ row[i].status = "complete" /\ row[i].revision = revision[i] => shown[i] = Thread(i)

\* The comments that come after c when the newest are listed first.
Older(c) == {d \in Existing : d < c}

\* A comment of a page not yet listed: as many as the listed pages hold come before it.
Ahead(c) ==
    /\ pass.at = "walk"
    /\ pass.total # 0 => pass.total - 1 - Cardinality(Older(c)) >= (pass.page - 1) * AggregatePage

\* What a reading in progress has of an issue that has not moved since it was queued.
WalkSound(i) ==
    /\ row[i].status \in Waiting
    /\ row[i].revision = revision[i] =>
         /\ \A c \in Comments : <<i, c>> \in pass.got => home[c] = i
         /\ NewestFirst /\ ~pass.failed => \A c \in Thread(i) : <<i, c>> \notin pass.got => Ahead(c)

\* What a reading holds is what its issue had, if the issue stands still.
PassSound ==
    /\ pass.at = "enqueue" =>
         /\ pass.issue \in owed /\ pass.got \subseteq Comments
         /\ pass.listed = parent[pass.issue] /\ pass.listed # 0
         /\ pass.listed = revision[pass.issue] => pass.got = Thread(pass.issue)
    /\ pass.at \in {"read", "replaced"} =>
         /\ pass.issue \in Issues /\ pass.got \subseteq Comments
         /\ row[pass.issue].status \in Waiting
         /\ row[pass.issue].revision = revision[pass.issue] => pass.got = Thread(pass.issue)
    /\ pass.at = "replaced" => shown[pass.issue] = pass.got
    /\ pass.at = "walk" => (pass.total = 0 <=> pass.page = 1)
    /\ pass.at \in {"walk", "reconcile"} => \A i \in pass.pend : WalkSound(i)

\* So is what is staged.
StageSound ==
    staged.on =>
         /\ staged.issue \in Issues /\ staged.revision # 0
         /\ staged.revision <= revision[staged.issue]
         /\ staged.revision = revision[staged.issue] => staged.got = Thread(staged.issue)

\* The inductive invariant of the queue.
QueueInv == QueueTyped /\ (\A i \in Issues : RowSound(i)) /\ PassSound /\ StageSound
-----------------------------------------------------------------------------
(* Counting *)

\* A set of comments is finite, its size within the bound.
LEMMA CommentsCount ==
  ASSUME NEW S \in SUBSET Comments
  PROVE  IsFiniteSet(S) /\ Cardinality(S) \in 0..MaxComments
<1>1. MaxComments \in Nat
  BY QueueAssumption
<1>2. IsFiniteSet(Comments) /\ Cardinality(Comments) = MaxComments
  BY <1>1, FS_Interval DEF Comments
<1>3. IsFiniteSet(S) /\ Cardinality(S) <= MaxComments
  BY <1>2, FS_Subset
<1>4. Cardinality(S) \in Nat
  BY <1>3, FS_CardinalityType
<1> QED
  BY <1>1, <1>3, <1>4

\* The comments of the repository are those before one, the one, and those older.
LEMMA PlaceInList ==
  ASSUME NewestFirst, NEW c \in Existing
  PROVE  /\ Cardinality(Before(c)) \in Nat /\ Cardinality(Older(c)) \in Nat /\ Cardinality(Existing) \in Nat
         /\ Cardinality(Existing) = Cardinality(Before(c)) + 1 + Cardinality(Older(c))
<1> DEFINE B == Before(c)
           O == Older(c)
<1>1. B \in SUBSET Comments /\ O \in SUBSET Comments /\ Existing \in SUBSET Comments
  BY DEF Before, Older, Existing
<1>2. /\ IsFiniteSet(B) /\ IsFiniteSet(O) /\ Cardinality(B) \in Nat /\ Cardinality(O) \in Nat
      /\ Cardinality(Existing) \in Nat
  BY <1>1, CommentsCount
<1>3. Existing = (B \union {c}) \union O /\ c \notin B /\ c \notin O /\ B \intersect O = {}
  <2>1. Existing \subseteq Int
    BY DEF Existing, Comments
  <2>2. \A d \in Existing : /\ d > c \/ d = c \/ d < c
                           /\ ~(d > c /\ d < c) /\ ~(c > c) /\ ~(c < c)
    BY <2>1
  <2>3. \A d : (d \in B <=> d \in Existing /\ d > c) /\ (d \in O <=> d \in Existing /\ d < c)
    BY DEF Before, Older
  <2> HIDE DEF B, O
  <2> QED
    BY <2>2, <2>3
<1>4. IsFiniteSet(B \union {c}) /\ Cardinality(B \union {c}) = Cardinality(B) + 1
  BY <1>2, <1>3, FS_AddElement
<1>5. (B \union {c}) \intersect O = {}
  BY <1>3
<1> HIDE DEF B, O
<1>6. Cardinality((B \union {c}) \union O)
        = Cardinality(B \union {c}) + Cardinality(O) - Cardinality((B \union {c}) \intersect O)
  BY <1>2, <1>4, FS_Union
<1>7. Cardinality((B \union {c}) \intersect O) = 0
  BY <1>5, FS_EmptySet
<1> QED
  BY <1>2, <1>3, <1>4, <1>6, <1>7 DEF B, O

-----------------------------------------------------------------------------
(* The provider moves on *)

\* An issue changes with its thread, and nothing comes to be older than a comment.
LEMMA ProviderStep ==
  ASSUME QueueTyped, (\E x \in Issues : Post(x)) \/ \E d \in Comments : Delete(d)
  PROVE  \E x \in Issues :
           /\ revision' = [revision EXCEPT ![x] = @ + 1] /\ revision[x] < MaxRevision
           /\ \A i \in Issues \ {x} : Thread(i)' = Thread(i)
           /\ home' \in [Comments -> Issues \union {NoIssue}] /\ posted' \in 0..MaxComments
           /\ \A c \in Comments : c > posted' => home'[c] = NoIssue
           /\ \A c \in Existing : Older(c)' \subseteq Older(c)
           /\ UNCHANGED mirror
<1>0. /\ home \in [Comments -> Issues \union {NoIssue}] /\ posted \in 0..MaxComments /\ MaxComments \in Nat
      /\ \A c \in Comments : c > posted => home[c] = NoIssue
      /\ NoIssue \notin Issues
  BY QueueAssumption DEF QueueTyped
<1>1. ASSUME NEW x \in Issues, Post(x)
      PROVE  /\ revision' = [revision EXCEPT ![x] = @ + 1] /\ revision[x] < MaxRevision
             /\ \A i \in Issues \ {x} : Thread(i)' = Thread(i)
             /\ home' \in [Comments -> Issues \union {NoIssue}] /\ posted' \in 0..MaxComments
             /\ \A c \in Comments : c > posted' => home'[c] = NoIssue
             /\ \A c \in Existing : Older(c)' \subseteq Older(c)
             /\ UNCHANGED mirror
  <2>1. /\ posted < MaxComments /\ posted' = posted + 1 /\ home' = [home EXCEPT ![posted + 1] = x]
        /\ revision' = [revision EXCEPT ![x] = @ + 1] /\ revision[x] < MaxRevision /\ UNCHANGED mirror
    BY <1>1 DEF Post, Touch
  <2>2. posted + 1 \in Comments /\ home[posted + 1] = NoIssue
    BY <1>0, <2>1 DEF Comments
  <2>3. home' \in [Comments -> Issues \union {NoIssue}] /\ home'[posted + 1] = x
        /\ \A c \in Comments : c # posted + 1 => home'[c] = home[c]
    BY <1>0, <2>1, <2>2
  <2>4. ASSUME NEW i \in Issues \ {x} PROVE Thread(i)' = Thread(i)
    BY <1>0, <2>2, <2>3 DEF Thread, Comments
  <2>5. ASSUME NEW c \in Comments, c > posted' PROVE home'[c] = NoIssue
    BY <1>0, <2>1, <2>5, <2>3 DEF Comments
  <2>6. ASSUME NEW c \in Existing PROVE Older(c)' \subseteq Older(c)
    BY <1>0, <2>3 DEF Existing, Comments, Older
  <2> QED
    BY <1>0, <2>1, <2>3, <2>4, <2>5, <2>6
<1>2. ASSUME NEW d \in Comments, Delete(d)
      PROVE  \E x \in Issues :
             /\ revision' = [revision EXCEPT ![x] = @ + 1] /\ revision[x] < MaxRevision
             /\ \A i \in Issues \ {x} : Thread(i)' = Thread(i)
             /\ home' \in [Comments -> Issues \union {NoIssue}] /\ posted' \in 0..MaxComments
             /\ \A c \in Comments : c > posted' => home'[c] = NoIssue
             /\ \A c \in Existing : Older(c)' \subseteq Older(c)
             /\ UNCHANGED mirror
  <2> DEFINE x == home[d]
  <2>1. /\ x \in Issues /\ posted' = posted /\ home' = [home EXCEPT ![d] = NoIssue]
        /\ revision' = [revision EXCEPT ![x] = @ + 1] /\ revision[x] < MaxRevision /\ UNCHANGED mirror
    BY <1>0, <1>2 DEF Delete, Touch
  <2>2. home' \in [Comments -> Issues \union {NoIssue}] /\ home'[d] = NoIssue
        /\ \A c \in Comments : c # d => home'[c] = home[c]
    BY <1>0, <2>1
  <2>3. ASSUME NEW i \in Issues \ {x} PROVE Thread(i)' = Thread(i)
    BY <1>0, <2>1, <2>2 DEF Thread, Comments
  <2>4. \A c \in Comments : c > posted' => home'[c] = NoIssue
    BY <1>0, <2>1, <2>2
  <2>5. \A c \in Existing : Older(c)' \subseteq Older(c)
    BY <1>0, <2>2 DEF Older, Existing, Comments
  <2> QED
    BY <1>0, <2>1, <2>2, <2>3, <2>4, <2>5
<1> QED
  BY <1>1, <1>2

\* While the provider moves on, what was read is of a revision gone by, or still true.
LEMMA ProviderKeeps ==
  ASSUME QueueInv, (\E x \in Issues : Post(x)) \/ \E d \in Comments : Delete(d)
  PROVE  QueueInv'
<1>1. PICK x \in Issues :
           /\ revision' = [revision EXCEPT ![x] = @ + 1] /\ revision[x] < MaxRevision
           /\ \A i \in Issues \ {x} : Thread(i)' = Thread(i)
           /\ home' \in [Comments -> Issues \union {NoIssue}] /\ posted' \in 0..MaxComments
           /\ \A c \in Comments : c > posted' => home'[c] = NoIssue
           /\ \A c \in Existing : Older(c)' \subseteq Older(c)
           /\ UNCHANGED mirror
  BY ProviderStep DEF QueueInv
<1>2. QueueTyped /\ UNCHANGED <<parent, row, shown, owed, pass, staged, passes>> /\ MaxRevision \in Nat
  BY <1>1, QueueAssumption DEF QueueInv, mirror
<1>3. /\ revision' \in [Issues -> 1..MaxRevision] /\ revision'[x] = revision[x] + 1
      /\ \A i \in Issues : revision[i] \in 1..MaxRevision /\ (i # x => revision'[i] = revision[i])
  BY <1>1, <1>2 DEF QueueTyped
<1>4. QueueTyped'
  BY <1>1, <1>2, <1>3 DEF QueueTyped
\* An issue that stands still at the provider.
<1>5. ASSUME NEW i \in Issues, NEW r \in 0..MaxRevision, r <= revision[i], r = revision'[i]
      PROVE  i # x /\ r = revision[i] /\ Thread(i)' = Thread(i)
  BY <1>1, <1>3, <1>5
<1>6. ASSUME NEW i \in Issues PROVE RowSound(i)'
  <2>1. RowSound(i) /\ row[i].revision \in 0..MaxRevision /\ parent[i] \in 0..MaxRevision
    BY <1>2 DEF QueueInv, QueueTyped, QueueRows
  <2>2. revision'[i] >= revision[i] /\ revision'[i] \in Nat /\ revision[i] \in Nat
    BY <1>2, <1>3
  <2>3. row[i].revision <= revision'[i] /\ parent[i] <= revision'[i]
    BY <1>2, <2>1, <2>2 DEF RowSound
  <2>4. NewestFirst /\ row[i].status = "complete" /\ row[i].revision = revision'[i] => shown[i] = Thread(i)'
    BY <1>5, <2>1 DEF RowSound
  <2> QED
    BY <1>2, <2>1, <2>3, <2>4 DEF RowSound
<1>7. ASSUME NEW i \in pass.pend, pass.at \in {"walk", "reconcile"} PROVE WalkSound(i)'
  <2>1. i \in Issues /\ WalkSound(i) /\ RowSound(i) /\ row[i].revision \in 0..MaxRevision
    BY <1>2, <1>7 DEF QueueInv, QueueTyped, QueuePasses, QueueRows, PassSound
  <2>2. SUFFICES ASSUME row[i].revision = revision'[i]
                 PROVE  /\ \A c \in Comments : <<i, c>> \in pass.got => home'[c] = i
                        /\ NewestFirst /\ ~pass.failed =>
                             \A c \in Thread(i)' : <<i, c>> \notin pass.got => Ahead(c)'
    BY <1>2, <2>1 DEF WalkSound
  <2>3. row[i].revision = revision[i] /\ Thread(i)' = Thread(i)
    BY <1>5, <2>1, <2>2 DEF RowSound
  <2>4. \A c \in Comments : <<i, c>> \in pass.got => home'[c] = i
    BY <2>1, <2>3 DEF WalkSound, Thread
  <2>5. ASSUME NewestFirst, ~pass.failed, NEW c \in Thread(i), <<i, c>> \notin pass.got PROVE Ahead(c)'
    <3>1. Ahead(c) /\ c \in Existing
      BY <2>1, <2>3, <2>5, QueueAssumption DEF WalkSound, Thread, Existing
    <3>2. Older(c)' \subseteq Older(c) /\ Older(c) \in SUBSET Comments
      BY <1>1, <3>1 DEF Older, Existing
    <3>3. Cardinality(Older(c)') <= Cardinality(Older(c)) /\ Cardinality(Older(c)) \in Nat /\ Cardinality(Older(c)') \in Nat
      <4>1. IsFiniteSet(Older(c)) /\ Cardinality(Older(c)) \in 0..MaxComments
        BY <3>2, CommentsCount
      <4>2. Cardinality(Older(c)') <= Cardinality(Older(c))
        BY <3>2, <4>1, FS_Subset
      <4>3. Older(c)' \in SUBSET Comments
        BY <3>2
      <4>4. Cardinality(Older(c)') \in 0..MaxComments
        BY <4>3, CommentsCount
      <4> QED
        BY <4>1, <4>2, <4>4, QueueAssumption
    <3>4. pass.total \in Nat /\ (pass.page - 1) * AggregatePage \in Int
      BY <1>2, QueueAssumption DEF QueueTyped, QueuePasses
    <3> DEFINE m == (pass.page - 1) * AggregatePage
    <3>5. pass.total # 0 => pass.total - 1 - Cardinality(Older(c)') >= m
      <4> HIDE DEF m
      <4>1. pass.total # 0 => pass.total - 1 - Cardinality(Older(c)) >= m
        BY <3>1 DEF Ahead, m
      <4>2. m \in Int
        BY <3>4 DEF m
      <4> QED
        BY <3>3, <3>4, <4>1, <4>2
    <3> QED
      BY <1>2, <3>1, <3>5 DEF Ahead
  <2> QED
    BY <2>3, <2>4, <2>5
<1>8. PassSound'
  <2>0. PassSound /\ pass.issue \in Issues \union {NoIssue} /\ pass' = pass /\ owed \subseteq Issues
    BY <1>2 DEF QueueInv, QueueTyped, QueuePasses
  <2>1. ASSUME pass.at = "enqueue", pass.listed = revision'[pass.issue]
        PROVE  pass.got = Thread(pass.issue)'
    <3>0. PICK j \in Issues : j = pass.issue
      BY <1>2, <2>0, <2>1 DEF PassSound
    <3>1. pass.listed = parent[j] /\ parent[j] \in 0..MaxRevision /\ parent[j] <= revision[j]
      BY <1>2, <2>0, <2>1, <3>0 DEF PassSound, QueueTyped, QueueInv, RowSound
    <3>2. pass.listed = revision[j] /\ Thread(j)' = Thread(j)
      BY <1>5, <2>1, <3>0, <3>1
    <3> QED
      BY <2>0, <2>1, <3>0, <3>2 DEF PassSound, Thread
  <2>2. ASSUME pass.at \in {"read", "replaced"}, row[pass.issue].revision = revision'[pass.issue]
        PROVE  pass.got = Thread(pass.issue)'
    <3>0. PICK j \in Issues : j = pass.issue
      BY <1>2, <2>0, <2>2 DEF PassSound
    <3>1. row[j].revision \in 0..MaxRevision /\ row[j].revision <= revision[j]
      BY <1>2, <2>0, <2>2, <3>0 DEF PassSound, QueueTyped, QueueRows, QueueInv, RowSound
    <3>2. row[j].revision = revision[j] /\ Thread(j)' = Thread(j)
      BY <1>5, <2>2, <3>0, <3>1
    <3> QED
      BY <2>0, <2>2, <3>0, <3>2 DEF PassSound, Thread
  <2> QED
    BY <1>2, <1>7, <2>0, <2>1, <2>2 DEF PassSound
<1>9. StageSound'
  <2> SUFFICES ASSUME staged.on PROVE StageSound'
    BY <1>2 DEF StageSound
  <2>0. PICK j \in Issues : j = staged.issue
    BY <1>2 DEF QueueInv, StageSound
  <2>1. /\ staged.revision # 0 /\ staged.revision \in 0..MaxRevision
        /\ staged.revision <= revision[j]
    BY <1>2, <2>0 DEF QueueInv, QueueTyped, QueueStages, StageSound
  <2>2. staged.revision <= revision'[j]
    BY <1>2, <1>3, <2>1
  <2>3. staged.revision = revision'[j] => staged.got = Thread(j)'
    BY <1>5, <2>0, <2>1 DEF QueueInv, StageSound
  <2> QED
    BY <1>2, <2>0, <2>1, <2>2, <2>3 DEF StageSound, Thread
<1> QED
  BY <1>2, <1>4, <1>6, <1>8, <1>9 DEF QueueInv
-----------------------------------------------------------------------------
(* The cache follows *)

\* What the provider has stands while the cache is written.
LEMMA ProviderStands ==
  ASSUME QueueInv, UNCHANGED provider
  PROVE  /\ UNCHANGED <<home, posted, revision>>
         /\ \A i \in Issues : Thread(i)' = Thread(i)
         /\ UNCHANGED staged => StageSound'
         /\ \A i \in Issues : RowSound(i) /\ row[i] \in QueueRows /\ Thread(i) \in SUBSET Comments
                              /\ revision[i] \in 1..MaxRevision /\ parent[i] \in 0..MaxRevision
<1>1. UNCHANGED <<home, posted, revision>>
  BY DEF provider
<1>2. \A i \in Issues : Thread(i)' = Thread(i)
  BY <1>1 DEF Thread
<1>3. UNCHANGED staged => StageSound'
  BY <1>1 DEF StageSound, QueueInv, Thread
<1>4. \A i \in Issues : RowSound(i) /\ row[i] \in QueueRows /\ Thread(i) \in SUBSET Comments
                              /\ revision[i] \in 1..MaxRevision /\ parent[i] \in 0..MaxRevision
  BY DEF QueueInv, QueueTyped, Thread
<1> QED
  BY <1>1, <1>2, <1>3, <1>4

\* Between two readings: an idle reader holds nothing.
LEMMA NoPassIs ==
  /\ NoPass \in QueuePasses /\ NoPass.at = "idle" /\ NoPass.page = 1 /\ NoPass.total = 0 /\ NoPass.got = {}
  /\ ~NoPass.failed
  /\ pass' = NoPass => PassSound'
<1>1. NoPass \in QueuePasses /\ NoPass.at = "idle" /\ NoPass.page = 1 /\ NoPass.total = 0 /\ NoPass.got = {}
      /\ ~NoPass.failed
  BY DEF NoPass, QueuePasses
<1>2. pass' = NoPass => PassSound'
  BY <1>1 DEF PassSound
<1> QED
  BY <1>1, <1>2

\* A row queued at a revision the issue had, with the count of its comments then.
LEMMA QueuedIs ==
  ASSUME QueueInv, NEW i \in Issues, NEW r \in 1..MaxRevision, r <= revision[i],
         NEW S \in SUBSET Comments, r = revision[i] => S = Thread(i)
  PROVE  /\ Queued(i, r, Cardinality(S)) \in QueueRows
         /\ Queued(i, r, Cardinality(S)).revision = r /\ Queued(i, r, Cardinality(S)).status # "none"
         /\ ShownAfter(i, Cardinality(S)) \in [Issues -> SUBSET Comments]
         /\ \A j \in Issues \ {i} : ShownAfter(i, Cardinality(S))[j] = shown[j]
         /\ NewestFirst /\ Queued(i, r, Cardinality(S)).status = "complete" /\ r = revision[i]
              => ShownAfter(i, Cardinality(S))[i] = Thread(i)
<1> DEFINE n == Cardinality(S)
           q == Queued(i, r, n)
<1>1. n \in 0..MaxComments /\ IsFiniteSet(S) /\ MaxComments \in Nat
  BY CommentsCount, QueueAssumption
<1>2. n = 0 => S = {}
  BY <1>1, FS_EmptySet
<1>3. RowSound(i) /\ row[i] \in QueueRows /\ shown \in [Issues -> SUBSET Comments] /\ r # 0
  BY DEF QueueInv, QueueTyped
<1> HIDE DEF n
<1>4. /\ q.revision = r /\ q.expected = n
      /\ q.status = IF n = 0 THEN "complete" ELSE IF row[i].revision = r THEN row[i].status ELSE "pending"
      /\ q = [status |-> q.status, revision |-> r, expected |-> n]
  BY DEF Queued
<1> HIDE DEF q
<1>5. q.status \in {"pending", "deferred", "complete"}
  BY <1>3, <1>4 DEF RowSound, QueueRows, Waiting
<1>6. q \in QueueRows /\ q.status # "none"
  BY <1>1, <1>4, <1>5 DEF QueueRows, Waiting
<1>7. /\ ShownAfter(i, n) \in [Issues -> SUBSET Comments]
      /\ \A j \in Issues \ {i} : ShownAfter(i, n)[j] = shown[j]
  BY <1>3 DEF ShownAfter
<1>8. ASSUME NewestFirst, q.status = "complete", r = revision[i] PROVE ShownAfter(i, n)[i] = Thread(i)
  BY <1>2, <1>3, <1>8, <1>4 DEF ShownAfter, RowSound
<1> QED
  BY <1>4, <1>6, <1>7, <1>8 DEF n, q

\* The daemon stores an issue with its row, at the revision the issue has now.
LEMMA CommitParentKeeps ==
  ASSUME QueueInv, NEW i \in Issues, CommitParent(i)
  PROVE  QueueInv'
<1> DEFINE n == Cardinality(Thread(i))
           q == Queued(i, revision[i], n)
<1>1. /\ pass.at = "idle" /\ parent' = [parent EXCEPT ![i] = revision[i]] /\ row' = [row EXCEPT ![i] = q]
      /\ shown' = ShownAfter(i, n) /\ owed' = owed \ {i} /\ UNCHANGED <<provider, pass, staged, passes>>
  BY DEF CommitParent
<1>2. /\ UNCHANGED <<home, posted, revision>> /\ StageSound' /\ \A j \in Issues : Thread(j)' = Thread(j)
      /\ \A j \in Issues : RowSound(j) /\ revision[j] \in 1..MaxRevision
      /\ Thread(i) \in SUBSET Comments
  BY <1>1, ProviderStands
<1>3. revision[i] <= revision[i]
  BY <1>2
<1>4. /\ q \in QueueRows /\ q.revision = revision[i] /\ q.status # "none"
      /\ shown' \in [Issues -> SUBSET Comments] /\ \A j \in Issues \ {i} : shown'[j] = shown[j]
      /\ NewestFirst /\ q.status = "complete" => shown'[i] = Thread(i)
  BY <1>1, <1>2, <1>3, QueuedIs
<1> HIDE DEF q
<1>5. QueueTyped'
  <2>1. parent' \in [Issues -> 0..MaxRevision]
    BY <1>1, <1>2 DEF QueueInv, QueueTyped
  <2>2. row' \in [Issues -> QueueRows]
    BY <1>1, <1>4 DEF QueueInv, QueueTyped
  <2> QED
    BY <1>1, <1>2, <1>4, <2>1, <2>2 DEF QueueInv, QueueTyped
<1>6. row'[i] = q /\ parent'[i] = revision[i]
      /\ \A j \in Issues \ {i} : row'[j] = row[j] /\ parent'[j] = parent[j]
  BY <1>1 DEF QueueInv, QueueTyped
<1>7. ASSUME NEW j \in Issues PROVE RowSound(j)'
  BY <1>2, <1>3, <1>4, <1>6, <1>1 DEF RowSound
<1>8. PassSound'
  BY <1>1 DEF PassSound
<1> QED
  BY <1>2, <1>5, <1>7, <1>8 DEF QueueInv

\* The foreground stores an issue and owes its row.
LEMMA StoreParentKeeps ==
  ASSUME QueueInv, NEW i \in Issues, StoreParent(i)
  PROVE  QueueInv'
<1> DEFINE c == [NoPass EXCEPT !.at = "enqueue", !.issue = i, !.listed = revision[i], !.got = Thread(i)]
<1>1. /\ passes < MaxPasses /\ passes' = passes + 1 /\ pass' = c /\ parent' = [parent EXCEPT ![i] = revision[i]]
      /\ owed' = owed \union {i} /\ UNCHANGED <<provider, row, shown, staged>>
  BY DEF StoreParent, Begin
<1>2. /\ UNCHANGED <<home, posted, revision>> /\ StageSound' /\ \A j \in Issues : Thread(j)' = Thread(j)
      /\ \A j \in Issues : RowSound(j) /\ revision[j] \in 1..MaxRevision
      /\ Thread(i) \in SUBSET Comments
  BY <1>1, ProviderStands
<1>3. c \in QueuePasses /\ c.at = "enqueue" /\ c.issue = i /\ c.listed = revision[i] /\ c.got = Thread(i)
  <2>1. /\ revision[i] \in Nat
        /\ Thread(i) \in SUBSET (Comments \union (Issues \X Comments))
    BY <1>2
  <2> DEFINE b == [NoPass EXCEPT !.at = "enqueue", !.issue = i]
  <2>2. b \in QueuePasses /\ b.at = "enqueue" /\ b.issue = i
    BY NoPassIs DEF QueuePasses
  <2>3. c = [b EXCEPT !.listed = revision[i], !.got = Thread(i)]
    OBVIOUS
  <2> HIDE DEF b, c
  <2> QED
    BY <2>1, <2>2, <2>3 DEF QueuePasses
<1> HIDE DEF c
<1>4. parent'[i] = revision[i] /\ \A j \in Issues \ {i} : parent'[j] = parent[j]
  BY <1>1 DEF QueueInv, QueueTyped
<1>5. passes' \in 0..MaxPasses
  BY <1>1, QueueAssumption DEF QueueInv, QueueTyped
<1>6. QueueTyped'
  BY <1>1, <1>2, <1>3, <1>5 DEF QueueInv, QueueTyped
<1>7. ASSUME NEW j \in Issues PROVE RowSound(j)'
  BY <1>2, <1>1, <1>4 DEF RowSound
<1>8. PassSound'
  BY <1>1, <1>2, <1>3, <1>4 DEF PassSound
<1> QED
  BY <1>2, <1>6, <1>7, <1>8 DEF QueueInv

\* The row that was owed names the revision that was stored.
LEMMA EnqueueKeeps ==
  ASSUME QueueInv, Enqueue
  PROVE  QueueInv'
<1>1. PICK i \in Issues : i = pass.issue
  BY DEF Enqueue, QueueInv, QueueTyped, PassSound
<1> DEFINE n == Cardinality(pass.got)
           r == pass.listed
           q == Queued(i, r, n)
<1>2. /\ pass.at = "enqueue" /\ row' = [row EXCEPT ![i] = q] /\ shown' = ShownAfter(i, n)
      /\ owed' = owed \ {i} /\ pass' = NoPass /\ UNCHANGED <<provider, parent, staged, passes>>
  BY <1>1 DEF Enqueue
<1>3. /\ UNCHANGED <<home, posted, revision>> /\ StageSound' /\ \A j \in Issues : Thread(j)' = Thread(j)
      /\ \A j \in Issues : RowSound(j) /\ revision[j] \in 1..MaxRevision /\ parent[j] \in 0..MaxRevision
  BY <1>2, ProviderStands
<1>4. /\ pass.got \in SUBSET Comments /\ r = parent[i] /\ r \in 1..MaxRevision /\ r <= revision[i]
      /\ r = revision[i] => pass.got = Thread(i)
  BY <1>1, <1>2, <1>3, QueueAssumption DEF QueueInv, PassSound, RowSound
<1>5. /\ q \in QueueRows /\ q.revision = r /\ q.status # "none"
      /\ shown' \in [Issues -> SUBSET Comments] /\ \A j \in Issues \ {i} : shown'[j] = shown[j]
      /\ NewestFirst /\ q.status = "complete" /\ r = revision[i] => shown'[i] = Thread(i)
  <2> HIDE DEF r
  <2>1. \A S \in SUBSET Comments : S = pass.got =>
           /\ Queued(i, r, Cardinality(S)) \in QueueRows
           /\ Queued(i, r, Cardinality(S)).revision = r /\ Queued(i, r, Cardinality(S)).status # "none"
           /\ ShownAfter(i, Cardinality(S)) \in [Issues -> SUBSET Comments]
           /\ \A j \in Issues \ {i} : ShownAfter(i, Cardinality(S))[j] = shown[j]
           /\ NewestFirst /\ Queued(i, r, Cardinality(S)).status = "complete" /\ r = revision[i]
                => ShownAfter(i, Cardinality(S))[i] = Thread(i)
    BY <1>4, QueuedIs
  <2> QED
    BY <1>2, <1>4, <2>1
<1> HIDE DEF q
<1>6. row'[i] = q /\ \A j \in Issues \ {i} : row'[j] = row[j]
  BY <1>2 DEF QueueInv, QueueTyped
<1>7. QueueTyped'
  BY <1>2, <1>3, <1>5, NoPassIs DEF QueueInv, QueueTyped
<1>8. ASSUME NEW j \in Issues PROVE RowSound(j)'
  BY <1>2, <1>3, <1>4, <1>5, <1>6 DEF RowSound
<1> QED
  BY <1>2, <1>3, <1>7, <1>8, NoPassIs DEF QueueInv

\* Rows for issues that have none say what their parents say.
LEMMA SeededIs ==
  ASSUME QueueInv
  PROVE  /\ Seeded \in [Issues -> QueueRows]
         /\ \A i \in Issues :
              /\ (Seeded[i].status = "none") <=> (Seeded[i].revision = 0)
              /\ Seeded[i].revision <= revision[i] /\ parent[i] <= revision[i]
              /\ i \notin owed => Seeded[i].revision = parent[i]
              /\ NewestFirst /\ Seeded[i].status = "complete" /\ Seeded[i].revision = revision[i] => shown[i] = Thread(i)
<1> SUFFICES ASSUME NEW i \in Issues
             PROVE  /\ Seeded[i] \in QueueRows
                    /\ (Seeded[i].status = "none") <=> (Seeded[i].revision = 0)
                    /\ Seeded[i].revision <= revision[i] /\ parent[i] <= revision[i]
                    /\ i \notin owed => Seeded[i].revision = parent[i]
                    /\ NewestFirst /\ Seeded[i].status = "complete" /\ Seeded[i].revision = revision[i] => shown[i] = Thread(i)
  BY DEF Seeded
<1>1. RowSound(i) /\ row[i] \in QueueRows /\ parent[i] \in 0..MaxRevision /\ MaxComments \in Nat
  BY QueueAssumption DEF QueueInv, QueueTyped
<1>2. CASE parent[i] # 0 /\ row[i].status = "none"
  <2> DEFINE s == [status |-> "pending", revision |-> parent[i], expected |-> -1]
  <2>1. s \in QueueRows /\ s.status = "pending" /\ s.revision = parent[i] /\ s.revision # 0
    BY <1>1, <1>2 DEF QueueRows, Waiting
  <2>2. Seeded[i] = s
    BY <1>2 DEF Seeded
  <2> HIDE DEF s
  <2> QED
    BY <1>1, <2>1, <2>2 DEF RowSound
<1>3. CASE ~(parent[i] # 0 /\ row[i].status = "none")
  BY <1>3, <1>1 DEF Seeded, RowSound
<1> QED
  BY <1>2, <1>3

\* A reading that starts seeds the rows first, whatever it will read.
LEMMA SeedingKeeps ==
  ASSUME QueueInv, NEW c \in QueuePasses, pass' = c, row' = Seeded, passes < MaxPasses, passes' = passes + 1,
         UNCHANGED <<provider, parent, shown, owed, staged>>
  PROVE  QueueTyped' /\ (\A i \in Issues : RowSound(i)') /\ StageSound'
<1>1. UNCHANGED <<home, posted, revision>> /\ StageSound' /\ \A j \in Issues : Thread(j)' = Thread(j)
  BY ProviderStands
<1>2. passes' \in 0..MaxPasses
  BY QueueAssumption DEF QueueInv, QueueTyped
<1>3. QueueTyped'
  BY <1>1, <1>2, SeededIs DEF QueueInv, QueueTyped
<1>4. \A i \in Issues : RowSound(i)'
  BY <1>1, SeededIs DEF RowSound
<1> QED
  BY <1>1, <1>3, <1>4

\* The thread of one waiting issue is read.
LEMMA DrainReadKeeps ==
  ASSUME QueueInv, NEW i \in Issues, DrainRead(i)
  PROVE  QueueInv'
<1> DEFINE c == [NoPass EXCEPT !.at = "read", !.issue = i, !.got = Thread(i)]
<1>1. /\ Seeded[i].status \in Waiting /\ passes < MaxPasses /\ passes' = passes + 1 /\ pass' = c /\ row' = Seeded
      /\ UNCHANGED <<provider, parent, shown, owed, staged>>
  BY DEF DrainRead, Begin
<1>2. /\ UNCHANGED <<home, posted, revision>> /\ \A j \in Issues : Thread(j)' = Thread(j)
      /\ Thread(i) \in SUBSET Comments
  BY <1>1, ProviderStands
<1>3. c \in QueuePasses /\ c.at = "read" /\ c.issue = i /\ c.got = Thread(i)
  BY <1>2, NoPassIs DEF QueuePasses
<1> HIDE DEF c
<1>4. QueueTyped' /\ (\A j \in Issues : RowSound(j)') /\ StageSound'
  BY <1>1, <1>3, SeedingKeeps
<1>5. PassSound'
  BY <1>1, <1>2, <1>3 DEF PassSound
<1> QED
  BY <1>4, <1>5 DEF QueueInv

\* What was read replaces what was cached; the row still waits.
LEMMA DrainReplaceKeeps ==
  ASSUME QueueInv, DrainReplace
  PROVE  QueueInv'
<1>1. PICK i \in Issues : i = pass.issue
  BY DEF DrainReplace, QueueInv, PassSound
<1> DEFINE c == [pass EXCEPT !.at = "replaced"]
<1>2. /\ pass.at = "read" /\ shown' = [shown EXCEPT ![i] = pass.got] /\ pass' = c
      /\ UNCHANGED <<provider, parent, row, owed, staged, passes>>
  BY <1>1 DEF DrainReplace
<1>3. /\ UNCHANGED <<home, posted, revision>> /\ StageSound' /\ \A j \in Issues : Thread(j)' = Thread(j)
      /\ \A j \in Issues : RowSound(j)
  BY <1>2, ProviderStands
<1>4. /\ pass \in QueuePasses /\ pass.got \in SUBSET Comments /\ row[i].status \in Waiting
      /\ row[i].revision = revision[i] => pass.got = Thread(i)
  BY <1>1, <1>2 DEF QueueInv, QueueTyped, PassSound
<1>5. c \in QueuePasses /\ c.at = "replaced" /\ c.issue = i /\ c.got = pass.got
  BY <1>1, <1>4 DEF QueuePasses
<1> HIDE DEF c
<1>6. shown' \in [Issues -> SUBSET Comments] /\ shown'[i] = pass.got /\ \A j \in Issues \ {i} : shown'[j] = shown[j]
  BY <1>2, <1>4 DEF QueueInv, QueueTyped
<1>7. QueueTyped'
  BY <1>2, <1>3, <1>5, <1>6 DEF QueueInv, QueueTyped
<1>8. ASSUME NEW j \in Issues PROVE RowSound(j)'
  BY <1>2, <1>3, <1>4, <1>6 DEF RowSound, Waiting
<1>9. PassSound'
  BY <1>2, <1>3, <1>4, <1>5, <1>6 DEF PassSound
<1> QED
  BY <1>3, <1>7, <1>8, <1>9 DEF QueueInv

\* A row settled with comments that are those of its issue, should it stand still.
LEMMA SettledIs ==
  ASSUME QueueInv, UNCHANGED <<provider, parent, owed, passes>>, pass' \in QueuePasses, staged' \in QueueStages,
         NEW i \in Issues, row[i].status # "none", NEW S \in SUBSET Comments,
         NewestFirst /\ row[i].revision = revision[i] => S = Thread(i),
         row' = [row EXCEPT ![i] = Complete(i, row[i].revision, S)],
         shown' \in [Issues -> SUBSET Comments], shown'[i] = S, \A j \in Issues \ {i} : shown'[j] = shown[j]
  PROVE  /\ QueueTyped' /\ \A j \in Issues : RowSound(j)'
         /\ row'[i].status = "complete" /\ \A j \in Issues \ {i} : row'[j] = row[j]
<1> DEFINE q == Complete(i, row[i].revision, S)
<1>1. /\ UNCHANGED <<home, posted, revision>> /\ \A j \in Issues : Thread(j)' = Thread(j)
      /\ \A j \in Issues : RowSound(j) /\ row[j] \in QueueRows
  BY ProviderStands
<1>2. Cardinality(S) \in -1..MaxComments
  BY CommentsCount, QueueAssumption
<1>3. q \in QueueRows /\ q.status = "complete" /\ q.revision = row[i].revision
  BY <1>1, <1>2 DEF Complete, QueueRows
<1> HIDE DEF q
<1>4. row' = [row EXCEPT ![i] = q]
  BY DEF q
<1>5. row'[i] = q /\ (\A j \in Issues \ {i} : row'[j] = row[j]) /\ row' \in [Issues -> QueueRows]
  BY <1>3, <1>4 DEF QueueInv, QueueTyped
<1>6. QueueTyped'
  BY <1>1, <1>5 DEF QueueInv, QueueTyped
<1>7. ASSUME NEW j \in Issues PROVE RowSound(j)'
  BY <1>1, <1>3, <1>5 DEF RowSound
<1> QED
  BY <1>3, <1>5, <1>6, <1>7

\* The row of a replaced thread is complete.
LEMMA DrainDoneKeeps ==
  ASSUME QueueInv, DrainDone
  PROVE  QueueInv'
<1>1. PICK i \in Issues : i = pass.issue
  BY DEF DrainDone, QueueInv, PassSound
<1>2. /\ pass.at = "replaced" /\ row' = [row EXCEPT ![i] = Complete(i, @.revision, pass.got)] /\ pass' = NoPass
      /\ UNCHANGED <<provider, parent, shown, owed, staged, passes>>
  BY <1>1 DEF DrainDone
<1>3. /\ pass.got \in SUBSET Comments /\ row[i].status # "none" /\ shown[i] = pass.got
      /\ row[i].revision = revision[i] => pass.got = Thread(i)
  BY <1>1, <1>2 DEF QueueInv, PassSound, Waiting
<1>4. row' = [row EXCEPT ![i] = Complete(i, row[i].revision, pass.got)]
  BY <1>2
<1>5. pass' \in QueuePasses /\ staged' \in QueueStages /\ shown' \in [Issues -> SUBSET Comments]
      /\ shown'[i] = pass.got /\ \A j \in Issues \ {i} : shown'[j] = shown[j]
  BY <1>2, <1>3, NoPassIs DEF QueueInv, QueueTyped
<1>6. QueueTyped' /\ \A j \in Issues : RowSound(j)'
  <2> DEFINE S == pass.got
  <2>1. S \in SUBSET Comments /\ (row[i].revision = revision[i] => S = Thread(i)) /\ shown'[i] = S
        /\ row' = [row EXCEPT ![i] = Complete(i, row[i].revision, S)]
    BY <1>3, <1>4, <1>5
  <2> HIDE DEF S
  <2> QED
    BY <1>2, <1>3, <1>5, <2>1, SettledIs
<1> QED
  BY <1>2, <1>6, NoPassIs, ProviderStands DEF QueueInv

\* A row that is put off still waits.
LEMMA DrainDeferredKeeps ==
  ASSUME QueueInv, DrainDeferred
  PROVE  QueueInv'
<1>1. PICK i \in Issues : i = pass.issue
  BY DEF DrainDeferred, QueueInv, PassSound
<1> DEFINE q == [row[i] EXCEPT !.status = "deferred"]
<1>2. /\ pass.at = "read" /\ row' = [row EXCEPT ![i].status = "deferred"] /\ pass' = NoPass
      /\ UNCHANGED <<provider, parent, shown, owed, staged, passes>>
  BY <1>1 DEF DrainDeferred
<1>3. /\ UNCHANGED <<home, posted, revision>> /\ StageSound' /\ \A j \in Issues : Thread(j)' = Thread(j)
      /\ \A j \in Issues : RowSound(j) /\ row[j] \in QueueRows
      /\ row[i].status \in Waiting
  BY <1>1, <1>2, ProviderStands DEF QueueInv, PassSound
<1>4. row' = [row EXCEPT ![i] = q]
  BY <1>2 DEF QueueInv, QueueTyped
<1>5. q \in QueueRows /\ q.status = "deferred" /\ q.revision = row[i].revision
  BY <1>3 DEF QueueRows, Waiting
<1> HIDE DEF q
<1>6. row'[i] = q /\ (\A j \in Issues \ {i} : row'[j] = row[j]) /\ row' \in [Issues -> QueueRows]
  BY <1>4, <1>5 DEF QueueInv, QueueTyped
<1>7. QueueTyped'
  BY <1>2, <1>3, <1>6, NoPassIs DEF QueueInv, QueueTyped
<1>8. ASSUME NEW j \in Issues PROVE RowSound(j)'
  BY <1>2, <1>3, <1>5, <1>6 DEF RowSound, Waiting
<1> QED
  BY <1>2, <1>3, <1>7, <1>8, NoPassIs DEF QueueInv

\* Steps that leave the cache alone.
LEMMA CacheStands ==
  ASSUME QueueInv, UNCHANGED <<provider, parent, row, shown, owed, passes>>, pass' \in QueuePasses,
         staged' \in QueueStages
  PROVE  QueueTyped' /\ \A j \in Issues : RowSound(j)'
<1>1. /\ UNCHANGED <<home, posted, revision>> /\ \A j \in Issues : Thread(j)' = Thread(j)
      /\ \A j \in Issues : RowSound(j)
  BY ProviderStands
<1>2. QueueTyped'
  BY <1>1 DEF QueueInv, QueueTyped
<1>3. \A j \in Issues : RowSound(j)'
  BY <1>1 DEF RowSound
<1> QED
  BY <1>2, <1>3

\* A reading that ends, however, leaves what it has written.
LEMMA PassEndsKeeps ==
  ASSUME QueueInv, PassBreaks \/ AggregateEnds
  PROVE  QueueInv'
<1>1. pass' = NoPass /\ UNCHANGED <<provider, parent, row, shown, owed, staged, passes>>
  BY DEF PassBreaks, AggregateEnds
<1>2. pass' \in QueuePasses /\ staged' \in QueueStages
  BY <1>1, NoPassIs DEF QueueInv, QueueTyped
<1> QED
  BY <1>1, <1>2, NoPassIs, ProviderStands, CacheStands DEF QueueInv

\* The pass does not look at the stage, nor the stage at the pass.
LEMMA PassStands ==
  ASSUME QueueInv, UNCHANGED <<provider, parent, row, shown, owed, pass>>
  PROVE  PassSound'
<1>1. UNCHANGED <<home, posted, revision>>
  BY DEF provider
<1> QED
  BY <1>1 DEF QueueInv, PassSound, WalkSound, Ahead, Older, Existing, Thread

\* The daemon stages the thread with the revision of the row.
LEMMA FetchCommentsKeeps ==
  ASSUME QueueInv, NEW i \in Issues, FetchComments(i)
  PROVE  QueueInv'
<1> DEFINE s == [on |-> TRUE, issue |-> i, revision |-> row[i].revision, got |-> Thread(i)]
<1>1. /\ row[i].status = FirstWaiting /\ staged' = s
      /\ UNCHANGED <<provider, parent, row, shown, owed, pass, passes>>
  BY DEF FetchComments
<1>2. /\ UNCHANGED <<home, posted, revision>> /\ \A j \in Issues : Thread(j)' = Thread(j)
      /\ RowSound(i) /\ row[i] \in QueueRows /\ Thread(i) \in SUBSET Comments
  BY <1>1, ProviderStands
<1>3. s \in QueueStages /\ s.on /\ s.issue = i /\ s.revision = row[i].revision /\ s.got = Thread(i)
  BY <1>2 DEF QueueStages, QueueRows
<1> HIDE DEF s
<1>4. pass' \in QueuePasses
  BY <1>1 DEF QueueInv, QueueTyped
<1>5. QueueTyped' /\ \A j \in Issues : RowSound(j)'
  BY <1>1, <1>3, <1>4, CacheStands
<1>6. row[i].status # "none"
  BY <1>1 DEF FirstWaiting
<1>7. StageSound'
  BY <1>1, <1>2, <1>3, <1>6 DEF StageSound, RowSound
<1> QED
  BY <1>1, <1>5, <1>7, PassStands DEF QueueInv

\* A stage may be dropped.
LEMMA DropCommentsKeeps ==
  ASSUME QueueInv, DropComments
  PROVE  QueueInv'
<1>1. staged' = NotStaged /\ UNCHANGED <<provider, parent, row, shown, owed, pass, passes>>
  BY DEF DropComments
<1>2. NotStaged \in QueueStages /\ ~NotStaged.on
  BY QueueAssumption DEF NotStaged, QueueStages
<1>3. QueueTyped' /\ \A j \in Issues : RowSound(j)'
  BY <1>1, <1>2, CacheStands DEF QueueInv, QueueTyped
<1>4. StageSound'
  BY <1>1, <1>2 DEF StageSound
<1> QED
  BY <1>1, <1>3, <1>4, PassStands DEF QueueInv

\* A stage is committed under a row that has not moved since it was read.
LEMMA CommitCommentsKeeps ==
  ASSUME QueueInv, CommitComments
  PROVE  QueueInv'
<1>1. PICK i \in Issues : i = staged.issue
  BY DEF CommitComments, QueueInv, StageSound
<1> DEFINE S == staged.got
<1>2. /\ staged.on /\ pass.at = "idle" /\ row[i].revision = staged.revision
      /\ shown' = [shown EXCEPT ![i] = S] /\ row' = [row EXCEPT ![i] = Complete(i, staged.revision, S)]
      /\ staged' = NotStaged /\ UNCHANGED <<provider, parent, owed, pass, passes>>
  BY <1>1 DEF CommitComments, SameParent
<1>3. /\ S \in SUBSET Comments /\ row[i].revision # 0 /\ (row[i].revision = revision[i] => S = Thread(i))
      /\ RowSound(i)
  BY <1>1, <1>2 DEF QueueInv, QueueTyped, QueueStages, StageSound
<1> HIDE DEF S
<1>4. NotStaged \in QueueStages /\ ~NotStaged.on
  BY QueueAssumption DEF NotStaged, QueueStages
<1>5. /\ pass' \in QueuePasses /\ staged' \in QueueStages /\ row[i].status # "none"
      /\ row' = [row EXCEPT ![i] = Complete(i, row[i].revision, S)]
      /\ shown' \in [Issues -> SUBSET Comments] /\ shown'[i] = S /\ \A j \in Issues \ {i} : shown'[j] = shown[j]
  BY <1>2, <1>3, <1>4 DEF QueueInv, QueueTyped, RowSound
<1>6. QueueTyped' /\ \A j \in Issues : RowSound(j)'
  BY <1>2, <1>3, <1>5, SettledIs
<1>7. StageSound'
  BY <1>2, <1>4 DEF StageSound
<1>8. PassSound'
  BY <1>2 DEF PassSound
<1> QED
  BY <1>6, <1>7, <1>8 DEF QueueInv

-----------------------------------------------------------------------------
(* The walk *)

\* A walk starts with nothing seen: everything is still ahead.
LEMMA AggregateBeginsKeeps ==
  ASSUME QueueInv, AggregateBegins
  PROVE  QueueInv'
<1> DEFINE W == {i \in Issues : Seeded[i].status \in Waiting}
           c == [NoPass EXCEPT !.at = "walk", !.pend = W]
<1>1. /\ passes < MaxPasses /\ passes' = passes + 1 /\ pass' = c /\ row' = Seeded
      /\ UNCHANGED <<provider, parent, shown, owed, staged>>
  BY DEF AggregateBegins, Begin
<1>2. W \in SUBSET Issues
  OBVIOUS
<1>3. /\ c \in QueuePasses /\ c.at = "walk" /\ c.pend = W /\ c.got = {} /\ c.page = 1 /\ c.total = 0
  BY <1>2, NoPassIs DEF QueuePasses
<1> HIDE DEF c
<1>4. QueueTyped' /\ (\A j \in Issues : RowSound(j)') /\ StageSound'
  BY <1>1, <1>3, SeedingKeeps
<1>5. ASSUME NEW i \in W PROVE WalkSound(i)'
  <2>1. row'[i].status \in Waiting
    BY <1>1
  <2>2. \A d \in Comments : <<i, d>> \notin pass'.got
    BY <1>1, <1>3
  <2>3. \A d \in Comments : Ahead(d)'
    BY <1>1, <1>3 DEF Ahead
  <2>4. \A d \in Thread(i)' : d \in Comments
    BY DEF Thread
  <2> QED
    BY <2>1, <2>2, <2>3, <2>4 DEF WalkSound
<1>6. PassSound'
  <2> HIDE DEF W
  <2> QED
    BY <1>1, <1>3, <1>5 DEF PassSound
<1> QED
  BY <1>4, <1>6 DEF QueueInv

\* A comment that is not on the page, of an issue that stands still, is further on.
LEMMA AggregateListsPageKeeps ==
  ASSUME QueueInv, AggregateListsPage
  PROVE  QueueInv'
<1> DEFINE page == CommentsOn(pass.page)
           total == Cardinality(Existing)
           known == {c \in page : row[home[c]].status # "none"}
           kept == {c \in known : home[c] \in pass.pend}
           m == pass.page * AggregatePage
           n == Cardinality(page)
           K == {<<home[c], c>> : c \in kept}
           f == pass.failed \/ known # page \/ (pass.total # 0 /\ total # 0 /\ pass.total # total)
           w == IF m >= total THEN "reconcile" ELSE "walk"
           t == IF pass.total = 0 THEN total ELSE pass.total
           b == [pass EXCEPT !.at = w, !.page = @ + 1, !.listed = @ + n]
           a == [b EXCEPT !.got = @ \union K, !.total = t, !.failed = f]
<1>1. /\ pass.at = "walk" /\ shown' = [i \in Issues |-> shown[i] \union {c \in kept : home[c] = i}]
      /\ UNCHANGED <<provider, parent, row, owed, staged, passes>>
  BY DEF AggregateListsPage
<1>2. pass' = a
  BY DEF AggregateListsPage
<1>3. /\ pass \in QueuePasses /\ pass.page \in Nat \ {0} /\ pass.total \in Nat /\ pass.pend \subseteq Issues
      /\ AggregatePage \in Nat \ {0} /\ NoIssue \notin Issues
      /\ home \in [Comments -> Issues \union {NoIssue}] /\ shown \in [Issues -> SUBSET Comments]
  BY QueueAssumption DEF QueueInv, QueueTyped, QueuePasses
<1>4. /\ total \in Nat /\ n \in Nat /\ page \in SUBSET Comments /\ page \subseteq Existing
  BY CommentsCount, QueueAssumption DEF CommentsOn, Existing
<1>5. m \in Nat /\ m = (pass.page + 1 - 1) * AggregatePage
  BY <1>3
<1>6. kept \in SUBSET Comments /\ K \in SUBSET (Comments \union (Issues \X Comments))
  BY <1>3, <1>4
<1>7. f \in BOOLEAN /\ t \in Nat /\ w \in {"walk", "reconcile"}
  BY <1>3, <1>4
<1>8. /\ a \in QueuePasses /\ a.at = w /\ a.page = pass.page + 1 /\ a.got = pass.got \union K /\ a.total = t
      /\ a.failed = f /\ a.pend = pass.pend
  <2> HIDE DEF page, total, known, kept, m, n, K, f, w, t
  <2>1. /\ b \in QueuePasses /\ b.at = w /\ b.page = pass.page + 1 /\ b.pend = pass.pend
        /\ b.got = pass.got
    <3> DEFINE e == [pass EXCEPT !.at = w]
               p == pass.page + 1
               l == pass.listed + n
    <3>1. e \in QueuePasses /\ e.at = w /\ e.pend = pass.pend /\ e.got = pass.got
      BY <1>3, <1>7 DEF QueuePasses
    <3>2. p \in Nat \ {0} /\ l \in Nat
      BY <1>3, <1>4 DEF QueuePasses
    <3>3. b = [e EXCEPT !.page = p, !.listed = l]
      BY <1>3 DEF QueuePasses
    <3> HIDE DEF e, b, l
    <3> QED
      BY <3>1, <3>2, <3>3 DEF QueuePasses
  <2> HIDE DEF b
  <2> QED
    BY <1>6, <1>7, <2>1 DEF QueuePasses
<1>9. /\ UNCHANGED <<home, posted, revision>> /\ StageSound' /\ \A j \in Issues : Thread(j)' = Thread(j)
      /\ \A j \in Issues : RowSound(j)
  BY <1>1, ProviderStands
<1>10. shown' \in [Issues -> SUBSET Comments]
  BY <1>1, <1>3, <1>6
<1>11. QueueTyped'
  <2> HIDE DEF a
  <2> QED
    BY <1>1, <1>2, <1>8, <1>9, <1>10 DEF QueueInv, QueueTyped
<1>12. \A i \in pass.pend : WalkSound(i) /\ row[i].status \in Waiting
  BY <1>1 DEF QueueInv, PassSound, WalkSound
<1>13. ASSUME NEW j \in Issues PROVE RowSound(j)'
  <2>1. row[j].status = "complete" => shown'[j] = shown[j]
    BY <1>12, <1>1 DEF Waiting
  <2> QED
    BY <1>1, <1>9, <2>1 DEF RowSound
<1>14. ASSUME NewestFirst, NEW i \in pass.pend, row[i].revision = revision[i], ~f,
              NEW c \in Thread(i), <<i, c>> \notin pass.got \union K
       PROVE  w = "walk" /\ t - 1 - Cardinality(Older(c)) >= m
  <2>1. c \in Comments /\ home[c] = i /\ i \in Issues /\ c \in Existing
    BY <1>3 DEF Thread, Existing
  <2> DEFINE x == Cardinality(Before(c))
             y == Cardinality(Older(c))
             l == (pass.page - 1) * AggregatePage
  <2>2. x \in Nat /\ y \in Nat /\ total = x + 1 + y
    BY <1>14, <2>1, PlaceInList
  <2>3. t = total
    BY <1>4, <1>14, <2>2
  <2>4. Ahead(c) /\ ~pass.failed
    BY <1>12, <1>14 DEF WalkSound
  <2>5. (pass.total = 0 <=> pass.page = 1) /\ (pass.total # 0 => pass.total - 1 - y >= l) /\ l \in Nat
    BY <1>1, <1>3, <2>4 DEF QueueInv, PassSound, Ahead
  <2>6. x >= l
    <3>1. CASE pass.total = 0
      <4>1. l = 0
        BY <1>3, <2>5, <3>1
      <4> HIDE DEF x, l
      <4> QED
        BY <2>2, <4>1
    <3>2. CASE pass.total # 0
      <4>1. pass.total = total
        BY <1>14, <2>3, <3>2
      <4> HIDE DEF x, y, l, total
      <4> QED
        BY <2>2, <2>5, <3>2, <4>1
    <3> QED
      BY <3>1, <3>2
  <2>7. ~(x < m)
    <3> SUFFICES ASSUME x < m PROVE FALSE
      OBVIOUS
    <3>1. c \in page
      <4>1. page = {d \in Existing : (pass.page - 1) * AggregatePage <= Cardinality(Before(d))
                                      /\ Cardinality(Before(d)) < pass.page * AggregatePage}
        BY DEF CommentsOn
      <4>2. l <= x
        <5> HIDE DEF x, l
        <5> QED
          BY <2>2, <2>5, <2>6
      <4> QED
        BY <2>1, <4>1, <4>2
    <3>2. c \in kept
      <4>1. row[i].status # "none"
        BY <1>12 DEF Waiting
      <4> HIDE DEF page
      <4> QED
        BY <2>1, <3>1, <4>1
    <3>3. <<home[c], c>> \in K
      BY <3>2
    <3> QED
      BY <1>14, <2>1, <3>3
  <2> HIDE DEF x, y, l, total, m, t
  <2>8. total > m
    BY <1>5, <2>2, <2>7
  <2>9. ~(m >= total)
    BY <1>4, <1>5, <2>8
  <2> QED
    BY <1>5, <2>2, <2>3, <2>7, <2>9 DEF y
<1>15. ASSUME NEW i \in pass.pend PROVE WalkSound(i)'
  <2> HIDE DEF a, f, w, t
  <2>1. i \in Issues /\ row' = row /\ home' = home /\ revision' = revision /\ Thread(i)' = Thread(i)
    BY <1>1, <1>3, <1>9
  <2>2. pass'.got = pass.got \union K /\ pass'.failed = f /\ pass'.at = w /\ pass'.total = t
        /\ pass'.page = pass.page + 1
    BY <1>2, <1>8
  <2>3. ASSUME row[i].revision = revision[i], NEW c \in Comments, <<i, c>> \in pass.got \union K
        PROVE  home[c] = i
    BY <1>12, <2>3 DEF WalkSound
  <2>4. ASSUME NewestFirst, row[i].revision = revision[i], ~f, NEW c \in Thread(i), <<i, c>> \notin pass.got \union K
        PROVE  Ahead(c)'
    <3>1. w = "walk" /\ t - 1 - Cardinality(Older(c)) >= m
      BY <1>14, <2>4
    <3>2. Older(c)' = Older(c)
      BY <2>1 DEF Older, Existing
    <3>3. pass'.total - 1 - Cardinality(Older(c)') >= (pass'.page - 1) * AggregatePage
      <4>1. pass'.page - 1 = pass.page
        BY <1>3, <2>2
      <4>2. (pass'.page - 1) * AggregatePage = m
        BY <4>1
      <4> HIDE DEF m
      <4> QED
        BY <2>2, <3>1, <3>2, <4>2
    <3> QED
      BY <2>2, <3>1, <3>3 DEF Ahead
  <2>5. row[i].revision = revision[i] =>
          /\ \A c \in Comments : <<i, c>> \in pass.got \union K => home[c] = i
          /\ NewestFirst /\ ~f => \A c \in Thread(i) : <<i, c>> \notin pass.got \union K => Ahead(c)'
    BY <2>3, <2>4
  <2> HIDE DEF K
  <2> QED
    BY <1>12, <2>1, <2>2, <2>5 DEF WalkSound
<1>16. a.at = "walk" => (a.total = 0 <=> a.page = 1)
  <2>1. a.at = "walk" => t # 0
    <3> HIDE DEF m, total
    <3> QED
      BY <1>3, <1>4, <1>5, <1>8
  <2>2. a.page # 1 /\ a.total = t
    BY <1>3, <1>8
  <2> HIDE DEF a, t
  <2> QED
    BY <2>1, <2>2
<1>17. PassSound'
  <2> HIDE DEF a
  <2> QED
    BY <1>2, <1>7, <1>8, <1>15, <1>16 DEF PassSound
<1> QED
  BY <1>9, <1>11, <1>13, <1>17 DEF QueueInv

\* After the last page nothing is ahead, so what was seen of an issue is all of it.
LEMMA AggregateReconcilesKeeps ==
  ASSUME QueueInv, NEW i \in Issues, AggregateReconciles(i)
  PROVE  QueueInv'
<1> DEFINE got == {c \in Comments : <<i, c>> \in pass.got}
           a == [pass EXCEPT !.pend = @ \ {i}]
<1>1. /\ pass.at = "reconcile" /\ ~pass.failed /\ i \in pass.pend /\ pass' = a
      /\ UNCHANGED <<provider, parent, owed, staged, passes>>
  BY DEF AggregateReconciles
<1>2. \/ /\ shown' = [shown EXCEPT ![i] = got]
         /\ row' = [row EXCEPT ![i] = Complete(i, row[i].revision, got)]
      \/ UNCHANGED <<shown, row>>
  BY DEF AggregateReconciles
<1>3. /\ UNCHANGED <<home, posted, revision>> /\ StageSound' /\ \A j \in Issues : Thread(j)' = Thread(j)
  BY <1>1, ProviderStands
<1>4. /\ a \in QueuePasses /\ a.at = "reconcile" /\ a.pend = pass.pend \ {i} /\ a.got = pass.got
      /\ a.failed = pass.failed /\ pass.pend \subseteq Issues
  BY <1>1 DEF QueueInv, QueueTyped, QueuePasses
<1> HIDE DEF a
<1>5. \A j \in pass.pend : WalkSound(j)
  BY <1>1 DEF QueueInv, PassSound
<1>6. \A c \in Comments : ~Ahead(c)
  BY <1>1 DEF Ahead
<1>7. row[i].status # "none" /\ (NewestFirst /\ row[i].revision = revision[i] => got = Thread(i))
  BY <1>1, <1>5, <1>6 DEF WalkSound, Waiting, Thread
<1>8. QueueTyped' /\ (\A j \in Issues : RowSound(j)') /\ \A j \in Issues \ {i} : row'[j] = row[j]
  <2>1. pass' \in QueuePasses /\ staged' \in QueueStages /\ got \in SUBSET Comments
    BY <1>1, <1>4 DEF QueueInv, QueueTyped
  <2> HIDE DEF got
  <2>2. CASE /\ shown' = [shown EXCEPT ![i] = got]
             /\ row' = [row EXCEPT ![i] = Complete(i, row[i].revision, got)]
    BY <2>1, <2>2, <1>1, <1>7, SettledIs DEF QueueInv, QueueTyped
  <2>3. CASE UNCHANGED <<shown, row>>
    BY <1>1, <2>1, <2>3, CacheStands
  <2> QED
    BY <1>2, <2>2, <2>3
<1>9. ASSUME NEW j \in pass'.pend PROVE WalkSound(j)'
  BY <1>1, <1>4, <1>5, <1>8, <1>3, <1>6 DEF WalkSound, Thread
<1>10. PassSound'
  BY <1>1, <1>4, <1>9 DEF PassSound
<1> QED
  BY <1>3, <1>8, <1>10 DEF QueueInv

-----------------------------------------------------------------------------
(* The theorems *)

\* The invariant holds of an empty queue.
LEMMA QueueBegins == QueueInit => QueueInv
<1> SUFFICES ASSUME QueueInit PROVE QueueInv
  OBVIOUS
<1>1. NotStaged \in QueueStages /\ ~NotStaged.on
  BY QueueAssumption DEF NotStaged, QueueStages
<1>2. NoRow \in QueueRows /\ NoRow.status = "none" /\ NoRow.revision = 0
  BY QueueAssumption DEF NoRow, QueueRows
<1>3. pass = NoPass /\ staged = NotStaged
  BY DEF QueueInit
<1>4. PassSound /\ StageSound
  BY <1>1, <1>3, NoPassIs DEF PassSound, StageSound
<1>5. QueueTyped
  BY <1>1, <1>2, <1>3, NoPassIs, QueueAssumption DEF QueueInit, QueueTyped
<1>6. ASSUME NEW i \in Issues PROVE RowSound(i)
  BY <1>2, QueueAssumption DEF QueueInit, RowSound
<1> QED
  BY <1>4, <1>5, <1>6 DEF QueueInv

\* Every action keeps the invariant.
LEMMA QueueKeeps ==
  ASSUME QueueInv, QueueNext
  PROVE  QueueInv'
<1>1. CASE (\E x \in Issues : Post(x)) \/ \E d \in Comments : Delete(d)
  BY <1>1, ProviderKeeps
<1>2. CASE \E i \in Issues : CommitParent(i) \/ StoreParent(i)
  BY <1>2, CommitParentKeeps, StoreParentKeeps
<1>3. CASE \E i \in Issues : DrainRead(i) \/ AggregateReconciles(i) \/ FetchComments(i)
  BY <1>3, DrainReadKeeps, AggregateReconcilesKeeps, FetchCommentsKeeps
<1>4. CASE Enqueue \/ DrainReplace \/ DrainDone \/ DrainDeferred
  BY <1>4, EnqueueKeeps, DrainReplaceKeeps, DrainDoneKeeps, DrainDeferredKeeps
<1>5. CASE AggregateBegins \/ AggregateListsPage \/ AggregateEnds \/ PassBreaks
  BY <1>5, AggregateBeginsKeeps, AggregateListsPageKeeps, PassEndsKeeps
<1>6. CASE CommitComments \/ DropComments
  BY <1>6, CommitCommentsKeeps, DropCommentsKeeps
<1> QED
  BY <1>1, <1>2, <1>3, <1>4, <1>5, <1>6 DEF QueueNext

\* So does a step that changes nothing.
LEMMA QueueStays ==
  ASSUME QueueInv, UNCHANGED queueVars
  PROVE  QueueInv'
<1>1. UNCHANGED <<home, posted, revision, parent, row, shown, owed, pass, staged, passes>>
  BY DEF queueVars
<1>2. \A i \in Issues : Thread(i)' = Thread(i)
  BY <1>1 DEF Thread
<1>3. \A i \in Issues : RowSound(i)'
  BY <1>1, <1>2 DEF QueueInv, RowSound
<1>4. UNCHANGED <<provider, parent, row, shown, owed, pass>> /\ UNCHANGED <<provider, staged>>
  BY <1>1 DEF provider
<1>5. PassSound' /\ StageSound'
  BY <1>4, PassStands, ProviderStands
<1>6. QueueTyped'
  BY <1>1 DEF QueueInv, QueueTyped
<1> QED
  BY <1>3, <1>5, <1>6 DEF QueueInv

\* The invariant holds in every state.
LEMMA QueueHolds == QueueSpec => []QueueInv
<1>1. QueueInv /\ [QueueNext]_queueVars => QueueInv'
  BY QueueKeeps, QueueStays
<1> QED
  BY <1>1, QueueBegins, PTL DEF QueueSpec

\* What the invariant says to a reader of the cache.
LEMMA QueueShows == QueueInv => QueueTypeOK /\ RowFollowsParent /\ (NewestFirst => CommentsAreExact)
<1> SUFFICES ASSUME QueueInv PROVE QueueTypeOK /\ RowFollowsParent /\ (NewestFirst => CommentsAreExact)
  OBVIOUS
<1>1. QueueTypeOK
  BY DEF QueueInv, QueueTyped, QueueRows, QueuePasses, QueueStages, RowSound, QueueTypeOK
<1>2. RowFollowsParent
  BY DEF QueueInv, RowSound, RowFollowsParent
<1>3. NewestFirst => CommentsAreExact
  BY <1>2 DEF QueueInv, RowSound, CommentsAreExact, CompleteIsExact, RowFollowsParent
<1> QED
  BY <1>1, <1>2, <1>3

\* Types; a row names a revision exactly if there is one (durable_comment_sync.go,
\* issue_comment_sync of the cache).
THEOREM QueueTypesHold == QueueSpec => []QueueTypeOK
  BY QueueHolds, QueueShows, PTL

\* The queue never falls behind the issue it describes, in any order of the list, except
\* where a run died between storing an issue and queueing it (enqueueIssueCommentSync).
THEOREM RowsFollow == QueueSpec => []RowFollowsParent
  BY QueueHolds, QueueShows, PTL

\* With the newest comments listed first a row that is complete for the revision of its
\* issue shows the comments the provider has (BulkSyncIssueComments, CommitIssueCommentSyncBatch).
THEOREM CommentsStayExact == NewestFirst => (QueueSpec => []CommentsAreExact)
<1> SUFFICES ASSUME NewestFirst PROVE QueueSpec => []CommentsAreExact
  OBVIOUS
<1>1. QueueSpec => []QueueInv
  BY QueueHolds
<1>2. QueueInv => CommentsAreExact
  BY QueueShows
<1> QED
  BY <1>1, <1>2, PTL

-----------------------------------------------------------------------------
(* The command that upgrades a cache beside the service that uses it.      *)

Steps == {"idle", "status", "plan", "quiesce", "stopping", "migrate", "upgrade", "journal", "restart",
          "install", "health", "evidence", "receipt", "clear"}
Statuses == [installed : BOOLEAN, running : BOOLEAN, pid : BOOLEAN]
CommandStates == [at : Steps, needs : BOOLEAN, mem : Intent \union {NoIntent}, status : Statuses]

Places == {"off", "cleared", "loading", "serving", "closing"}
DaemonStates == [at : Places, bin : Binaries, pid : 0..MaxBoots]
\* The types of the service; only a daemon that never ran has no pid.
ServiceTyped ==
    /\ ServiceTypeOK
    /\ \A k \in Kinds : daemon[k].at # "off" => daemon[k].pid # 0

\* The types, with what each command is doing.
MigrationTyped ==
    /\ ServiceTyped
    /\ schema \in Binaries /\ lease \in {"free"} \union Kinds \union Commands
    /\ intent \in Intent \union {NoIntent}
    /\ receipt \in [evidence : BOOLEAN, bin : {"new", "none"}] \union {NoReceipt}
    /\ command \in [Commands -> CommandStates]
    /\ stopped \in BOOLEAN /\ commands \in 0..MaxCommands
\* A daemon that holds the writer lock has not exited, and a command holds it
\* while it upgrades.
LeaseSound ==
    /\ lease \in Kinds => daemon[lease].at \in {"serving", "closing"}
    /\ \A c \in Commands : lease = c <=> command[c].at = "upgrade"
\* Evidence is of an upgrade that took place, and only an intent has it.
Journals == {"journal", "install", "health", "evidence", "receipt", "clear"}
Honest(mem) == mem # NoIntent /\ mem.evidence => schema = "new"
EvidenceSound ==
    /\ \A c \in Commands : /\ command[c].at \in Journals => Pending(c)
                           /\ Honest(command[c].mem)
                           /\ command[c].at = "receipt" => command[c].mem.evidence
    /\ Honest(intent)
    /\ ReceiptIsEarned
MigrationInv == MigrationTyped /\ LeaseSound /\ EvidenceSound

-----------------------------------------------------------------------------
\* A daemon that goes to another place keeps the types of the service.
LEMMA PlaceKeepsTypes ==
    ASSUME ServiceTyped, NEW k \in Kinds, NEW a \in Places, daemon[k].at # "off" \/ a = "off",
           daemon' = [daemon EXCEPT ![k].at = a]
    PROVE  /\ daemon' \in [Kinds -> DaemonStates]
           /\ \A j \in Kinds : daemon'[j].at # "off" => daemon'[j].pid # 0
           /\ daemon'[k].at = a
           /\ \A j \in Kinds \ {k} : daemon'[j] = daemon[j]
  <1>1. daemon \in [Kinds -> DaemonStates]
    BY DEF ServiceTyped, ServiceTypeOK, DaemonStates, Places
  <1>2. /\ [daemon[k] EXCEPT !.at = a] \in DaemonStates
        /\ [daemon[k] EXCEPT !.at = a].at = a
        /\ [daemon[k] EXCEPT !.at = a].pid = daemon[k].pid
    BY <1>1 DEF DaemonStates
  <1>3. daemon' = [daemon EXCEPT ![k] = [daemon[k] EXCEPT !.at = a]]
    BY <1>1
  <1> QED BY <1>1, <1>2, <1>3 DEF ServiceTyped

\* A daemon that is stopped keeps its types, and one that holds the lease
\* lives on.
LEMMA UnloadFacts ==
    ASSUME ServiceTyped, Unload
    PROVE  /\ daemon' \in [Kinds -> DaemonStates]
           /\ \A j \in Kinds : daemon'[j].at # "off" => daemon'[j].pid # 0
           /\ \A k \in Kinds : daemon[k].at \in {"serving", "closing"} =>
                  daemon'[k].at \in {"serving", "closing"}
           /\ socket' \in {socket, 0}
           /\ daemon'["foreground"] = daemon["foreground"]
           /\ daemon'["managed"].at # "serving"
           /\ daemon["managed"].at # "serving" => UNCHANGED socket
           /\ daemon["managed"].at = "serving" => socket' = 0
           /\ daemon'["managed"].at \in {"off", "closing"}
           /\ daemon'["managed"].at = "closing" => daemon["managed"].at \in {"serving", "closing"}
           /\ daemon'["managed"].at = "closing" => daemon'["managed"].pid = daemon["managed"].pid
  <1>1. PICK a \in {"off", "closing"} :
              /\ daemon' = [daemon EXCEPT !["managed"].at = a]
              /\ a = "closing" <=> daemon["managed"].at \in {"serving", "closing"}
    BY DEF Unload, Unserve, ServiceTyped, ServiceTypeOK, Kinds
  <1>2. daemon["managed"].at = "off" => a = "off"
    BY <1>1
  <1>3. /\ daemon' \in [Kinds -> DaemonStates]
        /\ \A j \in Kinds : daemon'[j].at # "off" => daemon'[j].pid # 0
        /\ daemon'["managed"].at = a
        /\ \A j \in Kinds \ {"managed"} : daemon'[j] = daemon[j]
    BY <1>1, <1>2, PlaceKeepsTypes DEF Places, Kinds
  <1>4. daemon'["managed"].pid = daemon["managed"].pid
    BY <1>1 DEF ServiceTyped, ServiceTypeOK, Kinds
  <1>5. /\ daemon["managed"].at # "serving" => UNCHANGED socket
        /\ daemon["managed"].at = "serving" => socket' = 0
    BY DEF Unload, Unserve
  <1> QED BY <1>1, <1>3, <1>4, <1>5 DEF Kinds

\* The steps of the service keep its types, and do not stop a daemon that
\* serves or closes otherwise than by making it close or exit.
LEMMA ServiceKeepsTypes ==
    ASSUME ServiceTyped, ServiceNext
    PROVE  ServiceTyped'
  <1>0. ASSUME Stop
        PROVE  /\ daemon' \in [Kinds -> DaemonStates]
               /\ \A j \in Kinds : daemon'[j].at # "off" => daemon'[j].pid # 0
               /\ socket' \in {socket, 0}
               /\ UNCHANGED <<unit, stateFile, boots>>
    BY <1>0, UnloadFacts DEF Stop
  <1> USE DEF ServiceTyped, ServiceTypeOK, DaemonStates, Places
  <1>1. CASE Uninstall \/ \E b \in Binaries : Install(b)
    BY <1>1 DEF Uninstall, Install
  <1>2. CASE Stop
    BY BootAssumption, <1>0, <1>2
  <1>3. ASSUME NEW k \in Kinds, NEW b \in Binaries, Boot(k, b)
        PROVE  ServiceTyped'
    <2>1. boots + 1 \in 0..MaxBoots /\ boots + 1 # 0 /\ socket' = 0 /\ boots' = boots + 1
      BY <1>3, BootAssumption DEF Boot, SocketAtBoot
    <2>2. [at |-> "cleared", bin |-> b, pid |-> boots + 1] \in DaemonStates
      BY <2>1
    <2>3. daemon' = [daemon EXCEPT ![k] = [at |-> "cleared", bin |-> b, pid |-> boots + 1]]
      BY <1>3 DEF Boot
    <2>4. UNCHANGED <<unit, stateFile>>
      BY <1>3 DEF Boot
    <2>5. 0 \in 0..MaxBoots
      BY BootAssumption
    <2> QED BY <2>1, <2>2, <2>3, <2>4, <2>5
  <1>4. ASSUME NEW k \in Kinds, PublishState(k)
        PROVE  ServiceTyped'
    <2>1. /\ daemon' \in [Kinds -> DaemonStates]
          /\ \A j \in Kinds : daemon'[j].at # "off" => daemon'[j].pid # 0
      BY <1>4, PlaceKeepsTypes DEF PublishState
    <2>2. daemon[k].pid \in 1..MaxBoots /\ daemon[k].bin \in Binaries
      BY <1>4, BootAssumption DEF PublishState
    <2>3. stateFile' = [pid |-> daemon[k].pid, bin |-> daemon[k].bin] /\ UNCHANGED <<unit, socket, boots>>
      BY <1>4 DEF PublishState
    <2> QED BY <2>1, <2>2, <2>3
  <1>5. ASSUME NEW k \in Kinds, Listen(k) \/ BootFails(k) \/ Close(k) \/ Exit(k) \/ DaemonCrash(k)
        PROVE  ServiceTyped'
    <2>1. \E a \in Places : /\ daemon[k].at # "off" \/ a = "off"
                            /\ daemon' = [daemon EXCEPT ![k].at = a]
      BY <1>5 DEF Listen, BootFails, Close, Unserve, Exit, DaemonCrash
    <2>2. /\ daemon' \in [Kinds -> DaemonStates]
          /\ \A j \in Kinds : daemon'[j].at # "off" => daemon'[j].pid # 0
      BY <2>1, PlaceKeepsTypes
    <2>3. socket' \in {socket, 0, daemon[k].pid} /\ UNCHANGED <<unit, stateFile, boots>>
      BY <1>5 DEF Listen, BootFails, Close, Unserve, Exit, DaemonCrash
    <2>4. {socket, 0, daemon[k].pid} \subseteq 0..MaxBoots
      BY BootAssumption
    <2> QED BY <2>2, <2>3, <2>4
  <1> QED BY <1>1, <1>2, <1>3, <1>4, <1>5 DEF ServiceNext

\* A daemon that serves or closes goes on to close or exits.
LEMMA HoldersEnd ==
    ASSUME ServiceTyped, ServiceNext, NEW h \in Kinds, daemon[h].at \in {"serving", "closing"}
    PROVE  daemon'[h].at \in {"serving", "closing", "off"}
  <1> USE DEF ServiceTyped, ServiceTypeOK
  <1>1. CASE Uninstall \/ \E b \in Binaries : Install(b)
    BY <1>1 DEF Uninstall, Install
  <1>2. CASE Stop
    BY <1>2 DEF Stop, Unload, Unserve, Kinds
  <1>3. ASSUME NEW k \in Kinds, \/ \E b \in Binaries : Boot(k, b)
                                \/ PublishState(k) \/ Listen(k) \/ BootFails(k)
                                \/ Close(k) \/ Exit(k) \/ DaemonCrash(k)
        PROVE  daemon'[h].at \in {"serving", "closing", "off"}
    BY <1>3 DEF Boot, PublishState, Listen, BootFails, Close, Unserve, Exit, DaemonCrash
  <1> QED BY <1>1, <1>2, <1>3 DEF ServiceNext

-----------------------------------------------------------------------------
\* A step of a command that leaves it in x: what x may be, and what becomes of
\* the lease and the files.
Becomes(c, x) ==
    /\ x \in CommandStates /\ command' = [command EXCEPT ![c] = x]
    /\ ServiceTyped'
    /\ \A k \in Kinds : daemon[k].at \in {"serving", "closing"} => daemon'[k].at \in {"serving", "closing"}
    /\ schema' \in {schema, "new"}
    /\ x.at = "upgrade" => lease = "free" /\ lease' = c
    /\ x.at # "upgrade" => lease' = IF lease = c THEN "free" ELSE lease
    /\ intent' \in {intent, NoIntent, command[c].mem, x.mem}
    /\ x.at \in Journals => x.mem # NoIntent
    /\ x.mem # NoIntent /\ x.mem.evidence => schema' = "new"
    /\ x.at = "receipt" => x.mem.evidence
    /\ receipt' \in [evidence : BOOLEAN, bin : {"new", "none"}] \union {NoReceipt}
    /\ \/ UNCHANGED receipt
       \/ schema' = "new" /\ receipt'.evidence
    /\ stopped' \in BOOLEAN /\ commands' \in 0..MaxCommands

\* Such a step keeps the invariant.
LEMMA StepsKeepMigration ==
    ASSUME MigrationInv, NEW c \in Commands, NEW x \in CommandStates, Becomes(c, x)
    PROVE  MigrationInv'
  <1>1. ServiceTyped' /\ schema' \in {schema, "new"} /\ schema' \in Binaries
    BY DEF Becomes, MigrationInv, MigrationTyped, Binaries
  <1>2. /\ command' = [command EXCEPT ![c] = x]
        /\ command' \in [Commands -> CommandStates]
        /\ command'[c] = x
        /\ \A d \in Commands \ {c} : command'[d] = command[d]
    BY DEF Becomes, MigrationInv, MigrationTyped
  <1>3. c \notin {"free"} \union Kinds
    BY CommandAssumption
  <1>4. LeaseSound'
    <2>1. ASSUME lease' \in Kinds
          PROVE  daemon'[lease'].at \in {"serving", "closing"}
      BY <1>3, <2>1 DEF Becomes, Kinds, MigrationInv, LeaseSound
    <2>2. ASSUME NEW d \in Commands
          PROVE  lease' = d <=> command'[d].at = "upgrade"
      BY CommandAssumption, <1>2 DEF Becomes, MigrationInv, LeaseSound
    <2> QED BY <2>1, <2>2 DEF LeaseSound
  <1>5. lease' \in {"free"} \union Kinds \union Commands
    BY DEF Becomes, MigrationInv, MigrationTyped
  <1>6. /\ x.mem \in Intent \union {NoIntent}
        /\ \A d \in Commands : command[d].mem \in Intent \union {NoIntent}
    BY DEF MigrationInv, MigrationTyped, CommandStates
  <1>7. intent' \in Intent \union {NoIntent}
    BY <1>6 DEF Becomes, MigrationInv, MigrationTyped
  <1>8. /\ \A d \in Commands : Honest(command[d].mem)
        /\ Honest(intent) /\ Honest(x.mem)'
    BY <1>2 DEF MigrationInv, EvidenceSound, Becomes, Honest
  <1>9. EvidenceSound'
    <2>1. ASSUME NEW d \in Commands
          PROVE  /\ command'[d].at \in Journals => command'[d].mem # NoIntent
                 /\ command'[d].mem # NoIntent /\ command'[d].mem.evidence => schema' = "new"
                 /\ command'[d].at = "receipt" => command'[d].mem.evidence
      BY <1>2, <1>1 DEF Becomes, MigrationInv, EvidenceSound, Pending, Honest
    <2>2. intent' # NoIntent /\ intent'.evidence => schema' = "new"
      BY <1>1, <1>8 DEF Honest, Becomes
    <2>3. ReceiptIsEarned'
      BY <1>1 DEF ReceiptIsEarned, Becomes, MigrationInv, EvidenceSound
    <2> QED BY <2>1, <2>2, <2>3 DEF EvidenceSound, Pending, Honest
  <1>10. MigrationTyped'
    BY <1>1, <1>2, <1>5, <1>7 DEF MigrationTyped, Becomes
  <1> QED BY <1>4, <1>9, <1>10 DEF MigrationInv

-----------------------------------------------------------------------------
\* A command that goes to another step keeps what it holds in memory.
LEMMA GotoFacts ==
    ASSUME MigrationInv, NEW c \in Commands, NEW step \in Steps, Goto(c, step)
    PROVE  \E x \in CommandStates : /\ command' = [command EXCEPT ![c] = x]
                                    /\ x.at = step /\ x.mem = command[c].mem
                                    /\ x.status = command[c].status /\ x.needs = command[c].needs
  <1>1. command[c] \in CommandStates
    BY DEF MigrationInv, MigrationTyped
  <1>2. /\ [command[c] EXCEPT !.at = step] \in CommandStates
        /\ [command[c] EXCEPT !.at = step].at = step
        /\ [command[c] EXCEPT !.at = step].mem = command[c].mem
        /\ [command[c] EXCEPT !.at = step].status = command[c].status
        /\ [command[c] EXCEPT !.at = step].needs = command[c].needs
    BY <1>1 DEF CommandStates
  <1>3. command' = [command EXCEPT ![c] = [command[c] EXCEPT !.at = step]]
    BY DEF Goto
  <1> QED BY <1>2, <1>3

\* A command at rest holds nothing.
LEMMA RestFacts ==
    AtRest \in CommandStates /\ AtRest.at = "idle" /\ AtRest.mem = NoIntent
BY DEF AtRest, CommandStates, Steps, Statuses, Absent

\* What a command that is neither journalling nor upgrading may go to, with the
\* lease and the receipt as they are.
LEMMA GotoBecomes ==
    ASSUME MigrationInv, NEW c \in Commands, NEW step \in Steps \ {"upgrade", "receipt"}, Goto(c, step),
           command[c].at # "upgrade", UNCHANGED <<schema, lease, receipt, commands>>, stopped' \in BOOLEAN,
           ServiceTyped',
           \A k \in Kinds : daemon[k].at \in {"serving", "closing"} => daemon'[k].at \in {"serving", "closing"},
           intent' \in {intent, command[c].mem},
           step \in Journals => Pending(c)
    PROVE  \E x \in CommandStates : Becomes(c, x) /\ x.at = step /\ x.mem = command[c].mem
  <1>1. PICK x \in CommandStates :
            /\ command' = [command EXCEPT ![c] = x]
            /\ x.at = step /\ x.mem = command[c].mem
    BY GotoFacts
  <1>2. lease # c
    BY DEF MigrationInv, LeaseSound
  <1>3. Becomes(c, x)
    BY <1>1, <1>2 DEF Becomes, MigrationInv, MigrationTyped, EvidenceSound, Pending, Honest
  <1> QED BY <1>1, <1>3

\* A command that ends gives the lease back.
LEMMA GiveBecomes ==
    ASSUME MigrationInv, NEW c \in Commands, Give(c), UNCHANGED <<serviceVars, schema, receipt, stopped, commands>>,
           intent' \in {intent, command[c].mem, NoIntent}
    PROVE  Becomes(c, AtRest)
  <1>1. AtRest \in CommandStates /\ AtRest.at = "idle" /\ AtRest.mem = NoIntent
    BY RestFacts
  <1>2. ServiceTyped'
    BY DEF MigrationInv, MigrationTyped, ServiceTyped, ServiceTypeOK, serviceVars
  <1>3. AtRest.at \notin Journals \union {"upgrade"}
    BY <1>1 DEF Journals
  <1> QED BY <1>1, <1>2, <1>3 DEF Becomes, Give, MigrationInv, MigrationTyped, serviceVars

-----------------------------------------------------------------------------
\* The steps of a command up to the upgrade keep the invariant.
LEMMA QuiescingKeepsMigration ==
    ASSUME MigrationInv, NEW c \in Commands,
           \/ Inspect(c) \/ ReadStatus(c) \/ Plan(c)
           \/ QuiesceRefused(c) \/ Quiesce(c) \/ Stopped(c) \/ StopTimesOut(c)
    PROVE  MigrationInv'
  <1>1. /\ MigrationTyped /\ command[c] \in CommandStates
        /\ lease = c <=> command[c].at = "upgrade"
        /\ Honest(command[c].mem) /\ Honest(intent)
    BY DEF MigrationInv, MigrationTyped, LeaseSound, EvidenceSound
  <1>2. CASE Inspect(c)
    <2> DEFINE x == [[command[c] EXCEPT !.at = "status"] EXCEPT !.needs = (schema = "old")]
    <2>1. x \in CommandStates /\ x.at = "status" /\ x.mem = command[c].mem
      BY <1>1 DEF CommandStates, Steps
    <2>2. command' = [command EXCEPT ![c] = x]
      BY <1>1, <1>2 DEF Inspect, CommandStates
    <2>3. commands' \in 0..MaxCommands
      BY <1>1, <1>2, CommandAssumption DEF Inspect, MigrationTyped
    <2>4. ServiceTyped'
      BY <1>1, <1>2 DEF Inspect, MigrationTyped, ServiceTyped, ServiceTypeOK, serviceVars
    <2>5. "status" \notin Journals
      BY DEF Journals
    <2> HIDE DEF x
    <2>6. Becomes(c, x)
      BY <1>1, <1>2, <2>1, <2>2, <2>3, <2>4, <2>5 DEF Becomes, Inspect, MigrationTyped, Honest, serviceVars
    <2> QED BY <2>1, <2>6, StepsKeepMigration
  <1>3. CASE ReadStatus(c)
    <2> DEFINE x == [[[command[c] EXCEPT !.at = "plan"] EXCEPT !.mem = intent] EXCEPT !.status = ServiceStatus]
    <2>1. ServiceStatus \in Statuses
      BY DEF ServiceStatus, Statuses, Installed, Running, StatePidAlive, SocketPresent, PidAlive
    <2>2. x \in CommandStates /\ x.at = "plan" /\ x.mem = intent
      BY <1>1, <2>1 DEF CommandStates, Steps, MigrationTyped
    <2>3. command' = [command EXCEPT ![c] = x]
      BY <1>1, <1>3 DEF ReadStatus, CommandStates
    <2>4. ServiceTyped'
      BY <1>1, <1>3 DEF ReadStatus, MigrationTyped, ServiceTyped, ServiceTypeOK, serviceVars
    <2>5. "plan" \notin Journals
      BY DEF Journals
    <2> HIDE DEF x
    <2>6. Becomes(c, x)
      BY <1>1, <1>3, <2>2, <2>3, <2>4, <2>5 DEF Becomes, ReadStatus, MigrationTyped, Honest, serviceVars
    <2> QED BY <2>2, <2>6, StepsKeepMigration
  <1>4. CASE Plan(c)
    <2>1. PICK mem \in Intent \union {NoIntent}, next \in {"quiesce", "migrate", "install", "idle"} :
              /\ mem = command[c].mem \/ (mem # NoIntent /\ ~mem.evidence)
              /\ intent' \in {intent, mem} /\ (next = "idle" => UNCHANGED intent)
              /\ next = "install" => mem # NoIntent
              /\ command' = [command EXCEPT ![c] = IF next = "idle" THEN AtRest
                                                   ELSE [@ EXCEPT !.at = next, !.mem = mem]]
      <3> DEFINE s == command[c].status
                 plans == command[c].needs /\ ~Pending(c) /\ (s.installed \/ s.pid)
                 plan == [evidence |-> FALSE, installed |-> s.installed, wasRunning |-> s.running]
                 mem == IF plans THEN plan ELSE command[c].mem
                 next == IF s.pid /\ (command[c].needs \/ mem # NoIntent) THEN "quiesce"
                         ELSE AfterQuiesce(c, mem)
      <3>1. plan \in Intent /\ plan # NoIntent /\ ~plan.evidence
        <4>1. s \in Statuses
          BY <1>1 DEF CommandStates
        <4>2. s.installed \in BOOLEAN /\ s.running \in BOOLEAN
          BY <4>1 DEF Statuses
        <4>3. plan \in Intent
          BY <4>2 DEF Intent
        <4>4. plan # NoIntent
          BY <4>3, ValueAssumption DEF Intent
        <4> QED BY <4>3, <4>4
      <3>2. mem \in Intent \union {NoIntent}
        BY <1>1, <3>1 DEF CommandStates
      <3>3. next \in {"quiesce", "migrate", "install", "idle"} /\ (next = "install" => mem # NoIntent)
        BY DEF AfterQuiesce
      <3>4. (mem = command[c].mem /\ UNCHANGED intent) \/ (mem = plan /\ command[c].needs)
        BY <1>4 DEF Plan
      <3>5. /\ intent' \in {intent, mem}
            /\ command' = [command EXCEPT ![c] = IF next = "idle" THEN AtRest
                                                 ELSE [@ EXCEPT !.at = next, !.mem = mem]]
        BY <1>4 DEF Plan
      <3>6. next = "idle" => ~command[c].needs
        BY DEF AfterQuiesce
      <3> HIDE DEF mem, next, plan
      <3>7. next = "idle" => UNCHANGED intent
        BY <3>4, <3>6
      <3>8. mem = command[c].mem \/ (mem # NoIntent /\ ~mem.evidence)
        BY <3>1, <3>4
      <3> QED BY <3>2, <3>3, <3>5, <3>7, <3>8
    <2>2. command[c].at = "plan" /\ UNCHANGED <<serviceVars, schema, lease, receipt, stopped, commands>>
      BY <1>4 DEF Plan
    <2>3. ServiceTyped'
      BY <1>1, <2>2 DEF MigrationTyped, ServiceTyped, ServiceTypeOK, serviceVars
    <2>4. Honest(mem)
      BY <1>1, <2>1 DEF Honest
    <2>5. CASE next = "idle"
      BY <1>1, <2>1, <2>2, <2>5, GiveBecomes, RestFacts, StepsKeepMigration DEF Give
    <2>6. CASE next # "idle"
      <3> DEFINE x == [[command[c] EXCEPT !.at = next] EXCEPT !.mem = mem]
      <3>1. x \in CommandStates /\ x.at = next /\ x.mem = mem
        BY <1>1, <2>1 DEF CommandStates, Steps
      <3>2. command' = [command EXCEPT ![c] = x]
        BY <1>1, <2>1, <2>6 DEF CommandStates
      <3> HIDE DEF x
      <3>3. Becomes(c, x)
        BY <1>1, <2>1, <2>2, <2>3, <2>4, <3>1, <3>2 DEF Becomes, MigrationTyped, Honest, serviceVars, Journals
      <3> QED BY <3>1, <3>3, StepsKeepMigration
    <2> QED BY <2>5, <2>6
  <1>5. CASE QuiesceRefused(c) \/ StopTimesOut(c)
    BY <1>5, GiveBecomes, RestFacts, StepsKeepMigration DEF QuiesceRefused, StopTimesOut
  <1>6. CASE Quiesce(c)
    <2>1. /\ ServiceTyped'
          /\ \A k \in Kinds : daemon[k].at \in {"serving", "closing"} => daemon'[k].at \in {"serving", "closing"}
      <3>1. UNCHANGED <<unit, stateFile, boots>>
        BY <1>6 DEF Quiesce
      <3>2. ServiceTyped
        BY <1>1 DEF MigrationTyped
      <3>3. CASE Installed
        BY <1>6, <3>2, <3>3, UnloadFacts, BootAssumption, <3>1 DEF Quiesce, ServiceTyped, ServiceTypeOK,
               DaemonStates, Places
      <3>4. CASE ~Installed
        BY <1>6, <3>4, <3>1, <3>2 DEF Quiesce, ServiceTyped, ServiceTypeOK
      <3> QED BY <3>3, <3>4
    <2>2. /\ Goto(c, "stopping") /\ "stopping" \in Steps \ {"upgrade", "receipt"} /\ "stopping" \notin Journals
          /\ UNCHANGED <<schema, lease, receipt, commands, intent>> /\ command[c].at # "upgrade"
          /\ stopped' \in BOOLEAN
      BY <1>6 DEF Quiesce, Running, StatePidAlive, SocketPresent, PidAlive, Pending, Steps, Journals
    <2> QED BY <2>1, <2>2, GotoBecomes, StepsKeepMigration
  <1>7. CASE Stopped(c)
    <2>1. PICK step \in {"migrate", "install", "idle"} :
              Goto(c, step) /\ (step = "install" => Pending(c))
      BY <1>7 DEF Stopped, AfterQuiesce, Pending
    <2>2. /\ step \in Steps \ {"upgrade", "receipt"} /\ (step \in Journals => step = "install")
          /\ UNCHANGED <<schema, lease, receipt, commands>> /\ command[c].at # "upgrade"
          /\ intent' \in {intent, command[c].mem} /\ stopped' \in BOOLEAN
      BY <1>1, <1>7 DEF Stopped, Steps, Journals, MigrationTyped
    <2>3. ServiceTyped' /\ UNCHANGED daemon
      BY <1>1, <1>7 DEF Stopped, MigrationTyped, ServiceTyped, ServiceTypeOK, serviceVars
    <2> QED BY <2>1, <2>2, <2>3, GotoBecomes, StepsKeepMigration
  <1> QED BY <1>2, <1>3, <1>4, <1>5, <1>6, <1>7

\* So do its upgrade and what follows when it fails.
LEMMA UpgradingKeepsMigration ==
    ASSUME MigrationInv, NEW c \in Commands,
           \/ TakeLease(c) \/ Migrate(c) \/ CommandFails(c) \/ Journal(c)
           \/ Restarted(c) \/ RestartFails(c)
    PROVE  MigrationInv'
  <1>1. /\ MigrationTyped /\ command[c] \in CommandStates
        /\ lease = c <=> command[c].at = "upgrade"
        /\ Honest(command[c].mem) /\ Honest(intent)
        /\ command[c].at \in Journals => Pending(c)
    BY DEF MigrationInv, MigrationTyped, LeaseSound, EvidenceSound
  <1>2. UNCHANGED <<serviceVars, receipt, stopped, commands>>
    BY DEF TakeLease, Migrate, CommandFails, Journal, Restarted, RestartFails
  <1>3. /\ ServiceTyped' /\ UNCHANGED daemon
        /\ stopped' \in BOOLEAN /\ commands' \in 0..MaxCommands
        /\ receipt' \in [evidence : BOOLEAN, bin : {"new", "none"}] \union {NoReceipt}
    BY <1>1, <1>2 DEF MigrationTyped, ServiceTyped, ServiceTypeOK, serviceVars
  <1>4. CASE TakeLease(c)
    <2>1. PICK x \in CommandStates : /\ command' = [command EXCEPT ![c] = x]
                                     /\ x.at = "upgrade" /\ x.mem = command[c].mem
      BY <1>4, GotoFacts DEF TakeLease, Steps
    <2>2. Becomes(c, x)
      BY <1>1, <1>2, <1>3, <1>4, <2>1 DEF Becomes, TakeLease, Honest, Journals
    <2> QED BY <2>2, StepsKeepMigration
  <1>5. CASE Migrate(c)
    <2>1. /\ command[c].at = "upgrade" /\ schema' = "new" /\ lease = c /\ lease' = "free"
          /\ UNCHANGED intent
      BY <1>1, <1>5 DEF Migrate
    <2>2. CASE Pending(c)
      <3> DEFINE x == [[command[c] EXCEPT !.at = "journal"] EXCEPT !.mem.evidence = (schema = "old")]
      <3>1. command[c].mem \in Intent
        BY <1>1, <2>2 DEF Pending, CommandStates
      <3>2. [command[c].mem EXCEPT !.evidence = (schema = "old")] \in Intent
        BY <3>1 DEF Intent
      <3>3. x = [[command[c] EXCEPT !.at = "journal"] EXCEPT
                     !.mem = [command[c].mem EXCEPT !.evidence = (schema = "old")]]
        BY <1>1 DEF CommandStates
      <3>4. /\ x \in CommandStates /\ x.at = "journal"
            /\ x.mem = [command[c].mem EXCEPT !.evidence = (schema = "old")]
        BY <1>1, <3>2, <3>3 DEF CommandStates, Steps
      <3>5. x.mem # NoIntent
        BY <3>2, <3>4, ValueAssumption DEF Intent
      <3>6. command' = [command EXCEPT ![c] = x]
        BY <1>1, <1>5, <2>2 DEF Migrate, CommandStates
      <3> HIDE DEF x
      <3>7. Becomes(c, x)
        BY <1>2, <1>3, <2>1, <3>4, <3>5, <3>6 DEF Becomes
      <3> QED BY <3>4, <3>7, StepsKeepMigration
    <2>3. CASE ~Pending(c)
      BY <1>5, <2>3, RestFacts, <1>2, <1>3, <2>1, StepsKeepMigration DEF Migrate, Journals, Becomes
    <2> QED BY <2>2, <2>3
  <1>6. CASE CommandFails(c)
    <2>1. AfterFailure(c) /\ UNCHANGED schema
      BY <1>6 DEF CommandFails
    <2>2. CASE Give(c)
      BY <2>1, <1>2, <2>2, GiveBecomes, RestFacts, StepsKeepMigration DEF AfterFailure, ForgetFailure
    <2>3. CASE ~Give(c)
      <3>1. /\ Goto(c, "restart") /\ UNCHANGED intent
            /\ lease' = IF lease = c THEN "free" ELSE lease
        BY <2>1, <2>3 DEF AfterFailure, ForgetFailure
      <3>2. PICK x \in CommandStates : /\ command' = [command EXCEPT ![c] = x]
                                       /\ x.at = "restart" /\ x.mem = command[c].mem
        BY <3>1, GotoFacts DEF Steps
      <3>3. Becomes(c, x)
        BY <1>1, <1>2, <1>3, <2>1, <3>1, <3>2 DEF Becomes, Honest, Journals
      <3> QED BY <3>3, StepsKeepMigration
    <2> QED BY <2>2, <2>3
  <1>7. CASE Journal(c)
    BY <1>7, <1>1, <1>3, GotoBecomes, StepsKeepMigration DEF Steps, Journals, Journal
  <1>8. CASE Restarted(c) \/ RestartFails(c)
    BY <1>8, GiveBecomes, RestFacts, StepsKeepMigration DEF Restarted, RestartFails
  <1> QED BY <1>4, <1>5, <1>6, <1>7, <1>8

\* And so do the installation of the daemon and the receipt.
LEMMA FinishingKeepsMigration ==
    ASSUME MigrationInv, NEW c \in Commands,
           \/ InstallCompatible(c) \/ Healthy(c) \/ HealthTimesOut(c) \/ CheckEvidence(c)
           \/ WriteReceipt(c) \/ ClearIntent(c) \/ CommandCrash(c)
    PROVE  MigrationInv'
  <1>1. /\ MigrationTyped /\ command[c] \in CommandStates
        /\ lease = c <=> command[c].at = "upgrade"
        /\ Honest(command[c].mem) /\ Honest(intent)
        /\ command[c].at \in Journals => Pending(c)
        /\ command[c].at = "receipt" => command[c].mem.evidence
    BY DEF MigrationInv, MigrationTyped, LeaseSound, EvidenceSound
  <1>2. {"health", "evidence", "clear"} \subseteq Steps \ {"upgrade", "receipt"}
    BY DEF Steps
  <1>3. stopped \in BOOLEAN
    BY <1>1 DEF MigrationTyped
  <1>4. ASSUME UNCHANGED <<serviceVars, schema, receipt, stopped, commands>>, Give(c),
               intent' \in {intent, command[c].mem, NoIntent}
        PROVE  MigrationInv'
    BY <1>4, GiveBecomes, RestFacts, StepsKeepMigration
  <1>5. UNCHANGED serviceVars => ServiceTyped' /\ UNCHANGED daemon
    BY <1>1 DEF MigrationTyped, ServiceTyped, ServiceTypeOK, serviceVars
  <1>6. CASE InstallCompatible(c)
    <2>1. command[c].at = "install" /\ Pending(c) /\ UNCHANGED <<schema, receipt, stopped, commands>>
      BY <1>1, <1>6 DEF InstallCompatible, Journals
    <2>2. CASE Give(c) /\ UNCHANGED serviceVars /\ intent' = command[c].mem
      BY <1>4, <2>1, <2>2
    <2>3. CASE ~(Give(c) /\ UNCHANGED serviceVars /\ intent' = command[c].mem)
      <3>1. \E step \in {"health", "evidence"} : Goto(c, step)
        BY <1>6, <2>3 DEF InstallCompatible, GiveUp
      <3>2. UNCHANGED lease /\ intent' \in {intent, command[c].mem}
        BY <1>6, <2>3 DEF InstallCompatible, GiveUp
      <3>3. UNCHANGED serviceVars \/ Install("new")
        BY <1>6 DEF InstallCompatible
      <3>4. ServiceTyped' /\ UNCHANGED daemon
        BY <1>1, <1>5, <3>3 DEF Install, MigrationTyped, ServiceTyped, ServiceTypeOK, Binaries
      <3> QED BY <1>2, <1>3, <2>1, <3>1, <3>2, <3>4, GotoBecomes, StepsKeepMigration
    <2> QED BY <2>2, <2>3
  <1>7. CASE Healthy(c)
    <2>1. command[c].at = "health" /\ Pending(c) /\ UNCHANGED <<serviceVars, schema, receipt, stopped, commands>>
      BY <1>1, <1>7 DEF Healthy, Journals
    <2>2. CASE GiveUp(c)
      BY <1>4, <2>1, <2>2 DEF GiveUp
    <2>3. CASE ~GiveUp(c)
      BY <1>7, <2>3, <1>2, <1>3, <1>5, <2>1, GotoBecomes, StepsKeepMigration DEF Healthy
    <2> QED BY <2>2, <2>3
  <1>8. CASE HealthTimesOut(c)
    BY <1>4, <1>8 DEF HealthTimesOut, GiveUp
  <1>9. CASE CheckEvidence(c)
    <2>1. command[c].at = "evidence" /\ Pending(c) /\ UNCHANGED <<serviceVars, schema, receipt, stopped, commands>>
      BY <1>1, <1>9 DEF CheckEvidence, Journals
    <2>2. CASE GiveUp(c)
      BY <1>4, <2>1, <2>2 DEF GiveUp
    <2>3. CASE ~GiveUp(c)
      <3>1. Goto(c, "receipt") /\ UNCHANGED <<lease, intent>> /\ command[c].mem.evidence
        BY <1>9, <2>3 DEF CheckEvidence, Proved
      <3>2. PICK x \in CommandStates : /\ command' = [command EXCEPT ![c] = x]
                                       /\ x.at = "receipt" /\ x.mem = command[c].mem
        BY <3>1, GotoFacts DEF Steps
      <3>3. Becomes(c, x)
        BY <1>1, <1>5, <2>1, <3>1, <3>2 DEF Becomes, Honest, MigrationTyped, Pending
      <3> QED BY <3>3, StepsKeepMigration
    <2> QED BY <2>2, <2>3
  <1>10. CASE WriteReceipt(c)
    <2>1. /\ command[c].at = "receipt" /\ "receipt" \in Journals
          /\ UNCHANGED <<serviceVars, schema, lease, intent, stopped, commands>> /\ Goto(c, "clear")
      BY <1>10 DEF WriteReceipt, Journals
    <2>2. Pending(c) /\ command[c].mem.evidence /\ schema = "new"
      BY <1>1, <2>1 DEF Honest, Pending
    <2>3. command[c].mem.evidence \in BOOLEAN
      BY <1>1, <2>2 DEF CommandStates, Intent, Pending
    <2>4. /\ receipt' \in [evidence : BOOLEAN, bin : {"new", "none"}]
          /\ receipt'.evidence
      BY <1>10, <2>2, <2>3 DEF WriteReceipt
    <2>5. PICK x \in CommandStates : /\ command' = [command EXCEPT ![c] = x]
                                     /\ x.at = "clear" /\ x.mem = command[c].mem
      BY <1>2, <2>1, GotoFacts
    <2>6. Becomes(c, x)
      BY <1>1, <1>5, <2>1, <2>2, <2>4, <2>5 DEF Becomes, MigrationTyped, Pending
    <2> QED BY <2>6, StepsKeepMigration
  <1>11. CASE ClearIntent(c)
    BY <1>4, <1>11 DEF ClearIntent
  <1>12. CASE CommandCrash(c)
    BY <1>4, <1>12 DEF CommandCrash
  <1> QED BY <1>6, <1>7, <1>8, <1>9, <1>10, <1>11, <1>12

\* So do the daemons.
LEMMA DaemonsKeepMigration ==
    ASSUME MigrationInv, \/ ServiceStep
                         \/ \E k \in Kinds : DaemonWrites(k) \/ DaemonWrote(k)
    PROVE  MigrationInv'
  <1>1. MigrationTyped /\ LeaseSound /\ EvidenceSound /\ ServiceTyped
    BY DEF MigrationInv, MigrationTyped
  <1>2. UNCHANGED <<schema, intent, receipt, command, commands>>
    BY DEF ServiceStep, DaemonWrites, DaemonWrote
  <1>3. EvidenceSound'
    BY <1>1, <1>2 DEF EvidenceSound, Honest, Pending, ReceiptIsEarned
  <1>4. \A c \in Commands : c \notin {"free"} \union Kinds
    BY CommandAssumption
  <1>5. CASE ServiceStep
    <2>1. ServiceTyped'
      BY <1>1, <1>5, ServiceKeepsTypes DEF ServiceStep
    <2>2. /\ lease' = IF lease \in Kinds /\ daemon'[lease].at = "off" THEN "free" ELSE lease
          /\ stopped' \in BOOLEAN
      BY <1>5 DEF ServiceStep
    <2>3. lease \in Kinds => daemon'[lease].at \in {"serving", "closing", "off"}
      BY <1>1, <1>5, HoldersEnd DEF ServiceStep, LeaseSound
    <2>4. lease' \in Kinds => daemon'[lease'].at \in {"serving", "closing"}
      BY <2>2, <2>3 DEF Kinds
    <2>5. \A c \in Commands : lease' = c <=> command'[c].at = "upgrade"
      BY <1>1, <1>2, <1>4, <2>2 DEF LeaseSound
    <2>6. lease' \in {"free"} \union Kinds \union Commands
      BY <1>1, <2>2 DEF MigrationTyped
    <2>7. MigrationTyped'
      BY <1>1, <1>2, <2>1, <2>2, <2>6 DEF MigrationTyped
    <2> QED BY <1>3, <2>4, <2>5, <2>7 DEF MigrationInv, LeaseSound
  <1>6. ASSUME NEW k \in Kinds, DaemonWrites(k) \/ DaemonWrote(k)
        PROVE  MigrationInv'
    <2>1. UNCHANGED <<serviceVars, stopped>> /\ lease \notin Commands /\ lease' \in {"free", k}
      BY <1>4, <1>6 DEF DaemonWrites, DaemonWrote
    <2>2. UNCHANGED daemon /\ (lease' = k => daemon[k].at \in {"serving", "closing"})
      BY <1>1, <1>6, <2>1 DEF DaemonWrites, DaemonWrote, serviceVars, Kinds
    <2>3. LeaseSound'
      BY <1>1, <1>2, <1>4, <2>1, <2>2 DEF LeaseSound, Kinds
    <2>4. MigrationTyped'
      BY <1>1, <1>2, <2>1 DEF MigrationTyped, ServiceTyped, ServiceTypeOK, serviceVars
    <2> QED BY <1>3, <2>3, <2>4 DEF MigrationInv
  <1> QED BY <1>5, <1>6

\* The invariant of the types, the lease and the evidence.
LEMMA MigrationInvHolds == MigrationSpec => []MigrationInv
  <1>1. MigrationInit => MigrationInv
    <2> SUFFICES ASSUME MigrationInit PROVE MigrationInv
      OBVIOUS
    <2>1. ServiceTyped
      BY BootAssumption DEF MigrationInit, ServiceInit, ServiceTyped, ServiceTypeOK, Binaries
    <2>2. command \in [Commands -> CommandStates] /\ \A c \in Commands : command[c] = AtRest
      BY RestFacts DEF MigrationInit
    <2>3. MigrationTyped
      <3>1. /\ schema = "old" /\ lease = "free" /\ intent = NoIntent /\ receipt = NoReceipt
            /\ stopped = FALSE /\ commands = 0
        BY DEF MigrationInit
      <3>2. 0 \in 0..MaxCommands
        BY CommandAssumption
      <3> QED BY <2>1, <2>2, <3>1, <3>2 DEF MigrationTyped, Binaries
    <2>4. AtRest.at \notin Journals \union {"upgrade", "receipt"}
      BY RestFacts DEF Journals
    <2>5. LeaseSound
      BY <2>2, <2>4, CommandAssumption DEF MigrationInit, LeaseSound, Kinds
    <2>6. EvidenceSound
      BY <2>2, <2>4, RestFacts DEF MigrationInit, EvidenceSound, Honest, Pending, ReceiptIsEarned
    <2> QED BY <2>3, <2>5, <2>6 DEF MigrationInv
  <1>2. MigrationInv /\ [MigrationNext]_migrationVars => MigrationInv'
    <2>1. MigrationInv /\ UNCHANGED migrationVars => MigrationInv'
      BY DEF MigrationInv, MigrationTyped, ServiceTyped, ServiceTypeOK, LeaseSound, EvidenceSound,
             Honest, Pending, ReceiptIsEarned, migrationVars, migrationState, serviceVars
    <2>2. MigrationInv /\ MigrationNext => MigrationInv'
      BY QuiescingKeepsMigration, UpgradingKeepsMigration, FinishingKeepsMigration, DaemonsKeepMigration
         DEF MigrationNext
    <2> QED BY <2>1, <2>2
  <1> QED BY <1>1, <1>2, PTL DEF MigrationSpec

\* Types of the cache, its files and the commands; a lease does not outlive
\* the transaction or the process that took it.
THEOREM MigrationTypesHold == MigrationSpec => []MigrationTypeOK
  <1>1. MigrationInv => MigrationTypeOK
    BY DEF MigrationInv, MigrationTyped, ServiceTyped, LeaseSound, CommandStates, MigrationTypeOK
  <1> QED BY <1>1, MigrationInvHolds, PTL

\* A receipt of migrate-cache is the evidence of a verified upgrade that did
\* take place, whatever runs or dies beside it.
THEOREM ReceiptsAreEarned == MigrationSpec => []ReceiptIsEarned
  <1>1. MigrationInv => ReceiptIsEarned
    BY DEF MigrationInv, EvidenceSound
  <1> QED BY <1>1, MigrationInvHolds, PTL

-----------------------------------------------------------------------------
\* One daemon at a time: nobody but the one that serves has a socket, and the
\* state file names it.
SoleDaemon == \A j, k \in Kinds : daemon[j].at # "off" /\ daemon[k].at # "off" => j = k
SocketSound ==
    \A k \in Kinds :
        /\ daemon[k].at \in {"cleared", "loading", "closing"} => socket = 0
        /\ daemon[k].at \in {"loading", "serving"} => stateFile # NoState /\ stateFile.pid = daemon[k].pid
        /\ daemon[k].at = "serving" => socket = daemon[k].pid
DaemonInv == ServiceTyped /\ SoleDaemon /\ SocketSound

\* When daemons do not overlap, a status of running is that of one which serves.
LEMMA RunningServes ==
    ASSUME DaemonInv, Running
    PROVE  \E k \in Kinds : /\ daemon[k].at = "serving"
                            /\ daemon[k].pid = stateFile.pid /\ socket = daemon[k].pid
  <1>1. PICK k \in Kinds : daemon[k].pid = stateFile.pid /\ daemon[k].at # "off"
    BY DEF Running, StatePidAlive, PidAlive
  <1>2. daemon[k].at \in Places
    BY DEF DaemonInv, ServiceTyped, ServiceTypeOK, Places
  <1>3. daemon[k].at = "serving"
    BY <1>1, <1>2 DEF DaemonInv, SocketSound, Running, SocketPresent, Places
  <1> QED BY <1>1, <1>3 DEF DaemonInv, SocketSound

\* A step that leaves one daemon in another place.
LEMMA SoleDaemonMoves ==
    ASSUME DaemonInv, NEW k \in Kinds, daemon'[k].at # "off" => \A j \in Kinds \ {k} : daemon[j].at = "off",
           \A j \in Kinds \ {k} : daemon'[j] = daemon[j], UNCHANGED stateFile, ServiceTyped',
           daemon'[k].at = "off" => \/ UNCHANGED socket \/ daemon[k].at # "off",
           daemon'[k].at = "off" => socket' \in {socket, 0},
           daemon'[k].at \in {"cleared", "loading", "closing"} => socket' = 0,
           daemon'[k].at \in {"loading", "serving"} => stateFile # NoState /\ stateFile.pid = daemon'[k].pid,
           daemon'[k].at = "serving" => socket' = daemon'[k].pid
    PROVE  DaemonInv'
  <1>1. SoleDaemon'
    BY DEF DaemonInv, SoleDaemon
  <1>2. SocketSound'
    BY DEF DaemonInv, SocketSound, SoleDaemon
  <1> QED BY <1>1, <1>2 DEF DaemonInv

\* Stopping the managed daemon keeps the invariant.
LEMMA UnloadKeepsDaemon ==
    ASSUME DaemonInv, ServiceTyped', Unload, UNCHANGED stateFile
    PROVE  DaemonInv'
  <1>1. ServiceTyped /\ "managed" \in Kinds /\ daemon["managed"].at \in Places
    BY DEF DaemonInv, ServiceTyped, ServiceTypeOK, Kinds, Places
  <1>2. /\ daemon'["foreground"] = daemon["foreground"]
        /\ daemon'["managed"].at \in {"off", "closing"}
        /\ daemon'["managed"].at = "closing" => daemon["managed"].at \in {"serving", "closing"}
        /\ daemon["managed"].at # "serving" => UNCHANGED socket
        /\ daemon["managed"].at = "serving" => socket' = 0
    BY <1>1, UnloadFacts
  <1>3. \A j \in Kinds \ {"managed"} : daemon'[j] = daemon[j]
    BY <1>2 DEF Kinds
  <1>4. daemon'["managed"].at = "closing" => socket' = 0
    BY <1>1, <1>2 DEF DaemonInv, SocketSound
  <1>5. daemon'["managed"].at # "off" => \A j \in Kinds \ {"managed"} : daemon[j].at = "off"
    BY <1>1, <1>2 DEF DaemonInv, SoleDaemon
  <1> QED BY <1>1, <1>2, <1>3, <1>4, <1>5, SoleDaemonMoves

\* So do the steps of the service.
LEMMA ServiceKeepsDaemon ==
    ASSUME ~DaemonsOverlap, DaemonInv, ServiceNext
    PROVE  DaemonInv'
  <1>1. ServiceTyped /\ ServiceTyped' /\ daemon \in [Kinds -> DaemonStates]
    BY ServiceKeepsTypes DEF DaemonInv, ServiceTyped, ServiceTypeOK, DaemonStates, Places
  <1>2. CASE Uninstall \/ \E b \in Binaries : Install(b)
    BY <1>1, <1>2 DEF Uninstall, Install, DaemonInv, SoleDaemon, SocketSound
  <1>3. CASE Stop
    BY <1>1, <1>3, UnloadKeepsDaemon DEF Stop
  <1>4. ASSUME NEW k \in Kinds, NEW b \in Binaries, Boot(k, b)
        PROVE  DaemonInv'
    BY <1>4, <1>1, SoleDaemonMoves DEF Boot, SocketAtBoot
  <1>5. ASSUME NEW k \in Kinds, PublishState(k)
        PROVE  DaemonInv'
    <2>1. /\ daemon[k].at = "cleared" /\ daemon' = [daemon EXCEPT ![k].at = "loading"]
          /\ stateFile' = [pid |-> daemon[k].pid, bin |-> daemon[k].bin] /\ UNCHANGED socket
      BY <1>5 DEF PublishState
    <2>2. /\ daemon'[k].at = "loading" /\ daemon'[k].pid = daemon[k].pid
          /\ \A j \in Kinds \ {k} : daemon'[j] = daemon[j] /\ daemon[j].at = "off"
      BY <1>1, <2>1 DEF DaemonInv, SoleDaemon, DaemonStates
    <2>3. stateFile' # NoState
      BY <1>1, <2>1, BootAssumption, ValueAssumption DEF ServiceTyped, DaemonStates
    <2>4. stateFile'.pid = daemon'[k].pid /\ socket' = 0
      BY <2>1, <2>2 DEF DaemonInv, SocketSound
    <2>5. SoleDaemon' /\ SocketSound'
      BY <2>2, <2>3, <2>4 DEF SoleDaemon, SocketSound
    <2> QED BY <1>1, <2>5 DEF DaemonInv
  <1>6. ASSUME NEW k \in Kinds, Listen(k) \/ BootFails(k) \/ Close(k) \/ Exit(k) \/ DaemonCrash(k)
        PROVE  DaemonInv'
    <2>1. PICK a \in {"serving", "closing", "off"} :
              /\ daemon[k].at # "off" /\ daemon' = [daemon EXCEPT ![k].at = a]
              /\ a = "serving" => daemon[k].at = "loading" /\ socket' = daemon[k].pid
              /\ a = "closing" => socket' = 0
              /\ a = "off" => UNCHANGED socket
      BY <1>6 DEF Listen, BootFails, Close, Unserve, Exit, DaemonCrash
    <2>2. UNCHANGED stateFile
      BY <1>6 DEF Listen, BootFails, Close, Unserve, Exit, DaemonCrash
    <2>3. /\ daemon'[k].at = a /\ daemon'[k].pid = daemon[k].pid
          /\ \A j \in Kinds \ {k} : daemon'[j] = daemon[j] /\ daemon[j].at = "off"
      BY <1>1, <2>1 DEF DaemonInv, SoleDaemon, DaemonStates
    <2>4. a = "serving" => stateFile # NoState /\ stateFile.pid = daemon[k].pid
      BY <2>1 DEF DaemonInv, SocketSound
    <2> QED BY <1>1, <2>1, <2>2, <2>3, <2>4, SoleDaemonMoves
  <1> QED BY <1>2, <1>3, <1>4, <1>5, <1>6 DEF ServiceNext

\* And the invariant holds of migrate-cache beside the service.
LEMMA DaemonInvHolds == ~DaemonsOverlap => (MigrationSpec => []DaemonInv)
  <1> SUFFICES ASSUME ~DaemonsOverlap
               PROVE  MigrationSpec => []DaemonInv
    OBVIOUS
  <1>1. MigrationInit /\ MigrationInv => DaemonInv
    BY DEF MigrationInv, MigrationTyped, MigrationInit, ServiceInit, DaemonInv, SoleDaemon, SocketSound
  <1>2. MigrationInv' /\ DaemonInv /\ [MigrationNext]_migrationVars => DaemonInv'
    <2> SUFFICES ASSUME MigrationInv', DaemonInv, [MigrationNext]_migrationVars
                 PROVE  DaemonInv'
      OBVIOUS
    <2>1. ServiceTyped'
      BY DEF MigrationInv, MigrationTyped
    <2>2. CASE UNCHANGED <<daemon, stateFile, socket>>
      BY <2>1, <2>2 DEF DaemonInv, SoleDaemon, SocketSound
    <2>3. CASE ServiceStep
      BY <2>3, ServiceKeepsDaemon DEF ServiceStep
    <2>4. ASSUME NEW c \in Commands, Quiesce(c), ~UNCHANGED <<daemon, stateFile, socket>>
          PROVE  DaemonInv'
      BY <2>1, <2>4, UnloadKeepsDaemon DEF Quiesce
    <2>5. ASSUME NEW c \in Commands,
                 \/ Inspect(c) \/ ReadStatus(c) \/ Plan(c) \/ QuiesceRefused(c) \/ Stopped(c)
                 \/ StopTimesOut(c) \/ TakeLease(c) \/ Migrate(c) \/ CommandFails(c) \/ Journal(c)
                 \/ Restarted(c) \/ RestartFails(c) \/ Healthy(c) \/ HealthTimesOut(c)
                 \/ CheckEvidence(c) \/ WriteReceipt(c) \/ ClearIntent(c) \/ CommandCrash(c)
          PROVE  UNCHANGED <<daemon, stateFile, socket>>
      BY <2>5 DEF Inspect, ReadStatus, Plan, QuiesceRefused, Stopped, StopTimesOut, TakeLease, Migrate,
                  CommandFails, Journal, Restarted, RestartFails, Healthy, HealthTimesOut, CheckEvidence,
                  WriteReceipt, ClearIntent, CommandCrash, serviceVars
    <2>6. ASSUME NEW c \in Commands, InstallCompatible(c)
          PROVE  UNCHANGED <<daemon, stateFile, socket>>
      BY <2>6 DEF InstallCompatible, Install, serviceVars
    <2>7. ASSUME NEW k \in Kinds, DaemonWrites(k) \/ DaemonWrote(k)
          PROVE  UNCHANGED <<daemon, stateFile, socket>>
      BY <2>7 DEF DaemonWrites, DaemonWrote, serviceVars
    <2>8. UNCHANGED migrationVars => UNCHANGED <<daemon, stateFile, socket>>
      BY DEF migrationVars, serviceVars
    <2> QED BY <2>2, <2>3, <2>4, <2>5, <2>6, <2>7, <2>8 DEF MigrationNext
  <1>3. MigrationSpec => []MigrationInv
    BY MigrationInvHolds
  <1> QED BY <1>1, <1>2, <1>3, PTL DEF MigrationSpec

\* "A new live PID plus an old socket inode must never look ready": as long as
\* a foreground daemon and the managed one do not run at once, a status of
\* running is that of the daemon which listens on the socket.
THEOREM RunningIsListening == ~DaemonsOverlap => (MigrationSpec => []ReadyIsListening)
  <1> SUFFICES ASSUME ~DaemonsOverlap
               PROVE  MigrationSpec => []ReadyIsListening
    OBVIOUS
  <1>1. DaemonInv => ReadyIsListening
    BY RunningServes DEF ReadyIsListening
  <1> QED BY <1>1, DaemonInvHolds, PTL

-----------------------------------------------------------------------------
\* What the only command knows of the intent, once it has read it, and who it
\* may have stopped: while there is a stopped daemon no other serves.
Decided == Steps \ {"idle", "status"}
Quiet == Decided \ {"plan", "quiesce", "stopping"}
NoneServes == \A k \in Kinds : daemon[k].at # "serving"
Remembered == stopped => unit # "none" /\ intent # NoIntent /\ intent.installed /\ intent.wasRunning
KnowsIntent(x) ==
    x.at \in Decided =>
        /\ x.mem # NoIntent <=> intent # NoIntent
        /\ x.mem # NoIntent => /\ intent.installed = x.mem.installed
                               /\ intent.wasRunning = x.mem.wasRunning
FoundQuiet(x) == x.at \in Quiet \/ (x.at = "plan" /\ ~x.status.pid)
LeavesNone(x) == stopped /\ FoundQuiet(x) => NoneServes
ServesAgain(x) == x.at \in {"evidence", "receipt", "clear"} => ~stopped
StopSound ==
    Remembered /\ \A c \in Commands : LET x == command[c] IN KnowsIntent(x) /\ LeavesNone(x) /\ ServesAgain(x)
AccountInv == MigrationInv /\ DaemonInv /\ StopSound
OneCommand == \A c, d \in Commands : c = d

\* The sound states, said of the only command.
LEMMA OneIsAll ==
    ASSUME OneCommand, NEW c \in Commands, NEW x \in CommandStates, command \in [Commands -> CommandStates],
           command' = [command EXCEPT ![c] = x],
           Remembered', KnowsIntent(x)', LeavesNone(x)', ServesAgain(x)'
    PROVE  StopSound'
  <1>1. \A d \in Commands : command'[d] = x
    BY DEF OneCommand
  <1>2. ASSUME NEW d \in Commands
        PROVE  KnowsIntent(command[d])' /\ LeavesNone(command[d])' /\ ServesAgain(command[d])'
    BY <1>1 DEF KnowsIntent, LeavesNone, FoundQuiet, ServesAgain
  <1> QED BY <1>2 DEF StopSound

\* What the command knows and the intent say the same of a stopped daemon.
LEMMA StopFacts ==
    ASSUME AccountInv, NEW c \in Commands
    PROVE  /\ command \in [Commands -> CommandStates] /\ command[c] \in CommandStates
           /\ Remembered /\ KnowsIntent(command[c]) /\ LeavesNone(command[c]) /\ ServesAgain(command[c])
           /\ command[c].at \in Decided /\ stopped =>
                  Pending(c) /\ command[c].mem.installed /\ command[c].mem.wasRunning
           /\ command[c].at \in Quiet \ {"migrate", "upgrade", "restart"} => Pending(c)
           /\ NoneServes => ~Running
           /\ ~StatePidAlive => NoneServes
  <1>1. command \in [Commands -> CommandStates] /\ command[c] \in CommandStates
    BY DEF AccountInv, MigrationInv, MigrationTyped
  <1>2. Remembered /\ KnowsIntent(command[c]) /\ LeavesNone(command[c]) /\ ServesAgain(command[c])
    BY DEF AccountInv, StopSound
  <1>3. command[c].at \in Quiet \ {"migrate", "upgrade", "restart"} => Pending(c)
    BY DEF Quiet, Decided, Steps, Journals, AccountInv, MigrationInv, EvidenceSound
  <1>4. NoneServes => ~Running
    BY RunningServes DEF AccountInv, NoneServes
  <1>5. ~StatePidAlive => NoneServes
    BY DEF AccountInv, DaemonInv, SocketSound, StatePidAlive, PidAlive, NoneServes
  <1>6. command[c].at \in Decided /\ stopped =>
            Pending(c) /\ command[c].mem.installed /\ command[c].mem.wasRunning
    BY <1>2 DEF Remembered, KnowsIntent, Pending
  <1> QED BY <1>1, <1>2, <1>3, <1>4, <1>5, <1>6

\* A command that ends leaves the intent, or writes it as it knows it.
LEMMA RestKeepsStop ==
    ASSUME OneCommand, AccountInv, NEW c \in Commands, command' = [command EXCEPT ![c] = AtRest],
           UNCHANGED <<unit, stopped>>,
           \/ ~stopped
           \/ UNCHANGED intent
           \/ command[c].at \in Decided /\ intent' = command[c].mem
    PROVE  StopSound'
  <1>1. Remembered'
    BY StopFacts DEF Remembered, Pending
  <1>2. AtRest.at \notin Decided \union Quiet \union {"plan", "evidence", "receipt", "clear"}
    BY RestFacts DEF Decided, Quiet
  <1>3. KnowsIntent(AtRest)' /\ LeavesNone(AtRest)' /\ ServesAgain(AtRest)'
    BY <1>2 DEF KnowsIntent, LeavesNone, FoundQuiet, ServesAgain, Decided, Quiet
  <1> QED BY <1>1, <1>3, OneIsAll, RestFacts, StopFacts

\* A command that goes on, with the intent as it is or as it knows it.
LEMMA GotoKeepsStop ==
    ASSUME OneCommand, AccountInv, NEW c \in Commands, NEW x \in CommandStates,
           command' = [command EXCEPT ![c] = x], x.at # "plan",
           command[c].at \in Decided,
           x.mem # NoIntent <=> Pending(c),
           Pending(c) => /\ x.mem.installed = command[c].mem.installed
                         /\ x.mem.wasRunning = command[c].mem.wasRunning,
           unit' # "none" \/ UNCHANGED unit, UNCHANGED <<stopped, daemon>>,
           UNCHANGED intent \/ intent' = command[c].mem \/ intent' = x.mem,
           x.at \in Quiet => ~stopped \/ NoneServes,
           x.at \in {"evidence", "receipt", "clear"} => ~stopped
    PROVE  StopSound'
  <1>1. /\ intent' # NoIntent <=> x.mem # NoIntent
        /\ x.mem # NoIntent => intent'.installed = x.mem.installed /\ intent'.wasRunning = x.mem.wasRunning
    BY StopFacts DEF KnowsIntent, Pending
  <1>2. Remembered'
    BY <1>1, StopFacts DEF Remembered, Pending
  <1>3. KnowsIntent(x)' /\ LeavesNone(x)' /\ ServesAgain(x)'
    BY <1>1 DEF KnowsIntent, LeavesNone, FoundQuiet, ServesAgain, NoneServes
  <1> QED BY <1>2, <1>3, OneIsAll, StopFacts

-----------------------------------------------------------------------------
\* The steps of the command up to the upgrade keep what it says of a stopped
\* daemon.
LEMMA QuiescingKeepsStop ==
    ASSUME OneCommand, AccountInv, NEW c \in Commands,
           \/ Inspect(c) \/ ReadStatus(c) \/ Plan(c)
           \/ QuiesceRefused(c) \/ Quiesce(c) \/ Stopped(c) \/ StopTimesOut(c)
    PROVE  StopSound'
  <1>1. /\ command \in [Commands -> CommandStates] /\ command[c] \in CommandStates
        /\ Remembered /\ KnowsIntent(command[c]) /\ LeavesNone(command[c])
        /\ ~StatePidAlive => NoneServes
    BY StopFacts
  <1>2. CASE Inspect(c)
    <2>1. PICK x \in CommandStates : x.at = "status" /\ command' = [command EXCEPT ![c] = x]
      <3> DEFINE y == [[command[c] EXCEPT !.at = "status"] EXCEPT !.needs = (schema = "old")]
      <3>1. y \in CommandStates /\ y.at = "status"
        BY <1>1 DEF CommandStates, Steps
      <3>2. command' = [command EXCEPT ![c] = y]
        BY <1>1, <1>2 DEF Inspect, CommandStates
      <3> QED BY <3>1, <3>2
    <2>3. Remembered'
      BY <1>1, <1>2 DEF Inspect, Remembered, serviceVars
    <2>4. KnowsIntent(x)' /\ LeavesNone(x)' /\ ServesAgain(x)'
      BY <2>1 DEF KnowsIntent, LeavesNone, FoundQuiet, ServesAgain, Decided, Quiet
    <2> QED BY <1>1, <2>1, <2>3, <2>4, OneIsAll
  <1>3. CASE ReadStatus(c)
    <2>1. PICK x \in CommandStates :
              /\ x.at = "plan" /\ x.mem = intent /\ x.status.pid = StatePidAlive
              /\ command' = [command EXCEPT ![c] = x]
      <3> DEFINE y == [[[command[c] EXCEPT !.at = "plan"] EXCEPT !.mem = intent] EXCEPT !.status = ServiceStatus]
      <3>1. ServiceStatus \in Statuses /\ ServiceStatus.pid = StatePidAlive
        BY DEF ServiceStatus, Statuses, Installed, Running, StatePidAlive, SocketPresent, PidAlive
      <3>2. intent \in Intent \union {NoIntent}
        BY DEF AccountInv, MigrationInv, MigrationTyped
      <3>3. y \in CommandStates /\ y.at = "plan" /\ y.mem = intent /\ y.status.pid = StatePidAlive
        BY <1>1, <3>1, <3>2 DEF CommandStates, Steps
      <3>4. command' = [command EXCEPT ![c] = y]
        BY <1>1, <1>3 DEF ReadStatus, CommandStates
      <3> HIDE DEF y
      <3> QED BY <3>3, <3>4
    <2>5. Remembered' /\ UNCHANGED <<intent, stopped>> /\ UNCHANGED daemon
      BY <1>1, <1>3 DEF ReadStatus, Remembered, serviceVars
    <2>6. KnowsIntent(x)' /\ ServesAgain(x)'
      BY <2>1, <2>5 DEF KnowsIntent, ServesAgain
    <2>7. LeavesNone(x)'
      BY <1>1, <2>1, <2>5 DEF LeavesNone, FoundQuiet, Quiet, NoneServes
    <2> QED BY <1>1, <2>1, <2>5, <2>6, <2>7, OneIsAll
  <1>4. CASE Plan(c)
    <2> DEFINE s == command[c].status
               plans == command[c].needs /\ ~Pending(c) /\ (s.installed \/ s.pid)
               plan == [evidence |-> FALSE, installed |-> s.installed, wasRunning |-> s.running]
               mem == IF plans THEN plan ELSE command[c].mem
               next == IF s.pid /\ (command[c].needs \/ mem # NoIntent) THEN "quiesce"
                       ELSE AfterQuiesce(c, mem)
    <2>1. plan \in Intent /\ plan # NoIntent
      <3>1. s \in Statuses
        BY <1>1 DEF CommandStates
      <3>2. s.installed \in BOOLEAN /\ s.running \in BOOLEAN
        BY <3>1 DEF Statuses
      <3>3. plan \in Intent
        BY <3>2 DEF Intent
      <3> QED BY <3>3, ValueAssumption DEF Intent
    <2>2. /\ command[c].at = "plan" /\ command[c].at \in Decided
          /\ intent' = IF plans THEN mem ELSE intent
          /\ command' = [command EXCEPT ![c] = IF next = "idle" THEN AtRest
                                               ELSE [@ EXCEPT !.at = next, !.mem = mem]]
          /\ UNCHANGED <<serviceVars, stopped>>
      BY <1>4 DEF Plan, Decided, Steps
    <2>3. plans => ~stopped
      BY <1>1, <2>2 DEF KnowsIntent, Remembered, Pending
    <2>4. UNCHANGED <<unit, daemon>>
      BY <2>2 DEF serviceVars
    <2>5. CASE next = "idle"
      BY <2>5, <2>2, <2>4, RestKeepsStop DEF AfterQuiesce
    <2>6. CASE next # "idle"
      <3>1. next \in {"quiesce", "migrate", "install"} /\ mem \in Intent \union {NoIntent}
        BY <1>1, <2>1, <2>6 DEF AfterQuiesce, CommandStates
      <3>2. next # "quiesce" => ~s.pid
        BY <2>6 DEF AfterQuiesce
      <3>3. /\ plans => mem = plan /\ intent' = mem
            /\ ~plans => mem = command[c].mem /\ UNCHANGED intent
        BY <2>2
      <3> HIDE DEF mem, next, plan, plans
      <3>4. PICK x \in CommandStates : /\ x.at = next /\ x.mem = mem
                                       /\ command' = [command EXCEPT ![c] = x]
        <4> DEFINE y == [[command[c] EXCEPT !.at = next] EXCEPT !.mem = mem]
        <4>1. y \in CommandStates /\ y.at = next /\ y.mem = mem
          BY <1>1, <3>1 DEF CommandStates, Steps
        <4>2. command' = [command EXCEPT ![c] = y]
          BY <1>1, <2>2, <2>6 DEF CommandStates
        <4> HIDE DEF y
        <4> QED BY <4>1, <4>2
      <3>5. x.at \in {"quiesce", "migrate", "install"} /\ (x.at # "quiesce" => ~s.pid)
        BY <3>1, <3>2, <3>4
      <3>6. Remembered'
        BY <1>1, <2>2, <2>3, <2>4, <3>3 DEF Remembered
      <3>7. KnowsIntent(x)' /\ ServesAgain(x)'
        BY <3>5, <1>1, <2>1, <2>2, <3>3, <3>4 DEF ServesAgain, KnowsIntent
      <3>8. LeavesNone(x)'
        BY <1>1, <2>2, <3>5, <2>4 DEF LeavesNone, FoundQuiet, Quiet, NoneServes
      <3> QED BY <1>1, <3>4, <3>6, <3>7, <3>8, OneIsAll
    <2> QED BY <2>5, <2>6
  <1>5. CASE QuiesceRefused(c) \/ StopTimesOut(c)
    BY <1>5, RestKeepsStop DEF QuiesceRefused, StopTimesOut, Give, serviceVars
  <1>6. CASE Quiesce(c)
    <2>1. PICK x \in CommandStates : /\ command' = [command EXCEPT ![c] = x]
                                     /\ x.at = "stopping" /\ x.mem = command[c].mem
      BY <1>6, GotoFacts DEF Quiesce, Steps, AccountInv
    <2>2. UNCHANGED <<unit, intent>> /\ command[c].at = "quiesce" /\ command[c].at \in Decided
      BY <1>6 DEF Quiesce, Decided, Steps
    <2>3. KnowsIntent(x)'
      BY <1>1, <2>1, <2>2 DEF KnowsIntent
    <2>4. LeavesNone(x)' /\ ServesAgain(x)'
      BY <2>1 DEF LeavesNone, FoundQuiet, Quiet, ServesAgain
    <2>5. Remembered'
      <3>1. CASE stopped
        BY <1>1, <2>2, <3>1 DEF Remembered
      <3>2. CASE ~stopped /\ stopped'
        BY <1>6, <3>2, <1>1, <2>2 DEF Quiesce, Running, Installed, KnowsIntent, Pending, Remembered
      <3> QED BY <3>1, <3>2 DEF Remembered
    <2> QED BY <1>1, <2>1, <2>3, <2>4, <2>5, OneIsAll
  <1>7. CASE Stopped(c)
    <2>1. PICK step \in {"migrate", "install", "idle"} : Goto(c, step)
      BY <1>7 DEF Stopped, AfterQuiesce
    <2>2. /\ command[c].at = "stopping" /\ command[c].at \in Decided /\ NoneServes
          /\ UNCHANGED <<serviceVars, stopped>>
          /\ UNCHANGED intent \/ intent' = command[c].mem
      BY <1>1, <1>7 DEF Stopped, Decided, Steps
    <2>3. PICK x \in CommandStates : /\ command' = [command EXCEPT ![c] = x]
                                     /\ x.at = step /\ x.mem = command[c].mem
      BY <2>1, GotoFacts DEF Steps, AccountInv
    <2>4. x.at # "plan" /\ x.at \notin {"evidence", "receipt", "clear"} /\ UNCHANGED <<unit, daemon>>
      BY <2>2, <2>3 DEF serviceVars
    <2> QED BY <2>2, <2>3, <2>4, GotoKeepsStop DEF Pending
  <1> QED BY <1>2, <1>3, <1>4, <1>5, <1>6, <1>7

\* So do its upgrade and what follows when it fails: a daemon is stopped only
\* while the intent says that it was running, so the command that fails starts
\* it again or leaves the intent.
LEMMA UpgradingKeepsStop ==
    ASSUME OneCommand, AccountInv, NEW c \in Commands,
           \/ TakeLease(c) \/ Migrate(c) \/ CommandFails(c) \/ Journal(c)
           \/ Restarted(c) \/ RestartFails(c)
    PROVE  StopSound'
  <1>1. /\ command[c].at \in Quiet /\ command[c].at \in Decided /\ command[c] \in CommandStates
        /\ UNCHANGED <<unit, daemon, stopped>>
    <2>1. command[c].at \in {"migrate", "upgrade", "journal", "restart"}
      BY DEF TakeLease, Migrate, CommandFails, Journal, Restarted, RestartFails
    <2>2. UNCHANGED <<serviceVars, stopped>>
      BY DEF TakeLease, Migrate, CommandFails, Journal, Restarted, RestartFails
    <2> QED BY <2>1, <2>2, StopFacts DEF Quiet, Decided, Steps, serviceVars
  <1>2. /\ stopped => NoneServes /\ Pending(c) /\ command[c].mem.installed /\ command[c].mem.wasRunning
        /\ stopped => unit # "none"
        /\ NoneServes => ~Running
    BY <1>1, StopFacts DEF LeavesNone, FoundQuiet, Remembered
  <1>3. ASSUME NEW step \in {"upgrade", "install", "restart"}, Goto(c, step),
               UNCHANGED intent \/ intent' = command[c].mem
        PROVE  StopSound'
    <2>1. PICK x \in CommandStates : /\ command' = [command EXCEPT ![c] = x]
                                     /\ x.at = step /\ x.mem = command[c].mem
      BY <1>3, GotoFacts DEF Steps, AccountInv
    <2>2. x.at # "plan" /\ x.at \notin {"evidence", "receipt", "clear"}
      BY <2>1
    <2> QED BY <1>1, <1>2, <1>3, <2>1, <2>2, GotoKeepsStop DEF Pending
  <1>4. CASE TakeLease(c) \/ Journal(c)
    BY <1>3, <1>4 DEF TakeLease, Journal
  <1>5. CASE Migrate(c)
    <2>1. UNCHANGED intent
      BY <1>5 DEF Migrate
    <2>2. CASE Pending(c)
      <3> DEFINE mem == [command[c].mem EXCEPT !.evidence = (schema = "old")]
                 x == [[command[c] EXCEPT !.at = "journal"] EXCEPT !.mem = mem]
      <3>1. command[c].mem \in Intent
        BY <1>1, <2>2 DEF Pending, CommandStates
      <3>2. /\ mem \in Intent /\ mem # NoIntent
            /\ mem.installed = command[c].mem.installed /\ mem.wasRunning = command[c].mem.wasRunning
        BY <3>1, ValueAssumption DEF Intent
      <3>3. command' = [command EXCEPT ![c] = x]
        BY <1>1, <1>5, <2>2, StopFacts DEF Migrate, CommandStates
      <3> HIDE DEF mem
      <3>4. x \in CommandStates /\ x.at = "journal" /\ x.mem = mem
        BY <1>1, <3>2 DEF CommandStates, Steps
      <3> HIDE DEF x
      <3>5. x.at # "plan" /\ x.at \notin {"evidence", "receipt", "clear"}
        BY <3>4
      <3> QED BY <1>1, <1>2, <2>1, <2>2, <3>2, <3>3, <3>4, <3>5, GotoKeepsStop
    <2>3. CASE ~Pending(c)
      BY <1>1, <1>5, <2>1, <2>3, RestKeepsStop DEF Migrate
    <2> QED BY <2>2, <2>3
  <1>6. CASE CommandFails(c)
    BY <1>6, <1>3, <1>1, <1>2, RestKeepsStop DEF CommandFails, AfterFailure, ForgetFailure, Give
  <1>7. CASE Restarted(c)
    BY <1>2, <1>7, <1>1, RestKeepsStop DEF Restarted, Installed, Give
  <1>8. CASE RestartFails(c)
    BY <1>1, <1>8, RestKeepsStop DEF RestartFails, Give
  <1> QED BY <1>4, <1>5, <1>6, <1>7, <1>8

\* And so does the rest of the command: it takes the evidence as complete only
\* with a daemon that runs, or when there was none to stop.
LEMMA FinishingKeepsStop ==
    ASSUME OneCommand, AccountInv, NEW c \in Commands,
           \/ InstallCompatible(c) \/ Healthy(c) \/ HealthTimesOut(c) \/ CheckEvidence(c)
           \/ WriteReceipt(c) \/ ClearIntent(c) \/ CommandCrash(c)
    PROVE  StopSound'
  <1>1. CASE CommandCrash(c)
    BY <1>1, RestKeepsStop DEF CommandCrash, Give, serviceVars
  <1>2. ASSUME ~CommandCrash(c)
        PROVE  StopSound'
    <2>1. /\ command[c].at \in {"install", "health", "evidence", "receipt", "clear"}
          /\ UNCHANGED <<stopped, daemon>> /\ (unit' # "none" \/ UNCHANGED unit)
      BY <1>2 DEF InstallCompatible, Healthy, HealthTimesOut, CheckEvidence, WriteReceipt, ClearIntent,
                  Install, serviceVars
    <2>2. command[c].at \in Decided /\ command[c].at \in Quiet \ {"migrate", "upgrade", "restart"}
      BY <2>1 DEF Quiet, Decided, Steps
    <2>3. /\ Pending(c) /\ (NoneServes => ~Running)
          /\ stopped => NoneServes /\ command[c].mem.installed
          /\ command[c].at \in {"evidence", "receipt", "clear"} => ~stopped
      BY <2>2, StopFacts DEF LeavesNone, FoundQuiet, ServesAgain
    <2>4. ASSUME NEW step \in {"health", "evidence", "receipt", "clear"}, Goto(c, step),
                 UNCHANGED intent \/ intent' = command[c].mem, step # "health" => ~stopped
          PROVE  StopSound'
      <3>1. PICK x \in CommandStates : /\ command' = [command EXCEPT ![c] = x]
                                       /\ x.at = step /\ x.mem = command[c].mem
        BY <2>4, GotoFacts DEF Steps, AccountInv
      <3>2. x.at # "plan" /\ (x.at \in {"evidence", "receipt", "clear"} => ~stopped)
        BY <2>4, <3>1
      <3> QED BY <2>1, <2>2, <2>3, <2>4, <3>1, <3>2, GotoKeepsStop DEF Pending
    <2>5. CASE UNCHANGED unit /\ GiveUp(c)
      BY <2>1, <2>2, <2>5, RestKeepsStop DEF GiveUp, Give
    <2>6. CASE InstallCompatible(c) /\ ~(UNCHANGED unit /\ GiveUp(c))
      BY <2>3, <2>4, <2>6 DEF InstallCompatible, serviceVars
    <2>7. CASE Healthy(c) /\ ~(UNCHANGED unit /\ GiveUp(c))
      BY <2>7, <2>3, <2>4 DEF Healthy, serviceVars
    <2>8. CASE HealthTimesOut(c)
      BY <2>5, <2>8 DEF HealthTimesOut, serviceVars
    <2>9. CASE CheckEvidence(c) /\ ~(UNCHANGED unit /\ GiveUp(c))
      BY <2>3, <2>4, <2>9 DEF CheckEvidence, serviceVars
    <2>10. CASE WriteReceipt(c)
      BY <2>3, <2>4, <2>10 DEF WriteReceipt
    <2>11. CASE ClearIntent(c)
      BY <2>1, <2>3, <2>11, RestKeepsStop DEF ClearIntent, Give, serviceVars
    <2> QED BY <1>2, <2>5, <2>6, <2>7, <2>8, <2>9, <2>10, <2>11
  <1> QED BY <1>1, <1>2

\* So do the daemons.
LEMMA DaemonsKeepStop ==
    ASSUME AccountInv, \/ ServiceStep
                       \/ \E k \in Kinds : DaemonWrites(k) \/ DaemonWrote(k)
    PROVE  StopSound'
  <1>1. UNCHANGED <<intent, command>>
    BY DEF ServiceStep, DaemonWrites, DaemonWrote
  <1>2. CASE ServiceStep
    BY <1>2, <1>1 DEF ServiceStep, NoneServes, AccountInv, StopSound, Remembered, KnowsIntent, LeavesNone,
           ServesAgain
  <1>3. CASE UNCHANGED <<unit, daemon, stopped>>
    BY <1>1, <1>3 DEF AccountInv, StopSound, Remembered, KnowsIntent, LeavesNone, FoundQuiet, ServesAgain, NoneServes
  <1> QED BY <1>2, <1>3 DEF DaemonWrites, DaemonWrote, serviceVars

\* With one command at a time, and one daemon, all of it is an invariant.
LEMMA AccountHolds == ~DaemonsOverlap /\ OneCommand => (MigrationSpec => []AccountInv)
  <1> SUFFICES ASSUME ~DaemonsOverlap, OneCommand
               PROVE  MigrationSpec => []AccountInv
    OBVIOUS
  <1>1. MigrationInit => StopSound
    BY RestFacts DEF MigrationInit, StopSound, Remembered, KnowsIntent, LeavesNone, FoundQuiet, ServesAgain,
                     Decided, Quiet
  <1>2. AccountInv /\ [MigrationNext]_migrationVars => StopSound'
    <2>1. AccountInv /\ UNCHANGED migrationVars => StopSound'
      BY DEF AccountInv, StopSound, Remembered, KnowsIntent, LeavesNone, FoundQuiet, ServesAgain, NoneServes,
             migrationVars, migrationState, serviceVars
    <2>2. AccountInv /\ MigrationNext => StopSound'
      BY QuiescingKeepsStop, UpgradingKeepsStop, FinishingKeepsStop, DaemonsKeepStop DEF MigrationNext
    <2> QED BY <2>1, <2>2
  <1>3. MigrationSpec => []MigrationInv
    BY MigrationInvHolds
  <1>4. MigrationSpec => []DaemonInv
    BY DaemonInvHolds
  <1> QED BY <1>1, <1>2, <1>3, <1>4, PTL DEF MigrationSpec, AccountInv

\* The command that stops a running daemon to migrate never leaves it stopped
\* without an intent that says so, its receipt is earned, and a status of
\* running is that of a daemon that listens: as long as a second migrate-cache
\* and a second daemon do not run at once (cli.go executeMigrateCacheCommand,
\* manager.go).
THEOREM MigrationStaysSound == ~DaemonsOverlap /\ OneCommand => (MigrationSpec => []MigrationIsSound)
  <1> SUFFICES ASSUME ~DaemonsOverlap, OneCommand
               PROVE  MigrationSpec => []MigrationIsSound
    OBVIOUS
  <1>1. AccountInv => MigrationIsSound
    <2> SUFFICES ASSUME AccountInv
                 PROVE  MigrationIsSound
      OBVIOUS
    <2>1. ReceiptIsEarned
      BY DEF AccountInv, MigrationInv, EvidenceSound
    <2>2. StoppedIsRemembered
      BY DEF AccountInv, StopSound, Remembered, StoppedIsRemembered
    <2>3. ReadyIsListening
      BY RunningServes DEF AccountInv, ReadyIsListening
    <2> QED BY <2>1, <2>2, <2>3 DEF MigrationIsSound, MigrationIsAccounted
  <1>2. MigrationSpec => []AccountInv
    BY AccountHolds
  <1> QED BY <1>1, <1>2, PTL
=============================================================================
