---------------------------- MODULE MCCacheUpkeep ----------------------------
(* What keeps a cache right, side by side: the traversal of a collection,   *)
(* the comment queue, the schema upgrade, the command that runs it beside   *)
(* a service, the scheduler, conflicts between registrations, and syncs of   *)
(* single records.  A behaviour is one of one component, and the others     *)
(* stay in their initial states.                                            *)
EXTENDS CollectionSync, CommentQueue, CacheSchema, CacheMigration, MaintenanceReconcile,
        IdentityConflicts, RecordSync, TLC

VARIABLE part

Others(p) ==
    /\ UNCHANGED part
    /\ IF p = "collection" THEN TRUE ELSE UNCHANGED collectionVars
    /\ IF p = "comments" THEN TRUE ELSE UNCHANGED queueVars
    /\ IF p = "schema" THEN TRUE ELSE UNCHANGED schemaVars
    /\ IF p = "command" THEN TRUE ELSE UNCHANGED migrationVars
    /\ IF p = "schedule" THEN TRUE ELSE UNCHANGED maintenanceVars
    /\ IF p = "conflicts" THEN TRUE ELSE UNCHANGED conflictVars
    /\ IF p = "records" THEN TRUE ELSE UNCHANGED recordVars

UpkeepInit ==
    /\ CollectionInit /\ QueueInit /\ SchemaInit /\ MigrationInit /\ MaintenanceInit
    /\ ConflictsInit /\ RecordInit
    /\ part \in {"collection", "comments", "command", "schedule", "schema", "conflicts", "records"}
    /\ part # "schema" => cache = Found(Unversioned, FALSE, FALSE, FALSE)
    /\ part # "command" => unit = "none"
    /\ part # "conflicts" => registryFile = Registry({})

UpkeepNext ==
    \/ part = "collection" /\ CollectionNext /\ Others("collection")
    \/ part = "comments" /\ QueueNext /\ Others("comments")
    \/ part = "schema" /\ SchemaNext /\ Others("schema")
    \/ part = "command" /\ MigrationNext /\ Others("command")
    \/ part = "schedule" /\ MaintenanceNext /\ Others("schedule")
    \/ part = "conflicts" /\ ConflictsNext /\ Others("conflicts")
    \/ part = "records" /\ RecordNext /\ Others("records")

UpkeepSpec ==
    UpkeepInit /\ [][UpkeepNext]_<<part, collectionVars, queueVars, schemaVars, migrationVars, maintenanceVars,
                            conflictVars, recordVars>>

\* The types of the components.
UpkeepTypeOK ==
    /\ CollectionTypeOK /\ QueueTypeOK /\ SchemaTypeOK
    /\ MigrationTypeOK /\ MaintenanceTypeOK /\ ConflictsTypeOK /\ RecordTypeOK
=============================================================================
