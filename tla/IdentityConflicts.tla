-------------------------- MODULE IdentityConflicts --------------------------
(* The registrations of one cache_uuid in the daemon's registry: what       *)
(* loading makes of rows that name one repository twice or one cache at two *)
(* paths, and how an operator settles it.  Rows that cannot stand together  *)
(* are folded into one disabled conflict row that keeps them as candidates; *)
(* a resolution is planned, fenced against cache writers, replanned and     *)
(* saved together with its receipt, and a retired path stays out.           *)
(*                                                                          *)
(* A registration id is the label it was made from: the id of a repository  *)
(* is its own name.  A policy stands for policy, configuration and sources. *)
EXTENDS Naturals, FiniteSets, Sequences, TLC

CONSTANTS
    Paths,         \* copies of the cache, all with the same cache_uuid
    Repos,         \* repositories bound in the cache
    Main, Alias,   \* Alias is another name of repository Main
    Policies,
    Operators,     \* admin callers of a resolution; each uses one idempotency key
    EnrolKeys,     \* idempotency keys of enrolments
    CloneId,       \* maintenanceCloneConflictRegistrationID
    LostId,        \* maintenanceUnresolvedRegistrationID
    MaxResolutions,  \* maxMaintenanceConflictResolutionReceipts
    MaxRows,       \* rows of the first registry
    MaxSize,       \* those rows and the events after them
    Answers,       \* what an inspection may answer
    EnrolMidConflict,   \* whether a repository may be enrolled beside a clone conflict
    MixedCohorts,       \* whether an unresolved cohort of different repositories is resolved by hand
    NoPlan

Labels == Repos \union {Alias}
RegistrationIds == Labels \union {CloneId, LostId}
ConflictKinds == {"cache_clone_conflict", "identity_conflict", "identity_unresolved"}
BlockedStates == {"identity_unresolved", "config_snapshot_invalid", "cache_inspection_timeout"}

ASSUME ConflictsAssumption ==
    /\ Main \in Repos /\ Alias \notin Repos
    /\ IsFiniteSet(Repos) /\ IsFiniteSet(Paths)
    /\ CloneId # LostId /\ Labels \intersect {CloneId, LostId} = {}
    /\ MaxResolutions \in Nat \ {0}
    /\ {MaxRows, MaxSize} \subseteq Nat
    /\ Answers \subseteq {"ok", "gone", "slow", "snapshot"}
    /\ {EnrolMidConflict, MixedCohorts} \subseteq BOOLEAN

VARIABLES
    book,      \* the registry in memory
    registryFile,  \* managed-caches.json
    daemonUp,
    inspection,    \* what an inspection of each path answers
    cacheWriter,   \* a writer of this cache_uuid is active
    attempt,       \* an operator's plan and how far its apply has come
    resolutions,   \* the plans carried out so far: a conflict and what was selected
    commits,       \* how many resolutions have been committed
    events         \* rows at the start and bounded events so far

conflictVars == <<book, registryFile, daemonUp, inspection, cacheWriter, attempt, resolutions, commits, events>>
-----------------------------------------------------------------------------
(* Rows and redirects.                                                       *)

RepoOf(l) == IF l = Alias THEN Main ELSE l

Registration(l, p, pol) ==
    [id |-> l, repo |-> l, path |-> p, policy |-> pol, enabled |-> TRUE, was |-> FALSE,
     state |-> "enrolled", gen |-> 1, legacy |-> {}, cands |-> {}]

InConflict(r) == r.cands # {}
RowsNamed(rows, id) == {r \in rows : r.id = id}
AnyOf(rows) == CHOOSE r \in rows : TRUE
TopGeneration(rows) == CHOOSE g \in {r.gen : r \in rows} : \A r \in rows : r.gen <= g
BaseRow(rows, id) == IF RowsNamed(rows, id) # {} THEN AnyOf(RowsNamed(rows, id)) ELSE AnyOf(rows)

OldNames(rows, id) == (UNION {{r.id} \union r.legacy : r \in rows}) \ {id}

\* The registry is a map by id: a new row takes the place of one of its name.
Put(rows, new) == {r \in rows : \A n \in new : n.id # r.id} \union new

\* Puts each row of made in the place of the rows it is made from, and leads
\* their names to it.
Replace(b, made) ==
    LET names == UNION {OldNames(m.from, m.row.id) : m \in made}
        maker(n) == CHOOSE m \in made : n \in OldNames(m.from, m.row.id)
    IN  [b EXCEPT
            !.rows = Put(@ \ UNION {m.from : m \in made}, {m.row : m \in made}),
            !.redirects = [n \in DOMAIN @ \union names |->
                               IF n \in names THEN maker(n).row.id ELSE @[n]]]

Hop(redirects, id) == IF id \in DOMAIN redirects THEN redirects[id] ELSE id
Resolve(redirects, id) ==
    LET Walk[n \in 0 .. Cardinality(RegistrationIds)] ==
            IF n = 0 THEN id ELSE Hop(redirects, Walk[n - 1])
    IN  Walk[Cardinality(RegistrationIds)]

\* Redirects from a row are dropped, the others lead straight to a row.
Normalized(redirects, rows) ==
    LET owners == {r.id : r \in rows}
        onward == [n \in DOMAIN redirects \ owners |-> redirects[n]]
        kept == {n \in DOMAIN onward : Resolve(onward, n) \in owners}
    IN  [n \in kept |-> Resolve(onward, n)]
-----------------------------------------------------------------------------
(* Canonicalization, which runs at load, before an enrolment and after a     *)
(* clone is resolved.                                                        *)

Blocked(r, why) ==
    [r EXCEPT !.was = IF r.state # why THEN r.enabled ELSE @,
              !.enabled = FALSE, !.state = why]

Unblocked(r) ==
    IF r.state \in BlockedStates
    THEN [r EXCEPT !.enabled = r.was, !.was = FALSE, !.state = "enrolled"]
    ELSE r

Inspected(r) ==
    CASE inspection[r.path] = "ok" -> Unblocked(r)
      [] inspection[r.path] = "snapshot" -> Blocked(r, "config_snapshot_invalid")
      [] OTHER -> r

SilentAs(answer) ==
    IF answer = "slow" THEN "cache_inspection_timeout" ELSE "identity_unresolved"

\* Rows that cannot stand together, as one disabled row that keeps them.
ConflictRow(rows, id, kind) ==
    [BaseRow(rows, id) EXCEPT !.id = id, !.enabled = FALSE, !.state = kind,
        !.gen = TopGeneration(rows) + 1, !.legacy = OldNames(rows, id), !.cands = rows]

FoldTogether(b, rows, id, kind) ==
    Replace(b, {[row |-> ConflictRow(rows, id, kind), from |-> rows]})

\* Rows of one repository are one row, or a conflict when their policies differ.
RepoRow(rows, repo) ==
    IF Cardinality({r.policy : r \in rows}) > 1
    THEN ConflictRow(rows, repo, "identity_conflict")
    ELSE [BaseRow(rows, repo) EXCEPT !.id = repo, !.repo = repo, !.legacy = OldNames(rows, repo),
             !.gen = IF Cardinality(rows) > 1 THEN TopGeneration(rows) + 1 ELSE @]

Grouped(b, live) ==
    LET group(x) == {r \in live : RepoOf(r.repo) = x}
    IN  Replace(b, {[row |-> RepoRow(group(x), x), from |-> group(x)] :
                       x \in {RepoOf(r.repo) : r \in live}})

\* An unresolved cohort whose cache answers again falls apart into its rows.
Expanded(b) ==
    LET back == {r \in b.rows : /\ InConflict(r) /\ r.state = "identity_unresolved"
                                /\ inspection[r.path] \in {"ok", "snapshot"}}
        names == {r.id : r \in back}
        kept == {n \in DOMAIN b.redirects : b.redirects[n] \notin names}
    IN  [b EXCEPT !.rows = Put(@ \ back, UNION {r.cands : r \in back}),
                  !.redirects = [n \in kept |-> b.redirects[n]]]

Together(b) ==
    LET live == {r \in b.rows : ~InConflict(r)}
        one == AnyOf(live)
    IN  CASE live = {} -> b
          [] Cardinality({r.path : r \in live}) > 1 ->
                FoldTogether(b, live, CloneId, "cache_clone_conflict")
          [] OTHER ->
                IF inspection[one.path] = "ok" THEN Grouped(b, live)
                ELSE IF inspection[one.path] = "snapshot" THEN b
                ELSE IF Cardinality(live) > 1 THEN FoldTogether(b, live, LostId, "identity_unresolved")
                ELSE Replace(b, {[row |-> Blocked(one, SilentAs(inspection[one.path])), from |-> live]})

Canonical(b) ==
    LET expanded == Expanded(b)
        inspected == [expanded EXCEPT
            !.rows = {IF InConflict(r) THEN r ELSE Inspected(r) : r \in expanded.rows}]
        done == Together(inspected)
        redirects == Normalized(done.redirects, done.rows)
    IN  [done EXCEPT
            !.redirects = redirects,
            !.keys = [k \in DOMAIN @ |-> [@[k] EXCEPT !.id = Resolve(redirects, @)]]]
-----------------------------------------------------------------------------
(* The daemon and the cache files.                                           *)

SpendEvent == events < MaxSize /\ events' = events + 1

Registry(rows) == [rows |-> rows, redirects |-> [n \in {} |-> n], keys |-> [k \in {} |-> NoPlan],
               retired |-> {}, receipts |-> <<>>]

NotAsked == [step |-> "idle", plan |-> NoPlan]

\* A registry of an earlier release, whose rows were never canonicalized.
ConflictsInit ==
    /\ \E rows \in SUBSET {Registration(l, p, pol) : l \in Labels, p \in Paths, pol \in Policies} :
        /\ Cardinality(rows) <= MaxRows
        /\ \A r, s \in rows : r.repo = s.repo /\ r.path = s.path => r = s
        /\ registryFile = Registry(rows)
        /\ events = Cardinality(rows)
    /\ book = Registry({})
    /\ daemonUp = FALSE
    /\ inspection = [p \in Paths |-> "ok"]
    /\ cacheWriter = FALSE
    /\ attempt = [o \in Operators |-> NotAsked]
    /\ resolutions = {}
    /\ commits = 0

\* Saving writes the whole registry and keeps the newest receipts.
Pruned(b) ==
    LET extra == Len(b.receipts) - MaxResolutions
    IN  IF extra > 0 THEN [b EXCEPT !.receipts = SubSeq(@, extra + 1, Len(@))] ELSE b

RegistrySaved(b) ==
    /\ book' = Pruned(b)
    /\ registryFile' = Pruned(b)
    /\ UNCHANGED events

RegistrySaveFails == SpendEvent

\* A daemon starts on the registryFile; when what it makes of it cannot be saved, the
\* daemon does not start.
LoadRegistry ==
    /\ ~daemonUp
    /\ \/ /\ RegistrySaved(Canonical(registryFile))
          /\ daemonUp' = TRUE
       \/ /\ Canonical(registryFile) # registryFile
          /\ RegistrySaveFails
          /\ UNCHANGED <<book, registryFile, daemonUp>>
    /\ UNCHANGED <<inspection, cacheWriter, attempt, resolutions, commits>>

StopDaemon ==
    /\ daemonUp
    /\ SpendEvent
    /\ daemonUp' = FALSE
    /\ cacheWriter' = FALSE
    /\ attempt' = [o \in Operators |-> [attempt[o] EXCEPT !.step = "idle"]]
    /\ UNCHANGED <<book, registryFile, inspection, resolutions, commits>>

MoveCache ==
    /\ \E p \in Paths, answer \in Answers :
        /\ answer # inspection[p]
        /\ inspection' = [inspection EXCEPT ![p] = answer]
        /\ IF answer = "ok" THEN UNCHANGED events ELSE SpendEvent
    /\ UNCHANGED <<book, registryFile, daemonUp, cacheWriter, attempt, resolutions, commits>>
-----------------------------------------------------------------------------
(* Enrolling and disabling.                                                  *)

KeyMatches(b, key, id, p, pol) ==
    LET k == b.keys[key]
    IN  /\ k.id = id /\ k.path = p
        /\ \/ k.intent = <<id, pol>>
           \/ \E r \in RowsNamed(b.rows, id) : \E n \in r.legacy : k.intent = <<n, r.policy>>

Admits(b, key, id, p, pol) ==
    /\ p \notin b.retired
    /\ \A r \in RowsNamed(b.rows, id) : ~InConflict(r)
    /\ key \in DOMAIN b.keys => RowsNamed(b.rows, id) = {} /\ KeyMatches(b, key, id, p, pol)
    /\ \A r \in b.rows : r.path = p

Enrolled(b, key, id, p, pol) ==
    LET old == RowsNamed(b.rows, id)
        new == IF old = {} THEN {Registration(id, p, pol)}
               ELSE {IF r.policy = pol /\ r.enabled THEN r
                     ELSE [r EXCEPT !.policy = pol, !.enabled = TRUE, !.gen = @ + 1, !.state = "enrolled"] :
                        r \in old}
    IN  [b EXCEPT !.rows = (@ \ old) \union new,
                  !.keys = (key :> [id |-> id, intent |-> <<id, pol>>, path |-> p]) @@ @]

\* An enrolment first canonicalizes and saves; then it is refused, answered
\* from its receipt, or saved in turn.
EnrollRegistration(key, repo, p, pol) ==
    LET b == Canonical(book)
        id == Resolve(b.redirects, repo)
        out == IF Admits(b, key, id, p, pol) THEN Enrolled(b, key, id, p, pol) ELSE b
    IN  /\ daemonUp /\ inspection[p] = "ok"
        /\ EnrolMidConflict \/ RowsNamed(b.rows, CloneId) = {}
        /\ book' = out /\ registryFile' = out
        /\ SpendEvent
        /\ UNCHANGED <<daemonUp, inspection, cacheWriter, attempt, resolutions, commits>>

\* The second save fails, after the first took.
EnrollRegistrationFails(p) ==
    LET b == Canonical(book)
    IN  /\ daemonUp /\ inspection[p] = "ok"
        /\ RegistrySaveFails
        /\ book' = b /\ registryFile' = b
        /\ UNCHANGED <<daemonUp, inspection, cacheWriter, attempt, resolutions, commits>>

\* A disabled row whose save fails stays disabled in memory.
DisableRegistration(id) ==
    LET old == RowsNamed(book.rows, Resolve(book.redirects, id))
        out == [book EXCEPT !.rows = (@ \ old) \union
                   {[r EXCEPT !.enabled = FALSE, !.gen = @ + 1, !.state = "disabled"] : r \in old}]
    IN  /\ daemonUp /\ old # {}
        /\ book' = out
        /\ \/ registryFile' = out /\ SpendEvent
           \/ RegistrySaveFails /\ UNCHANGED registryFile
        /\ UNCHANGED <<daemonUp, inspection, cacheWriter, attempt, resolutions, commits>>
-----------------------------------------------------------------------------
(* Resolving a conflict.                                                     *)

\* A clone is resolved by path, with every registration on it; the other
\* conflicts by one candidate.
Selections(r) ==
    IF r.id = CloneId
    THEN {{c \in r.cands : c.path = p} : p \in {c.path : c \in r.cands}}
    ELSE {{c} : c \in r.cands}

\* A plan names the conflict, its generation and candidates, and the selection.
ResolutionPlans(b, id) ==
    UNION {{[id |-> r.id, gen |-> r.gen, cands |-> r.cands, sel |-> sel] :
               sel \in {x \in Selections(r) : \A c \in x : inspection[c.path] = "ok"}} :
           r \in {x \in RowsNamed(b.rows, Resolve(b.redirects, id)) : InConflict(x)}}

ReceiptsOf(b, o) == {i \in DOMAIN b.receipts : b.receipts[i].key = o}
WritersFenced == \E o \in Operators : attempt[o].step = "fenced"

PlanConflictResolution(o, id) ==
    /\ daemonUp /\ attempt[o].step = "idle" /\ ~cacheWriter
    /\ \E plan \in ResolutionPlans(book, id) :
        /\ MixedCohorts \/ plan.id = CloneId \/ Cardinality({RepoOf(c.repo) : c \in plan.cands}) = 1
        /\ attempt' = [attempt EXCEPT ![o].plan = plan]
    /\ UNCHANGED <<book, registryFile, daemonUp, inspection, cacheWriter, resolutions, commits, events>>

\* A key with a receipt is answered from it; otherwise new cache writers are
\* fenced off, and an active one ends the attempt.
BeginResolution(o) ==
    /\ daemonUp /\ attempt[o].step = "idle" /\ attempt[o].plan # NoPlan
    /\ ReceiptsOf(book, o) = {} /\ ~cacheWriter
    /\ attempt' = [attempt EXCEPT ![o].step = "fenced"]
    /\ UNCHANGED <<book, registryFile, daemonUp, inspection, cacheWriter, resolutions, commits, events>>

Promoted(c) ==
    [c EXCEPT !.was = FALSE, !.cands = {}, !.state = IF c.enabled THEN "enrolled" ELSE "disabled"]

\* The selected candidate is the registration, under every name of the cohort.
SelectRepo(b, r, c) ==
    LET id == RepoOf(c.repo)
        cohort == r.cands \union {r}
        names == (UNION {{x.id} \union x.legacy : x \in r.cands}) \union {r.id}
        row == [Promoted(c) EXCEPT !.id = id, !.repo = id, !.legacy = names \ {id}, !.gen = TopGeneration(cohort) + 1]
        led == {n \in DOMAIN b.redirects : b.redirects[n] \in names} \union (names \ {id})
        redirects == [n \in DOMAIN b.redirects \union led |-> IF n \in led THEN id ELSE b.redirects[n]]
        rows == {x \in b.rows : x.id \notin {r.id, id}} \union {row}
    IN  [b EXCEPT !.rows = rows, !.redirects = Normalized(redirects, rows),
                  !.keys = [k \in DOMAIN @ |-> IF @[k].id \in names THEN [@[k] EXCEPT !.id = id] ELSE @[k]]]

\* (mutant) What the selected path brings back is not canonicalized.
SelectPathAsStored(b, r, sel) ==
    [b EXCEPT !.rows = (@ \ {r}) \union {Promoted(c) : c \in sel},
              !.redirects = [n \in {m \in DOMAIN @ : m # r.id /\ @[m] # r.id} |-> @[n]],
              !.retired = @ \union ({c.path : c \in r.cands} \ {AnyOf(sel).path})]

\* The registrations of the selected path are back as they were, the other
\* paths are retired, and what is back is canonicalized.
SelectPath(b, r, sel) ==
    LET path == AnyOf(sel).path
        kept == {n \in DOMAIN b.redirects : n # r.id /\ b.redirects[n] # r.id}
        owner(k) == {c \in sel : k.id = r.id /\ k.path = path /\ k.intent = <<c.id, c.policy>>}
    IN  Canonical([b EXCEPT
            !.rows = (@ \ {r}) \union {Promoted(c) : c \in sel},
            !.redirects = [n \in kept |-> b.redirects[n]],
            !.retired = @ \union ({c.path : c \in r.cands} \ {path}),
            !.keys = [k \in DOMAIN @ |-> IF Cardinality(owner(@[k])) = 1
                                          THEN [@[k] EXCEPT !.id = AnyOf(owner(@[k])).id] ELSE @[k]]])

Resolved(b, o, plan) ==
    LET r == AnyOf(RowsNamed(b.rows, plan.id))
        out == IF plan.id = CloneId THEN SelectPath(b, r, plan.sel)
                                    ELSE SelectRepo(b, r, AnyOf(plan.sel))
    IN  [out EXCEPT !.receipts = Append(@, [key |-> o, plan |-> plan])]

\* Under the fence the receipt is looked up and the plan is made again; a
\* plan that is not the same is stale.
PlanHolds(o) ==
    LET plan == attempt[o].plan
        taken == {r \in book.rows : r.id # CloneId /\ \E c \in plan.sel : c.id = r.id}
    IN  /\ ReceiptsOf(book, o) = {}
        /\ plan \in ResolutionPlans(book, plan.id)
        /\ plan.id = CloneId => taken = {}

ApplyConflictResolution(o) ==
    LET plan == attempt[o].plan
    IN  /\ attempt[o].step = "fenced"
        /\ attempt' = [attempt EXCEPT ![o].step = "idle"]
        /\ \/ /\ PlanHolds(o)
              /\ RegistrySaved(Resolved(book, o, plan))
              /\ resolutions' = resolutions \union {plan}
              /\ commits' = commits + 1
           \/ /\ PlanHolds(o)
              /\ RegistrySaveFails
              /\ UNCHANGED <<book, registryFile, resolutions, commits>>
           \/ /\ ~PlanHolds(o)
              /\ UNCHANGED <<book, registryFile, events, resolutions, commits>>
        /\ UNCHANGED <<daemonUp, inspection, cacheWriter>>

\* Admission of a cache cacheWriter, through any door.
WriterStarts ==
    /\ daemonUp /\ ~cacheWriter /\ ~WritersFenced
    /\ cacheWriter' = TRUE
    /\ UNCHANGED <<book, registryFile, daemonUp, inspection, attempt, resolutions, commits, events>>

WriterEnds ==
    /\ cacheWriter
    /\ cacheWriter' = FALSE
    /\ UNCHANGED <<book, registryFile, daemonUp, inspection, attempt, resolutions, commits, events>>

ConflictsNext ==
    \/ LoadRegistry \/ StopDaemon \/ MoveCache \/ WriterStarts \/ WriterEnds
    \/ \E p \in Paths : EnrollRegistrationFails(p)
    \/ \E k \in EnrolKeys, r \in Repos, p \in Paths, pol \in Policies : EnrollRegistration(k, r, p, pol)
    \/ \E id \in RegistrationIds : DisableRegistration(id)
    \/ \E o \in Operators, id \in RegistrationIds : PlanConflictResolution(o, id)
    \/ \E o \in Operators : BeginResolution(o) \/ ApplyConflictResolution(o)

ConflictsSpec == ConflictsInit /\ [][ConflictsNext]_conflictVars
-----------------------------------------------------------------------------
CandidateType ==
    [id : RegistrationIds, repo : Labels, path : Paths, policy : Policies, enabled : BOOLEAN, was : BOOLEAN,
     state : ConflictKinds \union BlockedStates \union {"enrolled", "disabled"}, gen : Nat \ {0},
     legacy : SUBSET RegistrationIds, cands : {{}}]

ConflictsTypeOK ==
    /\ \A b \in {book, registryFile} :
        /\ \A r \in b.rows : /\ [r EXCEPT !.cands = {}] \in CandidateType
                              /\ r.cands \subseteq CandidateType
        /\ DOMAIN b.redirects \subseteq RegistrationIds
        /\ DOMAIN b.keys \subseteq EnrolKeys
        /\ b.retired \subseteq Paths
        /\ Len(b.receipts) <= MaxResolutions
    /\ daemonUp \in BOOLEAN /\ cacheWriter \in BOOLEAN
    /\ inspection \in [Paths -> Answers]
    /\ \A o \in Operators : attempt[o].step \in {"idle", "fenced"}
    /\ commits \in Nat

(* One path of the cache is used, and never one that was retired.            *)
OnePath ==
    daemonUp =>
      /\ \A r \in book.rows : r.path \notin book.retired
      /\ \A r, s \in book.rows : ~InConflict(r) => r.path = s.path

(* One registration answers for each repository, under all its names, and    *)
(* for no other repository.                                                  *)
OneAnswer ==
    daemonUp =>
      /\ \A r, s \in book.rows : r.id = s.id => r = s
      /\ \A r, s \in book.rows : r.enabled /\ s.enabled /\ RepoOf(r.repo) = RepoOf(s.repo) => r = s
      /\ \A n \in DOMAIN book.redirects :
            \E r \in book.rows : /\ r.id = book.redirects[n]
                                  /\ n \in Labels /\ ~InConflict(r) => RepoOf(n) = RepoOf(r.repo)

(* A conflict is resolved once, and by nobody while the cache is written.    *)
SettledOnce ==
    /\ commits = Cardinality(resolutions)
    /\ \A s, t \in resolutions : s.id = t.id /\ s.gen = t.gen /\ s.cands = t.cands => s = t
    /\ ~(cacheWriter /\ WritersFenced)

\* What a conflict is resolved to stands: one authority per repository and per
\* cache, chosen once, whatever fails or restarts in between.
AuthorityIsSelected == OnePath /\ OneAnswer /\ SettledOnce
=============================================================================
