---------------------------- MODULE LocalHosting ----------------------------
(***************************************************************************)
(* Local projects of one machine: commands that make, restore and register *)
(* stores in the trusted configuration, the daemon that serves the         *)
(* registered ones, and clients that change a project through its private  *)
(* socket.  A store is a directory that becomes a project with the last    *)
(* step of its making; what a mutation does inside a store is LocalGit.    *)
(***************************************************************************)
EXTENDS Naturals, FiniteSets

CONSTANTS
  Selectors,   \* names of registrations
  Projects,    \* project ids
  Shelves,     \* storage refs: where a store may be
  Setups,      \* processes of project init, register and restore
  Guests,      \* clients of the daemon
  Tokens,      \* idempotency keys
  NoBinding, NoProject, NoSetup,
  MaxSetups,   \* commands
  MaxRequests, \* mutations that are asked for
  MaxAsked,    \* commands and mutations together
  MaxStarts,   \* starts of the daemon
  MaxSwaps,    \* stores replaced behind the daemon's back
  MaxMishaps   \* faults: those, and Git commands and file writes that fail

ASSUME HostingBounds ==
    /\ {MaxSetups, MaxRequests, MaxAsked, MaxStarts, MaxSwaps, MaxMishaps} \subseteq Nat
    /\ NoProject \notin Projects /\ NoSetup \notin Setups
    /\ NoBinding \notin [project : Projects, shelf : Shelves, readOnly : BOOLEAN]

VARIABLES
  shelf,      \* what is at each path
  config,     \* local_projects of the YAML
  configLock, \* owner of the lock file
  setup,      \* each command
  host,       \* the daemon and the bindings it started with
  guest,      \* each client
  ops,        \* requests the daemon works on
  landed,     \* ghost: mutations that were published
  heard,       \* ghost: what each request was answered
  tally        \* commands, requests, starts, swaps and mishaps so far

hostingVars == <<shelf, config, configLock, setup, host, guest, ops, landed, heard, tally>>

Bindings == [project : Projects, shelf : Shelves, readOnly : BOOLEAN]
NoOne == [at |-> "absent", project |-> NoProject, tokens |-> {}]
Done == [pc |-> "idle"]
Unbound == [x \in Selectors |-> NoBinding]
Bound(c) == {x \in Selectors : c[x] # NoBinding}

HostingInit ==
    /\ shelf = [r \in Shelves |-> NoOne] /\ config = Unbound /\ configLock = NoSetup
    /\ setup = [s \in Setups |-> Done]
    /\ host = [up |-> FALSE, bindings |-> Unbound]
    /\ guest = [g \in Guests |-> [waits |-> FALSE, n |-> 0]]
    /\ ops = {} /\ landed = {} /\ heard = {}
    /\ tally = [setups |-> 0, requests |-> 0, starts |-> 0, swaps |-> 0, mishaps |-> 0]

\* Commands and requests have a bound each and one together.
Room == tally.setups + tally.requests < MaxAsked
Use(k) == tally' = [tally EXCEPT ![k] = @ + 1]
Mishap == tally.mishaps + tally.swaps < MaxMishaps /\ Use("mishaps")

-----------------------------------------------------------------------------
(* Setup, registration and restoring.                                      *)

\* NewLocalProjects: every binding has a published store of its project, one
\* store for a project and one project for a store.
Valid(c) ==
    \A x \in Bound(c) :
        /\ shelf[c[x].shelf].at = "published" /\ shelf[c[x].shelf].project = c[x].project
        /\ \A y \in Bound(c) : (c[x].project = c[y].project) <=> (c[x].shelf = c[y].shelf)

\* restore looks at the configuration, without the lock, before it makes a
\* store, and wants no daemon.
MayRestore(x, b) ==
    /\ ~host.up
    /\ \A y \in Bound(config) : y # x /\ config[y].shelf # b.shelf /\ config[y].project # b.project

BeginSetup(s, kind, x, b) ==
    /\ setup[s] = Done /\ tally.setups < MaxSetups /\ Room /\ Use("setups")
    /\ kind = "restore" => MayRestore(x, b)
    /\ setup' = [setup EXCEPT ![s] = [pc |-> IF kind = "register" THEN "registering" ELSE "making",
                                      selector |-> x, binding |-> b]]
    /\ UNCHANGED <<shelf, config, configLock, host, guest, ops, landed, heard>>

Ends(s) == setup' = [setup EXCEPT ![s] = Done]
Goes(s, pc) == setup' = [setup EXCEPT ![s].pc = pc]

\* os.Mkdir: an existing destination is never adopted.
MakeStore(s) ==
    /\ setup[s].pc = "making"
    /\ LET r == setup[s].binding.shelf IN
         IF shelf[r].at # "absent" THEN Ends(s) /\ UNCHANGED shelf
         ELSE Goes(s, "building") /\ shelf' = [shelf EXCEPT ![r].at = "made"]
    /\ UNCHANGED <<config, configLock, host, guest, ops, landed, heard, tally>>

\* A Git command or a validation of the bundle fails before the ref: the
\* directory is removed again.
AbandonStore(s) ==
    /\ setup[s].pc = "building" /\ Mishap
    /\ shelf' = [shelf EXCEPT ![setup[s].binding.shelf] = NoOne]
    /\ Ends(s)
    /\ UNCHANGED <<config, configLock, host, guest, ops, landed, heard>>

Published(p) == [at |-> "published", project |-> p, tokens |-> {}]
\* update-ref comes last; when it reports a failure, the ref may be there, and
\* the directory stays in any case.
PublishStore(s) ==
    /\ setup[s].pc = "building"
    /\ LET b == setup[s].binding IN
         \/ shelf' = [shelf EXCEPT ![b.shelf] = Published(b.project)] /\ Goes(s, "registering") /\ UNCHANGED tally
         \/ shelf' \in {shelf, [shelf EXCEPT ![b.shelf] = Published(b.project)]} /\ Ends(s) /\ Mishap
    /\ UNCHANGED <<config, configLock, host, guest, ops, landed, heard>>

\* RegisterLocalProject takes the lock or fails, reads the file, refuses
\* another binding of the selector, and validates the complete candidate.
WithBinding(s) == [config EXCEPT ![setup[s].selector] = setup[s].binding]
LockConfig(s) ==
    /\ setup[s].pc = "registering"
    /\ IF /\ configLock = NoSetup
          /\ config[setup[s].selector] \in {NoBinding, setup[s].binding}
          /\ Valid(WithBinding(s))
       THEN configLock' = s
            /\ setup' = [setup EXCEPT ![s] = [pc |-> "writing", candidate |-> WithBinding(s)]]
       ELSE Ends(s) /\ UNCHANGED configLock
    /\ UNCHANGED <<shelf, config, host, guest, ops, landed, heard, tally>>

\* The file is replaced; a failure after the rename is reported as one before.
WriteConfig(s) ==
    /\ setup[s].pc = "writing"
    /\ \/ config' = setup[s].candidate /\ UNCHANGED tally
       \/ config' \in {config, setup[s].candidate} /\ Mishap
    /\ configLock' = NoSetup /\ Ends(s)
    /\ UNCHANGED <<shelf, host, guest, ops, landed, heard>>

\* A killed command leaves its directory; the kernel releases its lock.
KillSetup(s) ==
    /\ setup[s] # Done /\ Mishap
    /\ Ends(s) /\ configLock' = (IF configLock = s THEN NoSetup ELSE configLock)
    /\ UNCHANGED <<shelf, config, host, guest, ops, landed, heard>>

-----------------------------------------------------------------------------
(* The daemon.                                                             *)

\* Bindings are read and validated once.
StartHost ==
    /\ ~host.up /\ tally.starts < MaxStarts /\ Use("starts")
    /\ Bound(config) # {} /\ Valid(config)
    /\ host' = [up |-> TRUE, bindings |-> config]
    /\ UNCHANGED <<shelf, config, configLock, setup, guest, ops, landed, heard>>

\* It stops, or is killed: its handlers are cancelled and joined, or gone.
StopHost ==
    /\ host.up
    /\ host' = [up |-> FALSE, bindings |-> Unbound] /\ ops' = {}
    /\ UNCHANGED <<shelf, config, configLock, setup, guest, landed, heard, tally>>

\* Somebody puts another project's store at a path while the daemon serves it.
SwapStore(r, p) ==
    /\ tally.mishaps + tally.swaps < MaxMishaps /\ tally.swaps < MaxSwaps /\ Use("swaps")
    /\ host.up /\ shelf[r].at = "published" /\ shelf[r].project # p
    /\ shelf' = [shelf EXCEPT ![r] = Published(p)]
    /\ UNCHANGED <<config, configLock, setup, host, guest, ops, landed, heard>>

-----------------------------------------------------------------------------
(* Clients and their requests.                                             *)

Ambiguous == "publication_ambiguous"
Refusals == {"unavailable", "unknown_project", "read_only", "invalid_configuration", "write_conflict"}

Tell(g, code) ==
    /\ heard' = heard \union {[n |-> guest[g].n, key |-> guest[g].key, code |-> code]}
    /\ guest' = [guest EXCEPT ![g] = [waits |-> FALSE, n |-> guest[g].n]]

\* Without a daemon the dial fails and nothing was sent.
Request(g, x, k) ==
    /\ ~guest[g].waits /\ tally.requests < MaxRequests /\ Room /\ Use("requests")
    /\ LET n == tally.requests + 1 IN
         IF host.up
         THEN /\ guest' = [guest EXCEPT ![g] = [waits |-> TRUE, n |-> n, key |-> k]]
              /\ ops' = ops \union {[n |-> n, selector |-> x, key |-> k, at |-> "received", code |-> "none"]}
              /\ UNCHANGED heard
         ELSE /\ heard' = heard \union {[n |-> n, key |-> k, code |-> "unavailable"]}
              /\ UNCHANGED <<guest, ops>>
    /\ UNCHANGED <<shelf, config, configLock, setup, host, landed>>

Step(o, at, code) == ops' = (ops \ {o}) \union {[o EXCEPT !.at = at, !.code = code]}

Admits(o) ==
    LET b == host.bindings[o.selector] IN
    CASE b = NoBinding -> "unknown_project"
      [] b # NoBinding /\ b.readOnly -> "read_only"
      [] b # NoBinding /\ ~b.readOnly /\ shelf[b.shelf].project # b.project -> "invalid_configuration"
      [] OTHER -> "none"
\* LocalProjects.Mutate up to the call into the store.
Admit(o) ==
    /\ o.at = "received"
    /\ Step(o, IF Admits(o) = "none" THEN "admitted" ELSE "finished", Admits(o))
    /\ UNCHANGED <<shelf, config, configLock, setup, host, guest, landed, heard, tally>>

\* Mutant: the store is not asked again which project it holds.
ExecuteUnchecked(o) ==
    LET b == host.bindings[o.selector] IN
    /\ o.at = "admitted"
    /\ shelf' = [shelf EXCEPT ![b.shelf].tokens = @ \union {o.key}]
    /\ landed' = landed \union {[n |-> o.n, key |-> o.key, shelf |-> b.shelf, project |-> shelf[b.shelf].project, meant |-> b.project]}
    /\ Step(o, "finished", "ok")
    /\ UNCHANGED <<config, configLock, setup, host, guest, heard, tally>>
\* MutateProject under the writer lock: the project is checked again, a known
\* key is answered from its receipt, and the answer of a publication may be
\* lost, or the request cancelled first.
Execute(o) ==
    LET b == host.bindings[o.selector]
        s == shelf[b.shelf]
        publish == /\ shelf' = [shelf EXCEPT ![b.shelf].tokens = @ \union {o.key}]
                   /\ landed' = landed \union {[n |-> o.n, key |-> o.key, shelf |-> b.shelf, project |-> s.project, meant |-> b.project]}
    IN
    /\ o.at = "admitted"
    /\ IF s.project # b.project
       THEN Step(o, "finished", "invalid_configuration") /\ UNCHANGED <<shelf, landed>>
       ELSE IF o.key \in s.tokens
       THEN Step(o, "finished", "ok") /\ UNCHANGED <<shelf, landed>>
       ELSE \/ \E code \in {"ok", Ambiguous} : Step(o, "finished", code) /\ publish
            \/ \E code \in {"write_conflict", "cancelled", Ambiguous} : Step(o, "finished", code) /\ UNCHANGED <<shelf, landed>>
    /\ UNCHANGED <<config, configLock, setup, host, guest, heard, tally>>

\* callLocalProject: an error without a code of the store is not an answer.
Understood(code) == IF code = "cancelled" THEN Ambiguous ELSE code
Reply(o) ==
    /\ o.at = "finished" /\ ops' = ops \ {o}
    /\ IF \E g \in Guests : guest[g].waits /\ guest[g].n = o.n
       THEN \E g \in Guests : guest[g].n = o.n /\ guest[g].waits /\ Tell(g, Understood(o.code))
       ELSE UNCHANGED <<guest, heard>>
    /\ UNCHANGED <<shelf, config, configLock, setup, host, landed, tally>>

\* Mutant: a broken connection is reported as an unavailable service.
LoseAsUnavailable(g) ==
    /\ guest[g].waits /\ Tell(g, "unavailable")
    /\ UNCHANGED <<shelf, config, configLock, setup, host, ops, landed, tally>>
\* The ten seconds are over, the caller cancels, the connection breaks or the
\* response is cut, foreign or too long; the daemon may still be at work.
LoseAnswer(g) ==
    /\ guest[g].waits /\ Tell(g, Ambiguous)
    /\ UNCHANGED <<shelf, config, configLock, setup, host, ops, landed, tally>>

-----------------------------------------------------------------------------
SetupStep(s) ==
    \/ \E k \in {"init", "register", "restore"}, x \in Selectors, b \in Bindings : BeginSetup(s, k, x, b)
    \/ MakeStore(s) \/ AbandonStore(s) \/ PublishStore(s) \/ LockConfig(s) \/ WriteConfig(s) \/ KillSetup(s)

HostingNext ==
    \/ \E s \in Setups : SetupStep(s)
    \/ StartHost \/ StopHost \/ \E r \in Shelves, p \in Projects : SwapStore(r, p)
    \/ \E g \in Guests : LoseAnswer(g) \/ \E x \in Selectors, k \in Tokens : Request(g, x, k)
    \/ \E o \in ops : Admit(o) \/ Execute(o) \/ Reply(o)

HostingSpec == HostingInit /\ [][HostingNext]_hostingVars

HostingTypeOK ==
    /\ \A r \in Shelves : shelf[r].at \in {"absent", "made", "published"} /\ shelf[r].tokens \subseteq Tokens
    /\ \A x \in Selectors : config[x] \in Bindings \union {NoBinding}
    /\ configLock \in Setups \union {NoSetup} /\ \A t \in heard : t.code \in Refusals \union {Ambiguous, "ok"}

-----------------------------------------------------------------------------
\* The configuration never names two stores for a project or two projects for
\* a store, and every store it names is there, whatever commands ran at once.
RegistrationsStand ==
    \A x \in Bound(config) :
        /\ shelf[config[x].shelf].at = "published"
        /\ tally.swaps = 0 => shelf[config[x].shelf].project = config[x].project
        /\ \A y \in Bound(config) : (config[x].project = config[y].project) <=> (config[x].shelf = config[y].shelf)

\* A request that was refused in so many words has no effect, then or later;
\* one that was confirmed has its effect in the store.
AnswersAreDefinite ==
    \A t \in heard :
        /\ t.code \in Refusals => \A l \in landed : l.n # t.n
        /\ t.code = "ok" => \E l \in landed : l.key = t.key

\* A mutation lands only in the project its selector was registered for, and a
\* key lands once in a store.
LandsWhereMeant ==
    /\ \A l \in landed : l.project = l.meant
    /\ tally.swaps = 0 => \A l, m \in landed : l.shelf = m.shelf /\ l.key = m.key => l.n = m.n

\* local-git-project-format.md: setup never overwrites or adopts, and a client
\* knows from the answer whether a new key is safe.
HostingIsSafe == RegistrationsStand /\ AnswersAreDefinite /\ LandsWhereMeant
=============================================================================
