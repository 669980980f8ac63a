----------------------------- MODULE SetupPlan -----------------------------
(* Enabling maintenance: an operator reads a plan of what the machine       *)
(* needs, and applies it later.  Apply plans again, refuses a plan that is  *)
(* no longer what was reviewed, and then installs and starts the service,   *)
(* starts the embedding provider, downloads the model, and enrols the cache *)
(* under the configuration that was planned.                                *)
EXTENDS Naturals, FiniteSets

CONSTANTS
  Appliers,     \* those who plan and apply: a terminal, an MCP client
  MaxMoves,       \* changes of the machine by others
  MaxReviews,     \* plans read
  MovesMidApply,  \* the machine changes between Apply's own plan and its setup
  NoReview        \* no plan read yet

ASSUME SetupBounds == {MaxMoves, MaxReviews} \subseteq Nat /\ MovesMidApply \in BOOLEAN

VARIABLES
  machine,        \* the service, the embedding provider, its model, the configuration
  wish,           \* MaintenanceSetupRequest of each operator
  reviewed,       \* the plan each has read (PlanID)
  planned,        \* the plan its Apply computed
  stage,          \* where its Apply stands
  did,            \* the machine changes its Apply has made
  verdict,        \* what it was told
  enrolled,       \* configurations the daemon holds registrations under
  moves           \* changes of the machine and plans read so far

applyVars == <<wish, reviewed, planned, stage, did, verdict>>
setupVars == <<machine, applyVars, enrolled, moves>>

\* A daemon of an older build has no maintenance protocol.
Machines == [svc : {"absent", "stopped", "running"}, speaks : BOOLEAN,
             prov : {"missing", "stopped", "live"}, model : BOOLEAN, cfg : {1, 2}]
\* AllowMachineChange, and the same with NoServiceInstall.
Wishes == [rag : BOOLEAN, may : {"nothing", "start", "all"}, noDownload : BOOLEAN, confirmed : BOOLEAN]

\* MaintenancePlan, whose hash is the plan id: a model is seen only on a
\* provider that runs (rag.Setup with DryRun), and nothing of the provider
\* when retrieval is off.
PlanOf(w) ==
    [svc |-> machine.svc, speaks |-> machine.svc = "running" /\ machine.speaks, cfg |-> machine.cfg, rag |-> w.rag,
     prov |-> IF w.rag THEN machine.prov ELSE "missing",
     model |-> w.rag /\ machine.prov = "live" /\ machine.model, noDownload |-> w.noDownload, install |-> w.may # "start"]

\* The actions of a plan that change the machine (local_service_change and
\* large_download), and whether something stands in its way.
Changes(p) ==
    (IF p.svc = "absent" THEN {"install-service"} ELSE {})
    \union (IF p.svc # "running" THEN {"start-service"} ELSE {})
    \union (IF p.rag /\ p.prov = "stopped" THEN {"start-provider"} ELSE {})
    \union (IF p.rag /\ (p.prov = "stopped" \/ (p.prov = "live" /\ ~p.model)) THEN {"download-model"} ELSE {})
Blocked(p) ==
    \/ p.svc = "running" /\ ~p.speaks
    \/ p.svc = "absent" /\ ~p.install
    \/ p.rag /\ p.prov = "missing"
    \/ p.noDownload /\ "download-model" \in Changes(p)

SetupInit ==
    /\ machine \in {m \in Machines : m.cfg = 1 /\ m.speaks}
    /\ wish \in [Appliers -> {w \in Wishes : w.noDownload => w.rag}]
    /\ reviewed = [o \in Appliers |-> NoReview]
    /\ planned = [o \in Appliers |-> NoReview]
    /\ stage = [o \in Appliers |-> "idle"]
    /\ did = [o \in Appliers |-> {}]
    /\ verdict = [o \in Appliers |-> "none"]
    /\ enrolled = {}
    /\ moves = [machine |-> 0, reviews |-> 0]

-----------------------------------------------------------------------------
Goes(o, s) == stage' = [stage EXCEPT ![o] = s]
Ends(o, answer) == Goes(o, "idle") /\ verdict' = [verdict EXCEPT ![o] = answer]
Does(o, change) == did' = [did EXCEPT ![o] = @ \union {change}]

\* MaintenanceSetup.Plan, for a person or a client to read.
Review(o) ==
    /\ stage[o] = "idle" /\ verdict[o] \in {"none", "stale_plan"} /\ moves.reviews < MaxReviews
    /\ reviewed' = [reviewed EXCEPT ![o] = PlanOf(wish[o])]
    /\ moves' = [moves EXCEPT !.reviews = @ + 1]
    /\ UNCHANGED <<machine, wish, planned, stage, did, verdict, enrolled>>

\* A mutant: the plan id is not compared.
GateUnreviewed(o, p) ==
    IF Blocked(p) THEN "blocked"
    ELSE IF ~wish[o].confirmed THEN "confirmation_required"
    ELSE IF Changes(p) # {} /\ wish[o].may = "nothing" THEN "confirmation_required"
    ELSE "open"

\* The gates of Apply: the plan is the one that was read, nothing blocks it,
\* it is confirmed, and a caller that may not change the machine needs none.
Gate(o, p) ==
    IF p # reviewed[o] THEN "stale_plan"
    ELSE IF Blocked(p) THEN "blocked"
    ELSE IF ~wish[o].confirmed THEN "confirmation_required"
    ELSE IF Changes(p) # {} /\ wish[o].may = "nothing" THEN "confirmation_required"
    ELSE "open"

\* Both callers, the command and the MCP tool, name the plan they read.
BeginApply(o) ==
    /\ stage[o] = "idle" /\ reviewed[o] # NoReview /\ verdict[o] \in {"none", "stale_plan"}
    /\ LET p == PlanOf(wish[o]) IN
         /\ planned' = [planned EXCEPT ![o] = p]
         /\ IF Gate(o, p) = "open" THEN Goes(o, "install") /\ UNCHANGED verdict
            ELSE Ends(o, Gate(o, p))
    /\ UNCHANGED <<machine, wish, reviewed, did, enrolled, moves>>

\* Manager.Install(false) refuses a target that is already there.
InstallService(o) ==
    /\ stage[o] = "install"
    /\ \/ /\ "install-service" \notin Changes(planned[o])
          /\ Goes(o, "start") /\ UNCHANGED <<machine, did, verdict>>
       \/ /\ "install-service" \in Changes(planned[o]) /\ machine.svc = "absent"
          /\ machine' = [machine EXCEPT !.svc = "stopped"]
          /\ Does(o, "install-service") /\ Goes(o, "start") /\ UNCHANGED verdict
       \/ /\ "install-service" \in Changes(planned[o]) /\ machine.svc # "absent"
          /\ Ends(o, "error") /\ UNCHANGED <<machine, did>>
    /\ UNCHANGED <<wish, reviewed, planned, enrolled, moves>>

\* Manager.Start: starting what runs or is not installed changes nothing.
StartService(o) ==
    /\ stage[o] = "start"
    /\ IF "start-service" \in Changes(planned[o]) /\ machine.svc = "stopped"
       THEN machine' = [machine EXCEPT !.svc = "running", !.speaks = TRUE] /\ Does(o, "start-service")
       ELSE UNCHANGED <<machine, did>>
    /\ Goes(o, "await")
    /\ UNCHANGED <<wish, reviewed, planned, verdict, enrolled, moves>>

\* waitForMaintenanceDaemon: until the protocol answers or the deadline passes.
AwaitDaemon(o) ==
    /\ stage[o] = "await"
    /\ \/ machine.svc = "running" /\ machine.speaks /\ Goes(o, IF planned[o].rag THEN "provider" ELSE "resolve") /\ UNCHANGED verdict
       \/ ~(machine.svc = "running" /\ machine.speaks) /\ Ends(o, "error")
    /\ UNCHANGED <<machine, wish, reviewed, planned, did, enrolled, moves>>

\* rag.Setup: start a provider that does not answer, list its models, pull one
\* that is missing when downloads are allowed, and send a smoke request.
SetupProvider(o) ==
    /\ stage[o] = "provider"
    /\ \/ machine.prov = "missing" /\ Ends(o, "blocked") /\ UNCHANGED <<machine, did>>
       \/ /\ machine.prov = "stopped"
          /\ \/ /\ machine' = [machine EXCEPT !.prov = "live"]
                /\ Does(o, "start-provider") /\ Goes(o, "model") /\ UNCHANGED verdict
             \/ Ends(o, "blocked") /\ UNCHANGED <<machine, did>>
       \/ machine.prov = "live" /\ Goes(o, "model") /\ UNCHANGED <<machine, did, verdict>>
    /\ UNCHANGED <<wish, reviewed, planned, enrolled, moves>>

SetupModel(o) ==
    /\ stage[o] = "model"
    /\ \/ machine.prov = "live" /\ machine.model /\ Goes(o, "resolve") /\ UNCHANGED <<machine, did, verdict>>
       \/ /\ machine.prov = "live" /\ ~machine.model /\ ~wish[o].noDownload
          /\ Does(o, "download-model")
          /\ \/ machine' = [machine EXCEPT !.model = TRUE] /\ Goes(o, "resolve") /\ UNCHANGED verdict
             \/ UNCHANGED machine /\ Ends(o, "blocked")         \* model_pull_failed
       \/ ~(machine.prov = "live" /\ machine.model) /\ (machine.prov # "live" \/ wish[o].noDownload)
          /\ Ends(o, "blocked") /\ UNCHANGED <<machine, did>>
    /\ UNCHANGED <<wish, reviewed, planned, enrolled, moves>>

\* Maintenance.ResolveConfig answers the hash of the configuration this
\* process sends; Maintenance.Enroll stores the snapshot under it, and the
\* reconciliation that follows starts the first jobs.
Enrol(o) ==
    /\ stage[o] = "resolve"
    /\ \/ /\ machine.svc = "running" /\ machine.speaks
          /\ enrolled' = enrolled \union {planned[o].cfg}
          /\ \E answer \in {"enabled", "error"} : Ends(o, answer)
       \/ Ends(o, "error") /\ UNCHANGED enrolled
    /\ UNCHANGED <<machine, wish, reviewed, planned, did, moves>>

\* The command is interrupted.
Interrupt(o) ==
    /\ stage[o] # "idle" /\ Ends(o, "error")
    /\ UNCHANGED <<machine, wish, reviewed, planned, did, enrolled, moves>>

\* Others stop or remove the service or the provider, delete the model,
\* install what was missing, upgrade the binary or edit the configuration.
MachineMoves ==
    /\ moves.machine < MaxMoves
    /\ MovesMidApply \/ \A o \in Appliers : stage[o] = "idle"
    /\ machine' \in {m \in Machines : Cardinality({f \in DOMAIN m : m[f] # machine[f]}) = 1}
    /\ moves' = [moves EXCEPT !.machine = @ + 1]
    /\ UNCHANGED <<applyVars, enrolled>>

SetupNext ==
    \/ \E o \in Appliers :
         \/ Review(o) \/ BeginApply(o) \/ InstallService(o) \/ StartService(o) \/ AwaitDaemon(o)
         \/ SetupProvider(o) \/ SetupModel(o) \/ Enrol(o) \/ Interrupt(o)
    \/ MachineMoves

SetupSpec == SetupInit /\ [][SetupNext]_setupVars

-----------------------------------------------------------------------------
Effects == {"install-service", "start-service", "start-provider", "download-model"}
SetupTypeOK ==
    /\ machine \in Machines /\ wish \in [Appliers -> Wishes]
    /\ stage \in [Appliers -> {"idle", "install", "start", "await", "provider", "model", "resolve"}]
    /\ did \in [Appliers -> SUBSET Effects] /\ enrolled \subseteq {1, 2}
    /\ verdict \in [Appliers -> {"none", "stale_plan", "blocked", "confirmation_required", "error", "enabled"}]

\* cache-maintenance.md: what an Apply changes is in the plan that was read,
\* and only a confirmed caller that may change the machine changes it at all,
\* however the machine moved between the reading and the Apply and whatever
\* another Apply does beside it; what is enrolled is the configuration read.
ConsentIsKept ==
    \A o \in Appliers :
      /\ did[o] # {} => did[o] \subseteq Changes(reviewed[o]) /\ wish[o].confirmed /\ wish[o].may # "nothing"
      /\ "download-model" \in did[o] => ~wish[o].noDownload
      /\ "install-service" \in did[o] => wish[o].may = "all"
      /\ verdict[o] = "enabled" => wish[o].confirmed /\ reviewed[o].cfg \in enrolled
=============================================================================
