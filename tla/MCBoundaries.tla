---------------------------- MODULE MCBoundaries ----------------------------
(* The places where the service lets something in or answers for it, side  *)
(* by side: the lane admits jobs, the index of documentation admits        *)
(* vectors and revisions, the HTTP client answers for writes, and the      *)
(* setup changes the machine under a reviewed plan.  A behaviour is one of *)
(* one component; the others stay in one initial state.                    *)
EXTENDS MCWriterLane, DocsIndex, ProviderWrites, SetupPlan

VARIABLE part

Parts == {"lane", "index", "client", "setup"}

Others(p) ==
    /\ UNCHANGED part
    /\ IF p = "lane" THEN TRUE ELSE UNCHANGED vars
    /\ IF p = "index" THEN TRUE ELSE UNCHANGED docsVars
    /\ IF p = "client" THEN TRUE ELSE UNCHANGED clientVars
    /\ IF p = "setup" THEN TRUE ELSE UNCHANGED setupVars

BoundaryInit ==
    /\ part \in Parts
    /\ Init /\ DocsInit /\ ClientInit /\ SetupInit
    /\ part # "index" => docsMode = "local"
    /\ part # "client" => op = [c \in Doers |-> "wiki"]
    /\ part # "setup" => /\ machine.svc = "absent" /\ machine.prov = "missing" /\ ~machine.model
                         /\ \A o \in Appliers : wish[o] = [rag |-> FALSE, may |-> "nothing", noDownload |-> FALSE, confirmed |-> FALSE]

BoundaryNext ==
    \/ part = "lane" /\ Next /\ Others("lane")
    \/ part = "index" /\ DocsNext /\ Others("index")
    \/ part = "client" /\ ClientNext /\ Others("client")
    \/ part = "setup" /\ SetupNext /\ Others("setup")

BoundarySpec == BoundaryInit /\ [][BoundaryNext]_<<part, vars, docsVars, clientVars, setupVars>>

\* The types of the components that are checked nowhere else.
BoundaryTypeOK == DocsTypeOK /\ ClientTypeOK /\ SetupTypeOK
=============================================================================
