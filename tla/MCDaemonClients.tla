--------------------------- MODULE MCDaemonClients ---------------------------
(* What the daemon owes to those who ask it for something: cancellations   *)
(* of documentation jobs, changes of the local projects it hosts, and the  *)
(* ledger of observations that clients follow.  They share no state: a     *)
(* behaviour is one of theirs.                                             *)
EXTENDS MCDocsCancellation, LocalHosting, ObservationLog

VARIABLE part

Others(p) ==
    /\ UNCHANGED part
    /\ IF p = "docs" THEN TRUE ELSE UNCHANGED vars
    /\ IF p = "hosting" THEN TRUE ELSE UNCHANGED hostingVars
    /\ IF p = "ledger" THEN TRUE ELSE UNCHANGED logVars

ClientsInit ==
    /\ part \in {"docs", "hosting", "ledger"}
    /\ Init /\ HostingInit /\ LogInit

ClientsNext ==
    \/ part = "docs" /\ Next /\ Others("docs")
    \/ part = "hosting" /\ HostingNext /\ Others("hosting")
    \/ part = "ledger" /\ LogNext /\ Others("ledger")

ClientsSpec == ClientsInit /\ [][ClientsNext]_<<part, vars, hostingVars, logVars>>

\* Liveness of the cancellations: the other two stay in their initial state.
DocsOnly == ClientsInit /\ part = "docs"
ClientsFairSpec == DocsOnly /\ [][ClientsNext]_<<part, vars, hostingVars, logVars>> /\ Fairness

\* Cancel calls, setup commands and clients are interchangeable, and take the
\* same values; so do stores, projects and selectors, taken together.
ASSUME SharedValues ==
    Callers = Setups /\ Callers = Guests /\ Projects = Shelves /\ Projects = Selectors
ClientSymmetry == ActorSymmetry \union Permutations(Shelves)
=============================================================================
