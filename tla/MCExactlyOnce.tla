---------------------------- MODULE MCExactlyOnce ----------------------------
(* The places where a retried call must take effect once, side by side:    *)
(* admin actions and the job history, the local Git store, and writes to   *)
(* the provider.  They share no state: a behaviour is one of theirs, and   *)
(* the others stay in their initial states.                                *)
EXTENDS JobHistory, LocalGit, RemoteWrite, TLC

VARIABLE part

Others(p) ==
    /\ UNCHANGED part
    /\ IF p = "actions" THEN TRUE ELSE UNCHANGED historyVars
    /\ IF p = "git" THEN TRUE ELSE UNCHANGED gitVars
    /\ IF p = "remote" THEN TRUE ELSE UNCHANGED writeVars

OnceInit ==
    /\ part \in {"actions", "git", "remote"}
    /\ HistoryInit /\ GitInit /\ WriteInit
    /\ part # "remote" => command = "plain"

OnceNext ==
    \/ part = "actions" /\ HistoryNext /\ Others("actions")
    \/ part = "git" /\ GitNext /\ Others("git")
    \/ part = "remote" /\ WriteNext /\ Others("remote")

OnceSpec == OnceInit /\ [][OnceNext]_<<part, historyVars, gitVars, writeVars>>

\* Keys and callers, registrations and payloads, and bodies are each
\* interchangeable; the components use the same values for their sets, so that
\* one group of permutations serves them all.
ASSUME SharedValues ==
    Keys = Callers /\ Callers = Writers /\ Regs = GitKeys /\ GitKeys = Payloads

OnceSymmetry ==
    Permutations(Keys) \union Permutations(Regs) \union Permutations(Bodies)

\* The types of the components.
OnceTypeOK == HistoryTypeOK /\ GitTypeOK /\ WriteTypeOK
=============================================================================
