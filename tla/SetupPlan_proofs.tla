--------------------------- MODULE SetupPlan_proofs ---------------------------
(***************************************************************************)
(* That Apply keeps to the consent it was given, for any callers and any   *)
(* number of plans and changes of the machine.  The gate compares plans    *)
(* once; what makes the comparison good for the whole Apply is that the    *)
(* machine only comes closer to the plan while an Apply runs: whoever else *)
(* applies beside it installs, starts and downloads, and never removes.    *)
(* Then: that the HTTP client tells the truth of its writes; and that the  *)
(* index of documentation is exactly what it was made of.                  *)
(***************************************************************************)
EXTENDS SetupPlan, ProviderWrites, DocsIndex, FiniteSetTheorems, WellFoundedInduction, TLAPS

Plans == [svc : {"absent", "stopped", "running"}, speaks : BOOLEAN, cfg : {1, 2}, rag : BOOLEAN,
          prov : {"missing", "stopped", "live"}, model : BOOLEAN, noDownload : BOOLEAN, install : BOOLEAN]

PlansTyped ==
    /\ reviewed \in [Appliers -> Plans \union {NoReview}]
    /\ planned \in [Appliers -> Plans \union {NoReview}]

\* A running Apply holds an open plan: the one that was read.
Consented(o) ==
    /\ reviewed[o] # NoReview /\ planned[o] = reviewed[o]
    /\ planned[o].rag = wish[o].rag /\ planned[o].noDownload = wish[o].noDownload
    /\ planned[o].install = (wish[o].may # "start")
    /\ ~Blocked(planned[o]) /\ wish[o].confirmed
    /\ Changes(planned[o]) # {} => wish[o].may # "nothing"

\* While it runs, what the plan found of the provider is still there.
MachineKeepsUp(o) ==
    planned[o].rag => /\ planned[o].prov # "missing"
                      /\ planned[o].prov = "live" => machine.prov = "live"
                      /\ planned[o].model => machine.model

ApplyIsOpen ==
    \A o \in Appliers : stage[o] # "idle" =>
      /\ Consented(o) /\ MachineKeepsUp(o)
      /\ stage[o] \in {"provider", "model"} => planned[o].rag

\* Who may still read another plan has changed nothing.
FreshChangedNothing ==
    \A o \in Appliers : stage[o] = "idle" /\ verdict[o] \in {"none", "stale_plan"} => did[o] = {}

\* No answer is given before the Apply has come to its end.
AnsweredAtTheEnd == \A o \in Appliers : stage[o] # "idle" => verdict[o] \in {"none", "stale_plan"}

SetupInv == SetupTypeOK /\ PlansTyped /\ ApplyIsOpen /\ FreshChangedNothing /\ AnsweredAtTheEnd /\ ConsentIsKept

-----------------------------------------------------------------------------
\* PlanOf describes the machine of the moment in the shape of a plan, and the
\* wishes it was made for.
LEMMA PlanTyped ==
  ASSUME machine \in Machines, NEW w \in Wishes
  PROVE  /\ PlanOf(w) \in Plans
         /\ PlanOf(w).rag = w.rag /\ PlanOf(w).noDownload = w.noDownload
         /\ PlanOf(w).install = (w.may # "start")
         /\ PlanOf(w).rag => PlanOf(w).prov = machine.prov
         /\ PlanOf(w).model => machine.model
BY DEF PlanOf, Plans, Machines, Wishes

\* A machine that moves forward: nothing the provider had is lost.
Forward ==
    /\ machine' \in Machines
    /\ machine.prov = "live" => machine'.prov = "live"
    /\ machine.model => machine'.model

\* Only the Apply of o moves, and what it was given stays.
OnlyOf(o) ==
    /\ UNCHANGED <<wish, reviewed, planned>>
    /\ \A q \in Appliers \ {o} : stage'[q] = stage[q] /\ did'[q] = did[q] /\ verdict'[q] = verdict[q]
    /\ enrolled \subseteq enrolled'

\* What one Apply does keeps the invariant when the machine moves forward, and
\* its own stage, changes and answer stay consistent.
LEMMA ApplyStep ==
  ASSUME SetupInv, SetupTypeOK', Forward, NEW o \in Appliers, OnlyOf(o), stage[o] # "idle",
         stage'[o] \in {"provider", "model"} => planned[o].rag,
         \A c \in did'[o] : c \in did[o] \/
            /\ c \in Changes(planned[o])
            /\ c = "download-model" => ~wish[o].noDownload,
         stage'[o] = "idle" => verdict'[o] \in {"blocked", "error", "enabled"},
         stage'[o] # "idle" => verdict'[o] = verdict[o],
         verdict'[o] = "enabled" => planned[o].cfg \in enrolled'
  PROVE  SetupInv'
<1>1. Consented(o) /\ MachineKeepsUp(o)
  BY DEF SetupInv, ApplyIsOpen
<1>2. PlansTyped'
  BY DEF SetupInv, PlansTyped, OnlyOf
<1>3. ASSUME NEW q \in Appliers, stage'[q] # "idle"
      PROVE  Consented(q)' /\ MachineKeepsUp(q)' /\ (stage'[q] \in {"provider", "model"} => planned'[q].rag)
  <2>1. stage[q] # "idle"
    BY <1>3 DEF OnlyOf
  <2>2. Consented(q) /\ MachineKeepsUp(q)
    BY <2>1 DEF SetupInv, ApplyIsOpen
  <2>3. Consented(q)'
    BY <2>2 DEF Consented, OnlyOf, Blocked, Changes
  <2>4. MachineKeepsUp(q)'
    BY <2>2 DEF MachineKeepsUp, OnlyOf, Forward
  <2>5. stage'[q] \in {"provider", "model"} => planned'[q].rag
    BY <2>1 DEF OnlyOf, SetupInv, ApplyIsOpen
  <2> QED
    BY <2>3, <2>4, <2>5
<1>4. ApplyIsOpen'
  BY <1>3 DEF ApplyIsOpen
<1>5. FreshChangedNothing'
  BY DEF FreshChangedNothing, SetupInv, OnlyOf
<1>6. AnsweredAtTheEnd'
  BY DEF AnsweredAtTheEnd, SetupInv, OnlyOf
<1>7. did'[o] \subseteq Changes(reviewed[o])
  BY <1>1 DEF Consented, SetupInv, ConsentIsKept
<1>8. did'[o] # {} => wish[o].may # "nothing"
  BY <1>1 DEF Consented, SetupInv, ConsentIsKept
<1>9. "download-model" \in did'[o] => ~wish[o].noDownload
  BY DEF SetupInv, ConsentIsKept
<1>10. "install-service" \in did'[o] => wish[o].may = "all"
  <2>1. CASE "install-service" \in did[o]
    BY <2>1 DEF SetupInv, ConsentIsKept
  <2>2. ASSUME "install-service" \in Changes(planned[o])  PROVE wish[o].may = "all"
    BY <2>2, <1>1 DEF Changes, Blocked, Consented, SetupInv, SetupTypeOK, Wishes
  <2> QED
    BY <2>1, <2>2
<1>11. ConsentIsKept'
  <2> SUFFICES ASSUME NEW q \in Appliers
               PROVE  /\ did'[q] # {} => did'[q] \subseteq Changes(reviewed[q]) /\ wish[q].confirmed /\ wish[q].may # "nothing"
                      /\ "download-model" \in did'[q] => ~wish[q].noDownload
                      /\ "install-service" \in did'[q] => wish[q].may = "all"
                      /\ verdict'[q] = "enabled" => wish[q].confirmed /\ reviewed[q].cfg \in enrolled'
    BY DEF ConsentIsKept, OnlyOf, Changes
  <2>1. CASE q = o
    BY <1>1, <2>1, <1>7, <1>8, <1>9, <1>10 DEF Consented
  <2>2. CASE q # o
    BY <2>2 DEF OnlyOf, SetupInv, ConsentIsKept
  <2> QED
    BY <2>1, <2>2
<1> QED
  BY <1>2, <1>4, <1>5, <1>6, <1>11 DEF SetupInv

-----------------------------------------------------------------------------
\* The steps of an Apply, each an instance of ApplyStep.

LEMMA InstallKeeps ==
  ASSUME SetupInv, NEW o \in Appliers, InstallService(o)  PROVE SetupInv'
<1> USE DEF SetupInv, SetupTypeOK
<1>1. SetupTypeOK' /\ Forward
  BY DEF InstallService, Goes, Ends, Does, Machines, Forward, Effects
<1>2. OnlyOf(o)
  BY DEF InstallService, Goes, Ends, Does, OnlyOf
<1>3. stage'[o] \in {"start", "idle"} /\ stage[o] = "install"
  BY DEF InstallService, Goes, Ends
<1>4. \A c \in did'[o] : c \in did[o] \/ (c = "install-service" /\ c \in Changes(planned[o]))
  BY DEF InstallService, Does
<1>5. /\ stage'[o] = "idle" => verdict'[o] = "error"
      /\ stage'[o] # "idle" => verdict'[o] = verdict[o]
      /\ verdict'[o] # "enabled"
  BY DEF InstallService, Goes, Ends, AnsweredAtTheEnd
<1> QED
  BY <1>1, <1>2, <1>3, <1>4, <1>5, ApplyStep

(* Starting or restarting the service (enable.go, the service stage). *)
LEMMA StartKeeps ==
  ASSUME SetupInv, NEW o \in Appliers, StartService(o)  PROVE SetupInv'
<1> USE DEF SetupInv, SetupTypeOK
<1>1. SetupTypeOK' /\ Forward
  <2>1. machine' = machine \/ machine' = [machine EXCEPT !.svc = "running", !.speaks = TRUE]
    BY DEF StartService
  <2>2. machine' \in Machines /\ Forward
    BY <2>1 DEF Machines, Forward
  <2>3. did' \in [Appliers -> SUBSET Effects]
    BY DEF StartService, Does, Effects
  <2> QED
    BY <2>2, <2>3 DEF StartService, Goes
<1>2. OnlyOf(o)
  BY DEF StartService, Goes, Does, OnlyOf
<1>3. stage'[o] = "await" /\ stage[o] = "start"
  BY DEF StartService, Goes
<1>4. \A c \in did'[o] : c \in did[o] \/ (c = "start-service" /\ c \in Changes(planned[o]))
  BY DEF StartService, Does
<1>5. verdict'[o] = verdict[o] /\ verdict'[o] # "enabled"
  BY <1>3 DEF StartService, AnsweredAtTheEnd
<1> QED
  BY <1>1, <1>2, <1>3, <1>4, <1>5, ApplyStep

(* Waiting for the daemon changes no part of the machine. *)
LEMMA AwaitKeeps ==
  ASSUME SetupInv, NEW o \in Appliers, AwaitDaemon(o)  PROVE SetupInv'
<1> USE DEF SetupInv, SetupTypeOK
<1>1. SetupTypeOK' /\ Forward
  BY DEF AwaitDaemon, Goes, Ends, Machines, Forward
<1>2. OnlyOf(o)
  BY DEF AwaitDaemon, Goes, Ends, OnlyOf
<1>3. stage[o] = "await" /\ (stage'[o] \in {"idle", "resolve"} \/ (stage'[o] = "provider" /\ planned[o].rag))
  BY DEF AwaitDaemon, Goes, Ends
<1>4. /\ stage'[o] = "idle" => verdict'[o] = "error"
      /\ stage'[o] # "idle" => verdict'[o] = verdict[o]
      /\ verdict'[o] # "enabled" /\ did' = did
  BY DEF AwaitDaemon, Goes, Ends, AnsweredAtTheEnd
<1> QED
  BY <1>1, <1>2, <1>3, <1>4, ApplyStep

(* The provider stage starts the provider only when the plan showed it and it was allowed. *)
LEMMA ProviderKeeps ==
  ASSUME SetupInv, NEW o \in Appliers, SetupProvider(o)  PROVE SetupInv'
<1> USE DEF SetupInv, SetupTypeOK
<1>1. SetupTypeOK' /\ Forward
  BY DEF SetupProvider, Goes, Ends, Does, Machines, Forward, Effects
<1>2. OnlyOf(o)
  BY DEF SetupProvider, Goes, Ends, Does, OnlyOf
<1>3. stage[o] = "provider" /\ stage'[o] \in {"idle", "model"} /\ planned[o].rag
  BY DEF SetupProvider, Goes, Ends, ApplyIsOpen
<1>4. \A c \in did'[o] : c \in did[o] \/ (c = "start-provider" /\ machine.prov = "stopped")
  BY DEF SetupProvider, Does
<1>5. machine.prov = "stopped" => "start-provider" \in Changes(planned[o])
  BY <1>3 DEF ApplyIsOpen, Consented, PlansTyped, MachineKeepsUp, Plans, Changes
<1>6. /\ stage'[o] = "idle" => verdict'[o] = "blocked"
      /\ stage'[o] # "idle" => verdict'[o] = verdict[o]
      /\ verdict'[o] # "enabled"
  BY DEF SetupProvider, Goes, Ends, AnsweredAtTheEnd
<1> QED
  BY <1>1, <1>2, <1>3, <1>4, <1>5, <1>6, ApplyStep

(* The model stage downloads the model only when the plan showed it. *)
LEMMA ModelKeeps ==
  ASSUME SetupInv, NEW o \in Appliers, SetupModel(o)  PROVE SetupInv'
<1> USE DEF SetupInv, SetupTypeOK
<1>1. SetupTypeOK' /\ Forward
  <2>1. machine' = machine \/ machine' = [machine EXCEPT !.model = TRUE]
    BY DEF SetupModel
  <2>2. machine' \in Machines /\ Forward
    BY <2>1 DEF Machines, Forward
  <2>3. did' \in [Appliers -> SUBSET Effects]
    BY DEF SetupModel, Does, Effects
  <2>4. stage' \in [Appliers -> {"idle", "install", "start", "await", "provider", "model", "resolve"}]
    BY DEF SetupModel, Goes, Ends
  <2>5. verdict' \in [Appliers -> {"none", "stale_plan", "blocked", "confirmation_required", "error", "enabled"}]
    BY DEF SetupModel, Goes, Ends
  <2> QED
    BY <2>2, <2>3, <2>4, <2>5 DEF SetupModel
<1>2. OnlyOf(o)
  BY DEF SetupModel, Goes, Ends, Does, OnlyOf
<1>3. stage[o] = "model" /\ stage'[o] \in {"idle", "resolve"} /\ planned[o].rag
  BY DEF SetupModel, Goes, Ends, ApplyIsOpen
<1>4. \A c \in did'[o] : c \in did[o] \/
        (c = "download-model" /\ machine.prov = "live" /\ ~machine.model /\ ~wish[o].noDownload)
  BY DEF SetupModel, Does
<1>5. machine.prov = "live" /\ ~machine.model => "download-model" \in Changes(planned[o])
  BY <1>3 DEF ApplyIsOpen, Consented, PlansTyped, MachineKeepsUp, Plans, Changes
<1>6. /\ stage'[o] = "idle" => verdict'[o] = "blocked"
      /\ stage'[o] # "idle" => verdict'[o] = verdict[o]
      /\ verdict'[o] # "enabled"
  BY DEF SetupModel, Goes, Ends, AnsweredAtTheEnd
<1> QED
  BY <1>1, <1>2, <1>3, <1>4, <1>5, <1>6, ApplyStep

(* The last stage registers the profile under the plan that was read. *)
LEMMA EnrolKeeps ==
  ASSUME SetupInv, NEW o \in Appliers, Enrol(o)  PROVE SetupInv'
<1> USE DEF SetupInv, SetupTypeOK
<1>1. planned[o] \in Plans
  BY DEF Enrol, ApplyIsOpen, Consented, PlansTyped
<1>2. SetupTypeOK' /\ Forward
  <2>1. UNCHANGED <<machine, wish, did>>
    BY DEF Enrol
  <2>2. Forward
    BY <2>1 DEF Forward
  <2>3. stage' \in [Appliers -> {"idle", "install", "start", "await", "provider", "model", "resolve"}]
    BY DEF Enrol, Goes, Ends
  <2>4. verdict' \in [Appliers -> {"none", "stale_plan", "blocked", "confirmation_required", "error", "enabled"}]
    BY DEF Enrol, Goes, Ends
  <2>5. enrolled' \subseteq {1, 2}
    BY <1>1 DEF Plans, Enrol
  <2> QED
    BY <2>1, <2>2, <2>3, <2>4, <2>5
<1>3. OnlyOf(o)
  BY DEF Enrol, Goes, Ends, OnlyOf
<1>4. /\ stage[o] # "idle" /\ stage'[o] = "idle" /\ did' = did /\ verdict'[o] \in {"enabled", "error"}
      /\ verdict'[o] = "enabled" => planned[o].cfg \in enrolled'
  BY DEF Enrol, Goes, Ends
<1> QED
  BY <1>2, <1>3, <1>4, ApplyStep

(* A caller that goes away ends its Apply where it stands. *)
LEMMA InterruptKeeps ==
  ASSUME SetupInv, NEW o \in Appliers, Interrupt(o)  PROVE SetupInv'
<1> USE DEF SetupInv, SetupTypeOK
<1>1. SetupTypeOK' /\ Forward
  BY DEF Interrupt, Goes, Ends, Machines, Forward
<1>2. OnlyOf(o)
  BY DEF Interrupt, Goes, Ends, OnlyOf
<1>3. stage[o] # "idle" /\ stage'[o] = "idle" /\ did' = did /\ verdict'[o] = "error"
  BY DEF Interrupt, Goes, Ends
<1> QED
  BY <1>1, <1>2, <1>3, ApplyStep

-----------------------------------------------------------------------------
\* Reading a plan: only somebody who has changed nothing reads another one.
LEMMA ReviewKeeps ==
  ASSUME SetupInv, NEW o \in Appliers, Review(o)  PROVE SetupInv'
<1> USE DEF SetupInv, SetupTypeOK
<1>1. PlanOf(wish[o]) \in Plans
  BY PlanTyped
<1>2. SetupTypeOK' /\ PlansTyped'
  BY <1>1 DEF Review, PlansTyped
<1>3. /\ stage[o] = "idle" /\ verdict[o] # "enabled" /\ did[o] = {}
      /\ \A q \in Appliers \ {o} : reviewed'[q] = reviewed[q]
      /\ UNCHANGED <<machine, wish, planned, stage, did, verdict, enrolled>>
  BY DEF Review, PlansTyped, FreshChangedNothing
<1>4. ASSUME NEW q \in Appliers, stage'[q] # "idle"
      PROVE  Consented(q)' /\ MachineKeepsUp(q)' /\ (stage'[q] \in {"provider", "model"} => planned'[q].rag)
  BY <1>3, <1>4 DEF ApplyIsOpen, Consented, MachineKeepsUp, Blocked, Changes
<1>5. ApplyIsOpen' /\ FreshChangedNothing' /\ AnsweredAtTheEnd'
  BY <1>3, <1>4 DEF ApplyIsOpen, FreshChangedNothing, AnsweredAtTheEnd
<1>6. ConsentIsKept'
  BY <1>3 DEF ConsentIsKept, Changes
<1> QED
  BY <1>2, <1>5, <1>6

\* The gate lets in the plan that was read, and nothing else.
LEMMA BeginKeeps ==
  ASSUME SetupInv, NEW o \in Appliers, BeginApply(o)  PROVE SetupInv'
<1> USE DEF SetupInv, SetupTypeOK
<1> DEFINE p == PlanOf(wish[o])
           open == Gate(o, p) = "open"
<1>1. /\ p \in Plans /\ p.rag = wish[o].rag /\ p.noDownload = wish[o].noDownload
      /\ p.install = (wish[o].may # "start")
      /\ p.rag => p.prov = machine.prov
      /\ p.model => machine.model
  BY PlanTyped
<1>2. Gate(o, p) \in {"open", "stale_plan", "blocked", "confirmation_required"}
  BY DEF Gate
<1>3. open => /\ p = reviewed[o] /\ ~Blocked(p) /\ wish[o].confirmed
              /\ Changes(p) # {} => wish[o].may # "nothing"
  BY DEF Gate
<1> HIDE DEF p
<1>4. /\ planned' = [planned EXCEPT ![o] = p]
      /\ stage' = [stage EXCEPT ![o] = IF open THEN "install" ELSE "idle"]
      /\ verdict' = [verdict EXCEPT ![o] = IF open THEN @ ELSE Gate(o, p)]
      /\ stage[o] = "idle" /\ verdict[o] \in {"none", "stale_plan"} /\ reviewed[o] # NoReview
      /\ UNCHANGED <<machine, wish, reviewed, did, enrolled, moves>>
  BY DEF BeginApply, p, Goes, Ends
<1>5. SetupTypeOK' /\ PlansTyped'
  BY <1>1, <1>2, <1>4 DEF PlansTyped
<1>6. \A q \in Appliers \ {o} : planned'[q] = planned[q] /\ stage'[q] = stage[q] /\ verdict'[q] = verdict[q]
  BY <1>4 DEF PlansTyped
<1>7. planned'[o] = p /\ did[o] = {}
  BY <1>4 DEF PlansTyped, FreshChangedNothing
<1>8. ASSUME open  PROVE Consented(o)' /\ MachineKeepsUp(o)'
  BY <1>8, <1>1, <1>3, <1>4, <1>7 DEF Consented, Blocked, Changes, MachineKeepsUp
<1>9. ASSUME NEW q \in Appliers, stage'[q] # "idle"
      PROVE  Consented(q)' /\ MachineKeepsUp(q)' /\ (stage'[q] \in {"provider", "model"} => planned'[q].rag)
  <2>1. CASE q = o
    BY <2>1, <1>4, <1>9, <1>8
  <2>2. CASE q # o
    BY <2>2, <1>6, <1>9, <1>4 DEF ApplyIsOpen, Consented, MachineKeepsUp, Blocked, Changes
  <2> QED
    BY <2>1, <2>2
<1>10. ApplyIsOpen'
  BY <1>9 DEF ApplyIsOpen
<1>11. FreshChangedNothing' /\ AnsweredAtTheEnd'
  BY <1>4, <1>6, <1>7 DEF FreshChangedNothing, AnsweredAtTheEnd
<1>12. ConsentIsKept'
  BY <1>4, <1>2, <1>7, <1>6 DEF ConsentIsKept, Changes
<1> QED
  BY <1>5, <1>10, <1>11, <1>12

\* The machine is changed by others only between Applies.
LEMMA MovesKeep ==
  ASSUME SetupInv, ~MovesMidApply, MachineMoves  PROVE SetupInv'
<1> USE DEF SetupInv, SetupTypeOK
<1>1. machine' \in Machines /\ UNCHANGED <<applyVars, enrolled>> /\ \A o \in Appliers : stage[o] = "idle"
  BY DEF MachineMoves
<1> QED
  BY <1>1 DEF applyVars, PlansTyped, ApplyIsOpen, FreshChangedNothing, AnsweredAtTheEnd, ConsentIsKept, Changes

(* A step that changes no variable keeps the invariant. *)
LEMMA SetupStutters ==
  ASSUME SetupInv, UNCHANGED setupVars  PROVE SetupInv'
BY DEF setupVars, applyVars, SetupInv, SetupTypeOK, PlansTyped, ApplyIsOpen, Consented, MachineKeepsUp, Blocked,
       Changes, FreshChangedNothing, AnsweredAtTheEnd, ConsentIsKept

(* At the start nothing is planned, reviewed or changed. *)
LEMMA SetupInvInitially == SetupInit => SetupInv
<1> SUFFICES ASSUME SetupInit  PROVE SetupInv
  OBVIOUS
<1>1. SetupTypeOK /\ PlansTyped
  BY DEF SetupInit, SetupTypeOK, PlansTyped, Machines
<1>2. ApplyIsOpen /\ FreshChangedNothing /\ AnsweredAtTheEnd /\ ConsentIsKept
  BY DEF SetupInit, ApplyIsOpen, FreshChangedNothing, AnsweredAtTheEnd, ConsentIsKept
<1> QED
  BY <1>1, <1>2 DEF SetupInv

\* While the machine is left alone during an Apply, whatever it changes was in
\* the plan that was read, and was allowed (enable.go Apply).
THEOREM ConsentKept ==
  ASSUME ~MovesMidApply  PROVE SetupSpec => []ConsentIsKept
<1>1. SetupInv /\ [SetupNext]_setupVars => SetupInv'
  <2> SUFFICES ASSUME SetupInv, [SetupNext]_setupVars  PROVE SetupInv'
    OBVIOUS
  <2>1. ASSUME NEW o \in Appliers,
               \/ Review(o) \/ BeginApply(o) \/ InstallService(o) \/ StartService(o) \/ AwaitDaemon(o)
               \/ SetupProvider(o) \/ SetupModel(o) \/ Enrol(o) \/ Interrupt(o)
        PROVE  SetupInv'
    BY <2>1, ReviewKeeps, BeginKeeps, InstallKeeps, StartKeeps, AwaitKeeps, ProviderKeeps, ModelKeeps,
       EnrolKeeps, InterruptKeeps
  <2>2. CASE MachineMoves
    BY <2>2, MovesKeep
  <2>3. CASE UNCHANGED setupVars
    BY <2>3, SetupStutters
  <2> QED
    BY <2>1, <2>2, <2>3 DEF SetupNext
<1>2. SetupInv => ConsentIsKept
  BY DEF SetupInv
<1> QED
  BY <1>1, <1>2, SetupInvInitially, PTL DEF SetupSpec

-----------------------------------------------------------------------------
(* The HTTP client of the provider (ProviderWrites).  What is told at the  *)
(* end of a call rests on three things the code never states together: the *)
(* flag is set before the first request leaves, the provider only adds, so *)
(* that a record or a page found once is there for good, and an operation  *)
(* that is sent once has made no record while its request is on its way.   *)

Records == [title : Authors, milestone : {"first", Other}, head : {"first", Other},
            state : {"open", "merged"}]
PageBodies == Authors \union {Nothing}
Pages == [rev : Nat, body : PageBodies]
Replies == [status : {"none", "ok", "refused", "broken", "garbled"}, id : Nat]

CallsTyped ==
    /\ op \in [Doers -> Operations] /\ step \in [Doers -> Steps]
    /\ tries \in [Doers -> Nat] /\ flagged \in [Doers -> BOOLEAN]
    /\ DOMAIN preimage = Doers /\ DOMAIN seen = Doers /\ DOMAIN reply = Doers
    /\ back \in [Doers -> Replies]

ProviderTyped ==
    /\ record \in Records
    /\ page \in Seq(PageBodies) /\ page # <<>>
    /\ entries \in Seq([by : Doers, reply : BOOLEAN])

\* Each request on its way is one of those its call has sent.
WireSound == \A r \in wire : r \in Doers \X Nat /\ r[2] \in 1..tries[r[1]]

\* The flag is set when the first request goes out.
TriesCounted(c) ==
    /\ tries[c] <= Attempts(op[c])
    /\ step[c] = "send" => tries[c] < Attempts(op[c])
    /\ step[c] = "preflight" => tries[c] = 0
    /\ step[c] \in {"await", "readback", "raw", "recheck"} => tries[c] > 0
    /\ flagged[c] <=> tries[c] > 0

\* A call that has sent nothing has left no trace; one that sends once and
\* whose request is on its way has made no record; and the answer to a create
\* names a record of the call.
TracesSound(c) ==
    /\ tries[c] = 0 => RecordsBy(c) = {} /\ VersionsBy(c) = {} /\ record.title # c
    /\ op[c] \in SentOnceOnly =>
         /\ \A i, j \in RecordsBy(c) : i = j
         /\ (\E r \in wire : r[1] = c) => RecordsBy(c) = {}
    /\ back[c].status = "ok" /\ op[c] \in Creates => back[c].id \in RecordsBy(c)

\* What a preflight read: a record, or a page that was there and is not
\* overtaken unseen.
PreimageSound(c) ==
    step[c] = "send" \/ tries[c] > 0 =>
        /\ op[c] \in {"update-issue", "update-pr", "merge-pr"} => preimage[c] \in Records
        /\ op[c] \in {"wiki", "wiki-delete"} =>
             preimage[c] \in Pages /\ preimage[c].rev \in 1..Len(page) /\ page[preimage[c].rev] # Nothing

\* While a merge is at work nobody pushes.
HeadHolds(c) == ~PushMidMerge /\ op[c] = "merge-pr" /\ step[c] \in {"send", "await", "readback"} => record.head = "first"

\* A body read between two reads of the revision is that of a page between them.
ReadsSound(c) ==
    /\ step[c] \in {"raw", "recheck"} =>
         op[c] = "wiki" /\ seen[c] \in Pages /\ seen[c].rev \in 1..Len(page)
    /\ step[c] = "recheck" => \E i \in seen[c].rev..Len(page) : page[i] = seen[c].body

\* What was told at the end is true, and before the end nothing was told.
AnswerSound(c) ==
    /\ step[c] # "done" => reply[c].kind = "none"
    /\ reply[c].kind = "untouched" => tries[c] = 0
    /\ step[c] = "readback" => op[c] \in ReadsBack
    /\ step[c] = "readback" /\ op[c] \in Creates => back[c].status = "ok"
    /\ reply[c].kind = "confirmed" =>
        /\ op[c] \in Creates => reply[c].of \in RecordsBy(c)
        /\ op[c] \in {"update-issue", "update-pr"} =>
             reply[c].of.title = c /\ reply[c].of.milestone = preimage[c].milestone
        /\ op[c] = "merge-pr" => record.state = "merged" /\ (~PushMidMerge => record.head = "first")
        /\ op[c] = "wiki" => reply[c].of.rev \in 1..Len(page) /\ page[reply[c].of.rev] = c
        /\ op[c] = "wiki-delete" => \E i \in DOMAIN page : i > preimage[c].rev /\ page[i] = Nothing

CallSound(c) == /\ TriesCounted(c) /\ TracesSound(c) /\ PreimageSound(c) /\ HeadHolds(c)
                /\ ReadsSound(c) /\ AnswerSound(c)

PInv == CallsTyped /\ ProviderTyped /\ WireSound /\ \A c \in Doers : CallSound(c)

\* The invariant implies the types and what the client promises.
LEMMA PInvSays == PInv => ClientTypeOK /\ (~PushMidMerge => ClientIsTruthful)
<1> SUFFICES ASSUME PInv PROVE ClientTypeOK /\ (~PushMidMerge => ClientIsTruthful)
  OBVIOUS
<1>1. ClientTypeOK
  <2>1. \A c \in Doers : Attempts(op[c]) \in 1..(MaxResends + 1) /\ tries[c] \in 0..Attempts(op[c])
    BY ClientBounds DEF PInv, CallsTyped, CallSound, TriesCounted, Attempts
  <2>2. wire \subseteq Doers \X (1..(MaxResends + 1))
    <3> SUFFICES ASSUME NEW r \in wire PROVE r \in Doers \X (1..(MaxResends + 1))
      OBVIOUS
    <3>1. r \in Doers \X Nat /\ r[2] \in 1..tries[r[1]] /\ r[1] \in Doers
      BY DEF PInv, WireSound
    <3>2. tries[r[1]] <= MaxResends + 1 /\ tries[r[1]] \in Nat
      BY <3>1, <2>1, ClientBounds DEF PInv, CallsTyped
    <3>3. r[2] \in 1..(MaxResends + 1)
      BY <3>1, <3>2, ClientBounds
    <3> QED
      BY <3>1, <3>3
  <2> QED
    BY <2>1, <2>2 DEF PInv, CallsTyped, ProviderTyped, ClientTypeOK, Records, PageBodies
<1>2. UntouchedIsTrue
  BY DEF UntouchedIsTrue, PInv, CallSound, AnswerSound, TracesSound, WireSound
<1>3. ~PushMidMerge => ConfirmedIsTrue
  BY DEF ConfirmedIsTrue, PInv, CallsTyped, CallSound, AnswerSound, Operations, Creates
<1>4. SentOnceStaysOnce
  <2> SUFFICES ASSUME NEW c \in Doers, op[c] \in SentOnceOnly PROVE Cardinality(RecordsBy(c)) <= 1
    BY DEF SentOnceStaysOnce
  <2>1. \A i, j \in RecordsBy(c) : i = j
    BY DEF PInv, CallSound, TracesSound
  <2>2. CASE RecordsBy(c) = {}
    BY <2>2, FS_EmptySet
  <2>3. CASE RecordsBy(c) # {}
    <3>1. PICK i \in RecordsBy(c) : RecordsBy(c) = {i}
      BY <2>1, <2>3
    <3>2. Cardinality(RecordsBy(c)) = 1
      BY <3>1, FS_Singleton, Zenon
    <3> QED
      BY <3>2
  <2> QED
    BY <2>2, <2>3
<1> QED
  BY <1>1, <1>2, <1>3, <1>4 DEF ClientIsTruthful

\* It holds before the first request.
LEMMA PInvInit == ClientInit => PInv
<1> SUFFICES ASSUME ClientInit PROVE PInv
  OBVIOUS
<1>1. CallsTyped /\ ProviderTyped /\ WireSound
  BY DEF ClientInit, CallsTyped, ProviderTyped, WireSound, Steps, Answer, Replies, Opened, Records,
         Authors, PageBodies
<1>2. ASSUME NEW c \in Doers PROVE CallSound(c)
  <2>1. Attempts(op[c]) \in Nat /\ Attempts(op[c]) > 0
    BY ClientBounds DEF Attempts
  <2>2. tries[c] = 0 /\ flagged[c] = FALSE /\ step[c] \in {"preflight", "send"} /\ wire = {}
        /\ record = Opened /\ page = <<"first">> /\ entries = <<>>
        /\ back[c] = Answer("none") /\ reply[c] = Confirmed("none", Nothing)
        /\ (step[c] = "send" => op[c] \notin Preflights)
    BY DEF ClientInit
  <2>3. TriesCounted(c)
    BY <2>1, <2>2 DEF TriesCounted
  <2>6. HeadHolds(c)
    BY <2>2 DEF HeadHolds, Opened
  <2>7. ReadsSound(c)
    BY <2>2 DEF ReadsSound
  <2>8. AnswerSound(c)
    BY <2>2 DEF AnswerSound, Confirmed
  <2>5. PreimageSound(c)
    BY <2>2 DEF PreimageSound, Preflights
  <2>4. TracesSound(c)
    BY <2>2, CallsAreNoOthers DEF RecordsBy, VersionsBy, Opened, TracesSound, Answer
  <2> QED
    BY <2>3, <2>4, <2>5, <2>6, <2>7, <2>8 DEF CallSound
<1> QED
  BY <1>1, <1>2 DEF PInv

\* Steps that neither send nor receive: only one call moves.
OnlyCall(c) ==
    /\ UNCHANGED <<op, tries, flagged, wire, back, record, page, entries>>
    /\ step' \in [Doers -> Steps]
    /\ DOMAIN preimage' = Doers /\ DOMAIN seen' = Doers /\ DOMAIN reply' = Doers
    /\ \A d \in Doers \ {c} : /\ step'[d] = step[d] /\ preimage'[d] = preimage[d]
                              /\ seen'[d] = seen[d] /\ reply'[d] = reply[d]

\* A step of one call that neither sends nor receives keeps what it keeps for that call.
LEMMA OnlyCallStep ==
  ASSUME PInv, NEW c \in Doers, OnlyCall(c),
         TriesCounted(c)', PreimageSound(c)', HeadHolds(c)', ReadsSound(c)', AnswerSound(c)'
  PROVE  PInv'
<1>1. CallsTyped' /\ ProviderTyped' /\ WireSound'
  BY DEF PInv, CallsTyped, ProviderTyped, WireSound, OnlyCall
<1>2. \A d \in Doers : TracesSound(d)'
  BY DEF PInv, CallSound, TracesSound, RecordsBy, VersionsBy, OnlyCall
<1>3. ASSUME NEW d \in Doers \ {c} PROVE CallSound(d)'
  <2>0. step'[d] = step[d] /\ preimage'[d] = preimage[d] /\ seen'[d] = seen[d] /\ reply'[d] = reply[d]
        /\ tries' = tries /\ op' = op /\ flagged' = flagged /\ wire' = wire /\ back' = back
        /\ record' = record /\ page' = page /\ entries' = entries /\ CallSound(d)
    BY DEF OnlyCall, PInv
  <2>1. TriesCounted(d)' /\ HeadHolds(d)' /\ ReadsSound(d)' /\ PreimageSound(d)'
    BY <2>0 DEF CallSound, TriesCounted, HeadHolds, ReadsSound, PreimageSound
  <2>2. AnswerSound(d)'
    BY <2>0 DEF CallSound, AnswerSound, RecordsBy
  <2> QED
    BY <2>1, <2>2, <1>2 DEF CallSound
<1>4. CallSound(c)'
  BY <1>2 DEF CallSound
<1> QED
  BY <1>1, <1>3, <1>4 DEF PInv

\* A call that ends without a confirmation has nothing more to keep.
Closes(c, answer) == OnlyCall(c) /\ preimage' = preimage /\ seen' = seen /\ Tell(c, answer)

\* A call may always end with an error that says what its flag says (ErrWriteMutationPhase).
LEMMA EndsStep ==
  ASSUME PInv, NEW c \in Doers, NEW answer, Closes(c, answer),
         answer.kind \notin {"confirmed", "untouched"} \/ answer = Failed(c)
  PROVE  PInv'
<1>1. step'[c] = "done" /\ reply'[c] = answer
  BY DEF Closes, Tell, PInv, CallsTyped
<1>2. answer.kind = "untouched" => tries[c] = 0
  BY DEF Failed, PInv, CallSound, TriesCounted, CallsTyped
<1>3. answer.kind # "confirmed"
  BY DEF Failed
<1>4. CallSound(c) /\ OnlyCall(c) /\ preimage' = preimage /\ seen' = seen
  BY DEF PInv, Closes
<1>5. TriesCounted(c)' /\ HeadHolds(c)' /\ ReadsSound(c)'
  BY <1>1, <1>4 DEF CallSound, TriesCounted, HeadHolds, ReadsSound, OnlyCall
<1>6. PreimageSound(c)'
  BY <1>1, <1>4 DEF CallSound, PreimageSound, OnlyCall
<1>7. AnswerSound(c)'
  BY <1>1, <1>2, <1>3, <1>4 DEF CallSound, AnswerSound, OnlyCall
<1> QED
  BY <1>4, <1>5, <1>6, <1>7, OnlyCallStep

\* A failure before the request keeps the invariant.
LEMMA GiveUpStep == ASSUME PInv, NEW c \in Doers, GiveUp(c) PROVE PInv'
<1>1. Closes(c, Failed(c))
  BY DEF GiveUp, Closes, OnlyCall, Tell, PInv, CallsTyped, callVars, providerVars, Steps
<1> QED
  BY <1>1, EndsStep

\* So do used-up attempts and answers that are errors.
LEMMA UnansweredStep == ASSUME PInv, NEW c \in Doers, Unanswered(c) PROVE PInv'
<1>1. Closes(c, Failed(c))
  BY DEF Unanswered, Closes, OnlyCall, Tell, PInv, CallsTyped, callVars, providerVars, Steps
<1> QED
  BY <1>1, EndsStep

\* So does a readback that cannot be read.
LEMMA ReadFailsStep == ASSUME PInv, NEW c \in Doers, ReadFails(c) PROVE PInv'
<1>1. Closes(c, Failed(c))
  BY DEF ReadFails, Closes, OnlyCall, Tell, PInv, CallsTyped, callVars, providerVars, Steps
<1> QED
  BY <1>1, EndsStep

\* Another attempt is left only within the budget of the operation (bytesWithOptions).
LEMMA AgainStep == ASSUME PInv, NEW c \in Doers, Again(c) PROVE PInv'
<1>1. OnlyCall(c) /\ step[c] = "await" /\ step'[c] = "send" /\ tries[c] < Attempts(op[c]) /\ CallSound(c)
      /\ preimage' = preimage /\ seen' = seen /\ reply' = reply
  BY DEF Again, OnlyCall, PInv, CallsTyped, providerVars, Steps
<1>2. TriesCounted(c)' /\ PreimageSound(c)' /\ HeadHolds(c)' /\ ReadsSound(c)'
  BY <1>1 DEF CallSound, TriesCounted, PreimageSound, HeadHolds, ReadsSound, OnlyCall
<1>3. AnswerSound(c)'
  BY <1>1 DEF CallSound, AnswerSound, OnlyCall
<1> QED
  BY <1>1, <1>2, <1>3, OnlyCallStep

\* A preflight lets a write go out only on what it has read.
LEMMA PreflightStep == ASSUME PInv, NEW c \in Doers, Preflight(c) PROVE PInv'
<1>1. OnlyCall(c) /\ step[c] = "preflight" /\ step'[c] \in {"send", "done"} /\ tries[c] = 0 /\ CallSound(c)
      /\ preimage'[c] = Preimage(op[c]) /\ seen' = seen
  BY DEF Preflight, Tell, OnlyCall, PInv, CallsTyped, providerVars, Steps, CallSound, TriesCounted
<1>2. step'[c] = "send" => ~Stale(op[c]) /\ ~Existing(op[c]) /\ reply' = reply
  BY DEF Preflight, Tell, PInv, CallsTyped
<1>3. step'[c] = "done" => reply'[c].kind \in {"untouched", "existing"}
  <2>1. flagged[c] = FALSE
    BY <1>1 DEF CallSound, TriesCounted, PInv, CallsTyped
  <2>2. step[c] # "done" /\ "send" # "done"
    BY <1>1
  <2>3. Failed(c).kind = "untouched" /\ Confirmed("existing", op[c]).kind = "existing"
    BY <2>1 DEF Failed, Confirmed
  <2>4. step'[c] = "done" => reply'[c] \in {Failed(c), Confirmed("existing", op[c])}
    BY DEF Preflight, Tell, PInv, CallsTyped
  <2> QED
    BY <2>3, <2>4
<1>4. Attempts(op[c]) > 0
  BY ClientBounds DEF Attempts
<1>5. TriesCounted(c)' /\ HeadHolds(c)' /\ ReadsSound(c)'
  BY <1>1, <1>4, <1>2 DEF CallSound, TriesCounted, ReadsSound, OnlyCall, HeadHolds, Stale
<1>6. PreimageSound(c)'
  <2>1. CASE step'[c] = "done"
    BY <1>1, <2>1 DEF PreimageSound, OnlyCall
  <2>2. CASE step'[c] = "send" /\ op[c] \in {"update-issue", "update-pr", "merge-pr"}
    BY <1>1, <2>2 DEF Preimage, PreimageSound, OnlyCall, PInv, ProviderTyped
  <2>3. CASE step'[c] = "send" /\ op[c] \in {"wiki", "wiki-delete"}
    <3>1. preimage'[c] = Current /\ ~Gone
      BY <1>1, <1>2, <2>3 DEF Preimage, Stale
    <3>2. Len(page) \in Nat /\ Len(page) > 0 /\ page[Len(page)] \in PageBodies
      BY DEF PInv, ProviderTyped
    <3>3. Current \in Pages /\ Current.rev = Len(page) /\ Current.body = page[Len(page)]
      BY <3>2 DEF Current, Page, Pages
    <3> QED
      BY <1>1, <2>3, <3>1, <3>2, <3>3 DEF PreimageSound, OnlyCall, Gone
  <2> QED
    BY <1>1, <2>1, <2>2, <2>3 DEF PreimageSound, OnlyCall
<1>7. AnswerSound(c)'
  BY <1>1, <1>2, <1>3 DEF CallSound, AnswerSound, OnlyCall
<1> QED
  BY <1>1, <1>5, <1>6, <1>7, OnlyCallStep

\* A call that ends with a confirmation that is true.
LEMMA ConfirmsStep ==
  ASSUME PInv, NEW c \in Doers, NEW what, Closes(c, Confirmed("confirmed", what)),
         op[c] \in Creates => what \in RecordsBy(c),
         op[c] \in {"update-issue", "update-pr"} => what.title = c /\ what.milestone = preimage[c].milestone,
         op[c] = "merge-pr" => record.state = "merged" /\ (~PushMidMerge => record.head = "first"),
         op[c] = "wiki" => what.rev \in 1..Len(page) /\ page[what.rev] = c,
         op[c] = "wiki-delete" => \E i \in DOMAIN page : i > preimage[c].rev /\ page[i] = Nothing
  PROVE  PInv'
<1>1. step'[c] = "done" /\ reply'[c] = Confirmed("confirmed", what)
  BY DEF Closes, Tell, PInv, CallsTyped
<1>2. reply'[c].kind = "confirmed" /\ reply'[c].of = what
  BY <1>1 DEF Confirmed
<1>3. CallSound(c) /\ OnlyCall(c) /\ preimage' = preimage /\ seen' = seen
  BY DEF PInv, Closes
<1>4. TriesCounted(c)' /\ HeadHolds(c)' /\ ReadsSound(c)'
  BY <1>1, <1>3 DEF CallSound, TriesCounted, HeadHolds, ReadsSound, OnlyCall
<1>5. PreimageSound(c)'
  BY <1>1, <1>3 DEF CallSound, PreimageSound, OnlyCall
<1>6. op' = op /\ record' = record /\ page' = page /\ entries' = entries /\ RecordsBy(c)' = RecordsBy(c)
  BY <1>3 DEF OnlyCall, RecordsBy
<1>7. AnswerSound(c)'
  BY <1>1, <1>2, <1>3, <1>6 DEF AnswerSound
<1> QED
  BY <1>3, <1>4, <1>5, <1>7, OnlyCallStep

\* A create that is not read back is confirmed by the record its answer names.
LEMMA AcknowledgedStep == ASSUME PInv, NEW c \in Doers, Acknowledged(c) PROVE PInv'
<1>1. CallSound(c) /\ step[c] = "await" /\ op[c] \in Operations
  BY DEF PInv, Acknowledged, CallsTyped
<1>2. CASE op[c] \in ReadsBack
  <2>1. OnlyCall(c) /\ step'[c] = "readback" /\ preimage' = preimage /\ seen' = seen /\ reply' = reply
    BY <1>2 DEF Acknowledged, OnlyCall, PInv, CallsTyped, providerVars, Steps
  <2>2. op[c] \in Creates => back[c].status = "ok"
    BY DEF Acknowledged, Creates
  <2>3. TriesCounted(c)' /\ PreimageSound(c)' /\ HeadHolds(c)' /\ ReadsSound(c)'
    BY <1>1, <2>1 DEF CallSound, TriesCounted, PreimageSound, HeadHolds, ReadsSound, OnlyCall
  <2>4. AnswerSound(c)'
    BY <1>1, <1>2, <2>1, <2>2 DEF CallSound, AnswerSound, OnlyCall
  <2> QED
    BY <2>1, <2>3, <2>4, OnlyCallStep
<1>3. CASE op[c] \notin ReadsBack
  <2>1. Closes(c, Confirmed("confirmed", back[c].id))
    BY <1>3 DEF Acknowledged, Closes, OnlyCall, Tell, PInv, CallsTyped, providerVars, Steps
  <2>2. op[c] \in {"create-issue", "comment"}
    BY <1>1, <1>3 DEF Operations, ReadsBack
  <2>3. back[c].id \in RecordsBy(c)
    BY <1>1, <2>2 DEF CallSound, TracesSound, Acknowledged, Creates
  <2> QED
    BY <2>1, <2>2, <2>3, ConfirmsStep
<1> QED
  BY <1>2, <1>3

\* A readback confirms only what it finds at the provider.
LEMMA ReadBackStep == ASSUME PInv, NEW c \in Doers, ReadBack(c) PROVE PInv'
<1> DEFINE what == IF op[c] \in {"create-pr", "reply"} THEN back[c].id ELSE record
<1>1. CallSound(c) /\ step[c] = "readback" /\ op[c] # "wiki" /\ op[c] \in ReadsBack
  BY DEF PInv, ReadBack, CallSound, AnswerSound
<1>2. CASE ~Reads(c)
  BY <1>2, EndsStep DEF ReadBack, Closes, OnlyCall, Tell, PInv, CallsTyped, providerVars, Steps
<1>3. CASE Reads(c)
  <2>1. Closes(c, Confirmed("confirmed", what))
    BY <1>3 DEF ReadBack, Closes, OnlyCall, Tell, PInv, CallsTyped, providerVars, Steps
  <2>2. op[c] \in Creates => what \in RecordsBy(c)
    BY <1>1 DEF CallSound, AnswerSound, TracesSound, ReadsBack, Creates
  <2>3. op[c] \in {"update-issue", "update-pr"} => what.title = c /\ what.milestone = preimage[c].milestone
    BY <1>3 DEF Reads, UpdateConfirmed
  <2>4. op[c] = "merge-pr" => record.state = "merged" /\ (~PushMidMerge => record.head = "first")
    BY <1>1, <1>3 DEF Reads, CallSound, HeadHolds
  <2>5. op[c] = "wiki-delete" => \E i \in DOMAIN page : i > preimage[c].rev /\ page[i] = Nothing
    <3> SUFFICES ASSUME op[c] = "wiki-delete" PROVE \E i \in DOMAIN page : i > preimage[c].rev /\ page[i] = Nothing
      OBVIOUS
    <3>1. page[Len(page)] = Nothing
      BY <1>3 DEF Reads, Gone, Current, Page
    <3>2. tries[c] > 0 /\ preimage[c] \in Pages /\ preimage[c].rev \in 1..Len(page) /\ page[preimage[c].rev] # Nothing
      BY <1>1 DEF CallSound, TriesCounted, PreimageSound
    <3>3. Len(page) \in DOMAIN page /\ Len(page) \in Nat
      BY DEF PInv, ProviderTyped
    <3>4. Len(page) > preimage[c].rev
      BY <3>1, <3>2, <3>3
    <3> QED
      BY <3>1, <3>3, <3>4
  <2> HIDE DEF what
  <2> QED
    BY <1>1, <2>1, <2>2, <2>3, <2>4, <2>5, ConfirmsStep
<1> QED
  BY <1>2, <1>3

\* A page is confirmed from its metadata when its content comes with it.
LEMMA ReadMetadataStep == ASSUME PInv, NEW c \in Doers, ReadMetadata(c) PROVE PInv'
<1>1. CallSound(c) /\ step[c] = "readback" /\ op[c] = "wiki"
  BY DEF PInv, ReadMetadata
<1>2. Len(page) \in 1..Len(page) /\ Len(page) \in Nat /\ page[Len(page)] \in PageBodies
  BY DEF PInv, ProviderTyped
<1>3. CASE Closes(c, Failed(c))
  BY <1>3, EndsStep
<1>4. CASE Closes(c, Confirmed("confirmed", Current)) /\ Current.body = c
  BY <1>2, <1>4, <1>1, ConfirmsStep DEF Current, Page, Creates
<1>5. CASE OnlyCall(c) /\ preimage' = preimage /\ reply' = reply /\ step'[c] = "raw"
           /\ seen'[c] = Page(Len(page), Nothing)
  <2>1. seen'[c] \in Pages /\ seen'[c].rev = Len(page)
    BY <1>2, <1>5 DEF Page, Pages, PageBodies
  <2>2. TriesCounted(c)' /\ PreimageSound(c)' /\ HeadHolds(c)' /\ AnswerSound(c)'
    BY <1>1, <1>5 DEF CallSound, TriesCounted, PreimageSound, HeadHolds, AnswerSound, OnlyCall
  <2>3. ReadsSound(c)'
    BY <1>1, <1>2, <1>5, <2>1 DEF ReadsSound, OnlyCall
  <2> QED
    BY <1>5, <2>2, <2>3, OnlyCallStep
<1>6. \/ Closes(c, Failed(c))
      \/ Closes(c, Confirmed("confirmed", Current)) /\ Current.body = c
      \/ OnlyCall(c) /\ preimage' = preimage /\ reply' = reply /\ step'[c] = "raw"
         /\ seen'[c] = Page(Len(page), Nothing)
  BY DEF ReadMetadata, Closes, OnlyCall, Tell, PInv, CallsTyped, providerVars, Steps
<1> QED
  BY <1>3, <1>4, <1>5, <1>6

\* The raw body is that of a page not older than the revision read before.
LEMMA ReadRawStep == ASSUME PInv, NEW c \in Doers, ReadRaw(c) PROVE PInv'
<1>1. CallSound(c) /\ step[c] = "raw" /\ op[c] = "wiki" /\ seen[c] \in Pages /\ seen[c].rev \in 1..Len(page)
  BY DEF PInv, ReadRaw, CallSound, ReadsSound
<1>2. Len(page) \in 1..Len(page) /\ Len(page) \in Nat /\ page[Len(page)] \in PageBodies
  BY DEF PInv, ProviderTyped
<1>3. CASE Closes(c, Failed(c))
  BY <1>3, EndsStep
<1>4. CASE OnlyCall(c) /\ preimage' = preimage /\ reply' = reply /\ step'[c] = "recheck"
           /\ seen'[c] = [seen[c] EXCEPT !.body = Current.body]
  <2>1. seen'[c] \in Pages /\ seen'[c].rev = seen[c].rev /\ seen'[c].body = page[Len(page)]
    BY <1>1, <1>2, <1>4 DEF Page, Pages, Current
  <2>2. TriesCounted(c)' /\ PreimageSound(c)' /\ HeadHolds(c)' /\ AnswerSound(c)'
    BY <1>1, <1>4 DEF CallSound, TriesCounted, PreimageSound, HeadHolds, AnswerSound, OnlyCall
  <2>3. Len(page) \in seen[c].rev..Len(page)
    BY <1>1, <1>2
  <2>4. ReadsSound(c)'
    BY <1>1, <1>4, <2>1, <2>3 DEF ReadsSound, OnlyCall
  <2> QED
    BY <1>4, <2>2, <2>4, OnlyCallStep
<1>5. \/ Closes(c, Failed(c))
      \/ OnlyCall(c) /\ preimage' = preimage /\ reply' = reply /\ step'[c] = "recheck"
         /\ seen'[c] = [seen[c] EXCEPT !.body = Current.body]
  BY DEF ReadRaw, Closes, OnlyCall, Tell, PInv, CallsTyped, providerVars, Steps
<1> QED
  BY <1>3, <1>4, <1>5

\* An unchanged revision makes it the body of that revision (confirmWikiWrite).
LEMMA RecheckStep == ASSUME PInv, NEW c \in Doers, Recheck(c) PROVE PInv'
<1>1. CallSound(c) /\ step[c] = "recheck" /\ op[c] = "wiki" /\ seen[c] \in Pages /\ seen[c].rev \in 1..Len(page)
  BY DEF PInv, Recheck, CallSound, ReadsSound
<1>2. CASE Closes(c, Failed(c))
  BY <1>2, EndsStep
<1>3. CASE Closes(c, Confirmed("confirmed", seen[c])) /\ SameRevision(c) /\ seen[c].body = c
  <2>1. PICK i \in seen[c].rev..Len(page) : page[i] = seen[c].body
    BY <1>1 DEF CallSound, ReadsSound
  <2>2. i = seen[c].rev
    BY <1>1, <1>3, <2>1 DEF SameRevision
  <2> QED
    BY <1>1, <1>3, <2>1, <2>2, ConfirmsStep DEF Creates
<1>4. Closes(c, Failed(c)) \/ (Closes(c, Confirmed("confirmed", seen[c])) /\ SameRevision(c) /\ seen[c].body = c)
  BY DEF Recheck, Closes, OnlyCall, Tell, PInv, CallsTyped, providerVars, Steps
<1> QED
  BY <1>2, <1>3, <1>4

\* A timeout changes only what came back.
LEMMA TimesOutStep == ASSUME PInv, NEW c \in Doers, TimesOut(c) PROVE PInv'
<1>1. /\ UNCHANGED <<op, step, tries, flagged, preimage, seen, reply, wire, record, page, entries>>
      /\ step[c] = "await" /\ back' = [back EXCEPT ![c] = Answer("broken")]
  BY DEF TimesOut, callVars, providerVars
<1>2. back' \in [Doers -> Replies] /\ back'[c].status = "broken" /\ \A d \in Doers \ {c} : back'[d] = back[d]
  BY <1>1 DEF PInv, CallsTyped, Replies, Answer
<1>3. CallsTyped' /\ ProviderTyped' /\ WireSound'
  BY <1>1, <1>2 DEF PInv, CallsTyped, ProviderTyped, WireSound
<1>4. ASSUME NEW d \in Doers PROVE CallSound(d)'
  <2>1. TriesCounted(d)' /\ PreimageSound(d)' /\ HeadHolds(d)' /\ ReadsSound(d)'
    BY <1>1 DEF PInv, CallSound, TriesCounted, PreimageSound, HeadHolds, ReadsSound
  <2>2. RecordsBy(d)' = RecordsBy(d) /\ VersionsBy(d)' = VersionsBy(d)
    BY <1>1 DEF RecordsBy, VersionsBy
  <2>3. TracesSound(d)'
    BY <1>1, <1>2, <2>2 DEF PInv, CallSound, TracesSound
  <2>4. AnswerSound(d)'
    BY <1>1, <1>2, <2>2 DEF PInv, CallSound, AnswerSound
  <2> QED
    BY <2>1, <2>3, <2>4 DEF CallSound
<1> QED
  BY <1>3, <1>4 DEF PInv

\* Once a request is out the flag is set; an operation that is sent once goes out once (do).
LEMMA SendStep == ASSUME PInv, NEW c \in Doers, Send(c) PROVE PInv'
<1>1. /\ UNCHANGED <<op, preimage, seen, reply, record, page, entries>>
      /\ step[c] = "send" /\ step' = [step EXCEPT ![c] = "await"]
      /\ flagged' = [flagged EXCEPT ![c] = TRUE] /\ tries' = [tries EXCEPT ![c] = @ + 1]
      /\ wire' = wire \union {<<c, tries[c] + 1>>} /\ back' = [back EXCEPT ![c] = Answer("none")]
  BY DEF Send, providerVars
<1>2. /\ step'[c] = "await" /\ flagged'[c] = TRUE /\ tries'[c] = tries[c] + 1 /\ back'[c].status = "none"
      /\ \A d \in Doers \ {c} : /\ step'[d] = step[d] /\ flagged'[d] = flagged[d]
                                /\ tries'[d] = tries[d] /\ back'[d] = back[d]
  BY <1>1 DEF PInv, CallsTyped, Answer
<1>3. CallsTyped'
  BY <1>1 DEF PInv, CallsTyped, Steps, Replies, Answer
<1>4. ProviderTyped'
  BY <1>1 DEF PInv, ProviderTyped
<1>5. WireSound'
  BY <1>1, <1>2 DEF PInv, CallsTyped, WireSound
<1>6. ASSUME NEW d \in Doers PROVE RecordsBy(d)' = RecordsBy(d) /\ VersionsBy(d)' = VersionsBy(d)
  BY <1>1 DEF RecordsBy, VersionsBy
<1>7. ASSUME NEW d \in Doers \ {c} PROVE CallSound(d)'
  <2>1. TriesCounted(d)' /\ PreimageSound(d)' /\ HeadHolds(d)' /\ ReadsSound(d)'
    BY <1>1, <1>2 DEF PInv, CallSound, TriesCounted, PreimageSound, HeadHolds, ReadsSound
  <2>2. \A r \in wire' : r[1] = d => r \in wire
    BY <1>1
  <2>3. TracesSound(d)'
    BY <1>1, <1>2, <1>6, <2>2 DEF PInv, CallSound, TracesSound
  <2>4. AnswerSound(d)'
    BY <1>1, <1>2, <1>6 DEF PInv, CallSound, AnswerSound
  <2> QED
    BY <2>1, <2>3, <2>4 DEF CallSound
<1>8. CallSound(c)'
  <2>0. CallSound(c) /\ tries[c] \in Nat /\ tries[c] < Attempts(op[c]) /\ Attempts(op[c]) \in Nat
    BY <1>1, ClientBounds DEF PInv, CallsTyped, CallSound, TriesCounted, Attempts
  <2>1. TriesCounted(c)'
    BY <1>1, <1>2, <2>0 DEF TriesCounted
  <2>2. PreimageSound(c)' /\ HeadHolds(c)' /\ ReadsSound(c)'
    BY <1>1, <1>2, <2>0 DEF CallSound, PreimageSound, HeadHolds, ReadsSound
  <2>3. TracesSound(c)'
    BY <1>2, <2>0, <1>1, <1>6 DEF CallSound, TracesSound, Attempts
  <2>4. AnswerSound(c)'
    BY <1>1, <1>2, <1>6, <2>0 DEF CallSound, AnswerSound
  <2> QED
    BY <2>1, <2>2, <2>3, <2>4 DEF CallSound
<1> QED
  BY <1>3, <1>4, <1>5, <1>7, <1>8 DEF PInv

\* The provider only adds: pages and entries stay where they are, what is
\* merged stays merged, and nobody pushes on a merge at work.
Grows ==
    /\ record' \in Records /\ (record.state = "merged" => record'.state = "merged")
    /\ \/ record'.head = record.head \/ PushMidMerge
       \/ /\ record.state = "open"
          /\ \A d \in Doers : op[d] = "merge-pr" => step[d] \in {"preflight", "done"}
    /\ page' \in Seq(PageBodies) /\ Len(page') >= Len(page) /\ \A i \in 1..Len(page) : page'[i] = page[i]
    /\ entries' \in Seq([by : Doers, reply : BOOLEAN]) /\ Len(entries') >= Len(entries)
    /\ \A i \in 1..Len(entries) : entries'[i] = entries[i]

\* What only grows at the provider keeps what is known of every call.
LEMMA GrowingKeeps ==
  ASSUME PInv, UNCHANGED <<op, step, tries, flagged, preimage, seen, reply>>, Grows,
         back' \in [Doers -> Replies], \A d \in Doers : step[d] # "await" => back'[d] = back[d]
  PROVE  /\ CallsTyped' /\ ProviderTyped'
         /\ \A d \in Doers : /\ TriesCounted(d)' /\ PreimageSound(d)' /\ HeadHolds(d)'
                             /\ ReadsSound(d)' /\ AnswerSound(d)'
<1>1. Len(page) \in Nat /\ Len(page') \in Nat /\ Len(page) > 0 /\ DOMAIN page = 1..Len(page)
      /\ DOMAIN page' = 1..Len(page') /\ Len(entries) \in Nat /\ Len(entries') \in Nat
      /\ DOMAIN entries = 1..Len(entries) /\ DOMAIN entries' = 1..Len(entries')
  BY DEF PInv, ProviderTyped, Grows
<1>2. CallsTyped' /\ ProviderTyped'
  BY <1>1 DEF PInv, CallsTyped, ProviderTyped, Grows
<1>3. ASSUME NEW d \in Doers PROVE TriesCounted(d)' /\ HeadHolds(d)'
  BY DEF PInv, CallSound, TriesCounted, HeadHolds, Grows
<1>4. ASSUME NEW d \in Doers PROVE PreimageSound(d)'
  BY <1>1 DEF PInv, CallSound, PreimageSound, Grows
<1>5. ASSUME NEW d \in Doers PROVE ReadsSound(d)'
  <2>1. CallSound(d)
    BY DEF PInv
  <2>2. step[d] \in {"raw", "recheck"} =>
         op[d] = "wiki" /\ seen[d] \in Pages /\ seen[d].rev \in 1..Len(page')
    BY <1>1, <2>1 DEF CallSound, ReadsSound, Grows
  <2>3. step[d] = "recheck" => \E i \in seen[d].rev..Len(page') : page'[i] = seen[d].body
    <3> SUFFICES ASSUME step[d] = "recheck" PROVE \E i \in seen[d].rev..Len(page') : page'[i] = seen[d].body
      OBVIOUS
    <3>1. PICK i \in seen[d].rev..Len(page) : page[i] = seen[d].body
      BY <2>1 DEF CallSound, ReadsSound
    <3>2. seen[d].rev \in 1..Len(page)
      BY <2>1 DEF CallSound, ReadsSound
    <3>3. i \in seen[d].rev..Len(page') /\ i \in 1..Len(page)
      BY <1>1, <3>1, <3>2 DEF Grows
    <3>4. page'[i] = page[i]
      BY <3>3 DEF Grows
    <3> QED
      BY <3>1, <3>3, <3>4
  <2> QED
    BY <2>2, <2>3 DEF ReadsSound
<1>6. ASSUME NEW d \in Doers PROVE AnswerSound(d)'
  <2>1. CallSound(d)
    BY DEF PInv
  <2>2. RecordsBy(d) \subseteq RecordsBy(d)'
    BY <1>1 DEF RecordsBy, Grows
  <2>3. (\E i \in DOMAIN page : i > preimage[d].rev /\ page[i] = Nothing)
        => \E i \in DOMAIN page' : i > preimage[d].rev /\ page'[i] = Nothing
    BY <1>1 DEF Grows
  <2>4. op[d] = "merge-pr" /\ reply[d].kind = "confirmed" => record'.state = "merged" /\ (~PushMidMerge => record'.head = "first")
    BY <2>1 DEF CallSound, AnswerSound, Grows
  <2>5. op[d] = "wiki" /\ reply[d].kind = "confirmed" => reply[d].of.rev \in 1..Len(page') /\ page'[reply[d].of.rev] = d
    BY <1>1, <2>1 DEF CallSound, AnswerSound, Grows
  <2>6. step[d] = "readback" /\ op[d] \in Creates => back'[d].status = "ok"
    BY <2>1 DEF CallSound, AnswerSound
  <2> QED
    BY <2>1, <2>2, <2>3, <2>4, <2>5, <2>6 DEF CallSound, AnswerSound
<1> QED
  BY <1>2, <1>3, <1>4, <1>5, <1>6

\* Edits by others take no call's record away and put none in its place.
LEMMA OthersEditStep == ASSUME PInv, OthersEdit PROVE PInv'
<1>1. UNCHANGED <<op, step, tries, flagged, preimage, seen, reply, wire, back, entries>>
  BY DEF OthersEdit, callVars
<1>2. \/ /\ record.state = "open" /\ page' = page
         /\ \E f \in {"title", "milestone", "head"} :
              /\ f = "head" /\ ~PushMidMerge => \A d \in Doers : op[d] = "merge-pr" => step[d] \in {"preflight", "done"}
              /\ record' = [record EXCEPT ![f] = Other]
      \/ /\ record' = record
         /\ \E b \in PageBodies : page' = Append(page, b) /\ b \in {Other, Nothing} \union {page[i] : i \in DOMAIN page}
  BY DEF OthersEdit, PInv, ProviderTyped, PageBodies, Authors
<1>3. record' \in Records
  BY <1>2 DEF PInv, ProviderTyped, Records, Authors
<1>4. record.state = "merged" => record'.state = "merged"
  BY <1>2
<1>5. \/ record'.head = record.head \/ PushMidMerge
      \/ /\ record.state = "open"
         /\ \A d \in Doers : op[d] = "merge-pr" => step[d] \in {"preflight", "done"}
  BY <1>2 DEF PInv, ProviderTyped, Records
<1>6. page' \in Seq(PageBodies) /\ Len(page') >= Len(page) /\ \A i \in 1..Len(page) : page'[i] = page[i]
  BY <1>2 DEF PInv, ProviderTyped
<1>7. Grows
  BY <1>1, <1>3, <1>4, <1>5, <1>6 DEF Grows, PInv, ProviderTyped
<1>8. ASSUME NEW d \in Doers PROVE TracesSound(d)'
  <2>1. RecordsBy(d)' = RecordsBy(d)
    BY <1>1 DEF RecordsBy
  <2>2. tries[d] = 0 => VersionsBy(d)' = {} /\ record'.title # d
    <3> SUFFICES ASSUME tries[d] = 0 PROVE VersionsBy(d)' = {} /\ record'.title # d
      OBVIOUS
    <3>1. VersionsBy(d) = {} /\ record.title # d /\ d # Other /\ d # Nothing
      BY CallsAreNoOthers DEF PInv, CallSound, TracesSound
    <3>2. record'.title # d
      BY <1>2, <3>1 DEF PInv, ProviderTyped, Records
    <3>3. \A i \in DOMAIN page : page[i] # d
      BY <3>1 DEF VersionsBy
    <3>4. \A i \in DOMAIN page' : page'[i] # d
      BY <1>2, <3>1, <3>3 DEF PInv, ProviderTyped
    <3> QED
      BY <3>2, <3>4 DEF VersionsBy
  <2> QED
    BY <1>1, <2>1, <2>2 DEF PInv, CallSound, TracesSound
<1>9. CallsTyped' /\ ProviderTyped' /\ \A d \in Doers : /\ TriesCounted(d)' /\ PreimageSound(d)' /\ HeadHolds(d)'
                             /\ ReadsSound(d)' /\ AnswerSound(d)'
  BY <1>1, <1>7, GrowingKeeps DEF PInv, CallsTyped
<1>10. WireSound'
  BY <1>1 DEF PInv, WireSound
<1> QED
  BY <1>8, <1>9, <1>10 DEF PInv, CallSound

\* What an applied request does: it only adds, and what it adds is its call's.
LEMMA ApplyGrows ==
  ASSUME PInv, NEW c \in Doers, tries[c] > 0, ~Refused(c), Apply(c)
  PROVE  /\ Grows
         /\ \A d \in Doers \ {c} : /\ RecordsBy(d)' = RecordsBy(d) /\ VersionsBy(d)' = VersionsBy(d)
                                   /\ record'.title = d => record.title = d
         /\ RecordsBy(c)' = IF op[c] \in Creates THEN RecordsBy(c) \union {Len(entries) + 1} ELSE RecordsBy(c)
<1>1. /\ page' = page \/ page' = Append(page, c) \/ page' = Append(page, Nothing)
      /\ entries' = IF op[c] \in Creates THEN Append(entries, [by |-> c, reply |-> op[c] = "reply"]) ELSE entries
  BY DEF Apply
<1>2. /\ record' \in Records /\ record'.head = record.head /\ record'.title \in {record.title, c}
      /\ record.state = "merged" => record'.state = "merged"
  <2>1. op[c] = "update-issue" => preimage[c] \in Records
    BY DEF PInv, CallSound, PreimageSound
  <2>2. record \in Records
    BY DEF PInv, ProviderTyped
  <2>3. CASE op[c] = "update-issue"
    <3>1. record' = [record EXCEPT !.title = c, !.milestone = preimage[c].milestone]
      BY <2>3 DEF Apply
    <3>2. record' = [title |-> c, milestone |-> preimage[c].milestone, head |-> record.head, state |-> record.state]
      BY <3>1, <2>2 DEF Records
    <3> QED
      BY <2>1, <2>2, <2>3, <3>2 DEF Records, Authors
  <2>4. CASE op[c] = "update-pr"
    BY <2>2, <2>4 DEF Apply, Records, Authors
  <2>5. CASE op[c] = "merge-pr"
    BY <2>2, <2>5 DEF Apply, Records, Authors
  <2>6. CASE op[c] \notin {"update-issue", "update-pr", "merge-pr"}
    BY <2>2, <2>6 DEF Apply
  <2> QED
    BY <2>3, <2>4, <2>5, <2>6
<1>0. page \in Seq(PageBodies) /\ c \in PageBodies /\ Nothing \in PageBodies
      /\ entries \in Seq([by : Doers, reply : BOOLEAN])
  BY DEF PInv, ProviderTyped, PageBodies, Authors
<1>3. page' \in Seq(PageBodies) /\ Len(page') >= Len(page) /\ \A i \in 1..Len(page) : page'[i] = page[i]
  <2>1. ASSUME NEW b \in PageBodies, page' = Append(page, b)
        PROVE  page' \in Seq(PageBodies) /\ Len(page') >= Len(page) /\ \A i \in 1..Len(page) : page'[i] = page[i]
    BY <1>0, <2>1
  <2> QED
    BY <1>0, <1>1, <2>1
<1>4. /\ entries' \in Seq([by : Doers, reply : BOOLEAN]) /\ Len(entries') >= Len(entries)
      /\ \A i \in 1..Len(entries) : entries'[i] = entries[i]
  <2>1. [by |-> c, reply |-> op[c] = "reply"] \in [by : Doers, reply : BOOLEAN]
    OBVIOUS
  <2>2. ASSUME NEW e \in [by : Doers, reply : BOOLEAN], entries' = Append(entries, e)
        PROVE  /\ entries' \in Seq([by : Doers, reply : BOOLEAN]) /\ Len(entries') >= Len(entries)
               /\ \A i \in 1..Len(entries) : entries'[i] = entries[i]
    BY <1>0, <2>2
  <2>3. CASE op[c] \in Creates
    BY <1>1, <2>1, <2>2, <2>3
  <2>4. CASE entries' = entries
    BY <1>0, <2>4
  <2> QED
    BY <1>1, <2>3, <2>4
<1>5. Grows
  BY <1>2, <1>3, <1>4 DEF Grows
<1>6. ASSUME NEW d \in Doers \ {c}
      PROVE  RecordsBy(d)' = RecordsBy(d) /\ VersionsBy(d)' = VersionsBy(d)
             /\ (record'.title = d => record.title = d)
  <2>1. record'.title = d => record.title = d
    BY <1>2
  <2>2. d # Nothing
    BY CallsAreNoOthers
  <2>3. VersionsBy(d)' = VersionsBy(d)
    BY <1>0, <1>1, <2>2 DEF VersionsBy
  <2>4. RecordsBy(d)' = RecordsBy(d)
    BY <1>1 DEF RecordsBy, PInv, ProviderTyped
  <2> QED
    BY <2>1, <2>3, <2>4
<1>7. RecordsBy(c)' = IF op[c] \in Creates THEN RecordsBy(c) \union {Len(entries) + 1} ELSE RecordsBy(c)
  BY <1>1 DEF RecordsBy, PInv, ProviderTyped
<1> QED
  BY <1>5, <1>6, <1>7

\* A request that arrives, in time or late, adds what its call asked for, once.
LEMMA ArriveStep == ASSUME PInv, NEW r \in wire, Arrive(r[1], r[2]) PROVE PInv'
<1> DEFINE c == r[1]
           n == r[2]
<1>1. c \in Doers /\ n \in 1..tries[c] /\ tries[c] \in Nat /\ tries[c] > 0 /\ r = <<c, n>>
  BY DEF PInv, WireSound, CallsTyped
<1>2. /\ UNCHANGED <<op, step, tries, flagged, preimage, seen, reply>>
      /\ wire' = wire \ {r}
  BY <1>1 DEF Arrive, callVars
<1>3. \/ /\ UNCHANGED <<record, page, entries>>
         /\ \E s \in {"refused", "broken"} : Reaches(c, n, Answer(s))
      \/ /\ ~Refused(c) /\ Apply(c)
         /\ Reaches(c, n, Receipt(c)) \/ \E s \in {"broken", "garbled"} : Reaches(c, n, Answer(s))
  BY DEF Arrive, providerVars
<1> HIDE DEF c, n
<1>4. PICK answer \in Replies :
         /\ Reaches(c, n, answer)
         /\ answer.status = "ok" => ~Refused(c) /\ Apply(c) /\ answer = Receipt(c)
  BY <1>3 DEF Receipt, Replies, PInv, ProviderTyped, Answer
<1>5. /\ back' \in [Doers -> Replies]
      /\ \A d \in Doers : back'[d] = back[d] \/ (d = c /\ step[c] = "await" /\ back'[c] = answer)
  BY <1>1, <1>4 DEF Reaches, PInv, CallsTyped
<1>6. Grows
  <2>1. CASE UNCHANGED <<record, page, entries>>
    BY <2>1 DEF Grows, PInv, ProviderTyped
  <2> QED
    BY <1>1, <1>3, <2>1, ApplyGrows
<1>7. /\ CallsTyped' /\ ProviderTyped'
      /\ \A d \in Doers : TriesCounted(d)' /\ PreimageSound(d)' /\ HeadHolds(d)' /\ ReadsSound(d)' /\ AnswerSound(d)'
  BY <1>2, <1>5, <1>6, GrowingKeeps
<1>8. WireSound'
  BY <1>2 DEF PInv, WireSound
<1>9. ASSUME NEW d \in Doers \ {c} PROVE TracesSound(d)'
  <2>1. /\ RecordsBy(d)' = RecordsBy(d) /\ VersionsBy(d)' = VersionsBy(d)
        /\ record'.title = d => record.title = d
    BY <1>1, <1>3, ApplyGrows DEF RecordsBy, VersionsBy
  <2>2. back'[d] = back[d]
    BY <1>5
  <2> QED
    BY <1>2, <2>1, <2>2 DEF PInv, CallSound, TracesSound
<1>10. TracesSound(c)'
  <2>1. TracesSound(c) /\ TriesCounted(c)
    BY <1>1 DEF PInv, CallSound
  <2>2. RecordsBy(c)' \in {RecordsBy(c), RecordsBy(c) \union {Len(entries) + 1}}
    BY <1>1, <1>3, ApplyGrows DEF RecordsBy
  <2>3. op[c] \in SentOnceOnly =>
         /\ \A i, j \in RecordsBy(c)' : i = j
         /\ \A q \in wire' : q[1] # c
    <3> SUFFICES ASSUME op[c] \in SentOnceOnly
                 PROVE  (\A i, j \in RecordsBy(c)' : i = j) /\ \A q \in wire' : q[1] # c
      OBVIOUS
    <3>1. RecordsBy(c) = {}
      BY <1>1, <2>1 DEF TracesSound
    <3>2. tries[c] = 1
      BY <1>1, <2>1 DEF TriesCounted, Attempts
    <3>3. \A q \in wire : q[1] = c => q = r
      BY <1>1, <3>2 DEF PInv, WireSound
    <3> QED
      BY <1>2, <2>2, <3>1, <3>3
  <2>4. back'[c].status = "ok" /\ op[c] \in Creates => back'[c].id \in RecordsBy(c)'
    <3>1. CASE back'[c] = back[c]
      BY <2>1, <2>2, <3>1 DEF TracesSound
    <3>2. CASE back'[c] = answer /\ answer.status = "ok" /\ op[c] \in Creates
      BY <1>4, <3>2, <1>1, ApplyGrows DEF Receipt
    <3> QED
      BY <1>1, <1>5, <3>1, <3>2
  <2> QED
    BY <1>1, <1>2, <2>3, <2>4 DEF TracesSound
<1> QED
  BY <1>7, <1>8, <1>9, <1>10 DEF PInv, CallSound

\* Every step keeps the invariant.
LEMMA PInvNext == ASSUME PInv, [ClientNext]_clientVars PROVE PInv'
<1>1. CASE UNCHANGED clientVars
  <2>1. UNCHANGED <<op, step, tries, flagged, preimage, seen, reply, wire, back, record, page, entries>>
    BY <1>1 DEF clientVars, callVars, providerVars
  <2>2. CallsTyped' /\ ProviderTyped' /\ WireSound'
    BY <2>1 DEF PInv, CallsTyped, ProviderTyped, WireSound
  <2>3. ASSUME NEW d \in Doers PROVE CallSound(d)'
    <3>1. RecordsBy(d)' = RecordsBy(d) /\ VersionsBy(d)' = VersionsBy(d) /\ CallSound(d)
      BY <2>1 DEF RecordsBy, VersionsBy, PInv
    <3>2. TriesCounted(d)' /\ TracesSound(d)' /\ PreimageSound(d)' /\ HeadHolds(d)' /\ ReadsSound(d)'
      BY <2>1, <3>1 DEF CallSound, TriesCounted, TracesSound, PreimageSound, HeadHolds, ReadsSound
    <3>3. AnswerSound(d)'
      BY <2>1, <3>1 DEF CallSound, AnswerSound
    <3> QED
      BY <3>2, <3>3 DEF CallSound
  <2> QED
    BY <2>2, <2>3 DEF PInv
<1>2. ASSUME NEW c \in Doers,
        \/ GiveUp(c) \/ Preflight(c) \/ Send(c) \/ TimesOut(c) \/ Again(c) \/ Unanswered(c)
        \/ Acknowledged(c) \/ ReadBack(c) \/ ReadFails(c) \/ ReadMetadata(c) \/ ReadRaw(c) \/ Recheck(c)
      PROVE PInv'
  BY <1>2, GiveUpStep, PreflightStep, SendStep, TimesOutStep, AgainStep, UnansweredStep,
     AcknowledgedStep, ReadBackStep, ReadFailsStep, ReadMetadataStep, ReadRawStep, RecheckStep
<1>3. ASSUME NEW r \in wire, Arrive(r[1], r[2]) PROVE PInv'
  BY <1>3, ArriveStep
<1>4. CASE OthersEdit
  BY <1>4, OthersEditStep
<1> QED
  BY <1>1, <1>2, <1>3, <1>4 DEF ClientNext

\* The invariant holds in every behaviour of the client.
LEMMA ClientInvariance == ClientSpec => []PInv
<1>1. PInv /\ [ClientNext]_clientVars => PInv'
  BY PInvNext
<1> QED
  BY PInvInit, <1>1, PTL DEF ClientSpec

\* Every variable of the client and the provider keeps its type, and no call sends
\* more requests than its operation allows (http_client.go requestOptions).
THEOREM ClientTyped == ClientSpec => []ClientTypeOK
<1>1. PInv => ClientTypeOK
  BY PInvSays
<1> QED
  BY <1>1, ClientInvariance, PTL

\* As long as nobody pushes between a merge's preflight and its request, what the
\* client tells of a write is true of the provider, whatever is lost, late, repeated or edited
\* by others (http_client.go).
THEOREM ClientStaysTruthful == ~PushMidMerge => (ClientSpec => []ClientIsTruthful)
<1> SUFFICES ASSUME ~PushMidMerge PROVE ClientSpec => []ClientIsTruthful
  OBVIOUS
<1>1. PInv => ClientIsTruthful
  BY PInvSays
<1> QED
  BY <1>1, ClientInvariance, PTL
-----------------------------------------------------------------------------
(* The index of documentation (DocsIndex).  A set that is ready or partial *)
(* keeps its members until it goes as a whole, and a vector stays while a  *)
(* set that is left lists its text; a run has counted every document it    *)
(* passed, and its answers are of the namespace it writes to.              *)

SnapshotNames == [commit : Trees, tree : Trees, overlay : BOOLEAN, ns : Nat]
Counters == [eligible : Nat, embedded : Nat, reused : Nat, failed : Nat, omitted : Nat, missing : Nat]
SetStates == {"building", "partial", "ready", "blocked", "superseded"}
SetRows == [state : SetStates, n : Counters]
RunPoints == {"idle", "prepare", "build", "walk", "look", "embed", "keep", "store", "publish", "retain"}
Runs == [pc : RunPoints, id : SnapshotNames, budget : Budgets \union {0}, at : Nat, batch : SUBSET DocPaths,
         answers : SUBSET (DocPaths \X Nat), saved : BOOLEAN, tried : Nat, n : Counters, cancelled : BOOLEAN]

\* The paths of the documents of a snapshot, those listed for its set, and
\* those of them with a vector.
TextsOf(s) == {p \in DocPaths : s.tree[p] \in Texts}
Listed(s) == {p \in DocPaths : <<s, p, s.tree[p]>> \in docMembers}
Stored(s) == {p \in Listed(s) : HasVector(s.ns, s.tree[p])}

SourcesTyped == head \in Trees /\ work \in Trees /\ embedder \in Nat
SetsTyped == DOMAIN docSets \subseteq SnapshotNames /\ \A s \in DOMAIN docSets : docSets[s] \in SetRows

\* A row belongs to the document it was made of, a vector to its namespace.
RowsSound ==
    /\ \A m \in docMembers : /\ m[1] \in SnapshotNames /\ m[2] \in TextsOf(m[1])
                             /\ m = <<m[1], m[2], m[1].tree[m[2]]>>
    /\ \A v \in docVectors : v = <<v[1], v[2], v[1]>>

SetSound(s) ==
    /\ docSets[s].state \in {"ready", "partial"} => Cardinality(Listed(s)) = docSets[s].n.eligible
    /\ docSets[s].state = "ready" =>
         /\ Listed(s) = TextsOf(s) /\ Stored(s) = Listed(s)
         /\ docSets[s].n.embedded + docSets[s].n.reused = docSets[s].n.eligible
    /\ docSets[s].state = "partial" /\ docsMode = "daemon" =>
         docSets[s].n.embedded + docSets[s].n.reused <= Cardinality(Stored(s))
SetsSound == \A s \in DOMAIN docSets : SetSound(s)

\* The documents a run has passed: it counted each of them, or knows it lost it.
Walked(r) == {p \in TextsOf(r.id) : p < r.at \/ (p = r.at /\ r.pc = "look")}
\* Its answers are of documents it walked, in one namespace, and not all stored yet.
AnswersSound(r) ==
    /\ \A p \in r.batch : p \in TextsOf(r.id) /\ p < r.at
    /\ \A a \in r.answers : a = <<a[1], r.id.ns>> /\ a[1] \in TextsOf(r.id) /\ a[1] < r.at
    /\ r.answers = {} <=> r.pc \notin {"keep", "store"}
    /\ r.answers = {} \/ r.batch = {}
RunSound(r) ==
    /\ r.pc \in {"idle", "prepare", "build"} => r.at = 1 /\ r.batch = {} /\ r.n = NoCounts
    /\ r.at \in 1..(Cardinality(DocPaths) + 1)
    /\ r.pc = "look" => r.at \in TextsOf(r.id)
    /\ r.pc = "publish" => r.at \notin DocPaths
    /\ r.pc # "retain" => r.n.eligible + r.n.missing = Cardinality(Walked(r))
    /\ AnswersSound(r)
RunnersSound == \A i \in Runners : RunSound(runner[i])

\* What the daemon's one worker counts as done has its vector.
Done(r) == {p \in Stored(r.id) : p < r.at /\ p \notin r.batch /\ \A a \in r.answers : a[1] # p}
WorkSound(r) ==
    r.pc \in {"walk", "look", "embed", "keep", "store", "publish"} =>
      /\ r.pc = "look" => r.at \in Listed(r.id)
      /\ r.batch \subseteq Listed(r.id) /\ \A a \in r.answers : a[1] \in Listed(r.id)
      /\ r.n.embedded + r.n.reused <= Cardinality(Done(r))
WorkerSound ==
    docsMode = "daemon" => \A i \in Runners : IF i = TheWorker THEN WorkSound(runner[i]) ELSE runner[i].pc = "idle"

HandedSound ==
    \A h \in handed : <<h[1].ns, h[2]>> \in handoffs /\ ~HasVector(h[1].ns, h[2])

TablesSound == SetsTyped /\ RowsSound /\ SetsSound
RunsSound == runner \in [Runners -> Runs] /\ RunnersSound /\ WorkerSound
SearchSound == searcher = [pc |-> searcher.pc, id |-> searcher.id, hits |-> searcher.hits] /\ SearchIsExact
IndexInv == SourcesTyped /\ TablesSound /\ RunsSound /\ HandedSound /\ SearchSound

-----------------------------------------------------------------------------
\* The paths of a tree are the numbers up to their count.
LEMMA PathsAreNumbers ==
  /\ IsFiniteSet(DocPaths) /\ Cardinality(DocPaths) \in Nat
  /\ DocPaths = 1..Cardinality(DocPaths) /\ DocPaths \subseteq Nat
BY DocsIndexAssumption, FS_CardinalityType

\* There is a first tree, and it is a tree.
LEMMA FirstTreeTyped == FirstTree \in Trees
BY DocsIndexAssumption DEF FirstTree

\* A set of paths is finite, and a part of it is not larger.
LEMMA PathsCount ==
  ASSUME NEW S \in SUBSET DocPaths, NEW T \in SUBSET S
  PROVE  /\ IsFiniteSet(S) /\ IsFiniteSet(T) /\ Cardinality(S) \in Nat /\ Cardinality(T) \in Nat
         /\ Cardinality(T) <= Cardinality(S)
         /\ Cardinality(T) = Cardinality(S) => T = S
<1>1. IsFiniteSet(S)
  BY PathsAreNumbers, FS_Subset
<1>2. IsFiniteSet(T) /\ Cardinality(T) <= Cardinality(S) /\ (Cardinality(S) = Cardinality(T) => S = T)
  BY <1>1, FS_Subset
<1> QED
  BY <1>1, <1>2, FS_CardinalityType

\* One path more is one more.
LEMMA OnePathMore ==
  ASSUME NEW S \in SUBSET DocPaths, NEW p \in DocPaths, p \notin S
  PROVE  Cardinality(S \union {p}) = Cardinality(S) + 1
<1>1. IsFiniteSet(S)
  BY PathsCount
<1> QED
  BY <1>1, FS_AddElement

\* Any set of numbers that is not empty has a least element.
LEMMA LeastNumber ==
  ASSUME NEW S \in SUBSET Nat, S # {}
  PROVE  \E m \in S : \A k \in S : m <= k
<1> DEFINE R == {ss \in Nat \X Nat : ss[1] < ss[2]}
<1>1. IsWellFoundedOn(R, Nat)
  BY NatLessThanWellFounded DEF OpToRel
<1> HIDE DEF R
<1>2. PICK x \in S : \A y \in S : ~ (<<y, x>> \in R)
  BY <1>1, WFMin
<1>3. \A y \in S : y < x => <<y, x>> \in R
  BY DEF R
<1>4. \A y \in S : ~(y < x)
  BY <1>2, <1>3
<1>5. \A y \in S : x \in Nat /\ y \in Nat
  OBVIOUS
<1>6. \A y \in S : x <= y
  BY <1>4, <1>5
<1> QED
  BY <1>6

\* The answer a run takes next is one of its answers (flushPending).
LEMMA NextAnswerIs ==
  ASSUME NEW r \in Runs, r.answers # {}, AnswersSound(r)
  PROVE  /\ NextAnswer(r) \in r.answers
         /\ NextAnswer(r) = <<NextAnswer(r)[1], r.id.ns>> /\ NextAnswer(r)[1] \in TextsOf(r.id)
         /\ NextAnswer(r)[1] < r.at
<1> DEFINE Places == {p \in DocPaths : \E a \in r.answers : a[1] = p}
<1>1. r.answers \subseteq DocPaths \X Nat
  BY DEF Runs
<1>2. Places # {} /\ Places \in SUBSET Nat
  BY <1>1, PathsAreNumbers
<1> HIDE DEF Places
<1>3. PICK m \in Places : \A k \in Places : m <= k
  BY <1>2, LeastNumber
<1>4. PICK a \in r.answers : a[1] = m
  BY <1>3 DEF Places
<1>5. \A b \in r.answers : b[1] \in Places
  BY <1>1 DEF Places
<1>6. \A b \in r.answers : a[1] <= b[1]
  BY <1>3, <1>4, <1>5
<1>7. NextAnswer(r) \in r.answers
  BY <1>6 DEF NextAnswer
<1> QED
  BY <1>7 DEF AnswersSound

-----------------------------------------------------------------------------
(* The rows of the tables.                                                 *)

\* What is listed for a set are documents of its snapshot.
LEMMA ListedIs ==
  ASSUME RowsSound, NEW s
  PROVE  Listed(s) \subseteq TextsOf(s) /\ TextsOf(s) \subseteq DocPaths /\ Stored(s) \subseteq Listed(s)
<1>1. TextsOf(s) \subseteq DocPaths /\ Stored(s) \subseteq Listed(s)
  BY DEF TextsOf, Stored
<1>2. ASSUME NEW p \in Listed(s) PROVE p \in TextsOf(s)
  <2>1. PICK m \in docMembers : m = <<s, p, s.tree[p]>>
    BY <1>2 DEF Listed
  <2>2. m[2] \in TextsOf(m[1])
    BY DEF RowsSound
  <2> QED
    BY <2>1, <2>2
<1> QED
  BY <1>1, <1>2

\* A row of a set is known by its path.
LEMMA RowsAreListed ==
  ASSUME RowsSound, NEW s
  PROVE  /\ \A m \in Members(s) : m[2] \in Listed(s) /\ m[3] = s.tree[m[2]] /\ m = <<s, m[2], s.tree[m[2]]>>
         /\ \A p \in Listed(s) : <<s, p, s.tree[p]>> \in Members(s)
<1>1. ASSUME NEW m \in Members(s)
      PROVE  m[2] \in Listed(s) /\ m[3] = s.tree[m[2]] /\ m = <<s, m[2], s.tree[m[2]]>>
  BY DEF Members, RowsSound, TextsOf, Listed
<1>2. \A p \in Listed(s) : <<s, p, s.tree[p]>> \in Members(s)
  BY DEF Listed, Members
<1> QED
  BY <1>1, <1>2

\* Counting rows is counting paths (validateStagedRepositoryDocPublication).
LEMMA RowsCount ==
  ASSUME RowsSound, NEW s
  PROVE  /\ Cardinality(Members(s)) = Cardinality(Listed(s))
         /\ Cardinality({m \in Members(s) : HasVector(s.ns, m[3])}) = Cardinality(Stored(s))
<1> DEFINE row == [p \in Listed(s) |-> <<s, p, s.tree[p]>>]
           part == [p \in Stored(s) |-> <<s, p, s.tree[p]>>]
           With == {m \in Members(s) : HasVector(s.ns, m[3])}
<1>1. IsFiniteSet(Listed(s)) /\ IsFiniteSet(Stored(s))
  BY ListedIs, PathsCount
<1>2. row \in Bijection(Listed(s), Members(s))
  <2>1. row \in [Listed(s) -> Members(s)]
    BY RowsAreListed
  <2>2. \A p, q \in Listed(s) : row[p] = row[q] => p = q
    OBVIOUS
  <2>3. \A m \in Members(s) : \E p \in Listed(s) : row[p] = m
    BY RowsAreListed
  <2> QED
    BY <2>1, <2>2, <2>3 DEF Bijection, Injection, Surjection, IsInjective
<1>3. part \in Bijection(Stored(s), With)
  <2>1. part \in [Stored(s) -> With]
    BY RowsAreListed DEF Stored
  <2>2. \A p, q \in Stored(s) : part[p] = part[q] => p = q
    OBVIOUS
  <2>3. \A m \in With : \E p \in Stored(s) : part[p] = m
    BY RowsAreListed DEF Stored
  <2> QED
    BY <2>1, <2>2, <2>3 DEF Bijection, Injection, Surjection, IsInjective
<1> HIDE DEF row, part
<1>4. Cardinality(Members(s)) = Cardinality(Listed(s))
  BY <1>1, <1>2, FS_Bijection DEF ExistsBijection
<1> HIDE DEF With
<1>5. Cardinality(With) = Cardinality(Stored(s))
  BY <1>1, <1>3, FS_Bijection DEF ExistsBijection
<1> QED
  BY <1>4, <1>5 DEF With

-----------------------------------------------------------------------------
(* What a step leaves of the parts of the invariant.                       *)

\* A set whose row and members stay, and whose vectors do not become fewer,
\* is as sound as before.
LEMMA SetKeeps ==
  ASSUME TablesSound, docsMode' = docsMode, NEW s \in DOMAIN docSets, docSets'[s] = docSets[s],
         docSets[s].state \in {"ready", "partial"} => Listed(s)' = Listed(s) /\ Stored(s) \subseteq Stored(s)'
  PROVE  SetSound(s)'
<1> SUFFICES ASSUME docSets[s].state \in {"ready", "partial"} PROVE SetSound(s)'
  BY DEF SetSound
<1>1. docSets'[s] = docSets[s] /\ Listed(s)' = Listed(s) /\ Stored(s) \subseteq Stored(s)'
  OBVIOUS
<1>2. SetSound(s) /\ docSets[s] \in SetRows
  BY <1>1 DEF TablesSound, SetsSound, SetsTyped
<1>3. Listed(s) \subseteq DocPaths /\ Stored(s)' \subseteq Listed(s)' /\ Stored(s) \subseteq Listed(s)
  BY DEF Listed, Stored
<1>4. Cardinality(Stored(s)) <= Cardinality(Stored(s)') /\ Cardinality(Stored(s)') \in Nat /\ Cardinality(Stored(s)) \in Nat
  <2>1. PICK A \in SUBSET DocPaths : A = Stored(s)'
    BY <1>1, <1>3
  <2>2. PICK B \in SUBSET A : B = Stored(s)
    BY <1>1, <2>1
  <2> QED
    BY <2>1, <2>2, PathsCount
<1>5. docSets[s].state = "ready" => Stored(s)' = Listed(s)'
  BY <1>1, <1>2, <1>3 DEF SetSound
<1>6. docSets[s].n.embedded + docSets[s].n.reused \in Nat
  BY <1>2 DEF SetRows, Counters
<1>7. docSets[s].state = "partial" /\ docsMode = "daemon" =>
         docSets[s].n.embedded + docSets[s].n.reused <= Cardinality(Stored(s)')
  BY <1>2, <1>4, <1>6 DEF SetSound
<1> QED
  BY <1>1, <1>2, <1>5, <1>7 DEF SetSound

\* Tables nobody touches.
LEMMA TablesRest ==
  ASSUME TablesSound, UNCHANGED <<docsMode, docSets, docMembers, docVectors>>
  PROVE  TablesSound'
<1>1. RowsSound'
  BY DEF TablesSound, RowsSound
<1>2. SetsTyped'
  BY DEF TablesSound, SetsTyped
<1>3. \A s : Listed(s)' = Listed(s) /\ Stored(s) \subseteq Stored(s)'
  BY DEF Listed, Stored, HasVector
<1>4. \A s \in DOMAIN docSets' : SetSound(s)'
  BY DEF TablesSound, SetsSound, SetSound, Listed, Stored, HasVector
<1> QED
  BY <1>1, <1>2, <1>4 DEF TablesSound, SetsSound

\* One row that changes, and is sound; the others keep what they have.
LEMMA SetsKeep ==
  ASSUME TablesSound, NEW id, docsMode' = docsMode,
         \A s \in DOMAIN docSets' : s # id =>
            /\ s \in DOMAIN docSets /\ docSets'[s] = docSets[s]
            /\ docSets[s].state \in {"ready", "partial"} => Listed(s)' = Listed(s) /\ Stored(s) \subseteq Stored(s)',
         id \in DOMAIN docSets' => SetSound(id)'
  PROVE  SetsSound'
<1> SUFFICES ASSUME NEW s \in DOMAIN docSets', s # id PROVE SetSound(s)'
  BY DEF SetsSound
<1> QED
  BY SetKeeps

\* The row a set gets, and the rows of the others.
LEMMA PutSetIs ==
  ASSUME SetsTyped, NEW id \in SnapshotNames, NEW n \in Counters,
         NEW state \in SetStates, PutSet(id, state, n)
  PROVE  /\ SetsTyped' /\ id \in DOMAIN docSets' /\ docSets'[id] = [state |-> state, n |-> n]
         /\ \A s \in DOMAIN docSets' : s # id => s \in DOMAIN docSets /\ docSets'[s] = docSets[s]
<1>1. DOMAIN docSets' = DOMAIN docSets \union {id}
  BY DEF PutSet
<1>2. /\ docSets'[id] = [state |-> state, n |-> n]
      /\ \A s \in DOMAIN docSets : s # id => docSets'[s] = docSets[s]
  BY DEF PutSet
<1>3. [state |-> state, n |-> n] \in SetRows
  BY DEF SetRows
<1> QED
  BY <1>1, <1>2, <1>3 DEF SetsTyped

\* One runner that changes, as it should.
LEMMA RunnerSteps ==
  ASSUME RunsSound, NEW i \in Runners, NEW r \in Runs, runner' = [runner EXCEPT ![i] = r], docsMode' = docsMode,
         RunSound(r), docsMode = "daemon" => i = TheWorker /\ WorkSound(r)'
  PROVE  RunsSound'
<1>1. runner' \in [Runners -> Runs] /\ runner'[i] = r /\ \A j \in Runners : j # i => runner'[j] = runner[j]
  BY DEF RunsSound
<1>2. RunnersSound'
  BY <1>1 DEF RunsSound, RunnersSound
<1>3. ASSUME docsMode = "daemon", NEW j \in Runners
      PROVE  (IF j = TheWorker THEN WorkSound(runner[j]) ELSE runner[j].pc = "idle")'
  BY <1>3, <1>1 DEF WorkSound, Done, RunsSound, WorkerSound
<1>4. WorkerSound'
  BY <1>3 DEF WorkerSound
<1> QED
  BY <1>1, <1>2, <1>4 DEF RunsSound

\* The daemon has one worker: who is not idle is it.
LEMMA OneWorker ==
  ASSUME RunsSound, NEW i \in Runners, runner[i].pc # "idle", docsMode = "daemon"
  PROVE  i = TheWorker /\ WorkSound(runner[i])
BY DEF RunsSound, WorkerSound

\* What a run has done stays done while members and vectors stay.
LEMMA WorkKeeps ==
  ASSUME NEW r \in Runs, WorkSound(r), Listed(r.id)' = Listed(r.id), Stored(r.id) \subseteq Stored(r.id)'
  PROVE  WorkSound(r)'
<1>1. Done(r) \subseteq Done(r)'
  BY DEF Done
<1>2. Done(r)' \subseteq DocPaths
  BY DEF Done, Stored, Listed
<1>3. Cardinality(Done(r)) <= Cardinality(Done(r)') /\ Cardinality(Done(r)') \in Nat /\ Cardinality(Done(r)) \in Nat
  <2>1. PICK A \in SUBSET DocPaths : A = Done(r)'
    BY <1>2
  <2>2. PICK B \in SUBSET A : B = Done(r)
    BY <1>1, <2>1
  <2> QED
    BY <2>1, <2>2, PathsCount
<1>4. r.n.embedded + r.n.reused \in Nat
  BY DEF Runs, Counters
<1> QED
  BY <1>3, <1>4 DEF WorkSound

\* Members and vectors nobody touches.
LEMMA ListsRest ==
  ASSUME UNCHANGED <<docMembers, docVectors>>, NEW s
  PROVE  Listed(s)' = Listed(s) /\ Stored(s)' = Stored(s)
BY DEF Listed, Stored, HasVector

\* A run that has not begun, or that is over, has nothing to account for.
LEMMA FreshIsSound ==
  ASSUME NEW r \in Runs, r.at = 1, r.batch = {}, r.answers = {}, r.n = NoCounts,
         r.pc \in {"idle", "prepare", "build", "walk", "retain"}
  PROVE  RunSound(r)
<1>1. Walked(r) = {}
  BY PathsAreNumbers DEF Walked, TextsOf
<1>2. r.n.eligible + r.n.missing = 0 /\ Cardinality({}) = 0
  BY FS_EmptySet DEF NoCounts
<1>3. r.at \in 1..(Cardinality(DocPaths) + 1)
  BY PathsAreNumbers
<1>4. AnswersSound(r)
  BY DEF AnswersSound
<1> QED
  BY <1>1, <1>2, <1>3, <1>4 DEF RunSound

\* The runner that waits for a request.
LEMMA IdleIs ==
  ASSUME SourcesTyped
  PROVE  /\ IdleRunner \in Runs /\ RunSound(IdleRunner) /\ IdleRunner.pc = "idle" /\ IdleRunner.at = 1
         /\ IdleRunner.batch = {} /\ IdleRunner.answers = {} /\ IdleRunner.n = NoCounts
<1>1. SetOf(FALSE, 0) \in SnapshotNames
  BY DEF SetOf, SnapshotNames, SourcesTyped
<1>2. NoCounts \in Counters
  BY DEF NoCounts, Counters
<1>3. /\ IdleRunner \in Runs /\ IdleRunner.pc = "idle" /\ IdleRunner.at = 1
      /\ IdleRunner.batch = {} /\ IdleRunner.answers = {} /\ IdleRunner.n = NoCounts
  BY <1>1, <1>2 DEF IdleRunner, Runs, RunPoints
<1> QED
  BY <1>3, FreshIsSound

\* A runner that leaves.
LEMMA LeavesSound ==
  ASSUME SourcesTyped, RunsSound, NEW i \in Runners, runner[i].pc # "idle", LeaveRun(i), docsMode' = docsMode
  PROVE  RunsSound'
<1>1. PICK r \in Runs : r = IdleRunner
  BY IdleIs
<1>2. RunSound(r) /\ r.pc = "idle" /\ runner' = [runner EXCEPT ![i] = r]
  BY <1>1, IdleIs DEF LeaveRun
<1>3. WorkSound(r)'
  BY <1>2 DEF WorkSound
<1>4. docsMode = "daemon" => i = TheWorker
  BY OneWorker
<1> QED
  BY <1>2, <1>3, <1>4, RunnerSteps

\* What a step that leaves the sources, the search and the handoffs alone has
\* not to be asked for.
LEMMA OthersRest ==
  /\ SourcesTyped /\ UNCHANGED sourceVars => SourcesTyped' /\ docsMode' = docsMode
  /\ SearchSound /\ UNCHANGED searcher => SearchSound'
  /\ HandedSound /\ UNCHANGED <<handoffs, handed, docVectors>> => HandedSound'
BY DEF SourcesTyped, sourceVars, SearchSound, SearchIsExact, HandedSound, HasVector, Documents

\* A run that goes on to retention.
LEMMA RetainsSound ==
  ASSUME RunsSound, NEW i \in Runners, runner[i].pc \in {"walk", "publish", "build"}, docsMode' = docsMode,
         runner' = [runner EXCEPT ![i] = [runner[i] EXCEPT !.pc = "retain"]]
  PROVE  RunsSound'
<1>1. runner[i] \in Runs /\ RunSound(runner[i])
  BY DEF RunsSound, RunnersSound
<1>2. PICK r \in Runs : r = [runner[i] EXCEPT !.pc = "retain"]
  BY <1>1 DEF Runs, RunPoints
<1>3. /\ r.pc = "retain" /\ r.id = runner[i].id /\ r.at = runner[i].at
      /\ r.batch = runner[i].batch /\ r.answers = runner[i].answers
  BY <1>1, <1>2 DEF Runs
<1>4. RunSound(r)
  BY <1>1, <1>3 DEF RunSound, AnswersSound
<1>5. WorkSound(r)'
  BY <1>3 DEF WorkSound
<1>6. docsMode = "daemon" => i = TheWorker
  BY OneWorker
<1> QED
  BY <1>2, <1>4, <1>5, <1>6, RunnerSteps

\* A count of what is done is a count of what is stored.
LEMMA DoneIsStored ==
  ASSUME NEW r \in Runs, WorkSound(r), r.pc \in {"walk", "look", "embed", "keep", "store", "publish"}
  PROVE  r.n.embedded + r.n.reused <= Cardinality(Stored(r.id))
<1>1. Stored(r.id) \subseteq DocPaths /\ Done(r) \subseteq Stored(r.id)
  BY DEF Stored, Listed, Done
<1>2. /\ Cardinality(Done(r)) <= Cardinality(Stored(r.id))
      /\ Cardinality(Stored(r.id)) \in Nat /\ Cardinality(Done(r)) \in Nat
  BY <1>1, PathsCount
<1>3. r.n.embedded + r.n.reused \in Nat /\ r.n.embedded + r.n.reused <= Cardinality(Done(r))
  BY DEF Runs, Counters, WorkSound
<1> QED
  BY <1>2, <1>3

\* However a run ends, what it writes of its set is true.
LEMMA EndingSound ==
  ASSUME IndexInv, NEW i \in Runners, NEW state \in {"partial", "blocked", "superseded"},
         NEW next \in {"idle", "retain"}, EndsAs(i, state, next), docsMode' = docsMode,
         runner[i].pc \in {"walk", "look", "embed", "publish"},
         next = "retain" => runner[i].pc \in {"walk", "publish"}
  PROVE  TablesSound' /\ RunsSound' /\ UNCHANGED docVectors
<1> DEFINE r == runner[i]
           wrote == /\ ~Published(r.id)
                    /\ state = "partial" => Publishable(r.id, state, r.n)
<1>1. r \in Runs /\ r.id \in SnapshotNames /\ r.n \in Counters
  BY DEF IndexInv, RunsSound, Runs
<1>2. UNCHANGED <<docMembers, docVectors>>
  BY DEF EndsAs
<1>3. wrote \/ UNCHANGED docSets
  BY DEF EndsAs
<1>4. wrote => PutSet(r.id, state, r.n)
  BY DEF EndsAs
<1>5. \/ LeaveRun(i)
      \/ next = "retain" /\ runner' = [runner EXCEPT ![i] = [r EXCEPT !.pc = "retain"]]
  BY DEF EndsAs, LeaveRun
<1>6. TablesSound'
  <2>1. CASE UNCHANGED docSets
    BY <2>1, <1>2, TablesRest DEF IndexInv
  <2>2. CASE wrote
    <3> PICK id \in SnapshotNames : id = r.id
      BY <1>1
    <3> PICK n \in Counters : n = r.n
      BY <1>1
    <3>1. /\ SetsTyped' /\ id \in DOMAIN docSets' /\ docSets'[id] = [state |-> state, n |-> n]
          /\ \A s \in DOMAIN docSets' : s # id => s \in DOMAIN docSets /\ docSets'[s] = docSets[s]
      <4>1. PutSet(id, state, n)
        BY <1>4, <2>2
      <4>2. SetsTyped /\ state \in SetStates
        BY DEF IndexInv, TablesSound, SetStates
      <4> QED
        BY <4>1, <4>2, PutSetIs
    <3>2. Listed(id)' = Listed(id) /\ Stored(id)' = Stored(id)
      BY <1>2, ListsRest
    <3>3. ASSUME state = "partial"
          PROVE  /\ Cardinality(Listed(id)) = n.eligible
                 /\ docsMode = "daemon" => n.embedded + n.reused <= Cardinality(Stored(id))
      <4>1. Cardinality(Listed(id)) = n.eligible
        BY <2>2, <3>3, RowsCount DEF Publishable, IndexInv, TablesSound
      <4>2. ASSUME docsMode = "daemon" PROVE n.embedded + n.reused <= Cardinality(Stored(id))
        BY <4>2, OneWorker, <1>1, DoneIsStored DEF IndexInv
      <4> QED
        BY <4>1, <4>2
    <3>4. SetSound(id)'
      BY <3>1, <3>2, <3>3 DEF SetSound
    <3>5. RowsSound'
      BY <1>2 DEF IndexInv, TablesSound, RowsSound
    <3>6. \A s : Listed(s)' = Listed(s) /\ Stored(s) \subseteq Stored(s)'
      BY <1>2, ListsRest
    <3>7. SetsSound'
      BY <3>1, <3>4, <3>6, SetsKeep DEF IndexInv
    <3> QED
      BY <3>1, <3>5, <3>7 DEF TablesSound
  <2> QED
    BY <1>3, <2>1, <2>2
<1>7. RunsSound'
  BY <1>5, LeavesSound, RetainsSound DEF IndexInv
<1> QED
  BY <1>2, <1>6, <1>7

\* Runners nobody moves.
LEMMA RunsRest ==
  ASSUME RunsSound, UNCHANGED <<docsMode, runner, docMembers, docVectors>>
  PROVE  RunsSound'
<1>1. runner' \in [Runners -> Runs] /\ RunnersSound'
  BY DEF RunsSound, RunnersSound
<1>2. ASSUME NEW i \in Runners, docsMode = "daemon"
      PROVE  (IF i = TheWorker THEN WorkSound(runner[i]) ELSE runner[i].pc = "idle")'
  <2>1. PICK r \in Runs : r = runner[i] /\ r = runner'[i]
    BY DEF RunsSound
  <2>2. IF i = TheWorker THEN WorkSound(r) ELSE r.pc = "idle"
    BY <1>2, <2>1 DEF RunsSound, WorkerSound
  <2>3. i = TheWorker => WorkSound(r)'
    BY <2>2, WorkKeeps, ListsRest
  <2> QED
    BY <2>1, <2>2, <2>3 DEF WorkSound, Done
<1>3. WorkerSound'
  BY <1>2 DEF WorkerSound
<1> QED
  BY <1>1, <1>3 DEF RunsSound

\* A set that is ready has its documents as members, each with its vector.
LEMMA ReadyIs ==
  ASSUME TablesSound, NEW s \in DOMAIN docSets, Published(s)
  PROVE  /\ {<<m[2], m[3]>> : m \in Members(s)} = Documents(s)
         /\ \A d \in Documents(s) : <<s.ns, d[2], s.ns>> \in docVectors
<1>1. RowsSound /\ Listed(s) = TextsOf(s) /\ Stored(s) = Listed(s)
  BY DEF TablesSound, SetsSound, SetSound, Published
<1>2. Documents(s) = {<<p, s.tree[p]>> : p \in TextsOf(s)}
  BY DEF Documents, TextsOf
<1>3. \A m \in Members(s) : m[2] \in TextsOf(s) /\ m[3] = s.tree[m[2]]
  BY <1>1, RowsAreListed
<1>4. \A p \in TextsOf(s) : <<s, p, s.tree[p]>> \in Members(s)
  BY <1>1, RowsAreListed
<1>5. {<<m[2], m[3]>> : m \in Members(s)} = Documents(s)
  BY <1>2, <1>3, <1>4, ZenonT(60)
<1>6. ASSUME NEW p \in TextsOf(s) PROVE <<s.ns, s.tree[p], s.ns>> \in docVectors
  <2>1. PICK v \in docVectors : v[1] = s.ns /\ v[2] = s.tree[p]
    BY <1>1, <1>6 DEF Stored, HasVector
  <2> QED
    BY <1>1, <2>1 DEF RowsSound
<1>7. \A d \in Documents(s) : <<s.ns, d[2], s.ns>> \in docVectors
  BY <1>2, <1>6
<1> QED
  BY <1>5, <1>7

\* The repository and the model change under the index; nothing it holds is
\* about them.
LEMMA SourceSteps ==
  ASSUME IndexInv, EditWorktree \/ CommitWorktree \/ UpgradeModel
  PROVE  IndexInv'
<1>1. UNCHANGED <<docsMode, tableVars, handoffs, handed, runner, searcher>>
  BY DEF EditWorktree, CommitWorktree, UpgradeModel
<1>2. SourcesTyped'
  BY DEF EditWorktree, CommitWorktree, UpgradeModel, IndexInv, SourcesTyped, Trees
<1> QED
  BY <1>1, <1>2, TablesRest, RunsRest, OthersRest DEF IndexInv, tableVars

\* A search reads the members of a set that is ready.
LEMMA SearchSteps ==
  ASSUME IndexInv, SeekSet \/ LoadSet \/ AnswerSearch
  PROVE  IndexInv'
<1>1. UNCHANGED <<sourceVars, tableVars, handoffs, handed, runner>>
  BY DEF SeekSet, LoadSet, AnswerSearch
<1>2. ASSUME SeekSet PROVE SearchSound'
  <2>1. PICK id : searcher' = [pc |-> "query", id |-> id, hits |-> {}]
    BY <1>2 DEF SeekSet
  <2> QED
    BY <2>1 DEF SearchSound, SearchIsExact
<1>3. ASSUME LoadSet, Published(searcher.id),
             searcher' = [[searcher EXCEPT !.pc = "found"] EXCEPT !.hits = Members(searcher.id)]
      PROVE  SearchSound'
  BY <1>3, ReadyIs DEF IndexInv, Published, SearchSound, SearchIsExact, Documents
<1>4. (AnswerSearch \/ LoadSet) /\ searcher' = IdleSearch => SearchSound'
  BY DEF IdleSearch, SearchSound, SearchIsExact
<1>5. SearchSound'
  BY <1>2, <1>3, <1>4 DEF LoadSet, AnswerSearch
<1> QED
  BY <1>1, <1>5, TablesRest, RunsRest, OthersRest DEF IndexInv, tableVars, sourceVars

\* A step that only moves one runner, and moves it soundly.
LEMMA RunnerOnly ==
  ASSUME IndexInv, RunsSound', UNCHANGED <<sourceVars, tableVars, handoffs, handed, searcher>>
  PROVE  IndexInv'
BY TablesRest, OthersRest DEF IndexInv, tableVars

\* A run starts from nothing, for the sources of the moment.
LEMMA RequestSteps ==
  ASSUME IndexInv, NEW i \in Runners, RequestIndex(i)
  PROVE  IndexInv'
<1>1. PICK overlay \in BOOLEAN, budget \in Budgets :
        runner' = [runner EXCEPT ![i] =
                     [[[IdleRunner EXCEPT !.pc = "prepare"] EXCEPT !.id = SetOf(overlay, embedder)] EXCEPT !.budget = budget]]
  BY DEF RequestIndex
<1>2. SetOf(overlay, embedder) \in SnapshotNames
  BY DEF SetOf, SnapshotNames, IndexInv, SourcesTyped
<1>3. PICK r \in Runs :
        r = [[[IdleRunner EXCEPT !.pc = "prepare"] EXCEPT !.id = SetOf(overlay, embedder)] EXCEPT !.budget = budget]
  BY <1>2, IdleIs DEF Runs, RunPoints, IndexInv
<1>4. r.pc = "prepare" /\ r.at = 1 /\ r.batch = {} /\ r.answers = {} /\ r.n = NoCounts
  BY <1>3, IdleIs DEF Runs, IndexInv
<1>5. RunSound(r)
  BY <1>4, FreshIsSound
<1>6. WorkSound(r)'
  BY <1>4 DEF WorkSound
<1>7. UNCHANGED <<sourceVars, tableVars, handoffs, handed, searcher>> /\ (docsMode = "daemon" => i = TheWorker)
  BY DEF RequestIndex
<1>8. RunsSound'
  BY <1>1, <1>3, <1>5, <1>6, <1>7, RunnerSteps DEF IndexInv, sourceVars
<1> QED
  BY <1>7, <1>8, RunnerOnly

\* A request to stop, and a process that stops.
LEMMA StopSteps ==
  ASSUME IndexInv, NEW i \in Runners, CancelIndex(i) \/ IndexerDies(i) \/ AbandonIndex(i)
  PROVE  IndexInv'
<1>1. runner[i].pc # "idle" /\ UNCHANGED <<sourceVars, tableVars, handoffs, handed, searcher>>
  BY DEF CancelIndex, IndexerDies, AbandonIndex, At
<1>2. CASE LeaveRun(i)
  BY <1>1, <1>2, LeavesSound, RunnerOnly DEF IndexInv, sourceVars
<1>3. CASE runner' = [runner EXCEPT ![i].cancelled = TRUE]
  <2>1. runner[i] \in Runs /\ RunSound(runner[i])
    BY DEF IndexInv, RunsSound, RunnersSound
  <2>2. PICK r \in Runs : r = [runner[i] EXCEPT !.cancelled = TRUE]
    BY <2>1 DEF Runs
  <2>3. /\ r.pc = runner[i].pc /\ r.id = runner[i].id /\ r.at = runner[i].at /\ r.n = runner[i].n
        /\ r.batch = runner[i].batch /\ r.answers = runner[i].answers
    BY <2>1, <2>2 DEF Runs
  <2>4. RunSound(r)
    BY <2>1, <2>3 DEF RunSound, AnswersSound, Walked
  <2>5. docsMode = "daemon" => i = TheWorker /\ WorkSound(r)
    BY <1>1, <2>3, OneWorker DEF WorkSound, Done, IndexInv
  <2>6. docsMode = "daemon" => WorkSound(r)'
    BY <1>1, <2>5, WorkKeeps, ListsRest DEF tableVars
  <2>7. RunsSound'
    BY <1>1, <1>3, <2>2, <2>4, <2>5, <2>6, RunnerSteps DEF IndexInv, sourceVars
  <2> QED
    BY <1>1, <2>7, RunnerOnly
<1> QED
  BY <1>2, <1>3 DEF CancelIndex, IndexerDies, AbandonIndex

-----------------------------------------------------------------------------
(* The steps of a run.                                                     *)

\* A run is where it was, in the tables it has.
LEMMA RunIs ==
  ASSUME IndexInv, NEW i \in Runners
  PROVE  /\ runner[i] \in Runs /\ RunSound(runner[i]) /\ AnswersSound(runner[i])
         /\ runner[i].id \in SnapshotNames /\ runner[i].n \in Counters
BY DEF IndexInv, RunsSound, RunnersSound, RunSound, Runs

\* Preparing prunes the checkpoints of no set that can be resumed, and names
\* the set by the model that serves now.
LEMMA PrepareSteps ==
  ASSUME IndexInv, NEW i \in Runners, PrepareIndex(i)
  PROVE  IndexInv'
<1>1. /\ runner[i].pc = "prepare" /\ docsMode' = docsMode
      /\ UNCHANGED <<sourceVars, tableVars, searcher>>
  BY DEF PrepareIndex, At, sourceVars
<1>2. HandedSound'
  <2> SUFFICES ASSUME NEW h \in handed' PROVE <<h[1].ns, h[2]>> \in handoffs' /\ ~HasVector(h[1].ns, h[2])'
    BY DEF HandedSound
  <2>1. h \in handed /\ (docsMode = "daemon" => Resumable(h[1]) /\ Lists(h[1], h[2]))
    BY DEF PrepareIndex
  <2>2. <<h[1].ns, h[2]>> \in handoffs /\ ~HasVector(h[1].ns, h[2])
    BY <2>1 DEF IndexInv, HandedSound
  <2>3. ASSUME docsMode = "daemon" PROVE <<h[1].ns, h[2]>> \in PendingVectors
    <3>1. PICK m \in Members(h[1]) : m[3] = h[2]
      BY <2>1, <2>3 DEF Lists
    <3>2. m \in docMembers /\ m[1] = h[1]
      BY DEF Members
    <3> QED
      BY <2>1, <2>2, <2>3, <3>1, <3>2 DEF PendingVectors
  <2>4. <<h[1].ns, h[2]>> \in handoffs'
    BY <2>2, <2>3 DEF PrepareIndex
  <2> QED
    BY <1>1, <2>2, <2>4 DEF HasVector, tableVars
<1>3. CASE LeaveRun(i)
  BY <1>1, <1>2, <1>3, LeavesSound, TablesRest, OthersRest DEF IndexInv, tableVars
<1>4. CASE ~LeaveRun(i)
  <2>1. PICK next \in {"retain", "build"} :
          runner' = [runner EXCEPT ![i] =
             [[runner[i] EXCEPT !.id = [runner[i].id EXCEPT !.ns = embedder]] EXCEPT !.pc = next]]
    BY <1>4 DEF PrepareIndex, LeaveRun
  <2>2. [runner[i].id EXCEPT !.ns = embedder] \in SnapshotNames
    BY RunIs DEF SnapshotNames, IndexInv, SourcesTyped
  <2>3. PICK r \in Runs : r = [[runner[i] EXCEPT !.id = [runner[i].id EXCEPT !.ns = embedder]] EXCEPT !.pc = next]
    BY <2>2, RunIs DEF Runs, RunPoints
  <2>4. /\ r.pc = next /\ r.at = runner[i].at /\ r.n = runner[i].n
        /\ r.batch = runner[i].batch /\ r.answers = runner[i].answers
    BY <2>3, RunIs DEF Runs
  <2>5. r.at = 1 /\ r.batch = {} /\ r.answers = {} /\ r.n = NoCounts
    BY <1>1, <2>4, RunIs DEF RunSound, AnswersSound
  <2>6. RunSound(r)
    BY <2>4, <2>5, FreshIsSound
  <2>7. WorkSound(r)'
    BY <2>4 DEF WorkSound
  <2>8. docsMode = "daemon" => i = TheWorker
    BY <1>1, OneWorker DEF IndexInv
  <2>9. RunsSound'
    BY <1>1, <2>1, <2>3, <2>6, <2>7, <2>8, RunnerSteps DEF IndexInv
  <2> QED
    BY <1>1, <1>2, <2>9, TablesRest, OthersRest DEF IndexInv, tableVars
<1> QED
  BY <1>3, <1>4

\* A row that is building again may lose its members: nobody reads them yet.
LEMMA BuildingSound ==
  ASSUME TablesSound, NEW id \in SnapshotNames, PutSet(id, "building", NoCounts), docsMode' = docsMode,
         docMembers' \subseteq docMembers, docMembers \ Members(id) \subseteq docMembers', UNCHANGED docVectors
  PROVE  TablesSound'
<1>1. NoCounts \in Counters /\ "building" \in SetStates
  BY DEF NoCounts, Counters, SetStates
<1>2. /\ SetsTyped' /\ id \in DOMAIN docSets' /\ docSets'[id] = [state |-> "building", n |-> NoCounts]
      /\ \A s \in DOMAIN docSets' : s # id => s \in DOMAIN docSets /\ docSets'[s] = docSets[s]
  BY <1>1, PutSetIs DEF TablesSound
<1>3. RowsSound'
  BY DEF TablesSound, RowsSound
<1>4. ASSUME NEW s, s # id PROVE Listed(s)' = Listed(s) /\ Stored(s)' = Stored(s)
  BY <1>4 DEF Members, Listed, Stored, HasVector
<1>5. SetSound(id)'
  BY <1>2 DEF SetSound
<1>6. SetsSound'
  BY <1>2, <1>4, <1>5, SetsKeep
<1> QED
  BY <1>2, <1>3, <1>6 DEF TablesSound

\* Building starts from no members, and may be cut short in between.
LEMMA BuildSteps ==
  ASSUME IndexInv, NEW i \in Runners, BuildSet(i) \/ BuildDies(i)
  PROVE  IndexInv'
<1> DEFINE id == runner[i].id
<1>1. /\ runner[i].pc = "build" /\ docsMode' = docsMode
      /\ UNCHANGED <<sourceVars, docVectors, handoffs, handed, searcher>>
  BY DEF BuildSet, BuildDies, At, sourceVars, tableVars
<1>2. ASSUME Published(id), BuildSet(i) PROVE IndexInv'
  BY <1>2, <1>1, RetainsSound, RunnerOnly DEF BuildSet, IndexInv
<1>3. ASSUME ~(Published(id) /\ BuildSet(i)) PROVE IndexInv'
  <2>1. /\ PutSet(id, "building", NoCounts)
        /\ docMembers' \subseteq docMembers /\ docMembers \ Members(id) \subseteq docMembers'
    BY <1>3 DEF BuildSet, BuildDies
  <2>2. TablesSound'
    BY <1>1, <2>1, RunIs, BuildingSound DEF IndexInv
  <2>3. CASE LeaveRun(i)
    BY <1>1, <2>2, <2>3, LeavesSound, OthersRest DEF IndexInv
  <2>4. CASE runner' = [runner EXCEPT ![i] = [runner[i] EXCEPT !.pc = "walk"]]
    <3>1. PICK r \in Runs : r = [runner[i] EXCEPT !.pc = "walk"]
      BY RunIs DEF Runs, RunPoints
    <3>2. r.pc = "walk" /\ r.at = 1 /\ r.batch = {} /\ r.answers = {} /\ r.n = NoCounts
      BY <1>1, <3>1, RunIs DEF Runs, RunSound, AnswersSound
    <3>3. RunSound(r)
      BY <3>2, FreshIsSound
    <3>4. Done(r)' \subseteq DocPaths
      BY DEF Done, Stored, Listed
    <3>5. Cardinality(Done(r)') \in Nat
      BY <3>4, PathsCount
    <3>6. WorkSound(r)'
      BY <3>2, <3>5 DEF WorkSound, NoCounts
    <3>7. docsMode = "daemon" => i = TheWorker
      BY <1>1, OneWorker DEF IndexInv
    <3>8. RunsSound'
      BY <1>1, <2>4, <3>1, <3>3, <3>6, <3>7, RunnerSteps DEF IndexInv
    <3> QED
      BY <1>1, <2>2, <3>8, OthersRest DEF IndexInv
  <2> QED
    BY <1>3, <2>3, <2>4 DEF BuildSet, BuildDies
<1> QED
  BY <1>2, <1>3

\* Counting on keeps counters.
LEMMA Counting ==
  ASSUME NEW n \in Counters, NEW k \in Nat
  PROVE  /\ [n EXCEPT !.eligible = n.eligible + k] \in Counters
         /\ [n EXCEPT !.embedded = n.embedded + k] \in Counters
         /\ [n EXCEPT !.reused = n.reused + k] \in Counters
         /\ [n EXCEPT !.failed = n.failed + k] \in Counters
         /\ [n EXCEPT !.omitted = n.omitted + k] \in Counters
         /\ [n EXCEPT !.missing = n.missing + k] \in Counters
<1>1. /\ n.eligible + k \in Nat /\ n.embedded + k \in Nat /\ n.reused + k \in Nat
      /\ n.failed + k \in Nat /\ n.omitted + k \in Nat /\ n.missing + k \in Nat
  BY DEF Counters
<1> QED
  BY <1>1 DEF Counters

\* Past moves a run by one document.
LEMMA PastIs ==
  ASSUME NEW r \in Runs
  PROVE  /\ Past(r) \in Runs /\ Past(r).at = r.at + 1 /\ Past(r).pc \in {"walk", "embed"}
         /\ Past(r).id = r.id /\ Past(r).batch = r.batch /\ Past(r).answers = r.answers /\ Past(r).n = r.n
<1>1. PICK pc \in {"walk", "embed"} : Past(r) = [[r EXCEPT !.at = r.at + 1] EXCEPT !.pc = pc]
  BY DEF Past, Runs
<1>2. PICK at \in Nat : at = r.at + 1
  BY DEF Runs
<1>3. PICK x \in Runs : x = [r EXCEPT !.at = at]
  BY DEF Runs
<1>4. /\ x.at = r.at + 1 /\ x.id = r.id /\ x.batch = r.batch /\ x.answers = r.answers /\ x.n = r.n
      /\ Past(r) = [x EXCEPT !.pc = pc]
  BY <1>1, <1>2, <1>3 DEF Runs
<1> QED
  BY <1>2, <1>4 DEF Runs, RunPoints

\* The document it leaves behind is the only one it newly counts.
LEMMA WalkedPast ==
  ASSUME NEW r \in Runs, NEW q \in Runs, q.id = r.id, q.at = r.at + 1, q.pc # "look", r.at \in DocPaths
  PROVE  Cardinality(Walked(q)) = Cardinality(Walked(r)) + (IF r.pc # "look" /\ r.at \in TextsOf(r.id) THEN 1 ELSE 0)
<1>1. r.at \in Nat /\ TextsOf(r.id) \subseteq DocPaths /\ DocPaths \subseteq Nat
  BY PathsAreNumbers DEF Runs, TextsOf
<1>2. Walked(r) \subseteq DocPaths /\ Walked(q) \subseteq DocPaths
  BY <1>1 DEF Walked
<1>6. Cardinality(Walked(r)) \in Nat
  BY <1>2, PathsCount
<1>7. ASSUME NEW p \in TextsOf(r.id) PROVE p < r.at + 1 <=> (p < r.at \/ p = r.at)
  <2>1. p \in Nat /\ r.at \in Nat
    BY <1>1
  <2> QED
    BY <2>1
<1>8. Walked(q) = {p \in TextsOf(r.id) : p < r.at + 1}
  BY DEF Walked
<1>3. /\ Cardinality(Walked(r)) \in Nat
      /\ \A p \in TextsOf(r.id) : p < r.at + 1 <=> (p < r.at \/ p = r.at)
      /\ Walked(q) = {p \in TextsOf(r.id) : p < r.at + 1}
  BY <1>6, <1>7, <1>8
<1>4. CASE r.pc # "look" /\ r.at \in TextsOf(r.id)
  BY <1>1, <1>3, <1>4, <1>2, OnePathMore DEF Walked
<1>5. CASE ~(r.pc # "look" /\ r.at \in TextsOf(r.id))
  BY <1>1, <1>3, <1>5 DEF Walked
<1> QED
  BY <1>4, <1>5

\* A run that moves on with the same answers is sound if it counts what it
\* leaves behind.
LEMMA MovesOn ==
  ASSUME NEW r \in Runs, NEW q \in Runs, RunSound(r), r.pc \in {"walk", "look"}, r.at \in DocPaths,
         q.id = r.id, q.at = r.at + 1, q.pc \in {"walk", "embed"}, q.answers = r.answers,
         q.batch = r.batch \/ (r.pc = "look" /\ q.batch = r.batch \union {r.at}),
         q.n.eligible + q.n.missing =
           r.n.eligible + r.n.missing + (IF r.pc = "walk" /\ r.at \in TextsOf(r.id) THEN 1 ELSE 0)
  PROVE  RunSound(q)
<1>1. r.at \in Nat /\ r.at + 1 \in 1..(Cardinality(DocPaths) + 1) /\ TextsOf(r.id) \subseteq Nat
  BY PathsAreNumbers DEF TextsOf
<1>2. r.n.eligible + r.n.missing = Cardinality(Walked(r)) /\ AnswersSound(r)
  BY DEF RunSound
<1>3. q.n.eligible + q.n.missing = Cardinality(Walked(q))
  BY <1>2, WalkedPast
<1>4. r.answers = {}
  BY <1>2 DEF AnswersSound
<1>5. \A p \in q.batch : p \in TextsOf(q.id) /\ p < q.at
  BY <1>1, <1>2 DEF AnswersSound, RunSound
<1>6. AnswersSound(q)
  BY <1>4, <1>5 DEF AnswersSound
<1> QED
  BY <1>1, <1>3, <1>6 DEF RunSound

\* What a run adds to its count of done is a document that was not counted.
LEMMA WorkMoves ==
  ASSUME NEW r \in Runs, NEW q \in Runs, WorkSound(r), q.id = r.id,
         r.pc \in {"walk", "look", "embed", "keep", "store", "publish"},
         Listed(r.id) \subseteq Listed(r.id)', Stored(r.id) \subseteq Stored(r.id)', q.at >= r.at,
         q.pc = "look" => q.at \in Listed(r.id)',
         \A p \in q.batch : p \in Listed(r.id)' /\ (p \in r.batch \/ p >= r.at),
         \A a \in q.answers : a[1] \in Listed(r.id)' /\ (a[1] \in r.batch \/ \E b \in r.answers : b[1] = a[1]),
         \/ q.n.embedded + q.n.reused = r.n.embedded + r.n.reused
         \/ /\ q.n.embedded + q.n.reused = r.n.embedded + r.n.reused + 1
            /\ \E p \in Stored(r.id)' : /\ p < q.at /\ p \notin q.batch /\ \A a \in q.answers : a[1] # p
                                        /\ p >= r.at \/ \E a \in r.answers : a[1] = p
  PROVE  WorkSound(q)'
<1>1. Done(r) \subseteq Done(q)'
  <2> SUFFICES ASSUME NEW p \in Done(r) PROVE p \in Done(q)'
    OBVIOUS
  <2>1. p \in Stored(r.id)' /\ p < r.at /\ p \notin r.batch /\ (\A a \in r.answers : a[1] # p) /\ p \in Nat
    BY PathsAreNumbers DEF Done, Stored, Listed
  <2>2. p < q.at /\ ~(p >= r.at)
    BY <2>1 DEF Runs
  <2>3. p \notin q.batch /\ \A a \in q.answers : a[1] # p
    BY <2>1, <2>2
  <2> QED
    BY <2>1, <2>2, <2>3 DEF Done
<1>2. Done(q)' \subseteq DocPaths
  BY DEF Done, Stored, Listed
<1>3. PICK A \in SUBSET DocPaths : A = Done(q)'
  BY <1>2
<1>4. PICK B \in SUBSET A : B = Done(r)
  BY <1>1, <1>3
<1>5. Cardinality(B) <= Cardinality(A) /\ Cardinality(A) \in Nat /\ Cardinality(B) \in Nat
  BY PathsCount
<1>6. r.n.embedded + r.n.reused <= Cardinality(B) /\ r.n.embedded + r.n.reused \in Nat
  BY <1>4 DEF WorkSound, Runs, Counters
<1>7. ASSUME NEW p \in Stored(r.id)', p < q.at, p \notin q.batch, \A a \in q.answers : a[1] # p,
             p >= r.at \/ \E a \in r.answers : a[1] = p
      PROVE  Cardinality(B) + 1 <= Cardinality(A)
  <2>1. p \in A
    BY <1>3, <1>7 DEF Done
  <2>2. p \notin B
    BY <1>4, PathsAreNumbers, <1>7 DEF Done, Stored, Listed, Runs
  <2>3. PICK C \in SUBSET A : C = B \union {p}
    BY <2>1
  <2>4. Cardinality(C) = Cardinality(B) + 1 /\ Cardinality(C) <= Cardinality(A)
    BY <2>2, <2>3, OnePathMore, PathsCount
  <2> QED
    BY <2>4, <1>5
<1>8. q.n.embedded + q.n.reused <= Cardinality(A)
  BY <1>5, <1>6, <1>7
<1>9. q.batch \subseteq Listed(q.id)' /\ \A a \in q.answers : a[1] \in Listed(q.id)'
  OBVIOUS
<1> QED
  BY <1>3, <1>8, <1>9 DEF WorkSound

\* One vector more, of the namespace it is for.
LEMMA VectorAdded ==
  ASSUME TablesSound, NEW ns, NEW body, UNCHANGED <<docsMode, docSets, docMembers>>,
         docVectors' \in {docVectors, docVectors \union {<<ns, body, ns>>}}
  PROVE  TablesSound' /\ \A s : Listed(s)' = Listed(s) /\ Stored(s) \subseteq Stored(s)'
<1>1. \A s : Listed(s)' = Listed(s) /\ Stored(s) \subseteq Stored(s)'
  BY DEF Listed, Stored, HasVector
<1>2. RowsSound'
  BY DEF TablesSound, RowsSound
<1>3. SetsTyped'
  BY DEF TablesSound, SetsTyped
<1>4. SetsSound'
  BY <1>1, SetKeeps DEF SetsSound
<1> QED
  BY <1>1, <1>2, <1>3, <1>4 DEF TablesSound

\* One row more, of a set that is building.
LEMMA MemberAdded ==
  ASSUME TablesSound, NEW id \in SnapshotNames, NEW p \in TextsOf(id), Building(id),
         UNCHANGED <<docsMode, docSets, docVectors>>, docMembers' = docMembers \union {<<id, p, id.tree[p]>>}
  PROVE  /\ TablesSound' /\ p \in Listed(id)'
         /\ Listed(id) \subseteq Listed(id)' /\ Stored(id) \subseteq Stored(id)'
<1>1. Listed(id) \subseteq Listed(id)' /\ Stored(id) \subseteq Stored(id)' /\ p \in Listed(id)'
  BY DEF Listed, Stored, HasVector, TextsOf
<1>2. RowsSound'
  BY DEF TablesSound, RowsSound
<1>3. SetsTyped'
  BY DEF TablesSound, SetsTyped
<1>4. \A s : s # id => Listed(s)' = Listed(s) /\ Stored(s) \subseteq Stored(s)'
  BY DEF Listed, Stored, HasVector
<1>5. SetSound(id)'
  BY DEF SetSound, Building
<1>6. SetsSound'
  BY <1>4, <1>5, SetsKeep
<1> QED
  BY <1>1, <1>2, <1>3, <1>6 DEF TablesSound

\* Sets that go, with their rows and the vectors nobody lists any more.
LEMMA SetsDropped ==
  ASSUME TablesSound, NEW gone, DropSets(gone), docsMode' = docsMode
  PROVE  TablesSound'
<1>1. /\ DOMAIN docSets' = DOMAIN docSets \ gone
      /\ \A s \in DOMAIN docSets' : docSets'[s] = docSets[s]
      /\ docMembers' = {m \in docMembers : m[1] \notin gone}
      /\ docVectors' = {v \in docVectors : \E m \in docMembers' : m[3] = v[2]}
  BY DEF DropSets, MembersWithout, VectorsWithout
<1>2. RowsSound'
  BY <1>1 DEF TablesSound, RowsSound
<1>3. SetsTyped'
  BY <1>1 DEF TablesSound, SetsTyped
<1>4. ASSUME NEW s, s \notin gone PROVE Listed(s)' = Listed(s) /\ Stored(s) \subseteq Stored(s)'
  <2>1. \A p : <<s, p, s.tree[p]>> \in docMembers' <=> <<s, p, s.tree[p]>> \in docMembers
    BY <1>1, <1>4
  <2>2. Listed(s)' = Listed(s)
    BY <2>1 DEF Listed
  <2>3. ASSUME NEW p \in Stored(s) PROVE p \in Stored(s)'
    <3>1. <<s, p, s.tree[p]>> \in docMembers' /\ p \in Listed(s)'
      BY <2>1, <2>2 DEF Stored, Listed
    <3>2. PICK v \in docVectors : v[1] = s.ns /\ v[2] = s.tree[p]
      BY DEF Stored, HasVector
    <3>3. v \in docVectors'
      BY <1>1, <3>1, <3>2
    <3> QED
      BY <3>1, <3>2, <3>3 DEF Stored, HasVector
  <2> QED
    BY <2>2, <2>3
<1>5. SetsSound'
  BY <1>1, <1>4, SetKeeps DEF SetsSound
<1> QED
  BY <1>2, <1>3, <1>5 DEF TablesSound

\* At the end of the walk every document was passed.
LEMMA WalkEndSteps ==
  ASSUME IndexInv, NEW i \in Runners, WalkEnds(i)
  PROVE  IndexInv'
<1>1. /\ runner[i].pc = "walk" /\ runner[i].at \notin DocPaths
      /\ UNCHANGED <<sourceVars, tableVars, handoffs, handed, searcher>>
  BY DEF WalkEnds, At
<1>2. PICK pc \in {"publish", "embed"} : runner' = [runner EXCEPT ![i] = [runner[i] EXCEPT !.pc = pc]]
  BY DEF WalkEnds, Step
<1>3. PICK r \in Runs : r = [runner[i] EXCEPT !.pc = pc]
  BY RunIs DEF Runs, RunPoints
<1>4. /\ r.pc = pc /\ r.id = runner[i].id /\ r.at = runner[i].at /\ r.n = runner[i].n
      /\ r.batch = runner[i].batch /\ r.answers = runner[i].answers
  BY <1>3, RunIs DEF Runs
<1>5. RunSound(r)
  BY <1>1, <1>4, RunIs DEF RunSound, AnswersSound, Walked
<1>6. docsMode = "daemon" => i = TheWorker /\ WorkSound(r)'
  BY <1>1, OneWorker, <1>4, WorkKeeps, ListsRest DEF IndexInv, WorkSound, Done, tableVars
<1>7. RunsSound'
  BY <1>1, <1>2, <1>3, <1>5, <1>6, RunnerSteps DEF IndexInv, sourceVars
<1> QED
  BY <1>1, <1>7, RunnerOnly

\* A step that ends the run and touches nothing else.
LEMMA EndSteps ==
  ASSUME IndexInv, NEW i \in Runners, NEW state \in {"partial", "blocked", "superseded"},
         NEW next \in {"idle", "retain"}, EndsAs(i, state, next),
         UNCHANGED <<sourceVars, handoffs, handed, searcher>>,
         runner[i].pc \in {"walk", "look", "embed", "publish"},
         next = "retain" => runner[i].pc \in {"walk", "publish"}
  PROVE  IndexInv'
<1>1. TablesSound' /\ RunsSound' /\ UNCHANGED docVectors
  BY EndingSound DEF sourceVars
<1> QED
  BY <1>1, OthersRest DEF IndexInv

\* A run that is interrupted.
LEMMA InterruptSteps ==
  ASSUME IndexInv, NEW i \in Runners, StopIndex(i)
  PROVE  IndexInv'
<1>1. Interrupted(i) \in {"partial", "blocked"}
  BY DEF Interrupted
<1> QED
  BY <1>1, EndSteps DEF StopIndex

\* One document of the walk.
LEMMA WalkSteps ==
  ASSUME IndexInv, NEW i \in Runners, WalkDocument(i)
  PROVE  IndexInv'
<1> PICK r \in Runs : r = runner[i]
  BY RunIs
<1> DEFINE body == r.id.tree[r.at]
<1>1. r.pc = "walk" /\ r.at \in DocPaths /\ UNCHANGED <<sourceVars, handoffs, handed, searcher>>
  BY DEF WalkDocument, At
<1>2. r \in Runs /\ RunSound(r) /\ r.id \in SnapshotNames /\ r.n \in Counters
  BY RunIs
<1>3. docsMode = "daemon" => i = TheWorker /\ WorkSound(r)
  BY <1>1, OneWorker DEF IndexInv
<1>4. body \in Texts <=> r.at \in TextsOf(r.id)
  BY <1>1 DEF TextsOf
<1>5. ASSUME NEW q \in Runs, Step(i, q), RunSound(q), q.id = r.id, q.at = r.at + 1, q.batch = r.batch,
             q.answers = r.answers, q.pc \in {"walk", "embed"},
             q.n.embedded = r.n.embedded, q.n.reused = r.n.reused,
             UNCHANGED <<docSets, docMembers, docVectors>>
      PROVE  IndexInv'
  <2>1. ASSUME docsMode = "daemon" PROVE WorkSound(q)'
    <3>1. WorkSound(r)
      BY <1>3, <2>1
    <3>2. Listed(r.id)' = Listed(r.id) /\ Stored(r.id)' = Stored(r.id)
      BY <1>5, ListsRest
    <3>3. /\ \A p \in q.batch : p \in Listed(r.id)
          /\ \A a \in q.answers : a[1] \in Listed(r.id)
      BY <1>1, <1>5, <3>1 DEF WorkSound
    <3>4. q.at >= r.at
      BY <1>2, <1>5 DEF Runs
    <3> QED
      BY <1>1, <1>2, <1>5, <3>1, <3>2, <3>3, <3>4, WorkMoves
  <2>2. RunsSound'
    BY <1>1, <1>3, <1>5, <2>1, RunnerSteps DEF IndexInv, sourceVars, Step
  <2>3. TablesSound'
    BY <1>1, <1>5, TablesRest DEF IndexInv, sourceVars
  <2> QED
    BY <1>1, <1>5, <2>2, <2>3, OthersRest DEF IndexInv
<1>6. CASE Step(i, [r EXCEPT !.at = @ + 1]) /\ body = NoDoc /\ UNCHANGED tableVars
  <2>1. PICK at \in Nat : at = r.at + 1
    BY <1>2 DEF Runs
  <2>2. PICK q \in Runs : q = [r EXCEPT !.at = at]
    BY <1>2 DEF Runs
  <2>3. /\ q.id = r.id /\ q.at = r.at + 1 /\ q.batch = r.batch /\ q.answers = r.answers /\ q.pc = "walk"
        /\ q.n = r.n
    BY <1>1, <1>2, <2>1, <2>2 DEF Runs
  <2>4. r.at \notin TextsOf(r.id)
    BY <1>4, <1>6, DocsIndexAssumption
  <2>5. r.n.eligible + r.n.missing \in Nat
    BY <1>2 DEF Counters
  <2>6. RunSound(q)
    BY <1>1, <1>2, <2>3, <2>4, <2>5, MovesOn
  <2> QED
    BY <1>5, <1>6, <2>1, <2>2, <2>3, <2>6 DEF tableVars
<1>7. ASSUME NEW lost \in {0, 1}, Omit(i, lost), lost = IF body \in Texts THEN 1 ELSE 0
      PROVE  IndexInv'
  <2>1. CASE EndsAs(i, "blocked", "idle")
    BY <1>1, <2>1, EndSteps
  <2>2. CASE Building(r.id)
    <3>1. PICK n \in Counters : n = [[r.n EXCEPT !.omitted = r.n.omitted + 1] EXCEPT !.missing = r.n.missing + lost]
      <4>1. PICK m \in Counters : m = [r.n EXCEPT !.omitted = r.n.omitted + 1]
        BY <1>2, Counting
      <4>2. m.missing = r.n.missing
        BY <1>2, <4>1 DEF Counters
      <4>3. lost \in Nat
        OBVIOUS
      <4>4. [m EXCEPT !.missing = m.missing + lost] \in Counters
        BY <4>3, Counting, ZenonT(60)
      <4> QED
        BY <4>1, <4>2, <4>4
    <3>2. PICK x \in Runs : x = [r EXCEPT !.n = n]
      BY <1>2 DEF Runs
    <3>3. x = [[r EXCEPT !.n.omitted = @ + 1] EXCEPT !.n.missing = @ + lost]
      BY <1>2, <3>1, <3>2 DEF Runs, Counters
    <3>4. x.id = r.id /\ x.at = r.at /\ x.batch = r.batch /\ x.answers = r.answers /\ x.n = n
      BY <1>2, <3>2 DEF Runs
    <3>5. PICK q \in Runs : q = Past(x)
      BY PastIs
    <3>6. /\ q.id = r.id /\ q.at = r.at + 1 /\ q.batch = r.batch /\ q.answers = r.answers
          /\ q.n = n /\ q.pc \in {"walk", "embed"}
      BY <3>4, <3>5, PastIs
    <3>7. /\ n.eligible = r.n.eligible /\ n.missing = r.n.missing + lost
          /\ n.embedded = r.n.embedded /\ n.reused = r.n.reused
      BY <1>2, <3>1 DEF Counters
    <3>8. n.eligible + n.missing = r.n.eligible + r.n.missing + (IF r.pc = "walk" /\ r.at \in TextsOf(r.id) THEN 1 ELSE 0)
      BY <1>1, <1>2, <1>4, <1>7, <3>7 DEF Counters
    <3>9. RunSound(q)
      BY <1>1, <1>2, <3>6, <3>8, MovesOn
    <3>10. Step(i, q) /\ UNCHANGED <<docSets, docMembers, docVectors>>
      BY <1>7, <2>2, <3>3, <3>5 DEF Omit
    <3> QED
      BY <1>5, <3>6, <3>7, <3>9, <3>10
  <2> QED
    BY <1>7, <2>1, <2>2 DEF Omit
<1>8. CASE body \in Texts /\ Building(r.id) /\ docMembers' = docMembers \union {<<r.id, r.at, body>>}
           /\ Step(i, [r EXCEPT !.pc = "look", !.n.eligible = @ + 1]) /\ UNCHANGED <<docSets, docVectors>>
  <2>1. PICK n \in Counters : n = [r.n EXCEPT !.eligible = r.n.eligible + 1]
    BY <1>2, Counting
  <2>2. PICK q \in Runs : q = [[r EXCEPT !.pc = "look"] EXCEPT !.n = n]
    BY <1>2 DEF Runs, RunPoints
  <2>3. /\ q.id = r.id /\ q.at = r.at /\ q.batch = r.batch /\ q.answers = r.answers /\ q.pc = "look" /\ q.n = n
        /\ q = [r EXCEPT !.pc = "look", !.n.eligible = @ + 1]
    BY <1>2, <2>1, <2>2 DEF Runs, Counters
  <2>4. /\ n.eligible = r.n.eligible + 1 /\ n.missing = r.n.missing
        /\ n.embedded = r.n.embedded /\ n.reused = r.n.reused
    BY <1>2, <2>1 DEF Counters
  <2>5. Walked(q) = Walked(r) \union {r.at} /\ r.at \notin Walked(r) /\ Walked(r) \subseteq DocPaths
    BY <1>4, <1>8, PathsAreNumbers, <1>1, <2>3 DEF TextsOf, Walked
  <2>6. q.n.eligible + q.n.missing = Cardinality(Walked(q))
    BY <1>1, <2>5, OnePathMore, <1>2, <2>3, <2>4 DEF RunSound, Counters
  <2>7. RunSound(q)
    BY <1>1, <1>2, <1>4, <1>8, <2>3, <2>6 DEF RunSound, AnswersSound
  <2>8. /\ TablesSound' /\ r.at \in Listed(r.id)'
        /\ Listed(r.id) \subseteq Listed(r.id)' /\ Stored(r.id) \subseteq Stored(r.id)'
    <3> PICK id \in SnapshotNames : id = r.id
      BY <1>2
    <3> PICK p \in TextsOf(id) : p = r.at
      BY <1>4, <1>8
    <3> QED
      BY <1>1, <1>8, MemberAdded DEF IndexInv, sourceVars
  <2>9. ASSUME docsMode = "daemon" PROVE WorkSound(q)'
    <3>1. WorkSound(r)
      BY <1>3, <2>9
    <3>2. /\ \A p \in q.batch : p \in Listed(r.id)'
          /\ \A a \in q.answers : a[1] \in Listed(r.id)'
      BY <1>1, <2>3, <2>8, <3>1 DEF WorkSound
    <3>3. q.at >= r.at
      BY <1>2, <2>3 DEF Runs
    <3> QED
      BY <1>1, <1>2, <2>3, <2>4, <2>8, <3>1, <3>2, <3>3, WorkMoves
  <2>10. RunsSound'
    BY <1>1, <1>3, <1>8, <2>3, <2>7, <2>9, RunnerSteps DEF IndexInv, sourceVars, Step
  <2> QED
    BY <1>1, <1>8, <2>8, <2>10, OthersRest DEF IndexInv
<1>9. OtherDoc \notin Texts
  BY DocsIndexAssumption
<1>10. \/ Step(i, [r EXCEPT !.at = @ + 1]) /\ body = NoDoc /\ UNCHANGED tableVars
       \/ EndsAs(i, "superseded", "retain") \/ EndsAs(i, "blocked", "idle")
       \/ body = OtherDoc /\ Omit(i, 0)
       \/ body \in Texts /\ Omit(i, 1)
       \/ /\ body \in Texts /\ Building(r.id) /\ docMembers' = docMembers \union {<<r.id, r.at, body>>}
          /\ Step(i, [r EXCEPT !.pc = "look", !.n.eligible = @ + 1]) /\ UNCHANGED <<docSets, docVectors>>
  BY DEF WalkDocument
<1> QED
  BY <1>1, <1>6, <1>7, <1>8, <1>9, <1>10, EndSteps

\* A handoff is taken out with what was owed for it.
LEMMA TakenOut ==
  ASSUME HandedSound, NEW key, handoffs' \in {handoffs \ {key}, handoffs}, handed' = Undelivered(key),
         \A ns, body : HasVector(ns, body)' => HasVector(ns, body) \/ <<ns, body>> = key
  PROVE  HandedSound'
<1> SUFFICES ASSUME NEW h \in handed' PROVE <<h[1].ns, h[2]>> \in handoffs' /\ ~HasVector(h[1].ns, h[2])'
  BY DEF HandedSound
<1>1. h \in handed /\ <<h[1].ns, h[2]>> # key
  BY DEF Undelivered
<1>2. <<h[1].ns, h[2]>> \in handoffs /\ ~HasVector(h[1].ns, h[2])
  BY <1>1 DEF HandedSound
<1> QED
  BY <1>1, <1>2

\* The vector of one document is looked up.
LEMMA LookSteps ==
  ASSUME IndexInv, NEW i \in Runners, LookUp(i)
  PROVE  IndexInv'
<1> PICK r \in Runs : r = runner[i]
  BY RunIs
<1> DEFINE body == r.id.tree[r.at]
           key == <<r.id.ns, body>>
<1>1. r.pc = "look" /\ UNCHANGED <<sourceVars, searcher>>
  BY DEF LookUp, At
<1>2. RunSound(r) /\ r.id \in SnapshotNames /\ r.n \in Counters /\ r.at \in TextsOf(r.id) /\ r.at \in DocPaths
  BY <1>1, RunIs DEF RunSound, TextsOf
<1>3. docsMode = "daemon" => i = TheWorker /\ WorkSound(r)
  BY <1>1, OneWorker DEF IndexInv
<1>4. r.at \in Nat /\ r.n.eligible + r.n.missing \in Nat
  BY <1>2 DEF Runs, Counters
<1>5. ASSUME NEW x \in Runs, x.id = r.id, x.at = r.at, x.answers = r.answers, x.pc = "look",
             x.batch \in {r.batch, r.batch \union {r.at}},
             x.n.eligible = r.n.eligible, x.n.missing = r.n.missing,
             NEW q \in Runs, q.at = r.at + 1, q.pc \in {"walk", "embed"}, q.id = x.id, q.batch = x.batch,
             q.answers = x.answers, q.n = x.n, Step(i, q),
             Listed(r.id)' = Listed(r.id), Stored(r.id) \subseteq Stored(r.id)',
             \/ q.n.embedded + q.n.reused = r.n.embedded + r.n.reused
             \/ /\ q.n.embedded + q.n.reused = r.n.embedded + r.n.reused + 1 /\ q.batch = r.batch
                /\ docsMode = "daemon" => r.at \in Stored(r.id)'
      PROVE  RunsSound'
  <2>1. RunSound(q)
    BY <1>1, <1>2, <1>4, <1>5, MovesOn
  <2>2. \A a \in r.answers : FALSE
    BY <1>1, <1>2 DEF RunSound, AnswersSound
  <2>3. r.at \notin r.batch
    BY <1>2, <1>4 DEF RunSound, AnswersSound
  <2>4. ASSUME docsMode = "daemon" PROVE WorkSound(q)'
    <3>1. WorkSound(r) /\ r.batch \subseteq Listed(r.id) /\ r.at \in Listed(r.id)
      BY <1>1, <1>3, <2>4 DEF WorkSound
    <3>2. \A p \in q.batch : p \in Listed(r.id)' /\ (p \in r.batch \/ p >= r.at)
      BY <1>4, <1>5, <3>1
    <3>3. q.at >= r.at /\ r.at < q.at /\ r.at >= r.at
      BY <1>4, <1>5
    <3>4. q.answers = {} /\ q.id = r.id
      BY <1>5, <2>2
    <3>5. \/ q.n.embedded + q.n.reused = r.n.embedded + r.n.reused
          \/ /\ q.n.embedded + q.n.reused = r.n.embedded + r.n.reused + 1
             /\ \E p \in Stored(r.id)' : /\ p < q.at /\ p \notin q.batch /\ \A a \in q.answers : a[1] # p
                                         /\ p >= r.at \/ \E a \in r.answers : a[1] = p
      BY <1>5, <2>3, <2>4, <3>3, <3>4
    <3> QED
      BY <1>1, <1>5, <3>1, <3>2, <3>3, <3>4, <3>5, WorkMoves
  <2> QED
    BY <1>1, <1>3, <1>5, <2>1, <2>4, RunnerSteps DEF IndexInv, sourceVars, Step
<1>6. ASSUME HasVector(key[1], key[2]), Step(i, Past([r EXCEPT !.n.reused = @ + 1])),
             handoffs' = handoffs \ {key}, handed' = Undelivered(key), UNCHANGED tableVars
      PROVE  IndexInv'
  <2>1. PICK n \in Counters : n = [r.n EXCEPT !.reused = r.n.reused + 1]
    BY <1>2, Counting
  <2>2. PICK x \in Runs : x = [r EXCEPT !.n = n]
    BY DEF Runs
  <2>3. x = [r EXCEPT !.n.reused = @ + 1]
    BY <2>1, <2>2 DEF Runs
  <2>4. x.id = r.id /\ x.at = r.at /\ x.batch = r.batch /\ x.answers = r.answers /\ x.n = n /\ x.pc = "look"
    BY <1>1, <2>2 DEF Runs
  <2>5. PICK q \in Runs : q = Past(x)
    BY PastIs
  <2>6. /\ q.at = r.at + 1 /\ q.pc \in {"walk", "embed"} /\ q.id = x.id /\ q.batch = x.batch
        /\ q.answers = x.answers /\ q.n = x.n
    BY <2>4, <2>5, PastIs
  <2>7. /\ n.eligible = r.n.eligible /\ n.missing = r.n.missing
        /\ n.embedded + n.reused = r.n.embedded + r.n.reused + 1
    BY <1>2, <2>1 DEF Counters
  <2>8. Listed(r.id)' = Listed(r.id) /\ Stored(r.id)' = Stored(r.id)
    BY <1>6, ListsRest DEF tableVars
  <2>9. docsMode = "daemon" => r.at \in Stored(r.id)
    BY <1>1, <1>3, <1>6 DEF WorkSound, Stored
  <2>10. Step(i, q)
    BY <1>6, <2>3, <2>5
  <2>11. RunsSound'
    BY <1>5, <2>4, <2>6, <2>7, <2>8, <2>9, <2>10
  <2>12. HandedSound'
    BY <1>6, TakenOut DEF IndexInv, tableVars, HasVector
  <2> QED
    BY <1>1, <1>6, <2>11, <2>12, OthersRest, TablesRest DEF IndexInv, tableVars
<1>7. ASSUME docVectors' = docVectors \union {<<key[1], key[2], key[1]>>},
             Step(i, Past([r EXCEPT !.n.embedded = @ + 1])),
             handoffs' = handoffs \ {key}, handed' = Undelivered(key), UNCHANGED <<docSets, docMembers>>
      PROVE  IndexInv'
  <2>1. PICK n \in Counters : n = [r.n EXCEPT !.embedded = r.n.embedded + 1]
    BY <1>2, Counting
  <2>2. PICK x \in Runs : x = [r EXCEPT !.n = n]
    BY DEF Runs
  <2>3. x = [r EXCEPT !.n.embedded = @ + 1]
    BY <2>1, <2>2 DEF Runs
  <2>4. x.id = r.id /\ x.at = r.at /\ x.batch = r.batch /\ x.answers = r.answers /\ x.n = n /\ x.pc = "look"
    BY <1>1, <2>2 DEF Runs
  <2>5. PICK q \in Runs : q = Past(x)
    BY PastIs
  <2>6. /\ q.at = r.at + 1 /\ q.pc \in {"walk", "embed"} /\ q.id = x.id /\ q.batch = x.batch
        /\ q.answers = x.answers /\ q.n = x.n
    BY <2>4, <2>5, PastIs
  <2>7. /\ n.eligible = r.n.eligible /\ n.missing = r.n.missing
        /\ n.embedded + n.reused = r.n.embedded + r.n.reused + 1
    BY <1>2, <2>1 DEF Counters
  <2>8. TablesSound' /\ Listed(r.id)' = Listed(r.id) /\ Stored(r.id) \subseteq Stored(r.id)'
    BY <1>1, <1>7, VectorAdded DEF IndexInv, sourceVars
  <2>9. docsMode = "daemon" => r.at \in Stored(r.id)'
    <3>1. PICK v \in docVectors' : v = <<r.id.ns, r.id.tree[r.at], r.id.ns>>
      BY <1>7
    <3> QED
      BY <1>1, <1>3, <2>8, <3>1 DEF WorkSound, Stored, HasVector
  <2>10. Step(i, q)
    BY <1>7, <2>3, <2>5
  <2>11. RunsSound'
    BY <1>5, <2>4, <2>6, <2>7, <2>8, <2>9, <2>10
  <2>12. \A ns, text : HasVector(ns, text)' => HasVector(ns, text) \/ <<ns, text>> = key
    BY <1>7 DEF HasVector
  <2>13. HandedSound'
    BY <1>7, <2>12, TakenOut DEF IndexInv
  <2> QED
    BY <1>1, <2>8, <2>11, <2>13, OthersRest DEF IndexInv
<1>8. ASSUME Step(i, [r EXCEPT !.n.failed = @ + 1, !.at = @ + 1, !.pc = "walk"]),
             UNCHANGED <<tableVars, handoffs, handed>>
      PROVE  IndexInv'
  <2>1. PICK n \in Counters : n = [r.n EXCEPT !.failed = r.n.failed + 1]
    BY <1>2, Counting
  <2>2. PICK at \in Nat : at = r.at + 1
    BY <1>4
  <2>3. PICK x \in Runs : x = [r EXCEPT !.n = n]
    BY DEF Runs
  <2>4. x.id = r.id /\ x.at = r.at /\ x.batch = r.batch /\ x.answers = r.answers /\ x.n = n /\ x.pc = "look"
    BY <1>1, <2>3 DEF Runs
  <2>5. PICK q \in Runs : q = [[x EXCEPT !.at = at] EXCEPT !.pc = "walk"]
    BY DEF Runs, RunPoints
  <2>6. /\ q.at = r.at + 1 /\ q.pc = "walk" /\ q.id = x.id /\ q.batch = x.batch
        /\ q.answers = x.answers /\ q.n = x.n
    BY <2>2, <2>5 DEF Runs
  <2>7. q = [r EXCEPT !.n.failed = @ + 1, !.at = @ + 1, !.pc = "walk"]
    BY <2>1, <2>2, <2>3, <2>5 DEF Runs
  <2>8. /\ n.eligible = r.n.eligible /\ n.missing = r.n.missing
        /\ n.embedded + n.reused = r.n.embedded + r.n.reused
    BY <1>2, <2>1 DEF Counters
  <2>9. Listed(r.id)' = Listed(r.id) /\ Stored(r.id)' = Stored(r.id)
    BY <1>8, ListsRest DEF tableVars
  <2>10. RunsSound'
    BY <1>5, <1>8, <2>4, <2>6, <2>7, <2>8, <2>9
  <2> QED
    BY <1>1, <1>8, <2>10, RunnerOnly
<1>9. ASSUME Step(i, Past([r EXCEPT !.tried = @ + 1, !.batch = @ \union {r.at}])),
             UNCHANGED <<tableVars, handoffs, handed>>
      PROVE  IndexInv'
  <2>1. PICK tried \in Nat : tried = r.tried + 1
    BY DEF Runs
  <2>2. PICK batch \in SUBSET DocPaths : batch = r.batch \union {r.at}
    BY <1>2 DEF Runs
  <2>3. PICK x \in Runs : x = [[r EXCEPT !.tried = tried] EXCEPT !.batch = batch]
    BY DEF Runs
  <2>4. /\ x.id = r.id /\ x.at = r.at /\ x.batch = batch /\ x.answers = r.answers /\ x.n = r.n /\ x.pc = "look"
    BY <1>1, <2>3 DEF Runs
  <2>5. x = [r EXCEPT !.tried = @ + 1, !.batch = @ \union {r.at}]
    BY <2>1, <2>2, <2>3 DEF Runs
  <2>6. PICK q \in Runs : q = Past(x)
    BY PastIs
  <2>7. /\ q.at = r.at + 1 /\ q.pc \in {"walk", "embed"} /\ q.id = x.id /\ q.batch = x.batch
        /\ q.answers = x.answers /\ q.n = x.n
    BY <2>4, <2>6, PastIs
  <2>8. Listed(r.id)' = Listed(r.id) /\ Stored(r.id)' = Stored(r.id)
    BY <1>9, ListsRest DEF tableVars
  <2>9. Step(i, q)
    BY <1>9, <2>5, <2>6
  <2>10. RunsSound'
    BY <1>5, <2>2, <2>4, <2>7, <2>8, <2>9
  <2> QED
    BY <1>1, <1>9, <2>10, RunnerOnly
<1>10. CASE EndsAs(i, "blocked", "idle") /\ UNCHANGED <<handoffs, handed>>
  BY <1>1, <1>10, EndSteps
<1>11. \/ /\ HasVector(key[1], key[2]) /\ Step(i, Past([r EXCEPT !.n.reused = @ + 1]))
          /\ handoffs' = handoffs \ {key} /\ handed' = Undelivered(key) /\ UNCHANGED tableVars
       \/ /\ docVectors' = docVectors \union {<<key[1], key[2], key[1]>>}
          /\ Step(i, Past([r EXCEPT !.n.embedded = @ + 1]))
          /\ handoffs' = handoffs \ {key} /\ handed' = Undelivered(key) /\ UNCHANGED <<docSets, docMembers>>
       \/ EndsAs(i, "blocked", "idle") /\ UNCHANGED <<handoffs, handed>>
       \/ /\ \/ Step(i, [r EXCEPT !.n.failed = @ + 1, !.at = @ + 1, !.pc = "walk"])
             \/ Step(i, Past([r EXCEPT !.tried = @ + 1, !.batch = @ \union {r.at}]))
          /\ UNCHANGED <<tableVars, handoffs, handed>>
  BY DEF LookUp
<1> QED
  BY <1>6, <1>7, <1>8, <1>9, <1>10, <1>11

\* The provider answers for the model that was asked for.
LEMMA AskSteps ==
  ASSUME IndexInv, NEW i \in Runners, AskProvider(i)
  PROVE  IndexInv'
<1> PICK r \in Runs : r = runner[i]
  BY RunIs
<1>1. r.pc = "embed" /\ UNCHANGED <<sourceVars, handoffs, handed, searcher>>
  BY DEF AskProvider, At
<1>2. RunSound(r) /\ AnswersSound(r) /\ r.n \in Counters
  BY RunIs
<1>3. docsMode = "daemon" => i = TheWorker /\ WorkSound(r)
  BY <1>1, OneWorker DEF IndexInv
<1>4. CASE EndsAs(i, "partial", "idle")
  BY <1>1, <1>4, EndSteps
<1>5. ASSUME NEW answered \in SUBSET r.batch, embedder = r.id.ns, UNCHANGED tableVars,
             Step(i, [r EXCEPT !.batch = {}, !.answers = {<<p, embedder>> : p \in answered},
                               !.n.failed = @ + Cardinality(r.batch \ answered),
                               !.pc = IF answered = {} THEN "walk" ELSE "keep"])
      PROVE  IndexInv'
  <2>1. r.batch \in SUBSET DocPaths /\ r.batch \ answered \in SUBSET DocPaths
    BY DEF Runs
  <2>2. PICK lost \in Nat : lost = Cardinality(r.batch \ answered)
    BY <2>1, PathsCount
  <2>3. PICK n \in Counters : n = [r.n EXCEPT !.failed = r.n.failed + lost]
    BY <1>2, Counting
  <2>4. PICK answers \in SUBSET (DocPaths \X Nat) : answers = {<<p, embedder>> : p \in answered}
    <3>1. embedder \in Nat /\ \A p \in answered : p \in DocPaths
      BY <2>1 DEF IndexInv, SourcesTyped
    <3>2. {<<p, embedder>> : p \in answered} \subseteq DocPaths \X Nat
      BY <3>1
    <3> QED
      BY <3>2
  <2>5. PICK pc \in {"walk", "keep"} : pc = IF answered = {} THEN "walk" ELSE "keep"
    OBVIOUS
  <2>6. PICK q \in Runs : q = [[[[r EXCEPT !.batch = {}] EXCEPT !.answers = answers] EXCEPT !.n = n] EXCEPT !.pc = pc]
    BY DEF Runs, RunPoints
  <2>7. q.id = r.id /\ q.at = r.at /\ q.batch = {} /\ q.answers = answers /\ q.n = n /\ q.pc = pc
    BY <2>6 DEF Runs
  <2>8. Step(i, q)
    BY <2>3, <2>6, <1>5, <2>2, <2>4, <2>5 DEF Runs
  <2>9. \A a \in answers : a = <<a[1], r.id.ns>> /\ a[1] \in r.batch /\ a[1] \in TextsOf(r.id) /\ a[1] < r.at
    BY <1>2, <1>5, <2>4 DEF AnswersSound
  <2>10. answers = {} <=> answered = {}
    BY <2>4
  <2>11. AnswersSound(q)
    BY <2>5, <2>7, <2>9, <2>10 DEF AnswersSound
  <2>12. Walked(q) = Walked(r)
    BY <1>1, <2>7, <2>5 DEF Walked
  <2>13. n.eligible = r.n.eligible /\ n.missing = r.n.missing /\ n.embedded = r.n.embedded /\ n.reused = r.n.reused
    BY <1>2, <2>3 DEF Counters
  <2>14. RunSound(q)
    BY <1>1, <1>2, <2>5, <2>7, <2>11, <2>12, <2>13 DEF RunSound
  <2>15. ASSUME docsMode = "daemon" PROVE WorkSound(q)'
    <3>1. WorkSound(r) /\ r.batch \subseteq Listed(r.id)
      BY <1>1, <1>3, <2>15 DEF WorkSound
    <3>2. Listed(r.id)' = Listed(r.id) /\ Stored(r.id)' = Stored(r.id)
      BY <1>5, ListsRest DEF tableVars
    <3>3. \A a \in q.answers : a[1] \in Listed(r.id)' /\ a[1] \in r.batch
      BY <2>7, <2>9, <3>1, <3>2
    <3>4. q.at >= r.at
      BY <2>7 DEF Runs
    <3> QED
      BY <1>1, <2>5, <2>7, <2>13, <3>1, <3>2, <3>3, <3>4, WorkMoves
  <2>16. RunsSound'
    BY <1>1, <1>3, <2>8, <2>14, <2>15, RunnerSteps DEF IndexInv, sourceVars, Step
  <2> QED
    BY <1>1, <1>5, <2>16, RunnerOnly
<1>6. \/ EndsAs(i, "partial", "idle")
      \/ /\ embedder = r.id.ns /\ UNCHANGED tableVars
         /\ \E answered \in SUBSET r.batch :
              Step(i, [r EXCEPT !.batch = {}, !.answers = {<<p, embedder>> : p \in answered},
                                !.n.failed = @ + Cardinality(r.batch \ answered),
                                !.pc = IF answered = {} THEN "walk" ELSE "keep"])
  BY DEF AskProvider, ModelMatches
<1> QED
  BY <1>4, <1>5, <1>6

\* The answer a run has at hand, and its key.
LEMMA AnswerAtHand ==
  ASSUME NEW r \in Runs, RunSound(r), r.pc \in {"keep", "store"}
  PROVE  /\ NextAnswer(r) \in r.answers /\ NextAnswer(r) = <<NextAnswer(r)[1], r.id.ns>>
         /\ NextAnswer(r)[1] \in TextsOf(r.id) /\ NextAnswer(r)[1] < r.at
         /\ KeyOf(r) = <<r.id.ns, r.id.tree[NextAnswer(r)[1]]>> /\ r.batch = {}
<1>1. AnswersSound(r) /\ r.answers # {} /\ r.batch = {}
  BY DEF RunSound, AnswersSound
<1> QED
  BY <1>1, NextAnswerIs DEF KeyOf

\* An answer is written to its checkpoint, or is not.
LEMMA KeepSteps ==
  ASSUME IndexInv, NEW i \in Runners, KeepAnswer(i)
  PROVE  IndexInv'
<1> PICK r \in Runs : r = runner[i]
  BY RunIs
<1>1. r.pc = "keep" /\ UNCHANGED <<sourceVars, tableVars, searcher>>
  BY DEF KeepAnswer, At
<1>2. RunSound(r)
  BY RunIs
<1>3. PICK saved \in BOOLEAN : runner' = [runner EXCEPT ![i] = [[r EXCEPT !.pc = "store"] EXCEPT !.saved = saved]]
  BY DEF KeepAnswer, Step
<1>4. PICK q \in Runs : q = [[r EXCEPT !.pc = "store"] EXCEPT !.saved = saved]
  BY DEF Runs, RunPoints
<1>5. q.id = r.id /\ q.at = r.at /\ q.batch = r.batch /\ q.answers = r.answers /\ q.n = r.n /\ q.pc = "store"
  BY <1>4 DEF Runs
<1>6. RunSound(q)
  BY <1>1, <1>2, <1>5 DEF RunSound, AnswersSound, Walked
<1>7. docsMode = "daemon" => i = TheWorker /\ WorkSound(q)'
  BY <1>1, OneWorker, <1>5, WorkKeeps, ListsRest DEF IndexInv, WorkSound, Done, tableVars
<1>8. RunsSound'
  BY <1>1, <1>3, <1>4, <1>6, <1>7, RunnerSteps DEF IndexInv, sourceVars
<1>9. HandedSound'
  <2>1. CASE UNCHANGED <<handoffs, handed>>
    BY <1>1, <2>1 DEF IndexInv, HandedSound, HasVector, tableVars
  <2>2. CASE /\ handoffs' = handoffs \union {KeyOf(r)}
             /\ handed' = IF HasVector(KeyOf(r)[1], KeyOf(r)[2]) THEN handed
                          ELSE handed \union {<<r.id, KeyOf(r)[2]>>}
    <3> PICK key : key = KeyOf(r)
      OBVIOUS
    <3>1. key = <<r.id.ns, key[2]>>
      BY <1>1, <1>2, AnswerAtHand
    <3> SUFFICES ASSUME NEW h \in handed' PROVE <<h[1].ns, h[2]>> \in handoffs' /\ ~HasVector(h[1].ns, h[2])'
      BY DEF HandedSound
    <3>2. h \in handed \/ (h = <<r.id, key[2]>> /\ ~HasVector(key[1], key[2]))
      BY <2>2
    <3>3. <<h[1].ns, h[2]>> \in handoffs' /\ ~HasVector(h[1].ns, h[2])
      BY <2>2, <3>1, <3>2 DEF IndexInv, HandedSound
    <3> QED
      BY <1>1, <3>3 DEF HasVector, tableVars
  <2> QED
    BY <2>1, <2>2 DEF KeepAnswer
<1> QED
  BY <1>1, <1>8, <1>9, TablesRest, OthersRest DEF IndexInv, tableVars

\* An answer is stored, and its checkpoint goes if it can; or it is lost.
LEMMA StoreSteps ==
  ASSUME IndexInv, NEW i \in Runners, StoreAnswer(i)
  PROVE  IndexInv'
<1> PICK r \in Runs : r = runner[i]
  BY RunIs
<1>1. r.pc = "store" /\ UNCHANGED <<sourceVars, docSets, docMembers, searcher>>
  BY DEF StoreAnswer, At
<1>2. RunSound(r) /\ r.n \in Counters /\ AnswersSound(r)
  BY RunIs
<1>3. docsMode = "daemon" => i = TheWorker /\ WorkSound(r)
  BY <1>1, OneWorker DEF IndexInv
<1> PICK answer \in r.answers : answer = NextAnswer(r)
  BY <1>1, <1>2, AnswerAtHand
<1> PICK p \in DocPaths : p = answer[1]
  BY <1>1, <1>2, AnswerAtHand DEF TextsOf
<1> PICK key : key = KeyOf(r)
  OBVIOUS
<1>4. /\ answer = <<p, r.id.ns>> /\ p \in TextsOf(r.id) /\ p < r.at
      /\ key = <<r.id.ns, r.id.tree[p]>> /\ r.batch = {}
  BY <1>1, <1>2, AnswerAtHand
<1>5. PICK rest \in SUBSET (DocPaths \X Nat) : rest = r.answers \ {answer}
  BY DEF Runs
<1>6. ASSUME NEW ok \in BOOLEAN, Step(i, Answered(r, ok)),
             docVectors' \in {docVectors, docVectors \union {<<r.id.ns, r.id.tree[p], r.id.ns>>}},
             ok => HasVector(r.id.ns, r.id.tree[p])'
      PROVE  TablesSound' /\ RunsSound'
  <2>1. PICK n \in Counters :
          n = [[r.n EXCEPT !.embedded = r.n.embedded + (IF ok THEN 1 ELSE 0)]
                     EXCEPT !.failed = r.n.failed + (IF ok THEN 0 ELSE 1)]
    <3>1. PICK k \in {0, 1} : k = IF ok THEN 1 ELSE 0
      OBVIOUS
    <3>2. PICK l \in {0, 1} : l = IF ok THEN 0 ELSE 1
      OBVIOUS
    <3>3. PICK m \in Counters : m = [r.n EXCEPT !.embedded = r.n.embedded + k]
      BY <1>2, Counting
    <3>4. m.failed = r.n.failed
      BY <1>2, <3>3 DEF Counters
    <3>5. l \in Nat /\ [m EXCEPT !.failed = m.failed + l] \in Counters
      BY <3>2, Counting
    <3> QED
      BY <3>1, <3>2, <3>3, <3>4, <3>5
  <2>2. /\ n.eligible = r.n.eligible /\ n.missing = r.n.missing /\ n.reused = r.n.reused
        /\ n.embedded = r.n.embedded + (IF ok THEN 1 ELSE 0)
    BY <1>2, <2>1 DEF Counters
  <2>3. PICK pc \in {"walk", "keep"} : pc = IF rest = {} THEN "walk" ELSE "keep"
    OBVIOUS
  <2>4. PICK q \in Runs :
          q = [[[[r EXCEPT !.answers = rest] EXCEPT !.pc = pc] EXCEPT !.saved = FALSE] EXCEPT !.n = n]
    BY DEF Runs, RunPoints
  <2>5. q.id = r.id /\ q.at = r.at /\ q.batch = {} /\ q.answers = rest /\ q.n = n /\ q.pc = pc
    BY <1>4, <2>4 DEF Runs
  <2>6. q = Answered(r, ok)
    BY <1>5, <2>1, <2>3, <2>4, ZenonT(60) DEF Answered, Runs
  <2>7. \A a \in rest : a = <<a[1], r.id.ns>> /\ a[1] \in TextsOf(r.id) /\ a[1] < r.at /\ a[1] # p
    BY <1>2, <1>4, <1>5 DEF AnswersSound
  <2>8. AnswersSound(q)
    BY <2>3, <2>5, <2>7 DEF AnswersSound
  <2>9. Walked(q) = Walked(r)
    BY <1>1, <2>3, <2>5 DEF Walked
  <2>10. RunSound(q)
    BY <1>1, <1>2, <2>2, <2>3, <2>5, <2>8, <2>9 DEF RunSound
  <2>11. TablesSound' /\ Listed(r.id)' = Listed(r.id) /\ Stored(r.id) \subseteq Stored(r.id)'
    BY <1>1, <1>6, VectorAdded DEF IndexInv, sourceVars
  <2>12. ASSUME docsMode = "daemon" PROVE WorkSound(q)'
    <3>1. WorkSound(r) /\ \A a \in r.answers : a[1] \in Listed(r.id)
      BY <1>1, <1>3, <2>12 DEF WorkSound
    <3>2. \A a \in q.answers : a[1] \in Listed(r.id)' /\ \E b \in r.answers : b[1] = a[1]
      BY <1>5, <2>5, <2>11, <3>1
    <3>3. q.at >= r.at /\ p < q.at
      BY <1>4, <2>5 DEF Runs
    <3>4. ok => p \in Stored(r.id)'
      BY <1>4, <1>6, <2>11, <3>1 DEF Stored
    <3>5. /\ ok => q.n.embedded + q.n.reused = r.n.embedded + r.n.reused + 1
          /\ ~ok => q.n.embedded + q.n.reused = r.n.embedded + r.n.reused
      BY <1>2, <2>2, <2>5 DEF Counters
    <3>6. p \notin q.batch /\ (\A a \in q.answers : a[1] # p) /\ \E a \in r.answers : a[1] = p
      BY <1>4, <2>5, <2>7
    <3>7. \/ q.n.embedded + q.n.reused = r.n.embedded + r.n.reused
          \/ /\ q.n.embedded + q.n.reused = r.n.embedded + r.n.reused + 1
             /\ \E d \in Stored(r.id)' : /\ d < q.at /\ d \notin q.batch /\ \A a \in q.answers : a[1] # d
                                         /\ d >= r.at \/ \E a \in r.answers : a[1] = d
      BY <3>3, <3>4, <3>5, <3>6
    <3> QED
      BY <1>1, <2>3, <2>5, <2>11, <3>1, <3>2, <3>3, <3>7, WorkMoves
  <2>13. RunsSound'
    BY <1>1, <1>3, <1>6, <2>6, <2>10, <2>12, RunnerSteps DEF IndexInv, sourceVars, Step
  <2> QED
    BY <2>11, <2>13
<1>7. CASE Step(i, Answered(r, FALSE)) /\ UNCHANGED <<docVectors, handoffs, handed>>
  BY <1>1, <1>6, <1>7, OthersRest DEF IndexInv
<1>8. CASE /\ docVectors' = IF HasVector(key[1], key[2]) THEN docVectors
                            ELSE docVectors \union {<<key[1], key[2], answer[2]>>}
           /\ handoffs' \in {handoffs \ {key}, handoffs} /\ handed' = Undelivered(key)
           /\ Step(i, Answered(r, TRUE))
  <2>1. docVectors' \in {docVectors, docVectors \union {<<r.id.ns, r.id.tree[p], r.id.ns>>}}
    BY <1>4, <1>8
  <2>2. HasVector(r.id.ns, r.id.tree[p])'
    <3>1. CASE HasVector(key[1], key[2])
      <4>1. HasVector(r.id.ns, r.id.tree[p]) /\ docVectors' = docVectors
        BY <1>4, <1>8, <3>1
      <4> QED
        BY <4>1 DEF HasVector
    <3>2. CASE ~HasVector(key[1], key[2])
      <4>1. key[1] = r.id.ns /\ key[2] = r.id.tree[p] /\ answer[2] = r.id.ns
        BY <1>4
      <4>2. docVectors' = docVectors \union {<<r.id.ns, r.id.tree[p], r.id.ns>>}
        BY <1>8, <3>2, <4>1
      <4>3. PICK v \in docVectors' : v = <<r.id.ns, r.id.tree[p], r.id.ns>>
        BY <4>2
      <4> QED
        BY <4>3 DEF HasVector
    <3> QED
      BY <3>1, <3>2
  <2>3. \A ns, text : HasVector(ns, text)' => HasVector(ns, text) \/ <<ns, text>> = key
    BY <1>4, <2>1 DEF HasVector
  <2>4. HandedSound'
    BY <1>8, <2>3, TakenOut DEF IndexInv
  <2> QED
    BY <1>1, <1>6, <1>8, <2>1, <2>2, <2>4, OthersRest DEF IndexInv
<1>9. \/ Step(i, Answered(r, FALSE)) /\ UNCHANGED <<docVectors, handoffs, handed>>
      \/ /\ docVectors' = IF HasVector(key[1], key[2]) THEN docVectors
                          ELSE docVectors \union {<<key[1], key[2], answer[2]>>}
         /\ handoffs' \in {handoffs \ {key}, handoffs} /\ handed' = Undelivered(key)
         /\ Step(i, Answered(r, TRUE))
  BY DEF StoreAnswer
<1> QED
  BY <1>7, <1>8, <1>9

\* A set is published for what it is.
LEMMA PublishSteps ==
  ASSUME IndexInv, NEW i \in Runners, PublishSet(i)
  PROVE  IndexInv'
<1> PICK r \in Runs : r = runner[i]
  BY RunIs
<1> PICK id \in SnapshotNames : id = r.id
  BY RunIs
<1> PICK n \in Counters : n = r.n
  BY RunIs
<1> DEFINE complete == n.failed = 0 /\ n.missing = 0 /\ n.embedded + n.reused = n.eligible
<1> PICK state \in SetStates : state = IF complete THEN "ready" ELSE "partial"
  BY DEF SetStates
<1>1. r.pc = "publish" /\ UNCHANGED <<sourceVars, handoffs, handed, searcher>>
  BY DEF PublishSet, At
<1>2. RunSound(r)
  BY RunIs
<1>3. docsMode = "daemon" => i = TheWorker /\ WorkSound(r)
  BY <1>1, OneWorker DEF IndexInv
<1>4. CASE EndsAs(i, "superseded", "retain")
  BY <1>1, <1>4, EndSteps
<1>5. CASE Publishable(id, state, n) /\ PutSet(id, state, n) /\ Step(i, [r EXCEPT !.pc = "retain"])
           /\ UNCHANGED <<docMembers, docVectors>>
  <2>1. /\ SetsTyped' /\ id \in DOMAIN docSets' /\ docSets'[id] = [state |-> state, n |-> n]
        /\ \A s \in DOMAIN docSets' : s # id => s \in DOMAIN docSets /\ docSets'[s] = docSets[s]
    BY <1>5, PutSetIs DEF IndexInv, TablesSound
  <2>2. \A s : Listed(s)' = Listed(s) /\ Stored(s)' = Stored(s)
    BY <1>5, ListsRest
  <2>3. Cardinality(Listed(id)) = n.eligible
    BY <1>5, RowsCount DEF Publishable, IndexInv, TablesSound
  <2>4. ASSUME complete PROVE Listed(id) = TextsOf(id) /\ Stored(id) = Listed(id)
    <3>1. r.at \in 1..(Cardinality(DocPaths) + 1) /\ r.at \notin DocPaths
      BY <1>1, <1>2 DEF RunSound
    <3>2. TextsOf(id) \subseteq DocPaths /\ \A p \in TextsOf(id) : p < r.at
      BY <3>1, PathsAreNumbers DEF TextsOf
    <3>3. Walked(r) = TextsOf(id)
      BY <1>1, <3>2 DEF Walked
    <3>4. n.eligible + n.missing = Cardinality(TextsOf(id))
      BY <1>1, <1>2, <3>3 DEF RunSound
    <3>5. n.eligible = Cardinality(TextsOf(id))
      BY <2>4, <3>4 DEF Counters
    <3>6. Listed(id) \subseteq TextsOf(id)
      BY ListedIs DEF IndexInv, TablesSound
    <3>7. Listed(id) = TextsOf(id)
      BY <2>3, <3>2, <3>5, <3>6, PathsCount
    <3>8. \A m \in Members(id) : HasVector(id.ns, m[3])
      BY <1>5, <2>4 DEF Publishable
    <3>9. \A p \in Listed(id) : HasVector(id.ns, id.tree[p])
      <4> SUFFICES ASSUME NEW p \in Listed(id) PROVE HasVector(id.ns, id.tree[p])
        OBVIOUS
      <4>1. PICK m \in Members(id) : m = <<id, p, id.tree[p]>>
        BY RowsAreListed DEF IndexInv, TablesSound
      <4> QED
        BY <3>8, <4>1
    <3> QED
      BY <3>7, <3>9 DEF Stored
  <2>5. docsMode = "daemon" => n.embedded + n.reused <= Cardinality(Stored(id))
    BY <1>1, <1>3, DoneIsStored
  <2>6. SetSound(id)'
    BY <2>2, <2>4, <2>3, <1>1, <2>5, <2>1 DEF sourceVars, SetSound
  <2>7. RowsSound'
    BY <1>5 DEF IndexInv, TablesSound, RowsSound
  <2>8. SetsSound'
    BY <1>1, <2>1, <2>2, <2>6, SetsKeep DEF IndexInv, sourceVars
  <2>9. RunsSound'
    BY <1>1, <1>5, RetainsSound DEF IndexInv, sourceVars, Step
  <2> QED
    BY <1>1, <1>5, <2>1, <2>7, <2>8, <2>9, OthersRest DEF IndexInv, TablesSound
<1>6. CASE /\ UNCHANGED tableVars
           /\ LeaveRun(i) \/ runner' = [runner EXCEPT ![i] = [r EXCEPT !.pc = "retain"]]
  BY <1>1, <1>6, LeavesSound, RetainsSound, RunnerOnly DEF IndexInv, sourceVars
<1>7. \/ EndsAs(i, "superseded", "retain")
      \/ /\ Publishable(id, state, n) /\ PutSet(id, state, n) /\ Step(i, [r EXCEPT !.pc = "retain"])
         /\ UNCHANGED <<docMembers, docVectors>>
      \/ /\ UNCHANGED tableVars
         /\ LeaveRun(i) \/ runner' = [runner EXCEPT ![i] = [r EXCEPT !.pc = "retain"]]
  BY DEF PublishSet, LeaveRun
<1> QED
  BY <1>4, <1>5, <1>6, <1>7

\* Retention takes sets as a whole, and leaves the others what they list.
LEMMA RetainSteps ==
  ASSUME IndexInv, NEW i \in Runners, RetainSets(i)
  PROVE  IndexInv'
<1>1. runner[i].pc = "retain" /\ LeaveRun(i) /\ UNCHANGED <<sourceVars, handoffs, searcher>>
  BY DEF RetainSets, At
<1>2. RunsSound'
  BY <1>1, LeavesSound DEF IndexInv, sourceVars
<1>3. CASE UNCHANGED <<tableVars, handed>>
  BY <1>1, <1>2, <1>3, RunnerOnly
<1>4. ASSUME NEW gone, DropSets(gone), handed' = {h \in handed : h[1] \notin gone}
      PROVE  IndexInv'
  BY <1>1, <1>4, SetsDropped, <1>2, OthersRest DEF IndexInv, sourceVars, HandedSound, HasVector, DropSets,
         VectorsWithout
<1>5. UNCHANGED <<tableVars, handed>> \/ \E gone : DropSets(gone) /\ handed' = {h \in handed : h[1] \notin gone}
  BY DEF RetainSets
<1> QED
  BY <1>3, <1>4, <1>5

-----------------------------------------------------------------------------
\* At the start there are no sets, no rows, no vectors, and nobody runs.
LEMMA IndexStarts == DocsInit => IndexInv
<1> SUFFICES ASSUME DocsInit PROVE IndexInv
  OBVIOUS
<1>1. SourcesTyped
  BY FirstTreeTyped DEF DocsInit, SourcesTyped
<1>2. docSets = <<>> /\ docMembers = {} /\ docVectors = {} /\ handed = {}
  BY DEF DocsInit
<1>3. DOMAIN docSets = {}
  BY <1>2
<1>4. TablesSound
  BY <1>2, <1>3 DEF TablesSound, SetsTyped, RowsSound, SetsSound
<1>5. runner = [i \in Runners |-> IdleRunner]
  BY DEF DocsInit
<1>6. runner \in [Runners -> Runs] /\ RunnersSound /\ \A i \in Runners : runner[i].pc = "idle"
  BY <1>1, <1>5, IdleIs DEF RunnersSound
<1>7. WorkerSound
  BY <1>6 DEF WorkerSound, WorkSound
<1>8. HandedSound
  BY <1>2 DEF HandedSound
<1>9. SearchSound
  BY DEF DocsInit, IdleSearch, SearchSound, SearchIsExact
<1> QED
  BY <1>1, <1>4, <1>6, <1>7, <1>8, <1>9 DEF IndexInv, RunsSound

\* Every step keeps the invariant.
LEMMA IndexKeeps == IndexInv /\ [DocsNext]_docsVars => IndexInv'
<1> SUFFICES ASSUME IndexInv, [DocsNext]_docsVars PROVE IndexInv'
  OBVIOUS
<1>1. CASE EditWorktree \/ CommitWorktree \/ UpgradeModel
  BY <1>1, SourceSteps
<1>2. CASE SeekSet \/ LoadSet \/ AnswerSearch
  BY <1>2, SearchSteps
<1>3. ASSUME NEW i \in Runners,
             \/ RequestIndex(i) \/ PrepareIndex(i) \/ BuildSet(i) \/ BuildDies(i)
             \/ WalkDocument(i) \/ LookUp(i) \/ WalkEnds(i)
             \/ AskProvider(i) \/ KeepAnswer(i) \/ StoreAnswer(i)
             \/ PublishSet(i) \/ RetainSets(i)
             \/ StopIndex(i) \/ AbandonIndex(i) \/ CancelIndex(i) \/ IndexerDies(i)
      PROVE  IndexInv'
  BY <1>3, RequestSteps, PrepareSteps, BuildSteps, WalkSteps, LookSteps, WalkEndSteps, AskSteps, KeepSteps,
     StoreSteps, PublishSteps, RetainSteps, InterruptSteps, StopSteps
<1>4. CASE UNCHANGED docsVars
  BY <1>4, RunsRest, RunnerOnly DEF docsVars, IndexInv, sourceVars, tableVars
<1> QED
  BY <1>1, <1>2, <1>3, <1>4 DEF DocsNext

\* The invariant holds throughout.
LEMMA IndexInvariance == DocsSpec => []IndexInv
BY IndexStarts, IndexKeeps, PTL DEF DocsSpec

\* The invariant says what a reader of the index is promised.
LEMMA IndexPromises == IndexInv => IndexIsExact
<1> SUFFICES ASSUME IndexInv PROVE IndexIsExact
  OBVIOUS
<1>1. ReadyIsExact
  BY ReadyIs DEF IndexInv, ReadyIsExact
<1>2. CoverageIsTrue
  <2> SUFFICES ASSUME NEW s \in DOMAIN docSets, docSets[s].state \in {"ready", "partial"}
               PROVE  /\ Cardinality(Members(s)) = docSets[s].n.eligible
                      /\ Published(s) \/ docsMode = "daemon" =>
                           docSets[s].n.embedded + docSets[s].n.reused
                             <= Cardinality({m \in Members(s) : HasVector(s.ns, m[3])})
    BY DEF CoverageIsTrue
  <2>1. SetSound(s) /\ RowsSound /\ docSets[s] \in SetRows
    BY DEF IndexInv, TablesSound, SetsSound, SetsTyped
  <2>2. /\ Cardinality(Members(s)) = Cardinality(Listed(s))
        /\ Cardinality({m \in Members(s) : HasVector(s.ns, m[3])}) = Cardinality(Stored(s))
    BY <2>1, RowsCount
  <2>3. docSets[s].n.embedded + docSets[s].n.reused \in Nat
    BY <2>1 DEF SetRows, Counters
  <2>4. Published(s) => docSets[s].n.embedded + docSets[s].n.reused = Cardinality(Stored(s))
    BY <2>1 DEF SetSound, Published
  <2> QED
    BY <2>1, <2>2, <2>3, <2>4 DEF SetSound, Published
<1>3. SearchIsExact /\ HandoffsAreKept
  BY DEF IndexInv, SearchSound, HandedSound, HandoffsAreKept
<1> QED
  BY <1>1, <1>2, <1>3 DEF IndexIsExact

\* Whatever processes index, edit, commit, stop, crash and prune, in whatever
\* order: a set that is published is exactly the snapshot it is named after, a
\* semantic answer ranks exactly that, coverage is not overstated, and what the
\* provider was paid for is in a handoff until it is in the cache.
THEOREM IndexStaysExact == DocsSpec => []IndexIsExact
BY IndexInvariance, IndexPromises, PTL
==============================================================================
