------------------------- MODULE LocalHosting_proofs -------------------------
(***************************************************************************)
(* That hosting is safe, for any commands, clients, projects and keys: the *)
(* configuration never mixes stores and projects, a refused request never  *)
(* has an effect, a confirmed one has it, and an effect lands in the       *)
(* project that was meant.  The argument runs over three owners: a store   *)
(* in the making belongs to one command, a request number to one operation *)
(* of the daemon, and a key of a store to the mutation that published it.  *)
(* Then that the Git store under a project applies a key once, keeps what  *)
(* it published, cites each change and can be exported, for any callers,   *)
(* outsiders and kills.                                                    *)
(***************************************************************************)
EXTENDS LocalHosting, LocalGit, FiniteSetTheorems, SequenceTheorems, WellFoundedInduction,
        TLAPS

Stores == [at : {"absent", "made", "published"}, project : Projects \union {NoProject}, tokens : SUBSET Tokens]
Configs == [Selectors -> Bindings \union {NoBinding}]
Making == [pc : {"making", "building", "registering"}, selector : Selectors, binding : Bindings]
Writing == [pc : {"writing"}, candidate : Configs]
Operations == [n : Nat, selector : Selectors, key : Tokens, at : {"received", "admitted", "finished"},
               code : Refusals \union {"none", "ok", "cancelled", Ambiguous}]
Landings == [n : Nat, key : Tokens, shelf : Shelves, project : Projects \union {NoProject}, meant : Projects]
Answers == [n : Nat, key : Tokens, code : Refusals \union {"none", "ok", Ambiguous}]
Tallies == [setups : Nat, requests : Nat, starts : Nat, swaps : Nat, mishaps : Nat]

HTyped ==
    /\ shelf \in [Shelves -> Stores] /\ config \in Configs /\ host \in [up : BOOLEAN, bindings : Configs]
    /\ setup \in [Setups -> {Done} \union Making \union Writing]
    /\ guest \in [Guests -> [waits : {FALSE}, n : Nat] \union [waits : {TRUE}, n : Nat, key : Tokens]]
    /\ ops \subseteq Operations /\ landed \subseteq Landings /\ heard \subseteq Answers
    /\ tally \in Tallies

\* A store in the making belongs to one command, and has no keys yet.
BuildersOwn ==
  /\ \A r \in Shelves : shelf[r].at # "published" => shelf[r].tokens = {}
  /\ \A s \in Setups : setup[s].pc = "building" =>
      /\ shelf[setup[s].binding.shelf].at = "made"
      /\ \A t \in Setups \ {s} : setup[t].pc = "building" => setup[t].binding.shelf # setup[s].binding.shelf

\* Bindings that name published stores, one for a project.
Stands(c) ==
    \A x \in Selectors : c[x] # NoBinding =>
      /\ shelf[c[x].shelf].at = "published"
      /\ tally.swaps = 0 => shelf[c[x].shelf].project = c[x].project
      /\ \A y \in Selectors : c[y] # NoBinding => ((c[x].project = c[y].project) <=> (c[x].shelf = c[y].shelf))
BindingsStand ==
    /\ Stands(config) /\ Stands(host.bindings)
    /\ \A s \in Setups : setup[s].pc = "writing" => Stands(setup[s].candidate)

\* An operation is the only one of its request; until it is at its end, or when
\* it ends in a refusal, the request has no effect.
OpsSound ==
    /\ ops # {} => host.up
    /\ \A o, q \in ops : o.n = q.n => o = q
    /\ \A o \in ops :
         /\ o.n <= tally.requests
         /\ o.at = "admitted" => host.bindings[o.selector] # NoBinding
         /\ o.at \in {"received", "admitted"} \/ o.code \in Refusals => \A l \in landed : l.n # o.n
         /\ o.code = "ok" => \E l \in landed : l.key = o.key

\* Who waits, waits for the operation of his request, and who was refused waits
\* for none.
HeardSound ==
    /\ \A t \in heard : t.n <= tally.requests /\ (t.code \in Refusals => \A o \in ops : o.n # t.n)
    /\ \A g \in Guests : guest[g].waits =>
         guest[g].n <= tally.requests /\ \A o \in ops : o.n = guest[g].n => o.key = guest[g].key
    /\ AnswersAreDefinite

\* The keys a store knows are those of the mutations that landed in it.
LandedSound ==
    /\ \A l \in landed : /\ l.n <= tally.requests /\ shelf[l.shelf].at = "published"
                         /\ tally.swaps = 0 => l.key \in shelf[l.shelf].tokens
    /\ \A r \in Shelves : \A k \in shelf[r].tokens : \E l \in landed : l.key = k
    /\ LandsWhereMeant

HInv == HTyped /\ BuildersOwn /\ BindingsStand /\ OpsSound /\ HeardSound /\ LandedSound

-----------------------------------------------------------------------------
\* A counter moves alone.
LEMMA UseCounts ==
  ASSUME tally \in Tallies, NEW k \in {"setups", "requests", "starts", "swaps", "mishaps"}, Use(k)
  PROVE  /\ tally' \in Tallies
         /\ k # "requests" => tally'.requests = tally.requests
         /\ k = "requests" => tally'.requests = tally.requests + 1
         /\ k # "swaps" => tally'.swaps = tally.swaps
         /\ k = "swaps" => tally'.swaps = tally.swaps + 1
BY DEF Tallies, Use

\* Neither a request nor a swap.
SameCounts == tally' \in Tallies /\ tally'.requests = tally.requests /\ tally'.swaps = tally.swaps
(* A mishap, a kill or a crash raises no counter the invariant reads. *)
LEMMA CountsStand ==
  ASSUME HInv, tally' = tally \/ Use("mishaps")
  PROVE  SameCounts
BY UseCounts DEF SameCounts, HInv, HTyped

\* What a command or the daemon's start leaves alone stays sound.
LEMMA ServiceStands ==
  ASSUME HInv, UNCHANGED <<shelf, guest, ops, landed, heard>>, ops # {} => UNCHANGED host,
         tally'.requests = tally.requests, tally'.swaps = tally.swaps
  PROVE  OpsSound' /\ HeardSound' /\ LandedSound'
<1>1. OpsSound'
  BY DEF HInv, OpsSound
<1>2. HeardSound'
  BY DEF HInv, HeardSound, AnswersAreDefinite
<1>3. LandedSound'
  BY DEF HInv, LandedSound, LandsWhereMeant
<1> QED BY <1>1, <1>2, <1>3

\* What a published store is bound to lasts while no store is replaced.
LEMMA BindingsLast ==
  ASSUME HInv, HTyped',
         \A r \in Shelves : shelf[r].at = "published" =>
            shelf'[r].at = "published" /\ (tally'.swaps = 0 => tally.swaps = 0 /\ shelf'[r].project = shelf[r].project),
         UNCHANGED host,
         config' = config \/ \E s \in Setups : setup[s].pc = "writing" /\ config' = setup[s].candidate,
         \A s \in Setups : setup'[s].pc = "writing" => setup'[s] = setup[s]
  PROVE  BindingsStand'
<1>1. ASSUME NEW c \in Configs, Stands(c), NEW x \in Selectors, c[x] # NoBinding
      PROVE  /\ shelf'[c[x].shelf].at = "published"
             /\ tally'.swaps = 0 => shelf'[c[x].shelf].project = c[x].project
             /\ \A y \in Selectors : c[y] # NoBinding => ((c[x].project = c[y].project) <=> (c[x].shelf = c[y].shelf))
  BY <1>1 DEF Configs, Bindings, Stands
<1>2. Stands(config)'
  <2>1. CASE config' = config
    BY <1>1, <2>1 DEF HInv, HTyped, BindingsStand, Stands
  <2>2. ASSUME NEW s \in Setups, setup[s].pc = "writing", config' = setup[s].candidate PROVE Stands(config)'
    BY <2>2, <1>1 DEF HInv, HTyped, BindingsStand, Done, Making, Writing, Stands
  <2> QED BY <2>1, <2>2
<1>3. Stands(host.bindings)'
  BY <1>1 DEF HInv, HTyped, BindingsStand, Stands
<1>4. ASSUME NEW s \in Setups, setup'[s].pc = "writing" PROVE Stands(setup[s].candidate)'
  BY <1>4, <1>1 DEF HInv, HTyped, BindingsStand, Done, Making, Writing, Stands
<1> QED BY <1>2, <1>3, <1>4 DEF BindingsStand

-----------------------------------------------------------------------------
\* A command that begins, ends or is killed makes no store and binds nothing.
LEMMA BeginSetupStep ==
  ASSUME HInv, NEW s \in Setups, NEW kind \in {"init", "register", "restore"}, NEW x \in Selectors, NEW b \in Bindings,
         BeginSetup(s, kind, x, b)
  PROVE  HInv'
<1> DEFINE k == [pc |-> IF kind = "register" THEN "registering" ELSE "making", selector |-> x, binding |-> b]
<1>1. tally' \in Tallies /\ tally'.requests = tally.requests /\ tally'.swaps = tally.swaps
  BY UseCounts DEF BeginSetup, HInv, HTyped
<1>2. setup' = [setup EXCEPT ![s] = k] /\ k \in Making /\ k.pc \notin {"building", "writing"}
  BY DEF BeginSetup, Making
<1>3. UNCHANGED <<shelf, config, configLock, host, guest, ops, landed, heard>>
  BY DEF BeginSetup
<1> HIDE DEF k
<1>4. setup'[s] = k /\ \A t \in Setups \ {s} : setup'[t] = setup[t]
  BY <1>2 DEF HInv, HTyped
<1>5. HTyped'
  BY <1>1, <1>2, <1>3 DEF HInv, HTyped
<1>6. BuildersOwn'
  BY <1>2, <1>3, <1>4 DEF HInv, BuildersOwn
<1>7. BindingsStand'
  BY <1>1, <1>2, <1>3, <1>4, <1>5, BindingsLast
<1> QED BY <1>1, <1>3, <1>5, <1>6, <1>7, ServiceStands DEF HInv

\* What every end of a command comes to.
LEMMA EndingStep ==
  ASSUME HInv, NEW s \in Setups, Ends(s), UNCHANGED <<host, guest, ops, landed, heard>>,
         shelf' = shelf,
         config' = config \/ (setup[s].pc = "writing" /\ config' = setup[s].candidate),
         SameCounts
  PROVE  HInv'
<1>1. tally' \in Tallies /\ tally'.requests = tally.requests /\ tally'.swaps = tally.swaps
  BY DEF SameCounts
<1>2. setup'[s] = Done /\ \A t \in Setups \ {s} : setup'[t] = setup[t]
  BY DEF Ends, HInv, HTyped
<1>3. config' \in Configs
  BY DEF HInv, HTyped, Done, Making, Writing
<1>4. HTyped'
  BY <1>1, <1>3 DEF HInv, HTyped, Ends
<1>5. BuildersOwn'
  BY <1>2 DEF HInv, BuildersOwn, Done
<1>6. BindingsStand'
  BY <1>1, <1>2, <1>4, BindingsLast DEF Done
<1> QED BY <1>1, <1>4, <1>5, <1>6, ServiceStands DEF HInv

(* A killed setup leaves its directory; what was published and registered stands. *)
LEMMA KillSetupStep ==
  ASSUME HInv, NEW s \in Setups, KillSetup(s)
  PROVE  HInv'
<1>1. SameCounts
  BY CountsStand DEF KillSetup, Mishap
<1>2. Ends(s)
  BY DEF KillSetup
<1>3. UNCHANGED <<host, guest, ops, landed, heard>>
  BY DEF KillSetup
<1>4. shelf' = shelf
  BY DEF KillSetup
<1>5. config' = config \/ (setup[s].pc = "writing" /\ config' = setup[s].candidate)
  BY DEF KillSetup
<1> QED BY <1>1, <1>2, <1>3, <1>4, <1>5, EndingStep

\* The candidate was valid when it
\* was made, and its stores are still there when it is written.
LEMMA WriteConfigStep ==
  ASSUME HInv, NEW s \in Setups, WriteConfig(s)
  PROVE  HInv'
<1>1. SameCounts
  BY CountsStand DEF WriteConfig, Mishap
<1> QED BY <1>1, EndingStep DEF WriteConfig

\* A candidate is valid when it is made.
LEMMA LockConfigStep ==
  ASSUME HInv, NEW s \in Setups, LockConfig(s)
  PROVE  HInv'
<1>0. UNCHANGED <<shelf, config, host, guest, ops, landed, heard, tally>>
  BY DEF LockConfig
<1>1. CASE Ends(s)
  BY <1>0, CountsStand, <1>1, EndingStep
<1>2. CASE Valid(WithBinding(s)) /\ setup' = [setup EXCEPT ![s] = [pc |-> "writing", candidate |-> WithBinding(s)]]
  <2> DEFINE c == WithBinding(s)
  <2>1. c \in Configs
    BY DEF LockConfig, WithBinding, HInv, HTyped, Configs, Making, Writing, Done
  <2>2. Stands(c)
    BY <1>2 DEF Valid, Bound, Stands
  <2> HIDE DEF c
  <2>3. setup'[s] = [pc |-> "writing", candidate |-> c] /\ \A t \in Setups \ {s} : setup'[t] = setup[t]
    BY <1>2 DEF c, HInv, HTyped
  <2>4. [pc |-> "writing", candidate |-> c] \in Writing
    BY <2>1 DEF Writing
  <2>5. HTyped'
    BY <1>0, <1>2, <2>4 DEF c, HInv, HTyped
  <2>6. BuildersOwn'
    BY <1>0, <2>3 DEF HInv, BuildersOwn
  <2>7. BindingsStand'
    <3>1. Stands(config)' /\ Stands(host.bindings)'
      BY <1>0 DEF HInv, BindingsStand, Stands
    <3>2. ASSUME NEW t \in Setups, setup'[t].pc = "writing" PROVE Stands(setup[t].candidate)'
      BY <2>3, <1>0, <2>2, <3>2 DEF HInv, BindingsStand, Stands
    <3> QED BY <3>1, <3>2 DEF BindingsStand
  <2> QED BY <1>0, <2>5, <2>6, <2>7, ServiceStands DEF HInv
<1> QED BY <1>1, <1>2 DEF LockConfig

-----------------------------------------------------------------------------
\* A step of command s at a store r that no binding and no mutation knows.
StoreMove(s, r, v, k) ==
    /\ s \in Setups /\ r \in Shelves /\ v \in Stores /\ k \in {Done} \union Making
    /\ shelf[r].at # "published" /\ v.tokens = {}
    /\ shelf' = [shelf EXCEPT ![r] = v] /\ setup' = [setup EXCEPT ![s] = k]
    /\ k.pc = "building" => k.binding.shelf = r /\ v.at = "made"
    /\ \A t \in Setups \ {s} : setup[t].pc = "building" => setup[t].binding.shelf # r
    /\ UNCHANGED <<config, host, guest, ops, landed, heard>> /\ SameCounts
(* A step of one setup on the store it alone is building keeps the invariant. *)
LEMMA StoreStep ==
  ASSUME HInv, NEW s, NEW r, NEW v, NEW k, StoreMove(s, r, v, k)
  PROVE  HInv'
<1> USE DEF StoreMove
<1>1. tally' \in Tallies /\ tally'.requests = tally.requests /\ tally'.swaps = tally.swaps
  BY DEF SameCounts
<1>2. setup'[s] = k /\ \A t \in Setups \ {s} : setup'[t] = setup[t]
  BY DEF HInv, HTyped
<1>3. shelf'[r] = v /\ \A q \in Shelves \ {r} : shelf'[q] = shelf[q]
  BY DEF HInv, HTyped
<1>4. HTyped'
  BY <1>1 DEF HInv, HTyped
<1>5. BuildersOwn'
  BY <1>3, <1>4, <1>2 DEF HInv, BuildersOwn, HTyped, Done, Making, Writing, Bindings
<1>6. BindingsStand'
  BY <1>3, <1>1, <1>2, <1>4, BindingsLast DEF Done, Making
<1>7. OpsSound' /\ HeardSound'
  BY <1>1 DEF HInv, OpsSound, HeardSound, AnswersAreDefinite
<1>8. LandedSound'
  BY <1>3, <1>1 DEF HInv, HTyped, LandedSound, Landings, LandsWhereMeant
<1> QED BY <1>4, <1>5, <1>6, <1>7, <1>8 DEF HInv

\* A store is made where there was nothing, and belongs to who made it.
LEMMA MakeStoreStep ==
  ASSUME HInv, NEW s \in Setups, MakeStore(s)
  PROVE  HInv'
<1>1. CASE Ends(s) /\ UNCHANGED shelf
  BY CountsStand, <1>1, EndingStep DEF MakeStore
<1> DEFINE r == setup[s].binding.shelf
           v == [shelf[r] EXCEPT !.at = "made"]
           k == [setup[s] EXCEPT !.pc = "building"]
<1>2. CASE shelf[r].at = "absent" /\ Goes(s, "building") /\ shelf' = [shelf EXCEPT ![r].at = "made"]
  <2>1. setup[s] \in Making /\ r \in Shelves
    BY DEF MakeStore, HInv, HTyped, Done, Making, Writing, Bindings
  <2>2. k \in Making /\ k.pc = "building" /\ k.binding.shelf = r
    BY <2>1 DEF Making
  <2>3. v \in Stores /\ v.tokens = shelf[r].tokens /\ v.at = "made"
    BY <2>1 DEF HInv, HTyped, Stores
  <2>4. shelf' = [shelf EXCEPT ![r] = v] /\ setup' = [setup EXCEPT ![s] = k]
    BY <1>2, <2>1 DEF Goes, HInv, HTyped
  <2>5. \A t \in Setups \ {s} : setup[t].pc = "building" => setup[t].binding.shelf # r
    BY <1>2 DEF HInv, BuildersOwn
  <2>6. shelf[r].tokens = {} /\ shelf'[r].at = "made"
    BY <1>2, <2>1, <2>3, <2>4 DEF HInv, HTyped, BuildersOwn
  <2>7. UNCHANGED <<config, host, guest, ops, landed, heard>> /\ SameCounts
    BY CountsStand DEF MakeStore
  <2>8. shelf[r].at # "published" /\ v.tokens = {} /\ k \in {Done} \union Making
    BY <1>2, <2>2, <2>3, <2>6
  <2>9. StoreMove(s, r, v, k)
    BY <2>1, <2>2, <2>3, <2>4, <2>5, <2>7, <2>8 DEF StoreMove
  <2> QED BY <2>9, StoreStep
<1> QED BY <1>1, <1>2 DEF MakeStore

\* The directory of a store that failed is taken away by who made it.
LEMMA AbandonStoreStep ==
  ASSUME HInv, NEW s \in Setups, AbandonStore(s)
  PROVE  HInv'
<1> DEFINE r == setup[s].binding.shelf
<1>1. r \in Shelves /\ shelf[r].at = "made"
      /\ \A t \in Setups \ {s} : setup[t].pc = "building" => setup[t].binding.shelf # r
  BY DEF AbandonStore, HInv, HTyped, BuildersOwn, Done, Making, Writing, Bindings
<1>2. NoOne \in Stores /\ NoOne.tokens = {}
  BY DEF NoOne, Stores
<1>3. Done \in {Done} \union Making /\ Done.pc # "building" /\ shelf[r].at # "published"
  BY <1>1 DEF Done
<1>4. shelf' = [shelf EXCEPT ![r] = NoOne] /\ setup' = [setup EXCEPT ![s] = Done]
      /\ UNCHANGED <<config, host, guest, ops, landed, heard>>
  BY DEF AbandonStore, Ends
<1>5. SameCounts
  BY CountsStand DEF AbandonStore, Mishap
<1>6. StoreMove(s, r, NoOne, Done)
  BY <1>1, <1>2, <1>3, <1>4, <1>5 DEF StoreMove
<1> QED BY <1>6, StoreStep

\* The last step of the making publishes the store, whatever is reported of it.
LEMMA PublishStoreStep ==
  ASSUME HInv, NEW s \in Setups, PublishStore(s)
  PROVE  HInv'
<1> DEFINE r == setup[s].binding.shelf
           v == Published(setup[s].binding.project)
           k == [setup[s] EXCEPT !.pc = "registering"]
<1>1. setup[s] \in Making /\ setup[s].binding \in Bindings /\ r \in Shelves /\ setup[s].binding.project \in Projects
  BY DEF PublishStore, HInv, HTyped, Done, Making, Writing, Bindings
<1>2. shelf[r].at # "published" /\ \A t \in Setups \ {s} : setup[t].pc = "building" => setup[t].binding.shelf # r
  BY DEF PublishStore, HInv, BuildersOwn
<1>3. v \in Stores /\ v.tokens = {} /\ k \in Making /\ k.pc # "building" /\ Done.pc # "building"
  BY <1>1 DEF Published, Stores, Making, Done
<1>4. UNCHANGED <<config, host, guest, ops, landed, heard>> /\ SameCounts
  BY CountsStand DEF PublishStore, Mishap
<1>5. CASE shelf' = [shelf EXCEPT ![r] = v] /\ Goes(s, "registering")
  <2>1. setup' = [setup EXCEPT ![s] = k]
    BY <1>5, <1>1 DEF Goes, HInv, HTyped
  <2>2. k \in {Done} \union Making
    BY <1>3
  <2>3. StoreMove(s, r, v, k)
    BY <1>1, <1>2, <1>3, <1>4, <1>5, <2>1, <2>2 DEF StoreMove
  <2> QED BY <2>3, StoreStep
<1>6. CASE shelf' = [shelf EXCEPT ![r] = v] /\ Ends(s)
  <2>1. setup' = [setup EXCEPT ![s] = Done] /\ Done \in {Done} \union Making
    BY <1>6 DEF Ends
  <2>3. StoreMove(s, r, v, Done)
    BY <1>1, <1>2, <1>3, <1>4, <1>6, <2>1 DEF StoreMove
  <2> QED BY <2>3, StoreStep
<1>7. CASE shelf' = shelf /\ Ends(s)
  BY <1>4, <1>7, EndingStep
<1> QED BY <1>5, <1>6, <1>7 DEF PublishStore

-----------------------------------------------------------------------------
\* The daemon serves the configuration it read, without a request from before.
LEMMA HostSteps ==
  ASSUME HInv, StartHost \/ StopHost
  PROVE  HInv'
<1>1. UNCHANGED <<shelf, config, setup, guest, landed, heard>>
      /\ tally' \in Tallies /\ tally'.requests = tally.requests /\ tally'.swaps = tally.swaps
  BY UseCounts DEF StartHost, StopHost, HInv, HTyped
<1>2. \A x \in Selectors : Unbound[x] = NoBinding
  BY DEF Unbound
<1>3. HTyped'
  <2>1. host' \in [up : BOOLEAN, bindings : Configs]
    <3>1. Unbound \in Configs
      BY DEF Unbound, Configs
    <3>2. config \in Configs
      BY DEF HInv, HTyped
    <3>3. \A c \in Configs, b \in BOOLEAN : [up |-> b, bindings |-> c] \in [up : BOOLEAN, bindings : Configs]
      OBVIOUS
    <3>4. CASE StartHost
      BY <3>4, <3>2, <3>3 DEF StartHost
    <3>5. CASE StopHost
      BY <3>5, <3>1, <3>3 DEF StopHost
    <3> QED BY <3>4, <3>5
  <2>2. ops' \subseteq Operations
    BY DEF StartHost, StopHost, HInv, HTyped
  <2> QED BY <1>1, <2>1, <2>2 DEF HInv, HTyped
<1>4. BuildersOwn'
  BY <1>1 DEF HInv, BuildersOwn
<1>5. host'.bindings = config \/ host'.bindings = Unbound
  BY DEF StartHost, StopHost
<1>6. BindingsStand'
  BY <1>1, <1>2, <1>5 DEF HInv, BindingsStand, Stands
<1>7. ops' = {}
  BY DEF StartHost, StopHost, HInv, OpsSound
<1>8. OpsSound' /\ HeardSound' /\ LandedSound'
  BY <1>1, <1>7 DEF HInv, OpsSound, HeardSound, AnswersAreDefinite, LandedSound, LandsWhereMeant
<1> QED BY <1>3, <1>4, <1>6, <1>8 DEF HInv

\* From the first replaced store on, nothing is promised of projects and keys.
LEMMA SwapStoreStep ==
  ASSUME HInv, NEW r \in Shelves, NEW p \in Projects, SwapStore(r, p)
  PROVE  HInv'
<1>1. UNCHANGED <<config, setup, host, guest, ops, landed, heard>> /\ shelf[r].at = "published"
      /\ tally' \in Tallies /\ tally'.requests = tally.requests /\ tally'.swaps = tally.swaps + 1
  BY UseCounts DEF SwapStore, HInv, HTyped
<1>2. tally'.swaps # 0
  BY <1>1 DEF HInv, HTyped, Tallies
<1>3. /\ shelf' \in [Shelves -> Stores] /\ shelf'[r].at = "published" /\ shelf'[r].tokens = {}
      /\ \A q \in Shelves \ {r} : shelf'[q] = shelf[q]
  BY DEF SwapStore, Published, Stores, HInv, HTyped
<1>4. HTyped'
  BY <1>1, <1>3 DEF HInv, HTyped
<1>5. BuildersOwn'
  BY <1>1, <1>3 DEF HInv, HTyped, BuildersOwn, Done, Making, Writing, Bindings
<1>6. BindingsStand'
  BY <1>1, <1>2, <1>3, <1>4, BindingsLast
<1>7. OpsSound' /\ HeardSound'
  BY <1>1 DEF HInv, OpsSound, HeardSound, AnswersAreDefinite
<1>8. LandedSound'
  BY <1>1, <1>2, <1>3 DEF HInv, HTyped, LandedSound, LandsWhereMeant, Landings
<1> QED BY <1>4, <1>5, <1>6, <1>7, <1>8 DEF HInv

-----------------------------------------------------------------------------
\* What the requests leave alone stays as it stands: the tokens of a store grow.
LEMMA StoresStand ==
  ASSUME HInv, HTyped', UNCHANGED <<config, setup, host>>, tally'.swaps = tally.swaps,
         \A r \in Shelves : shelf'[r].at = shelf[r].at /\ shelf'[r].project = shelf[r].project,
         \A r \in Shelves : shelf[r].at # "published" => shelf'[r].tokens = shelf[r].tokens
  PROVE  BuildersOwn' /\ BindingsStand'
<1>1. \A s \in Setups : setup[s].pc = "building" => setup[s].binding.shelf \in Shelves
  BY DEF HInv, HTyped, Done, Making, Writing, Bindings
<1>2. BuildersOwn'
  BY <1>1 DEF HInv, BuildersOwn
<1>3. BindingsStand'
  BY BindingsLast
<1> QED BY <1>2, <1>3

\* A request gets a number of its own.
LEMMA RequestStep ==
  ASSUME HInv, NEW g \in Guests, NEW x \in Selectors, NEW key \in Tokens, Request(g, x, key)
  PROVE  HInv'
<1> DEFINE n == tally.requests + 1
           o == [n |-> n, selector |-> x, key |-> key, at |-> "received", code |-> "none"]
           t == [n |-> n, key |-> key, code |-> "unavailable"]
<1>1. /\ tally' \in Tallies /\ tally'.requests = n /\ tally'.swaps = tally.swaps
      /\ tally.requests \in Nat /\ n \in Nat /\ tally.requests < n
  BY UseCounts DEF Request, HInv, HTyped, Tallies
<1>2. UNCHANGED <<shelf, config, configLock, setup, host, landed>>
  BY DEF Request
<1>3. /\ \A q \in ops : q.n # n /\ q.n <= n
      /\ \A l \in landed : l.n # n /\ l.n <= n
      /\ \A a \in heard : a.n # n /\ a.n <= n
      /\ \A h \in Guests : guest[h].waits => guest[h].n # n /\ guest[h].n <= n
  <2>1. ops \subseteq Operations /\ landed \subseteq Landings /\ heard \subseteq Answers
        /\ \A h \in Guests : guest[h].n \in Nat
    BY DEF HInv, HTyped
  <2>2. \A m \in Nat : m <= tally.requests => m # n /\ m <= n
    BY <1>1
  <2> QED BY <2>1, <2>2 DEF HInv, OpsSound, LandedSound, HeardSound, Operations, Landings, Answers
<1>4. CASE host.up /\ guest' = [guest EXCEPT ![g] = [waits |-> TRUE, n |-> n, key |-> key]]
           /\ ops' = ops \union {o} /\ UNCHANGED heard
  <2>1. o \in Operations /\ o.n = n /\ o.key = key /\ o.at = "received" /\ o.code = "none"
    BY <1>1 DEF Operations
  <2>2. guest'[g] = [waits |-> TRUE, n |-> n, key |-> key] /\ \A h \in Guests \ {g} : guest'[h] = guest[h]
    BY <1>4 DEF HInv, HTyped
  <2> HIDE DEF n, o
  <2>3. HTyped'
    BY <1>1, <1>2, <1>4, <2>1 DEF HInv, HTyped
  <2>4. OpsSound'
    BY <1>1, <1>2, <1>3, <1>4, <2>1 DEF HInv, OpsSound, Refusals
  <2>5. HeardSound'
    BY <1>1, <1>2, <1>3, <1>4, <2>1, <2>2 DEF HInv, HeardSound, AnswersAreDefinite
  <2>6. LandedSound'
    BY <1>1, <1>2, <1>3 DEF HInv, LandedSound, LandsWhereMeant
  <2> QED BY <1>1, <1>2, <2>3, <2>4, <2>5, <2>6, StoresStand DEF HInv
<1>5. CASE heard' = heard \union {t} /\ UNCHANGED <<guest, ops>>
  <2>1. t \in Answers /\ t.n = n /\ t.key = key /\ t.code = "unavailable"
    BY <1>1 DEF Answers, Refusals
  <2> HIDE DEF n, t
  <2>3. HTyped'
    BY <1>1, <1>2, <1>5, <2>1 DEF HInv, HTyped
  <2>4. OpsSound'
    BY <1>1, <1>2, <1>3, <1>5 DEF HInv, OpsSound
  <2>5. HeardSound'
    BY <1>1, <1>2, <1>3, <1>5, <2>1 DEF HInv, HeardSound, AnswersAreDefinite
  <2>6. LandedSound'
    BY <1>1, <1>2, <1>3 DEF HInv, LandedSound, LandsWhereMeant
  <2> QED BY <1>1, <1>2, <2>3, <2>4, <2>5, <2>6, StoresStand DEF HInv
<1> QED BY <1>4, <1>5 DEF Request

-----------------------------------------------------------------------------
\* A step of an operation that lands nothing: it goes on, or ends in an answer
\* that claims no effect it does not have.
Onward(o, at, code) ==
    /\ o \in ops /\ at \in {"admitted", "finished"} /\ code \in Refusals \union {"none", "ok", "cancelled", Ambiguous}
    /\ Step(o, at, code) /\ o.at \in {"received", "admitted"}
    /\ at = "admitted" => host.bindings[o.selector] # NoBinding
    /\ UNCHANGED <<config, setup, host, guest, heard, tally>>

(* An operation that moves on is replaced by one with its number, key and selector. *)
LEMMA OnwardOps ==
  ASSUME HInv, NEW o, NEW at, NEW code, Onward(o, at, code)
  PROVE  \E p \in Operations :
           /\ p.n = o.n /\ p.key = o.key /\ p.selector = o.selector /\ p.at = at /\ p.code = code
           /\ ops' = (ops \ {o}) \union {p}
<1>1. o \in Operations
  BY DEF Onward, HInv, HTyped
<1> DEFINE p == [o EXCEPT !.at = at, !.code = code]
<1>2. p \in Operations /\ p.n = o.n /\ p.key = o.key /\ p.selector = o.selector /\ p.at = at /\ p.code = code
  BY <1>1 DEF Onward, Operations
<1>3. ops' = (ops \ {o}) \union {p}
  BY DEF Onward, Step
<1> HIDE DEF p
<1> QED BY <1>2, <1>3

(* An operation moves on; it is answered "ok" only when its push has landed. *)
LEMMA OnwardStep ==
  ASSUME HInv, NEW o, NEW at, NEW code, Onward(o, at, code), UNCHANGED <<shelf, landed>>,
         code = "ok" => \E l \in landed : l.key = o.key
  PROVE  HInv'
<1>1. PICK p \in Operations :
        /\ p.n = o.n /\ p.key = o.key /\ p.selector = o.selector /\ p.at = at /\ p.code = code
        /\ ops' = (ops \ {o}) \union {p}
  BY OnwardOps
<1>2. UNCHANGED <<config, setup, host, guest, heard, tally>> /\ o \in ops
  BY DEF Onward
<1>3. HTyped'
  BY <1>1, <1>2 DEF HInv, HTyped
<1>4. \A l \in landed : l.n # o.n
  BY DEF Onward, HInv, OpsSound
<1>5. OpsSound'
  BY <1>1, <1>2, <1>4 DEF Onward, HInv, OpsSound
<1>6. HeardSound'
  BY <1>1, <1>2 DEF HInv, HeardSound, AnswersAreDefinite
<1>7. LandedSound'
  BY <1>2 DEF HInv, LandedSound, LandsWhereMeant
<1> QED BY <1>2, <1>3, <1>5, <1>6, <1>7, StoresStand DEF HInv

\* The bindings of the daemon admit an operation, or refuse it.
LEMMA AdmitStep ==
  ASSUME HInv, NEW o \in ops, Admit(o)
  PROVE  HInv'
<1> DEFINE at == IF Admits(o) = "none" THEN "admitted" ELSE "finished"
<1>1. Admits(o) \in Refusals \union {"none"} /\ Admits(o) # "ok"
      /\ (Admits(o) = "none" => host.bindings[o.selector] # NoBinding)
  BY DEF Admits, Refusals
<1>2. Onward(o, at, Admits(o)) /\ UNCHANGED <<shelf, landed>>
  BY <1>1 DEF Admit, Onward
<1> HIDE DEF at
<1> QED BY <1>1, <1>2, OnwardStep

\* A mutation lands in the store that still has the project it was bound to.
LEMMA ExecuteStep ==
  ASSUME HInv, NEW o \in ops, Execute(o)
  PROVE  HInv'
<1> DEFINE b == host.bindings[o.selector]
           r == b.shelf
           s == shelf[r]
           l == [n |-> o.n, key |-> o.key, shelf |-> r, project |-> s.project, meant |-> b.project]
           publish == /\ shelf' = [shelf EXCEPT ![r].tokens = @ \union {o.key}]
                      /\ landed' = landed \union {l}
<1>1. o \in Operations /\ o.at = "admitted" /\ UNCHANGED <<config, setup, host, guest, heard, tally>>
  BY DEF HInv, HTyped, Execute
<1>2. b \in Bindings /\ b # NoBinding /\ o.selector \in Selectors
  BY <1>1 DEF HInv, HTyped, OpsSound, Configs, Operations
<1>3. r \in Shelves /\ s \in Stores /\ s.at = "published" /\ b.project \in Projects
      /\ (tally.swaps = 0 => s.project = b.project)
  BY <1>2 DEF HInv, HTyped, BindingsStand, Stands, Bindings
<1>4. ASSUME NEW code \in {"invalid_configuration", "write_conflict", "cancelled", Ambiguous},
             Step(o, "finished", code), UNCHANGED <<shelf, landed>>
      PROVE  HInv'
  BY <1>1, <1>4, OnwardStep DEF Onward, Refusals, Ambiguous
<1>5. ASSUME o.key \in s.tokens, Step(o, "finished", "ok"), UNCHANGED <<shelf, landed>>
      PROVE  HInv'
  BY <1>1, <1>5, <1>3, OnwardStep DEF Onward, HInv, LandedSound
<1>6. ASSUME NEW code \in {"ok", Ambiguous}, s.project = b.project, o.key \notin s.tokens,
             Step(o, "finished", code), publish
      PROVE  HInv'
  <2>1. Onward(o, "finished", code)
    BY <1>1, <1>6 DEF Onward
  <2>2. PICK p \in Operations :
          /\ p.n = o.n /\ p.key = o.key /\ p.selector = o.selector /\ p.at = "finished" /\ p.code = code
          /\ ops' = (ops \ {o}) \union {p}
    BY <2>1, OnwardOps
  <2>3. l \in Landings /\ l.n = o.n /\ l.key = o.key /\ l.shelf = r /\ l.project = l.meant
    BY <1>1, <1>3, <1>6 DEF Landings, Operations, Stores
  <2>4. /\ shelf' \in [Shelves -> Stores] /\ shelf'[r].at = s.at /\ shelf'[r].project = s.project
        /\ shelf'[r].tokens = s.tokens \union {o.key}
        /\ \A q \in Shelves \ {r} : shelf'[q] = shelf[q]
    BY <1>1, <1>3, <1>6 DEF HInv, HTyped, Stores, Operations
  <2>5. landed' = landed \union {l}
    BY <1>6
  <2> HIDE DEF b, r, s, l, publish
  <2>6. HTyped'
    BY <1>1, <2>2, <2>3, <2>4, <2>5 DEF HInv, HTyped
  <2>7. BuildersOwn' /\ BindingsStand'
    BY <2>4, <1>3, <1>1, <2>6, StoresStand DEF s
  <2>8. OpsSound'
    BY <1>1, <2>2, <2>3, <2>5 DEF Refusals, Ambiguous, HInv, OpsSound
  <2>9. HeardSound'
    BY <1>1, <2>2, <2>3, <2>5 DEF HInv, HeardSound, AnswersAreDefinite
  <2>10. LandedSound'
    <3>1. tally.swaps = 0 => \A m \in landed : ~(m.shelf = r /\ m.key = o.key)
      BY <1>6 DEF s, HInv, LandedSound
    <3>2. \A m \in landed' : /\ m.n <= tally'.requests /\ shelf'[m.shelf].at = "published"
                             /\ tally'.swaps = 0 => m.key \in shelf'[m.shelf].tokens
      BY <1>1, <1>3, <2>3, <2>4, <2>5 DEF s, HInv, HTyped, Landings, LandedSound, OpsSound
    <3>3. \A q \in Shelves : \A k \in shelf'[q].tokens : \E m \in landed' : m.key = k
      BY <2>3, <2>4, <2>5 DEF s, HInv, LandedSound
    <3>4. LandsWhereMeant'
      BY <1>1, <2>3, <2>5, <3>1 DEF HInv, LandedSound, LandsWhereMeant
    <3> QED BY <3>2, <3>3, <3>4 DEF LandedSound
  <2> QED BY <2>6, <2>7, <2>8, <2>9, <2>10 DEF HInv
<1> HIDE DEF publish
<1> QED BY <1>4, <1>5, <1>6 DEF Execute, publish

-----------------------------------------------------------------------------
\* Nobody asked any more for an operation that is at its end.
LEMMA Removed ==
  ASSUME HInv, NEW o \in ops, ops' = ops \ {o}, UNCHANGED <<shelf, config, setup, host, landed, tally>>, HTyped'
  PROVE  BuildersOwn' /\ BindingsStand' /\ OpsSound' /\ LandedSound'
<1>1. BuildersOwn' /\ BindingsStand'
  BY StoresStand
<1>2. OpsSound'
  BY DEF HInv, OpsSound
<1>3. LandedSound'
  BY DEF HInv, LandedSound, LandsWhereMeant
<1> QED BY <1>1, <1>2, <1>3

\* Who waits is told what became of his own request.
LEMMA ReplyStep ==
  ASSUME HInv, NEW o \in ops, Reply(o)
  PROVE  HInv'
<1>1. o \in Operations /\ o.at = "finished" /\ ops' = ops \ {o} /\ UNCHANGED <<shelf, config, setup, host, landed, tally>>
  BY DEF HInv, HTyped, Reply
<1>2. CASE UNCHANGED <<guest, heard>>
  <2>1. HTyped'
    BY <1>1, <1>2 DEF HInv, HTyped
  <2>2. HeardSound'
    BY <1>1, <1>2 DEF HInv, HeardSound, AnswersAreDefinite
  <2> QED BY <1>1, <2>1, <2>2, Removed DEF HInv
<1>3. ASSUME NEW g \in Guests, guest[g].n = o.n, guest[g].waits, Tell(g, Understood(o.code))
      PROVE  HInv'
  <2> DEFINE t == [n |-> guest[g].n, key |-> guest[g].key, code |-> Understood(o.code)]
             w == [waits |-> FALSE, n |-> guest[g].n]
  <2>1. guest[g].key = o.key /\ o.n <= tally.requests
    BY <1>3 DEF HInv, HeardSound, OpsSound
  <2>2. t.n = o.n /\ t.key = o.key /\ t.code = Understood(o.code) /\ t \in Answers
    BY <1>1, <1>3, <2>1 DEF Answers, Operations, Understood
  <2>3. heard' = heard \union {t} /\ guest' = [guest EXCEPT ![g] = w]
    BY <1>3 DEF Tell
  <2>4. w \in [waits : {FALSE}, n : Nat]
    BY <1>1, <1>3 DEF Operations
  <2>5. guest'[g] = w /\ ~w.waits /\ \A h \in Guests \ {g} : guest'[h] = guest[h]
    BY <2>3 DEF HInv, HTyped
  <2> HIDE DEF t, w
  <2>6. HTyped'
    BY <1>1, <2>2, <2>3, <2>4 DEF HInv, HTyped
  <2>7. /\ t.code \in Refusals => \A l \in landed : l.n # o.n
        /\ t.code = "ok" => \E l \in landed : l.key = o.key
    BY <2>2 DEF HInv, OpsSound, Understood, Refusals, Ambiguous
  <2>8. \A q \in ops \ {o} : q.n # o.n
    BY DEF HInv, OpsSound
  <2>9. HeardSound'
    BY <1>1, <2>1, <2>2, <2>3, <2>8, <2>7, <2>5 DEF HInv, HeardSound, AnswersAreDefinite
  <2> QED BY <1>1, <2>6, <2>9, Removed DEF HInv
<1> QED BY <1>2, <1>3 DEF Reply

\* An answer that is lost claims nothing.
LEMMA LoseAnswerStep ==
  ASSUME HInv, NEW g \in Guests, LoseAnswer(g)
  PROVE  HInv'
<1> DEFINE t == [n |-> guest[g].n, key |-> guest[g].key, code |-> Ambiguous]
           w == [waits |-> FALSE, n |-> guest[g].n]
<1>1. UNCHANGED <<shelf, config, configLock, setup, host, ops, landed, tally>> /\ guest[g].waits
  BY DEF LoseAnswer
<1>2. heard' = heard \union {t} /\ guest' = [guest EXCEPT ![g] = w]
  BY DEF LoseAnswer, Tell
<1>3. guest[g] \in [waits : {TRUE}, n : Nat, key : Tokens]
  BY <1>1 DEF HInv, HTyped
<1>4. t \in Answers /\ t.n = guest[g].n /\ t.code \notin Refusals \union {"ok"} /\ w \in [waits : {FALSE}, n : Nat]
  BY <1>3 DEF Answers, Ambiguous, Refusals
<1>5. guest'[g] = w /\ ~w.waits /\ \A h \in Guests \ {g} : guest'[h] = guest[h]
  BY <1>2 DEF HInv, HTyped
<1> HIDE DEF t, w
<1>6. HTyped'
  BY <1>1, <1>2, <1>4 DEF HInv, HTyped
<1>7. OpsSound'
  BY <1>1 DEF HInv, OpsSound
<1>8. HeardSound'
  BY <1>1, <1>2, <1>4, <1>5 DEF HInv, HeardSound, AnswersAreDefinite
<1>9. LandedSound'
  BY <1>1 DEF HInv, LandedSound, LandsWhereMeant
<1> QED BY <1>1, <1>6, <1>7, <1>8, <1>9, StoresStand DEF HInv

-----------------------------------------------------------------------------
(* The daemon starts with nothing configured and nothing in flight. *)
LEMMA HInvInit ==
  ASSUME HostingInit
  PROVE  HInv
<1>1. HTyped
  BY DEF NoOne, Stores, Unbound, Configs, HostingInit, HTyped, Tallies
<1>2. BuildersOwn /\ OpsSound /\ HeardSound /\ LandedSound
  BY DEF HostingInit, BuildersOwn, OpsSound, HeardSound, AnswersAreDefinite, LandedSound, LandsWhereMeant, NoOne, Done
<1>3. BindingsStand
  BY DEF HostingInit, BindingsStand, Stands, Unbound, Done
<1> QED BY <1>1, <1>2, <1>3 DEF HInv

(* Every step of the clients, the setups and the daemon keeps the invariant. *)
LEMMA HInvStep ==
  ASSUME HInv, [HostingNext]_hostingVars
  PROVE  HInv'
<1>1. ASSUME NEW s \in Setups, SetupStep(s) PROVE HInv'
  BY <1>1, BeginSetupStep, MakeStoreStep, AbandonStoreStep, PublishStoreStep, LockConfigStep, WriteConfigStep,
     KillSetupStep DEF SetupStep
<1>2. CASE UNCHANGED hostingVars
  <2>1. UNCHANGED <<shelf, config, setup, host, guest, ops, landed, heard, tally>>
    BY <1>2 DEF hostingVars
  <2>2. HTyped'
    BY <2>1 DEF HInv, HTyped
  <2>3. BuildersOwn' /\ BindingsStand'
    BY <2>1, <2>2, StoresStand
  <2>4. OpsSound' /\ HeardSound' /\ LandedSound'
    BY <2>1, ServiceStands
  <2> QED BY <2>2, <2>3, <2>4 DEF HInv
<1> QED BY <1>1, <1>2, HostSteps, SwapStoreStep, LoseAnswerStep, RequestStep, AdmitStep, ExecuteStep, ReplyStep
        DEF HostingNext

\* Setup never overwrites or adopts a store, the configuration names one store
\* for a project, and a client knows from the answer whether its mutation may
\* still land (localproject, localprojectclient, the daemon's private socket).
THEOREM HostingStaysSafe == HostingSpec => []HostingIsSafe
<1>1. HInv => HostingIsSafe
  BY DEF HInv, BindingsStand, Stands, HeardSound, LandedSound, HostingIsSafe, RegistrationsStand, Bound
<1>2. HostingInit => HInv
  BY HInvInit
<1>3. HInv /\ [HostingNext]_hostingVars => HInv'
  BY HInvStep
<1> QED BY <1>1, <1>2, <1>3, PTL DEF HostingSpec

-----------------------------------------------------------------------------
(* The branch of one project (LocalGit): each commit follows the one before *)
(* it and a receipt is brought by the commit of its key, so that a key, once  *)
(* published, stays with one commit and one answer.                           *)

Codes == {"none", "answered", "writer_busy", "idempotency_conflict", "history_unavailable", "write_conflict",
          "publication_ambiguous", "publication_rejected", "unavailable", "crashed", "exported"}
Idles == [at : {"idle"}, key : GitKeys \union {NoGitKey}, code : Codes]
Asking == [at : {"called", "locked"}, key : GitKeys, intent : GitIntents, head : Nat,
           rev : Entity \union {NoEntity}, code : {"none"}]
Publishing == [at : {"publishing", "confirming", "doubting"}, key : GitKeys, intent : GitIntents, pin : Nat,
               code : {"none"}, commit : Commit]
Exporting == [at : {"exporting"}, key : {NoGitKey}, pin : Nat, code : {"none"}]
Bundling == [at : {"bundled"}, key : {NoGitKey}, pin : Nat, data : Nat, code : {"none"}]
Shapes == Idles \union Asking \union Publishing \union Exporting \union Bundling

GitTyped ==
    /\ log \in Seq(Commit) /\ gitLock \in Callers \union {NoCaller}
    /\ call \in [Callers -> Shapes]
    /\ answers \subseteq [key : GitKeys, origin : Nat, id : GitIds, entity : Entity]
    /\ bundles \subseteq [head : Nat, data : Nat]
    /\ calls \in 0..MaxCalls /\ outside \in 0..MaxOutside

\* What a commit may make of the one before it.
Follows(c, t) ==
    /\ \A kind \in Kinds : c.next[kind] >= t.next[kind]
    /\ \A k \in GitKeys :
         /\ t.receipts[k] # NoGitReceipt => c.receipts[k] = t.receipts[k] /\ c.by # k
         /\ t.receipts[k] = NoGitReceipt => /\ c.receipts[k] # NoGitReceipt <=> c.by = k
                                            /\ c.by = k => Describes(c, t, k)
    /\ \A e \in GitIds : t.ents[e] # NoEntity =>
         /\ c.ents[e] # NoEntity /\ c.ents[e].parent = t.ents[e].parent
         /\ t.ents[e].state = "deleted" => c.ents[e] = t.ents[e]

\* The branch: each commit follows the one before, a receipt stays as the commit
\* made it that is its key's.
LogSound ==
    /\ log # <<>> => log[1].by = NoGitKey /\ \A k \in GitKeys : log[1].receipts[k] = NoGitReceipt
    /\ \A n \in 1..Len(log) : WellFormed(log[n])
    /\ \A n \in 2..Len(log) : Follows(log[n], log[n - 1])
    /\ \A m, n \in 1..Len(log) : \A k \in GitKeys :
         m < n /\ log[m].receipts[k] # NoGitReceipt => log[n].receipts[k] = log[m].receipts[k]
    /\ \A n \in 1..Len(log) : \A k \in GitKeys :
         log[n].receipts[k] # NoGitReceipt => \E o \in 2..n : log[o].by = k

\* A candidate follows the commit it is pinned to; an export is of a history short enough.
CallSound(c) ==
    /\ c.at # "idle" => log # <<>>
    /\ c.at \in {"publishing", "confirming", "doubting"} =>
         /\ c.pin \in 1..Len(log) /\ c.commit.by = c.key
         /\ WellFormed(c.commit) /\ Follows(c.commit, log[c.pin])
    /\ c.at \in {"exporting", "bundled"} => c.pin \in 1..Len(log) /\ c.pin <= MaxHistory

\* An answer is what the commit of its key says.
AnswerSound(a) ==
    /\ a.origin \in 2..Len(log) /\ log[a.origin].by = a.key
    /\ a.id = log[a.origin].receipts[a.key].id /\ a.entity = log[a.origin].receipts[a.key].blob
BundleSound(b) == b.head = b.data /\ b.data \in 1..Len(log) /\ b.data <= MaxHistory

GitInv ==
    /\ GitTyped /\ LogSound
    /\ \A p \in Callers : CallSound(call[p])
    /\ \A a \in answers : AnswerSound(a)
    /\ \A b \in bundles : BundleSound(b)

-----------------------------------------------------------------------------
(* Commits *)

Fits(t, i) ==
    IF i.op = "create"
    THEN t.next[i.kind] < MaxId /\ (i.kind = "comment" => LiveIn(t, "issue", i.parent))
    ELSE LiveIn(t, i.kind, i.n)

\* A candidate for a key that the commit does not hold is a sound commit that
\* follows it (prepareMutationEntity, buildCommit).
LEMMA CandidateIs ==
  ASSUME NEW t \in Commit, WellFormed(t), NEW k \in GitKeys, t.receipts[k] = NoGitReceipt,
         NEW i \in GitIntents, Fits(t, i)
  PROVE  /\ Candidate(t, k, i) \in Commit /\ Candidate(t, k, i).by = k
         /\ WellFormed(Candidate(t, k, i)) /\ Follows(Candidate(t, k, i), t)
<1> DEFINE id == Target(t, i)
           e == Edited(t, i)
           c == Candidate(t, k, i)
           r == [intent |-> i, id |-> id, blob |-> e]
<1>1. /\ i.op \in {"create", "update", "delete"} /\ i.kind \in Kinds /\ i.n \in 0..MaxId /\ i.parent \in 0..MaxId
      /\ i.body \in Bodies \union {NoBody} /\ i \in Intent
      /\ (i.op = "create") <=> (i.n = 0)
      /\ (i.op = "create" /\ i.kind = "comment") <=> (i.parent # 0)
  BY DEF GitIntents, Intent
<1>2. /\ t.next \in [Kinds -> 1..MaxId] /\ t.ents \in [GitIds -> Entity \union {NoEntity}]
      /\ t.receipts \in [GitKeys -> GitReceipt \union {NoGitReceipt}] /\ MaxId \in Nat
  BY GitAssumption DEF Commit
<1>3. /\ id \in GitIds /\ id.kind = i.kind
      /\ i.op = "create" => id.n = t.next[i.kind] /\ t.ents[id] = NoEntity /\ t.next[i.kind] < MaxId
      /\ i.op # "create" => t.ents[id] \in Entity /\ t.ents[id].state = "live" /\ LiveIn(t, id.kind, id.n)
  <2>1. CASE i.op = "create"
    <3>1. id \in GitIds /\ id.kind = i.kind /\ id.n = t.next[i.kind]
      BY <1>1, <1>2, <2>1 DEF Target, GitIds
    <3>2. t.ents[id] = NoEntity
      <4>1. t.ents[id] # NoEntity => id.n < t.next[id.kind]
        BY <3>1 DEF WellFormed
      <4>2. t.next[i.kind] \in Nat /\ ~(t.next[i.kind] < t.next[i.kind])
        BY <1>1, <1>2
      <4> QED
        BY <3>1, <4>1, <4>2
    <3> QED
      BY <2>1, <3>1, <3>2 DEF Fits
  <2>2. CASE i.op # "create"
    <3>1. LiveIn(t, i.kind, i.n)
      BY <2>2 DEF Fits
    <3>2. id = [kind |-> i.kind, n |-> i.n] /\ id \in GitIds
      BY <1>1, <2>2 DEF Target, GitIds
    <3>3. t.ents[id] # NoEntity /\ t.ents[id].state = "live"
      BY <3>1, <3>2 DEF LiveIn
    <3> QED
      BY <1>2, <2>2, <3>1, <3>2, <3>3
  <2> QED
    BY <2>1, <2>2
<1> HIDE DEF id
<1>4. /\ e \in Entity /\ e # NoEntity
      /\ i.op = "delete" <=> e.state = "deleted"
      /\ i.op = "create" => e.parent = i.parent
      /\ i.op # "create" => e.parent = t.ents[id].parent
  <2>1. CASE i.op = "create"
    BY <1>1, <2>1, GitNothings DEF Edited, Entity
  <2>2. CASE i.op = "update"
    BY <2>2, <1>1, <1>3, GitNothings DEF Edited, id, Entity
  <2>3. CASE i.op = "delete"
    BY <2>3, <1>1, <1>3, GitNothings DEF Edited, id, Entity
  <2> QED
    BY <1>1, <2>1, <2>2, <2>3
<1>5. /\ c.next = IF i.op = "create" THEN [t.next EXCEPT ![i.kind] = @ + 1] ELSE t.next
      /\ c.ents = [t.ents EXCEPT ![id] = e]
      /\ c.receipts = [t.receipts EXCEPT ![k] = r] /\ c.by = k
      /\ c = [next |-> c.next, ents |-> c.ents, receipts |-> c.receipts, by |-> c.by]
  BY DEF Candidate, id
<1> HIDE DEF e, c
<1>6. r \in GitReceipt /\ r # NoGitReceipt /\ r.intent = i /\ r.id = id /\ r.blob = e
  BY <1>1, <1>3, <1>4, GitNothings DEF GitReceipt
<1> HIDE DEF r
<1>7. /\ c.next \in [Kinds -> 1..MaxId] /\ \A kind \in Kinds : c.next[kind] >= t.next[kind]
      /\ i.op = "create" => c.next[i.kind] = t.next[i.kind] + 1
  BY <1>1, <1>2, <1>3, <1>5
<1>8. /\ c.ents \in [GitIds -> Entity \union {NoEntity}] /\ c.ents[id] = e
      /\ \A x \in GitIds \ {id} : c.ents[x] = t.ents[x]
  BY <1>2, <1>3, <1>4, <1>5
<1>9. /\ c.receipts \in [GitKeys -> GitReceipt \union {NoGitReceipt}] /\ c.receipts[k] = r
      /\ \A x \in GitKeys \ {k} : c.receipts[x] = t.receipts[x]
  BY <1>2, <1>5, <1>6
<1>10. c \in Commit
  BY <1>5, <1>7, <1>8, <1>9 DEF Commit
<1>11. \A x \in GitIds : t.ents[x] # NoEntity => c.ents[x] # NoEntity /\ c.ents[x].parent = t.ents[x].parent
                                           /\ (t.ents[x].state = "deleted" => c.ents[x] = t.ents[x])
  BY <1>3, <1>4, <1>8
<1>12. Describes(c, t, k)
  BY <1>1, <1>3, <1>4, <1>6, <1>7, <1>8, <1>9 DEF Describes, Fits
<1>13. WellFormed(c)
  <2> SUFFICES ASSUME NEW x \in GitIds, c.ents[x] # NoEntity
               PROVE  /\ x.n < c.next[x.kind]
                      /\ x.kind = "comment" =>
                           /\ c.ents[x].parent # 0 /\ "issue" \in Kinds
                           /\ c.ents[[kind |-> "issue", n |-> c.ents[x].parent]] # NoEntity
    BY DEF WellFormed
  <2>1. x.kind \in Kinds /\ x.n \in 1..MaxId
    BY DEF GitIds
  <2>2. CASE x # id \/ i.op # "create"
    <3>1. t.ents[x] # NoEntity /\ c.ents[x].parent = t.ents[x].parent
      BY <1>3, <1>8, <1>11, <2>2, GitNothings
    <3>2. /\ x.n < t.next[x.kind]
          /\ x.kind = "comment" => /\ t.ents[x].parent # 0 /\ "issue" \in Kinds
                                  /\ t.ents[[kind |-> "issue", n |-> t.ents[x].parent]] # NoEntity
      BY <3>1 DEF WellFormed
    <3>3. t.ents[x].parent \in 0..MaxId
      BY <1>2, <3>1 DEF Entity
    <3>4. x.kind = "comment" => [kind |-> "issue", n |-> t.ents[x].parent] \in GitIds
      BY <3>2, <3>3 DEF GitIds
    <3>5. x.n < c.next[x.kind]
      BY <1>2, <1>7, <2>1, <3>2
    <3> QED
      BY <1>11, <3>1, <3>2, <3>4, <3>5
  <2>3. CASE x = id /\ i.op = "create"
    <3>1. x.n < c.next[x.kind]
      BY <1>2, <1>3, <1>7, <2>1, <2>3
    <3>2. ASSUME x.kind = "comment"
          PROVE  /\ e.parent # 0 /\ "issue" \in Kinds
                 /\ [kind |-> "issue", n |-> e.parent] \in GitIds
                 /\ t.ents[[kind |-> "issue", n |-> e.parent]] # NoEntity
      BY <1>3, <1>4, <2>3, <3>2, <1>1 DEF Fits, LiveIn, GitIds
    <3> QED
      BY <1>8, <1>11, <2>3, <3>1, <3>2
  <2> QED
    BY <2>2, <2>3
<1>14. Follows(c, t)
  BY <1>5, <1>6, <1>9, <1>12, <1>7, <1>11 DEF Follows
<1> QED
  BY <1>5, <1>10, <1>13, <1>14 DEF c
\* What others do to the branch follows it too.
LEMMA OutsideIs ==
  ASSUME GitTyped, LogSound, OutsideCommit
  PROVE  \E c \in Commit : /\ log' = Append(log, c) /\ c.by = NoGitKey
                           /\ WellFormed(c) /\ Follows(c, Tip)
<1>1. log # <<>> /\ Len(log) \in Nat /\ Len(log) >= 1 /\ Tip \in Commit /\ WellFormed(Tip)
  <2>1. log # <<>> /\ log \in Seq(Commit)
    BY DEF OutsideCommit, GitTyped
  <2>2. Len(log) \in Nat /\ Len(log) >= 1 /\ Len(log) \in 1..Len(log)
    BY <2>1
  <2> QED
    BY <2>1, <2>2 DEF LogSound, Tip
<1> DEFINE t == Tip
<1> HIDE DEF t
<1>2. /\ t.next \in [Kinds -> 1..MaxId] /\ t.ents \in [GitIds -> Entity \union {NoEntity}] /\ MaxId \in Nat
      /\ t.receipts \in [GitKeys -> GitReceipt \union {NoGitReceipt}]
      /\ t = [next |-> t.next, ents |-> t.ents, receipts |-> t.receipts, by |-> t.by]
      /\ WellFormed(t)
  BY <1>1, GitAssumption DEF Commit, t
<1>3. \A ents \in [GitIds -> Entity \union {NoEntity}] :
        /\ \A x \in GitIds : (ents[x] = NoEntity <=> t.ents[x] = NoEntity)
             /\ (t.ents[x] # NoEntity => /\ ents[x].parent = t.ents[x].parent
                                         /\ t.ents[x].state = "deleted" => ents[x] = t.ents[x])
        => LET c == [next |-> t.next, ents |-> ents, receipts |-> t.receipts, by |-> NoGitKey]
           IN c \in Commit /\ WellFormed(c) /\ Follows(c, t)
  <2> SUFFICES ASSUME NEW ents \in [GitIds -> Entity \union {NoEntity}],
                      \A x \in GitIds : (ents[x] = NoEntity <=> t.ents[x] = NoEntity)
                        /\ (t.ents[x] # NoEntity => /\ ents[x].parent = t.ents[x].parent
                                                    /\ t.ents[x].state = "deleted" => ents[x] = t.ents[x]),
                      NEW c, c = [next |-> t.next, ents |-> ents, receipts |-> t.receipts, by |-> NoGitKey]
               PROVE  c \in Commit /\ WellFormed(c) /\ Follows(c, t)
    OBVIOUS
  <2>1. c \in Commit
    BY <1>2 DEF Commit
  <2>2. c.next = t.next /\ c.ents = ents /\ c.receipts = t.receipts /\ c.by = NoGitKey
    OBVIOUS
  <2>3. WellFormed(c)
    <3> SUFFICES ASSUME NEW x \in GitIds, c.ents[x] # NoEntity
                 PROVE  /\ x.n < c.next[x.kind]
                        /\ x.kind = "comment" =>
                             /\ c.ents[x].parent # 0 /\ "issue" \in Kinds
                             /\ c.ents[[kind |-> "issue", n |-> c.ents[x].parent]] # NoEntity
      BY DEF WellFormed
    <3>1. t.ents[x] # NoEntity /\ c.ents[x].parent = t.ents[x].parent /\ t.ents[x].parent \in 0..MaxId
      BY <1>2, <2>2 DEF Entity
    <3>2. /\ x.n < t.next[x.kind]
          /\ x.kind = "comment" => /\ t.ents[x].parent # 0 /\ "issue" \in Kinds
                                  /\ t.ents[[kind |-> "issue", n |-> t.ents[x].parent]] # NoEntity
      BY <1>2, <3>1 DEF WellFormed
    <3>3. x.kind = "comment" => [kind |-> "issue", n |-> t.ents[x].parent] \in GitIds
      BY <3>1, <3>2 DEF GitIds
    <3> QED
      BY <2>2, <3>1, <3>2, <3>3
  <2>4. Follows(c, t)
    BY <1>2, <2>2, GitAssumption DEF Follows
  <2> QED
    BY <2>1, <2>3, <2>4
<1>4. CASE log' = Append(log, [Tip EXCEPT !.by = NoGitKey])
  <2> DEFINE c == [next |-> t.next, ents |-> t.ents, receipts |-> t.receipts, by |-> NoGitKey]
  <2>1. c \in Commit /\ WellFormed(c) /\ Follows(c, t)
    BY <1>2, <1>3
  <2>2. [t EXCEPT !.by = NoGitKey] = c /\ c.by = NoGitKey
    BY <1>2
  <2> QED
    BY <1>4, <2>1, <2>2 DEF t
<1>5. ASSUME NEW i \in GitIds, NEW b \in Bodies, LiveIn(t, i.kind, i.n), NEW e \in Entity, e.parent = t.ents[i].parent,
             log' = Append(log, [next |-> t.next, ents |-> [t.ents EXCEPT ![i] = e],
                                 receipts |-> t.receipts, by |-> NoGitKey])
      PROVE  \E c \in Commit : log' = Append(log, c) /\ c.by = NoGitKey /\ WellFormed(c) /\ Follows(c, t)
  <2> DEFINE ents == [t.ents EXCEPT ![i] = e]
             c == [next |-> t.next, ents |-> ents, receipts |-> t.receipts, by |-> NoGitKey]
  <2>1. ents \in [GitIds -> Entity \union {NoEntity}] /\ ents[i] = e /\ \A x \in GitIds \ {i} : ents[x] = t.ents[x]
    BY <1>2
  <2>2. i = [kind |-> i.kind, n |-> i.n]
    BY DEF GitIds
  <2>3. t.ents[i] # NoEntity /\ t.ents[i].state = "live" /\ e # NoEntity
    BY <1>5, <2>2, GitNothings DEF LiveIn
  <2> HIDE DEF ents
  <2>4. \A x \in GitIds : (ents[x] = NoEntity <=> t.ents[x] = NoEntity)
             /\ (t.ents[x] # NoEntity => /\ ents[x].parent = t.ents[x].parent
                                         /\ t.ents[x].state = "deleted" => ents[x] = t.ents[x])
    BY <1>5, <2>1, <2>3
  <2>5. c \in Commit /\ WellFormed(c) /\ Follows(c, t)
    BY <1>3, <2>1, <2>4
  <2>6. log' = Append(log, c) /\ c.by = NoGitKey
    BY <1>5 DEF ents
  <2> QED
    BY <2>5, <2>6
<1>6. ASSUME NEW i \in GitIds, NEW b \in Bodies, LiveIn(Tip, i.kind, i.n),
             \/ log' = Append(log, [Tip EXCEPT !.by = NoGitKey, !.ents[i].body = b])
             \/ log' = Append(log, [Tip EXCEPT !.by = NoGitKey, !.ents[i].state = "deleted",
                                               !.ents[i].body = NoBody])
      PROVE  \E c \in Commit : log' = Append(log, c) /\ c.by = NoGitKey /\ WellFormed(c) /\ Follows(c, t)
  <2>1. i = [kind |-> i.kind, n |-> i.n]
    BY DEF GitIds
  <2>2. t.ents[i] \in Entity
    BY <1>2, <1>6, <2>1 DEF LiveIn, t
  <2> DEFINE u == [next |-> t.next, ents |-> t.ents, receipts |-> t.receipts, by |-> NoGitKey]
  <2>0. [t EXCEPT !.by = NoGitKey] = u
    BY <1>2
  <2>3. CASE log' = Append(log, [t EXCEPT !.by = NoGitKey, !.ents[i].body = b])
    <3> DEFINE e == [t.ents[i] EXCEPT !.body = b]
    <3>1. e \in Entity /\ e.parent = t.ents[i].parent
      BY <2>2 DEF Entity
    <3>2. [t EXCEPT !.by = NoGitKey, !.ents[i].body = b]
            = [next |-> t.next, ents |-> [t.ents EXCEPT ![i] = e], receipts |-> t.receipts, by |-> NoGitKey]
      <4>1. [t EXCEPT !.by = NoGitKey, !.ents[i].body = b] = [u EXCEPT !.ents[i].body = b]
        BY <2>0
      <4>2. [u EXCEPT !.ents[i].body = b]
              = [next |-> t.next, ents |-> [t.ents EXCEPT ![i].body = b], receipts |-> t.receipts, by |-> NoGitKey]
        OBVIOUS
      <4>3. [t.ents EXCEPT ![i].body = b] = [t.ents EXCEPT ![i] = e]
        BY <1>2
      <4> QED
        BY <4>1, <4>2, <4>3
    <3> HIDE DEF e
    <3> QED
      BY <1>5, <1>6, <2>3, <3>1, <3>2 DEF t
  <2>4. CASE log' = Append(log, [t EXCEPT !.by = NoGitKey, !.ents[i].state = "deleted", !.ents[i].body = NoBody])
    <3> DEFINE e == [t.ents[i] EXCEPT !.state = "deleted", !.body = NoBody]
    <3>1. e \in Entity /\ e.parent = t.ents[i].parent
      BY <2>2 DEF Entity
    <3>2. [t EXCEPT !.by = NoGitKey, !.ents[i].state = "deleted", !.ents[i].body = NoBody]
            = [next |-> t.next, ents |-> [t.ents EXCEPT ![i] = e], receipts |-> t.receipts, by |-> NoGitKey]
      <4> DEFINE d == [t.ents EXCEPT ![i].state = "deleted"]
                 v == [next |-> t.next, ents |-> d, receipts |-> t.receipts, by |-> NoGitKey]
      <4>1. [t EXCEPT !.by = NoGitKey, !.ents[i].state = "deleted", !.ents[i].body = NoBody]
              = [[u EXCEPT !.ents[i].state = "deleted"] EXCEPT !.ents[i].body = NoBody]
        BY <2>0
      <4>2. [u EXCEPT !.ents[i].state = "deleted"] = v
        OBVIOUS
      <4>3. [v EXCEPT !.ents[i].body = NoBody]
              = [next |-> t.next, ents |-> [d EXCEPT ![i].body = NoBody], receipts |-> t.receipts, by |-> NoGitKey]
        OBVIOUS
      <4>4. [d EXCEPT ![i].body = NoBody] = [t.ents EXCEPT ![i] = e]
        BY <1>2
      <4> QED
        BY <4>1, <4>2, <4>3, <4>4
    <3> HIDE DEF e
    <3> QED
      BY <1>5, <1>6, <2>4, <3>1, <3>2 DEF t
  <2> QED
    BY <1>6, <2>3, <2>4 DEF t
<1> QED
  BY <1>4, <1>6 DEF OutsideCommit, t
-----------------------------------------------------------------------------
(* The branch *)

\* A commit that follows the tip keeps the branch sound.
LEMMA LogGrows ==
  ASSUME GitTyped, LogSound, log # <<>>,
         NEW c \in Commit, WellFormed(c), Follows(c, Tip), log' = Append(log, c)
  PROVE  /\ LogSound' /\ log' \in Seq(Commit) /\ Len(log') = Len(log) + 1 /\ Len(log) \in Nat \ {0}
         /\ \A n \in 1..Len(log) : log'[n] = log[n]
<1>1. /\ log \in Seq(Commit) /\ Len(log) \in Nat /\ Len(log) >= 1 /\ Tip = log[Len(log)]
      /\ \A n \in 1..Len(log) : log[n] \in Commit
  BY DEF GitTyped, Tip
<1> DEFINE l == log'
           L == Len(log)
<1>2. /\ l \in Seq(Commit) /\ Len(l) = L + 1 /\ l[L + 1] = c
      /\ \A n \in 1..L : l[n] = log[n]
  BY <1>1
<1> HIDE DEF l, L
<1>3. L \in Nat /\ L >= 1 /\ L = Len(log) /\ Follows(c, log[L])
  BY <1>1 DEF L
<1>4. l # <<>> /\ l[1].by = NoGitKey /\ \A k \in GitKeys : l[1].receipts[k] = NoGitReceipt
  BY <1>2, <1>3 DEF LogSound
<1>5. \A n \in 1..Len(l) : WellFormed(l[n])
  BY <1>2, <1>3 DEF LogSound
<1>6. \A n \in 2..Len(l) : Follows(l[n], l[n - 1])
  <2> SUFFICES ASSUME NEW n \in 2..Len(l) PROVE Follows(l[n], l[n - 1])
    OBVIOUS
  <2>1. CASE n \in 2..L
    BY <1>2, <1>3, <2>1 DEF LogSound
  <2>2. CASE n = L + 1
    BY <1>3, <2>2, <1>2
  <2> QED
    BY <1>2, <1>3, <2>1, <2>2
<1>7. \A k \in GitKeys : log[L].receipts[k] # NoGitReceipt => c.receipts[k] = log[L].receipts[k]
  BY <1>3 DEF Follows
<1>8. \A m, n \in 1..Len(l) : \A k \in GitKeys :
         m < n /\ l[m].receipts[k] # NoGitReceipt => l[n].receipts[k] = l[m].receipts[k]
  <2> SUFFICES ASSUME NEW m \in 1..Len(l), NEW n \in 1..Len(l), NEW k \in GitKeys,
                      m < n, l[m].receipts[k] # NoGitReceipt
               PROVE  l[n].receipts[k] = l[m].receipts[k]
    OBVIOUS
  <2>1. m \in 1..L /\ l[m] = log[m]
    BY <1>2, <1>3
  <2>2. CASE n \in 1..L
    BY <1>2, <1>3, <2>1, <2>2 DEF LogSound
  <2>3. CASE n = L + 1
    <3>1. log[L].receipts[k] = log[m].receipts[k]
      <4>1. CASE m = L
        BY <4>1
      <4>2. CASE m < L
        BY <1>3, <2>1, <4>2 DEF LogSound
      <4> QED
        BY <1>3, <2>1, <4>1, <4>2
    <3> QED
      BY <1>2, <1>7, <2>1, <2>3, <3>1
  <2> QED
    BY <1>2, <1>3, <2>2, <2>3
<1>9. \A n \in 1..Len(l) : \A k \in GitKeys :
         l[n].receipts[k] # NoGitReceipt => \E o \in 2..n : l[o].by = k
  <2> SUFFICES ASSUME NEW n \in 1..Len(l), NEW k \in GitKeys, l[n].receipts[k] # NoGitReceipt
               PROVE  \E o \in 2..n : l[o].by = k
    OBVIOUS
  <2>1. \A m \in 1..L : log[m].receipts[k] # NoGitReceipt => \E o \in 2..m : log[o].by = k
    BY <1>3 DEF LogSound
  <2>2. ASSUME NEW m \in 1..L, m <= n, log[m].receipts[k] # NoGitReceipt
        PROVE  \E o \in 2..n : l[o].by = k
    <3>1. PICK o \in 2..m : log[o].by = k
      BY <2>1, <2>2
    <3>2. o \in 1..L /\ o \in 2..n
      BY <1>2, <1>3, <2>2
    <3> QED
      BY <1>2, <3>1, <3>2
  <2>3. CASE n \in 1..L
    BY <1>2, <2>2, <2>3
  <2>4. CASE n = L + 1
    <3>1. CASE log[L].receipts[k] # NoGitReceipt
      BY <1>3, <2>4, <2>2, <3>1
    <3>2. CASE log[L].receipts[k] = NoGitReceipt
      BY <1>2, <1>3, <2>4, <3>2 DEF Follows
    <3> QED
      BY <3>1, <3>2
  <2> QED
    BY <1>2, <1>3, <2>3, <2>4
<1>10. LogSound'
  BY <1>4, <1>5, <1>6, <1>8, <1>9 DEF LogSound, l
<1> QED
  BY <1>2, <1>3, <1>10 DEF l, L

\* One commit is made for a key, and it brings the key's receipt.
LEMMA KeysOnce ==
  ASSUME GitTyped, LogSound, NEW k \in GitKeys, NEW n \in 1..Len(log), log[n].by = k
  PROVE  /\ n \in 2..Len(log) /\ Describes(log[n], log[n - 1], k)
         /\ log[n].receipts[k] # NoGitReceipt /\ log[n - 1].receipts[k] = NoGitReceipt
         /\ \A m \in 1..Len(log) : log[m].by = k => m = n
<1>1. Len(log) \in Nat /\ NoGitKey \notin GitKeys
  BY GitAssumption DEF GitTyped
<1>2. ASSUME NEW m \in 1..Len(log), log[m].by = k
      PROVE  /\ m \in 2..Len(log) /\ Describes(log[m], log[m - 1], k)
             /\ log[m].receipts[k] # NoGitReceipt /\ log[m - 1].receipts[k] = NoGitReceipt
  <2>1. m # 1
    BY <1>1, <1>2 DEF LogSound
  <2>2. m \in 2..Len(log)
    BY <1>1, <2>1
  <2>3. Follows(log[m], log[m - 1])
    BY <2>2 DEF LogSound
  <2> QED
    BY <1>2, <2>2, <2>3 DEF Follows
<1>3. ASSUME NEW m \in 1..Len(log), NEW o \in 1..Len(log), log[m].by = k, log[o].by = k, m < o
      PROVE  FALSE
  <2>1. log[m].receipts[k] # NoGitReceipt /\ log[o - 1].receipts[k] = NoGitReceipt
    BY <1>2, <1>3
  <2>2. o - 1 \in 1..Len(log) /\ (m = o - 1 \/ m < o - 1)
    BY <1>1, <1>3
  <2>3. CASE m = o - 1
    BY <2>1, <2>3
  <2>4. CASE m < o - 1
    BY <2>1, <2>2, <2>4 DEF LogSound
  <2> QED
    BY <2>2, <2>3, <2>4
<1>4. ASSUME NEW m \in 1..Len(log), log[m].by = k PROVE m = n
  BY <1>3, <1>4, <1>1
<1> QED
  BY <1>2, <1>4

\* The origin of a known key is the commit that was made for it.
LEMMA OriginIs ==
  ASSUME GitTyped, LogSound, log # <<>>, NEW k \in GitKeys, Known(log, k)
  PROVE  /\ Origin(log, k) \in 2..Len(log) /\ log[Origin(log, k)].by = k
         /\ log[Origin(log, k)].receipts[k] = Tip.receipts[k]
         /\ Tip.receipts[k] \in GitReceipt
<1>1. Len(log) \in Nat /\ Len(log) >= 1 /\ Len(log) \in 1..Len(log) /\ log[Len(log)] \in Commit
  BY DEF GitTyped
<1> DEFINE L == Len(log)
           Is(o) == /\ \A i \in o..L : log[i].receipts[k] = log[L].receipts[k]
                    /\ o = 1 \/ log[o - 1].receipts[k] = NoGitReceipt
<1>2. log[L].receipts[k] # NoGitReceipt /\ log[L].receipts[k] \in GitReceipt
  BY <1>1 DEF Known, Commit
<1>3. PICK o \in 2..L : log[o].by = k
  BY <1>1, <1>2 DEF LogSound
<1>4. o \in 1..L
  BY <1>1
<1>5. log[o].receipts[k] # NoGitReceipt /\ log[o - 1].receipts[k] = NoGitReceipt
  BY <1>3, <1>4, KeysOnce
<1>6. \A i \in o..L : log[i].receipts[k] = log[o].receipts[k]
  BY <1>1, <1>4, <1>5 DEF LogSound
<1>7. Is(o)
  BY <1>1, <1>5, <1>6
<1>8. Origin(log, k) \in 1..L /\ Is(Origin(log, k))
  <2>1. Origin(log, k) = CHOOSE x \in 1..L : Is(x)
    BY DEF Origin
  <2> HIDE DEF Is
  <2> QED
    BY <1>4, <1>7, <2>1
<1> DEFINE q == Origin(log, k)
<1> HIDE DEF q
<1>9. q \in 1..L /\ Is(q)
  BY <1>8 DEF q
<1>10. q \in q..L
  BY <1>1, <1>9
<1>11. log[q].receipts[k] = log[L].receipts[k]
  BY <1>9, <1>10
<1>12. q # 1
  BY <1>2, <1>11 DEF LogSound
<1>13. q \in 2..L /\ log[q - 1].receipts[k] = NoGitReceipt
  BY <1>1, <1>9, <1>12
<1>14. log[q].by = k
  BY <1>13, <1>2, <1>11 DEF LogSound, Follows
<1> QED
  BY <1>2, <1>11, <1>13, <1>14 DEF q, Tip
-----------------------------------------------------------------------------
(* Steps *)

AnswerType == [key : GitKeys, origin : Nat, id : GitIds, entity : Entity]
BundleType == [head : Nat, data : Nat]

\* A caller goes on to a sound stage.
Moves(p) == \E c \in Shapes : CallSound(c) /\ call' = [call EXCEPT ![p] = c]

\* What a step that leaves the branch alone may do.
Quiet(p) ==
    /\ UNCHANGED <<log, outside>>
    /\ Moves(p) \/ UNCHANGED call
    /\ gitLock' \in Callers \union {NoCaller} /\ calls' \in 0..MaxCalls
    /\ answers' \subseteq AnswerType /\ bundles' \subseteq BundleType
    /\ \A a \in answers' : AnswerSound(a)
    /\ \A b \in bundles' : BundleSound(b)

\* A step that leaves the branch alone keeps the invariant.
LEMMA QuietKeeps ==
  ASSUME GitInv, NEW p \in Callers, Quiet(p)
  PROVE  GitInv'
<1>0. UNCHANGED log
  BY DEF Quiet
<1>1. LogSound'
  <2>1. LogSound
    BY DEF GitInv
  <2> QED
    BY <1>0, <2>1 DEF LogSound
<1>2. call' \in [Callers -> Shapes] /\ \A q \in Callers : CallSound(call'[q])
  <2>1. CASE Moves(p)
    <3>1. PICK c \in Shapes : CallSound(c) /\ call' = [call EXCEPT ![p] = c]
      BY <2>1 DEF Moves
    <3> QED
      BY <3>1 DEF GitInv, GitTyped
  <2>2. CASE UNCHANGED call
    BY <2>2 DEF GitInv, GitTyped
  <2> QED
    BY <2>1, <2>2 DEF Quiet
<1>3. (\A q \in Callers : CallSound(call[q]))'
  BY <1>2 DEF Quiet, CallSound
<1>4. (\A a \in answers : AnswerSound(a))'
  BY DEF Quiet, AnswerSound
<1>5. (\A b \in bundles : BundleSound(b))'
  BY DEF Quiet, BundleSound
<1>6. GitTyped'
  BY <1>2 DEF Quiet, GitInv, GitTyped, AnswerType, BundleType
<1> QED
  BY <1>1, <1>3, <1>4, <1>5, <1>6 DEF GitInv

\* What a call is, by its stage.
LEMMA ShapeIs ==
  ASSUME GitInv, NEW p \in Callers
  PROVE  /\ call[p] \in Shapes /\ call[p].key \in GitKeys \union {NoGitKey} /\ CallSound(call[p])
         /\ call[p].at \in {"called", "locked"} => call[p] \in Asking
         /\ call[p].at \in {"publishing", "confirming", "doubting"} => call[p] \in Publishing
         /\ call[p].at = "exporting" => call[p] \in Exporting
         /\ call[p].at = "bundled" => call[p] \in Bundling
BY DEF GitInv, GitTyped, Shapes, Idles, Asking, Publishing, Exporting, Bundling

\* A call that returns leaves nothing behind.
LEMMA Returns ==
  ASSUME GitInv, NEW p \in Callers, NEW code \in Codes, GitReturn(p, code)
  PROVE  Moves(p) /\ gitLock' \in Callers \union {NoCaller}
<1> DEFINE c == [GitIdle EXCEPT !.key = call[p].key, !.code = code]
<1>1. call[p].key \in GitKeys \union {NoGitKey}
  BY ShapeIs
<1>2. c \in Idles /\ c.at = "idle"
  BY <1>1 DEF GitIdle, Idles
<1>3. c \in Shapes /\ CallSound(c)
  BY <1>2 DEF Shapes, CallSound
<1>4. call' = [call EXCEPT ![p] = c] /\ gitLock' \in Callers \union {NoCaller}
  BY DEF GitReturn, GitInv, GitTyped
<1> HIDE DEF c
<1> QED
  BY <1>3, <1>4 DEF Moves

\* What an idle caller's step writes is typed and sound.
LEMMA NothingSaid ==
  ASSUME GitInv, UNCHANGED <<log, answers>>
  PROVE  answers' \subseteq AnswerType /\ \A a \in answers' : AnswerSound(a)
BY DEF GitInv, GitTyped, AnswerType

\* No bundle is written.
LEMMA NothingExported ==
  ASSUME GitInv, UNCHANGED <<log, bundles>>
  PROVE  bundles' \subseteq BundleType /\ \A b \in bundles' : BundleSound(b)
BY DEF GitInv, GitTyped, BundleType

\* The answer for a known key is what the commit of the key says.
LEMMA AnswersAreSound ==
  ASSUME GitInv, log # <<>>, NEW p \in Callers, call[p].key \in GitKeys, Known(log, call[p].key), Answer(p),
         UNCHANGED <<log, bundles, calls, outside>>
  PROVE  Quiet(p)
<1> DEFINE k == call[p].key
           o == Origin(log, k)
           a == Result(log, k)
<1> HIDE DEF k, o, a
<1>1. /\ o \in 2..Len(log) /\ log[o].by = k /\ k \in GitKeys
      /\ log[o].receipts[k] \in GitReceipt
  BY OriginIs DEF GitInv, k, o
<1>2. a = [key |-> k, origin |-> o, id |-> log[o].receipts[k].id, entity |-> log[o].receipts[k].blob]
  BY DEF a, o, k, Result
<1>3. a \in AnswerType /\ AnswerSound(a)
  BY <1>1, <1>2 DEF GitReceipt, GitInv, GitTyped, AnswerType, AnswerSound
<1>4. answers' = answers \union {a} /\ GitReturn(p, "answered")
  BY DEF Answer, a, k
<1>5. Moves(p) /\ gitLock' \in Callers \union {NoCaller}
  BY <1>4, Returns DEF Codes
<1>6. answers' \subseteq AnswerType /\ \A x \in answers' : AnswerSound(x)
  BY <1>3, <1>4 DEF GitInv, GitTyped, AnswerType
<1>7. calls' \in 0..MaxCalls
  BY DEF GitInv, GitTyped
<1> QED
  BY <1>5, <1>6, <1>7, NothingExported DEF Quiet

\* A call that returns without an answer.
LEMMA ReturnsQuietly ==
  ASSUME GitInv, NEW p \in Callers, NEW code \in Codes, GitReturn(p, code),
         UNCHANGED <<log, answers, bundles, calls, outside>>
  PROVE  Quiet(p)
<1>1. Moves(p) /\ gitLock' \in Callers \union {NoCaller}
  BY Returns
<1>2. calls' \in 0..MaxCalls
  BY DEF GitInv, GitTyped
<1> QED
  BY <1>1, <1>2, NothingSaid, NothingExported DEF Quiet

\* A caller asks under a head or a revision it has read.
LEMMA AskKeeps ==
  ASSUME GitInv, NEW p \in Callers, NEW k \in GitKeys, NEW i \in GitIntents, Ask(p, k, i)
  PROVE  GitInv'
<1>1. log # <<>> /\ calls' = calls + 1 /\ calls < MaxCalls /\ log \in Seq(Commit)
  BY DEF Ask, GitInv, GitTyped
<1>2. Len(log) \in Nat /\ Len(log) >= 1 /\ Tip \in Commit
  BY <1>1 DEF Tip
<1> DEFINE rev == IF i.op = "create" THEN NoEntity ELSE Tip.ents[[kind |-> i.kind, n |-> i.n]]
<1>3. rev \in Entity \union {NoEntity}
  <2>1. i.op # "create" => [kind |-> i.kind, n |-> i.n] \in GitIds
    BY GitAssumption DEF GitIntents, Intent, GitIds
  <2> QED
    BY <1>2, <2>1 DEF Commit
<1>4. PICK head \in {0, Len(log)} :
        call' = [call EXCEPT ![p] = [at |-> "called", key |-> k, intent |-> i, head |-> head,
                   rev |-> IF head = 0 THEN rev ELSE NoEntity, code |-> "none"]]
  BY DEF Ask
<1> DEFINE c == [at |-> "called", key |-> k, intent |-> i, head |-> head,
                   rev |-> IF head = 0 THEN rev ELSE NoEntity, code |-> "none"]
<1> HIDE DEF rev
<1>5. c \in Asking /\ c.at = "called"
  BY <1>2, <1>3 DEF Asking
<1>6. call' = [call EXCEPT ![p] = c]
  BY <1>4
<1> HIDE DEF c
<1>7. Moves(p)
  BY <1>1, <1>5, <1>6 DEF Moves, Shapes, CallSound
<1>8. gitLock' \in Callers \union {NoCaller} /\ calls' \in 0..MaxCalls /\ UNCHANGED <<log, outside, answers, bundles>>
  BY <1>1, GitAssumption DEF Ask, GitInv, GitTyped
<1> QED
  BY <1>7, <1>8, NothingSaid, NothingExported, QuietKeeps DEF Quiet

\* The lock is taken, or the caller is told that it is busy.
LEMMA LockKeeps ==
  ASSUME GitInv, NEW p \in Callers, Lock(p)
  PROVE  GitInv'
<1>1. call[p] \in Asking /\ UNCHANGED <<log, answers, bundles, calls, outside>>
  BY ShapeIs DEF Lock
<1>2. CASE gitLock = NoCaller
  <2> DEFINE c == [call[p] EXCEPT !.at = "locked"]
  <2>1. c \in Asking /\ c.at = "locked"
    BY <1>1 DEF Asking
  <2>2. call' = [call EXCEPT ![p] = c] /\ gitLock' = p
    BY <1>2 DEF Lock
  <2> HIDE DEF c
  <2>3. Moves(p)
    BY <2>1, <2>2, ShapeIs DEF Lock, Moves, Shapes, CallSound
  <2>4. calls' \in 0..MaxCalls
    BY <1>1 DEF GitInv, GitTyped
  <2> QED
    BY <1>1, <2>2, <2>3, <2>4, NothingSaid, NothingExported, QuietKeeps DEF Quiet
<1>3. CASE gitLock # NoCaller
  BY <1>1, <1>3, ReturnsQuietly, QuietKeeps DEF Lock, Codes
<1> QED
  BY <1>2, <1>3

\* A key that the branch holds is answered or refused, never applied again.
LEMMA ReplayKeeps ==
  ASSUME GitInv, NEW p \in Callers, Replay(p)
  PROVE  GitInv'
<1> DEFINE k == call[p].key
<1>1. call[p] \in Asking /\ k \in GitKeys /\ Known(log, k) /\ UNCHANGED <<log, bundles, calls, outside>>
  BY ShapeIs DEF Replay, Asking
<1>2. log # <<>>
  BY ShapeIs DEF Replay, CallSound
<1>3. CASE Answer(p)
  BY <1>1, <1>2, <1>3, AnswersAreSound, QuietKeeps
<1>4. CASE (GitReturn(p, "idempotency_conflict") \/ GitReturn(p, "history_unavailable")) /\ UNCHANGED answers
  BY <1>1, <1>4, ReturnsQuietly, QuietKeeps DEF Codes
<1> QED
  BY <1>3, <1>4 DEF Replay

\* A candidate is built on the snapshot that was read.
LEMMA PrepareKeeps ==
  ASSUME GitInv, NEW p \in Callers, PrepareCommit(p)
  PROVE  GitInv'
<1>0. log # <<>>
  BY ShapeIs DEF PrepareCommit, CallSound
<1>1. /\ call[p] \in Asking /\ UNCHANGED <<log, answers, bundles, calls, outside>>
      /\ call[p].key \in GitKeys /\ call[p].intent \in GitIntents
  BY ShapeIs DEF PrepareCommit, Asking
<1>2. CASE GuardsHold(Tip, Len(log), call[p])
  <2> DEFINE k == call[p].key
             i == call[p].intent
             d == Candidate(Tip, k, i)
             c == [at |-> "publishing", key |-> k, intent |-> i, pin |-> Len(log), code |-> "none", commit |-> d]
  <2>1. Len(log) \in Nat /\ Len(log) \in 1..Len(log) /\ Tip \in Commit /\ WellFormed(Tip) /\ Tip = log[Len(log)]
    BY <1>0 DEF GitInv, GitTyped, LogSound, Tip
  <2>2. Tip.receipts[k] = NoGitReceipt /\ Fits(Tip, i)
    BY <1>2 DEF PrepareCommit, Known, Tip, GuardsHold, Fits
  <2>3. d \in Commit /\ d.by = k /\ WellFormed(d) /\ Follows(d, Tip)
    <3> HIDE DEF k, i
    <3> QED
      BY <1>1, <2>1, <2>2, CandidateIs DEF k, i
  <2>4. call' = [call EXCEPT ![p] = c] /\ UNCHANGED gitLock
    BY <1>2 DEF PrepareCommit
  <2> HIDE DEF d
  <2>5. c \in Publishing /\ CallSound(c)
    BY <1>0, <1>1, <2>1, <2>3 DEF Publishing, CallSound
  <2> HIDE DEF c
  <2>6. Moves(p)
    BY <2>4, <2>5 DEF Moves, Shapes
  <2>7. gitLock' \in Callers \union {NoCaller} /\ calls' \in 0..MaxCalls
    BY <1>1, <2>4 DEF GitInv, GitTyped
  <2> QED
    BY <1>1, <2>6, <2>7, NothingSaid, NothingExported, QuietKeeps DEF Quiet
<1>3. CASE ~GuardsHold(Tip, Len(log), call[p])
  BY <1>1, <1>3, ReturnsQuietly, QuietKeeps DEF PrepareCommit, Codes
<1> QED
  BY <1>2, <1>3

\* The branch grows: what was said of a part of it still holds.
LEMMA GrowthKeeps ==
  ASSUME GitInv, log # <<>>, NEW c \in Commit, WellFormed(c), Follows(c, Tip), log' = Append(log, c),
         UNCHANGED <<gitLock, answers, bundles, calls>>, outside' \in 0..MaxOutside,
         call' \in [Callers -> Shapes],
         \A q \in Callers : call'[q] = call[q] \/ CallSound(call'[q])
  PROVE  GitInv'
<1>1. /\ LogSound' /\ log' \in Seq(Commit) /\ Len(log') = Len(log) + 1 /\ Len(log) \in Nat \ {0}
      /\ \A n \in 1..Len(log) : log'[n] = log[n]
  BY LogGrows DEF GitInv
<1>2. \A q \in Callers : CallSound(call'[q])
  BY DEF GitInv
<1>3. ASSUME NEW d, CallSound(d) PROVE CallSound(d)'
  BY <1>1, <1>3 DEF CallSound
<1>4. (\A q \in Callers : CallSound(call[q]))'
  <2> SUFFICES ASSUME NEW q \in Callers PROVE CallSound(call[q])'
    OBVIOUS
  <2> DEFINE d == call'[q]
  <2>1. CallSound(d)
    BY <1>2
  <2> QED
    BY <1>1, <2>1 DEF CallSound
<1>5. (\A a \in answers : AnswerSound(a))'
  BY <1>1 DEF GitInv, AnswerSound
<1>6. (\A b \in bundles : BundleSound(b))'
  BY <1>1 DEF GitInv, BundleSound
<1>7. GitTyped'
  BY <1>1 DEF GitInv, GitTyped
<1> QED
  BY <1>1, <1>4, <1>5, <1>6, <1>7 DEF GitInv
\* The ref moves from the pin to the candidate, or does not move.
LEMMA PublishKeeps ==
  ASSUME GitInv, NEW p \in Callers, PublishRef(p)
  PROVE  GitInv'
<1>1. /\ call[p] \in Publishing /\ log # <<>> /\ UNCHANGED <<gitLock, answers, bundles, calls, outside>>
      /\ call[p].pin \in 1..Len(log) /\ call[p].commit \in Commit
      /\ WellFormed(call[p].commit) /\ Follows(call[p].commit, log[call[p].pin])
  BY ShapeIs DEF PublishRef, CallSound, Publishing
<1> DEFINE Gone(at) == [call[p] EXCEPT !.at = at]
<1>2. ASSUME NEW at \in {"confirming", "doubting"}
      PROVE  Gone(at) \in Shapes /\ CallSound(Gone(at)) /\ [call EXCEPT ![p].at = at] = [call EXCEPT ![p] = Gone(at)]
  <2>1. Gone(at) \in Publishing /\ CallSound(call[p])
    BY <1>1, ShapeIs DEF Publishing
  <2>2. Gone(at).pin = call[p].pin /\ Gone(at).commit = call[p].commit /\ Gone(at).key = call[p].key /\ Gone(at).at = at
    BY <1>1 DEF Publishing
  <2>3. CallSound(Gone(at))
    <3>1. call[p].at = "publishing"
      BY DEF PublishRef
    <3> HIDE DEF Gone
    <3> QED
      BY <1>1, <2>1, <2>2, <3>1 DEF CallSound
  <2>4. [call EXCEPT ![p].at = at] = [call EXCEPT ![p] = Gone(at)]
    BY DEF GitInv, GitTyped
  <2> QED
    BY <2>1, <2>3, <2>4 DEF Shapes
<1> HIDE DEF Gone
<1>3. CASE /\ call[p].pin = Len(log) /\ log' = Append(log, call[p].commit)
           /\ call' \in {[call EXCEPT ![p].at = at] : at \in {"confirming", "doubting"}}
  <2>1. PICK at \in {"confirming", "doubting"} : call' = [call EXCEPT ![p].at = at]
    BY <1>3
  <2>2. call' = [call EXCEPT ![p] = Gone(at)] /\ Gone(at) \in Shapes /\ CallSound(Gone(at))
    BY <1>2, <2>1
  <2>3. call' \in [Callers -> Shapes] /\ \A q \in Callers : call'[q] = call[q] \/ CallSound(call'[q])
    BY <2>2 DEF GitInv, GitTyped
  <2>4. Follows(call[p].commit, Tip) /\ outside' \in 0..MaxOutside
    BY <1>1, <1>3 DEF Tip, GitInv, GitTyped
  <2> DEFINE d == call[p].commit
  <2>5. d \in Commit /\ WellFormed(d) /\ Follows(d, Tip) /\ log' = Append(log, d)
    BY <1>1, <1>3, <2>4
  <2> HIDE DEF d
  <2> QED
    BY <1>1, <2>3, <2>4, <2>5, GrowthKeeps
<1>4. CASE call' = [call EXCEPT ![p].at = "doubting"] /\ UNCHANGED log
  BY <1>2, <1>4, <1>1, NothingSaid, NothingExported, QuietKeeps DEF Moves, GitInv, GitTyped, Quiet
<1> QED
  BY <1>3, <1>4 DEF PublishRef

\* The ref is read again: what it holds of the key decides the answer.
LEMMA ConfirmKeeps ==
  ASSUME GitInv, NEW p \in Callers, Confirm(p)
  PROVE  GitInv'
<1>1. /\ call[p] \in Publishing /\ log # <<>> /\ call[p].key \in GitKeys /\ UNCHANGED <<log, bundles, calls, outside>>
      /\ CallSound(call[p]) /\ call[p].commit \in Commit
  BY ShapeIs DEF Confirm, CallSound, Publishing
<1>2. CASE ConfirmedIn(p) /\ Answer(p)
  <2>1. call[p].commit.receipts[call[p].key] # NoGitReceipt
    <3> DEFINE d == call[p].commit
               k == call[p].key
               t == log[call[p].pin]
    <3>1. k \in GitKeys /\ d.by = k /\ Follows(d, t)
      BY <1>1 DEF CallSound, Confirm
    <3> HIDE DEF d, k, t
    <3>2. d.receipts[k] # NoGitReceipt
      BY <3>1 DEF Follows
    <3> QED
      BY <3>2 DEF d, k
  <2>2. Known(log, call[p].key)
    BY <1>2, <2>1 DEF ConfirmedIn, Known, Tip
  <2> QED
    BY <1>1, <1>2, <2>2, AnswersAreSound, QuietKeeps
<1>3. Refusal(p) \in Codes
  BY DEF Refusal, Codes
<1>4. CASE \E code \in Codes : GitReturn(p, code) /\ UNCHANGED answers
  BY <1>1, <1>4, ReturnsQuietly, QuietKeeps
<1>5. "publication_ambiguous" \in Codes
  BY DEF Codes
<1> QED
  BY <1>2, <1>3, <1>4, <1>5 DEF Confirm

\* A call that fails or dies leaves the branch alone.
LEMMA StopKeeps ==
  ASSUME GitInv, NEW p \in Callers, Abort(p) \/ GitCrash(p)
  PROVE  GitInv'
<1>1. "unavailable" \in Codes /\ "crashed" \in Codes
  BY DEF Codes
<1> QED
  BY <1>1, ReturnsQuietly, QuietKeeps DEF Abort, GitCrash

\* An export pins a head whose history is valid.
LEMMA AskExportKeeps ==
  ASSUME GitInv, NEW p \in Callers, AskExport(p)
  PROVE  GitInv'
<1>1. /\ log # <<>> /\ calls < MaxCalls /\ calls' = calls + 1 /\ UNCHANGED <<log, answers, bundles, outside>>
      /\ Len(log) \in Nat /\ Len(log) >= 1
  BY DEF AskExport, GitInv, GitTyped
<1>2. calls' \in 0..MaxCalls
  BY <1>1, GitAssumption DEF GitInv, GitTyped
<1>3. gitLock' \in Callers \union {NoCaller}
  BY DEF AskExport, GitInv, GitTyped
<1>4. CASE ValidHistory(log)
  <2> DEFINE c == [at |-> "exporting", key |-> NoGitKey, pin |-> Len(log), code |-> "none"]
  <2>1. c \in Exporting /\ CallSound(c)
    BY <1>1, <1>4 DEF Exporting, CallSound, ValidHistory
  <2>2. call' = [call EXCEPT ![p] = c]
    BY <1>4 DEF AskExport
  <2> HIDE DEF c
  <2>3. Moves(p)
    BY <2>1, <2>2 DEF Moves, Shapes
  <2> QED
    BY <1>1, <1>2, <1>3, <2>3, NothingSaid, NothingExported, QuietKeeps DEF Quiet
<1>5. CASE ~ValidHistory(log)
  BY <1>5, <1>1, <1>2, <1>3, NothingSaid, NothingExported, QuietKeeps DEF AskExport, Quiet
<1> QED
  BY <1>4, <1>5

\* A bundle holds the branch as it is when git reads it.
LEMMA BundleKeeps ==
  ASSUME GitInv, NEW p \in Callers, Bundle(p)
  PROVE  GitInv'
<1>1. /\ call[p] \in Exporting /\ CallSound(call[p]) /\ call[p].at = "exporting" /\ Len(log) \in Nat
      /\ UNCHANGED <<log, gitLock, answers, bundles, calls, outside>>
  BY ShapeIs DEF Bundle, GitInv, GitTyped
<1> DEFINE c == [at |-> "bundled", key |-> NoGitKey, pin |-> call[p].pin, data |-> Len(log), code |-> "none"]
<1>2. c \in Bundling /\ CallSound(c)
  BY <1>1 DEF Exporting, Bundling, CallSound
<1>3. call' = [call EXCEPT ![p] = c]
  BY DEF Bundle
<1> HIDE DEF c
<1>4. Moves(p)
  BY <1>2, <1>3 DEF Moves, Shapes
<1>5. gitLock' \in Callers \union {NoCaller} /\ calls' \in 0..MaxCalls
  BY <1>1 DEF GitInv, GitTyped
<1> QED
  BY <1>1, <1>4, <1>5, NothingSaid, NothingExported, QuietKeeps DEF Quiet

\* A bundle is reported only when the branch is still at the pin.
LEMMA ExportKeeps ==
  ASSUME GitInv, NEW p \in Callers, Export(p)
  PROVE  GitInv'
<1>1. /\ call[p] \in Bundling /\ CallSound(call[p]) /\ call[p].at = "bundled"
      /\ UNCHANGED <<log, answers, calls, outside>>
  BY ShapeIs DEF Export
<1>2. "exported" \in Codes /\ "write_conflict" \in Codes
  BY DEF Codes
<1>3. CASE Unmoved(p)
  <2> DEFINE b == [head |-> call[p].pin, data |-> call[p].data]
  <2>1. b \in BundleType /\ BundleSound(b)
    BY <1>1, <1>3 DEF Bundling, BundleType, BundleSound, CallSound, Unmoved
  <2>2. bundles' = bundles \union {b} /\ GitReturn(p, "exported")
    BY <1>3 DEF Export
  <2> HIDE DEF b
  <2>3. Moves(p) /\ gitLock' \in Callers \union {NoCaller}
    BY <1>2, <2>2, Returns
  <2>4. bundles' \subseteq BundleType /\ \A x \in bundles' : BundleSound(x)
    BY <2>1, <2>2 DEF GitInv, GitTyped, BundleType
  <2>5. calls' \in 0..MaxCalls
    BY <1>1 DEF GitInv, GitTyped
  <2> QED
    BY <1>1, <2>3, <2>4, <2>5, NothingSaid, QuietKeeps DEF Quiet
<1>4. CASE ~Unmoved(p)
  BY <1>1, <1>2, <1>4, ReturnsQuietly, QuietKeeps DEF Export
<1> QED
  BY <1>3, <1>4

\* Commits of others, made without the lock.
LEMMA OutsideKeeps ==
  ASSUME GitInv, OutsideCommit
  PROVE  GitInv'
<1>1. PICK c \in Commit : log' = Append(log, c) /\ c.by = NoGitKey /\ WellFormed(c) /\ Follows(c, Tip)
  BY OutsideIs DEF GitInv
<1>2. log # <<>> /\ UNCHANGED <<gitLock, call, answers, bundles, calls>> /\ outside' \in 0..MaxOutside
  <2>1. /\ log # <<>> /\ UNCHANGED <<gitLock, call, answers, bundles, calls>>
        /\ outside < MaxOutside /\ outside' = outside + 1
    BY DEF OutsideCommit
  <2> QED
    BY <2>1, GitAssumption DEF GitInv, GitTyped
<1>3. call' \in [Callers -> Shapes] /\ \A q \in Callers : call'[q] = call[q] \/ CallSound(call'[q])
  BY <1>2 DEF GitInv, GitTyped
<1> QED
  BY <1>1, <1>2, <1>3, GrowthKeeps

\* A new store has no entity and no receipt.
LEMMA InitializeKeeps ==
  ASSUME GitInv, Initialize
  PROVE  GitInv'
<1> DEFINE c == [next |-> [k \in Kinds |-> 1], ents |-> [i \in GitIds |-> NoEntity],
                 receipts |-> NoReceipts, by |-> NoGitKey]
<1>1. log = <<>> /\ log' = <<c>> /\ UNCHANGED <<gitLock, call, answers, bundles, calls, outside>>
  BY DEF Initialize
<1>2. c \in Commit /\ WellFormed(c) /\ c.by = NoGitKey /\ \A k \in GitKeys : c.receipts[k] = NoGitReceipt
  BY GitAssumption DEF Commit, WellFormed, NoReceipts
<1> HIDE DEF c
<1>3. log' \in Seq(Commit) /\ Len(log') = 1 /\ log'[1] = c /\ log' # <<>>
  BY <1>1, <1>2
<1>4. LogSound'
  BY <1>3, <1>2 DEF LogSound
<1>5. (\A q \in Callers : CallSound(call[q]))'
  BY <1>1, ShapeIs DEF CallSound
<1>6. answers' = {} /\ bundles' = {}
  BY <1>1 DEF GitInv, AnswerSound, BundleSound
<1>7. GitTyped'
  BY <1>1, <1>3, <1>6 DEF GitInv, GitTyped
<1> QED
  BY <1>4, <1>5, <1>6, <1>7 DEF GitInv

\* There is no store to begin with.
LEMMA GitBegins == GitInit => GitInv
<1> SUFFICES ASSUME GitInit PROVE GitInv
  OBVIOUS
<1>1. log = <<>> /\ Len(log) = 0 /\ answers = {} /\ bundles = {} /\ calls = 0 /\ outside = 0 /\ gitLock = NoCaller
      /\ call = [p \in Callers |-> GitIdle]
  BY DEF GitInit
<1>2. GitIdle \in Shapes /\ CallSound(GitIdle)
  BY DEF GitIdle, Shapes, Idles, Codes, CallSound
<1>3. LogSound
  BY <1>1 DEF LogSound
<1>4. GitTyped
  BY <1>1, <1>2, GitAssumption DEF GitTyped
<1> QED
  BY <1>1, <1>2, <1>3, <1>4 DEF GitInv

\* Every step keeps the invariant.
LEMMA GitStays == GitInv /\ [GitNext]_gitVars => GitInv'
<1> SUFFICES ASSUME GitInv, [GitNext]_gitVars PROVE GitInv'
  OBVIOUS
<1>1. CASE Initialize
  BY <1>1, InitializeKeeps
<1>2. CASE OutsideCommit
  BY <1>2, OutsideKeeps
<1>3. ASSUME NEW p \in Callers, GitStep(p) PROVE GitInv'
  <2>1. CASE \E k \in GitKeys, i \in GitIntents : Ask(p, k, i)
    BY <2>1, AskKeeps
  <2>2. CASE Lock(p) \/ Replay(p) \/ PrepareCommit(p)
    BY <2>2, LockKeeps, ReplayKeeps, PrepareKeeps
  <2>3. CASE PublishRef(p) \/ Confirm(p)
    BY <2>3, PublishKeeps, ConfirmKeeps
  <2>4. CASE Abort(p) \/ GitCrash(p)
    BY <2>4, StopKeeps
  <2>5. CASE AskExport(p) \/ Bundle(p) \/ Export(p)
    BY <2>5, AskExportKeeps, BundleKeeps, ExportKeeps
  <2> QED
    BY <1>3, <2>1, <2>2, <2>3, <2>4, <2>5 DEF GitStep
<1>4. CASE UNCHANGED gitVars
  BY <1>4 DEF gitVars, GitInv, GitTyped, LogSound, CallSound, AnswerSound, BundleSound
<1> QED
  BY <1>1, <1>2, <1>3, <1>4 DEF GitNext

\* The invariant holds throughout, whatever callers, outsiders and crashes do.
THEOREM GitKept == GitSpec => []GitInv
BY GitBegins, GitStays, PTL DEF GitSpec

-----------------------------------------------------------------------------
(* Results *)

\* The branch, the calls, the answers and the bundles keep their types.
THEOREM GitTypesHold == GitSpec => []GitTypeOK
<1>1. GitInv => GitTypeOK
  <2> SUFFICES ASSUME GitInv PROVE GitTypeOK
    OBVIOUS
  <2>1. \A p \in Callers : call[p].at \in GitStages /\ call[p].key \in GitKeys \union {NoGitKey}
    BY DEF GitInv, GitTyped, Shapes, Idles, Asking, Publishing, Exporting, Bundling, GitStages
  <2> QED
    BY <2>1 DEF GitInv, GitTyped, GitTypeOK
<1> QED
  BY <1>1, GitKept, PTL

\* One commit for a key, and answers that are what it says: one effect, one answer.
LEMMA OnceIs == GitInv => MutationsApplyOnce
<1> SUFFICES ASSUME GitInv PROVE MutationsApplyOnce
  OBVIOUS
<1>1. GitTyped /\ LogSound
  BY DEF GitInv
<1>2. AppliedOnce
  <2> SUFFICES ASSUME NEW k \in GitKeys PROVE Cardinality({c \in 1..Len(log) : log[c].by = k}) <= 1
    BY DEF AppliedOnce
  <2> DEFINE S == {c \in 1..Len(log) : log[c].by = k}
  <2>1. CASE S = {}
    <3>1. Cardinality(S) = 0
      BY <2>1, FS_EmptySet
    <3> QED
      BY <3>1
  <2>2. CASE S # {}
    <3>1. PICK n \in 1..Len(log) : log[n].by = k
      BY <2>2
    <3>2. S = {n}
      BY <1>1, <3>1, KeysOnce
    <3>3. Cardinality(S) = 1
      BY <3>2, FS_Singleton
    <3> QED
      BY <3>3
  <2> QED
    BY <2>1, <2>2
<1>3. ASSUME NEW a \in answers
      PROVE  /\ a.key \in GitKeys /\ a.origin \in 1..Len(log) /\ log[a.origin].by = a.key
             /\ a = [key |-> a.key, origin |-> a.origin, id |-> log[a.origin].receipts[a.key].id,
                     entity |-> log[a.origin].receipts[a.key].blob]
             /\ log[a.origin].ents[a.id] = a.entity
  <2>1. AnswerSound(a) /\ a \in AnswerType /\ Len(log) \in Nat
    BY DEF GitInv, GitTyped, AnswerType
  <2>2. a.key \in GitKeys /\ a.origin \in 1..Len(log) /\ log[a.origin].by = a.key
    BY <2>1 DEF AnswerType, AnswerSound
  <2>3. Describes(log[a.origin], log[a.origin - 1], a.key)
    BY <1>1, <2>2, KeysOnce
  <2>4. log[a.origin].ents[a.id] = a.entity
    BY <2>1, <2>3 DEF Describes, AnswerSound
  <2>5. a = [key |-> a.key, origin |-> a.origin, id |-> a.id, entity |-> a.entity]
    BY <2>1 DEF AnswerType
  <2> QED
    BY <2>1, <2>2, <2>4, <2>5 DEF AnswerSound
<1>4. \A a, b \in answers : a.key = b.key => a = b
  BY <1>1, <1>3, KeysOnce
<1> QED
  BY <1>2, <1>3, <1>4 DEF MutationsApplyOnce, AnswersAgree

\* A repeated call is harmless: however often it is killed, lost or sent again, its
\* key takes effect at most once and every answer is the same (mutation.go,
\* MutateProject, receiptResult).
THEOREM MutationsOnce == GitSpec => []MutationsApplyOnce
BY GitKept, OnceIs, PTL
\* Every step leaves the branch a prefix of what it becomes.
LEMMA LogOnlyGrows == GitInv /\ GitNext => IsPrefix(log, log')
<1> SUFFICES ASSUME GitInv, GitNext PROVE IsPrefix(log, log')
  OBVIOUS
<1>0. log \in Seq(Commit)
  BY DEF GitInv, GitTyped
<1>1. UNCHANGED log => IsPrefix(log, log')
  BY <1>0 DEF IsPrefix
<1>2. ASSUME NEW c \in Commit, log' = Append(log, c) PROVE IsPrefix(log, log')
  BY <1>0, <1>2 DEF IsPrefix
<1>3. CASE Initialize
  BY <1>0, <1>3 DEF Initialize, IsPrefix
<1>4. CASE OutsideCommit
  BY <1>2, <1>4, OutsideIs DEF GitInv
<1>5. ASSUME NEW p \in Callers, GitStep(p) PROVE IsPrefix(log, log')
  <2>1. CASE PublishRef(p)
    BY <2>1, ShapeIs, <1>1, <1>2 DEF PublishRef, Publishing
  <2>2. CASE ~PublishRef(p)
    <3>1. UNCHANGED log
      BY <1>5, <2>2 DEF GitStep, Ask, Lock, Replay, PrepareCommit, Confirm, Abort, GitCrash, AskExport, Bundle, Export
    <3> QED
      BY <1>1, <3>1
  <2> QED
    BY <2>1, <2>2
<1> QED
  BY <1>3, <1>4, <1>5 DEF GitNext

\* A call is refused only while the branch holds nothing of its key.
Refused(p) ==
    /\ call[p].at # "idle" /\ call'[p].at = "idle"
    /\ call'[p].code \in {"write_conflict", "publication_rejected"}
    => call'[p].key = NoGitKey \/ Tip.receipts[call'[p].key] = NoGitReceipt

\* What a return changes.
LEMMA ReturnIs ==
  ASSUME GitInv, NEW p \in Callers, NEW code \in Codes, GitReturn(p, code)
  PROVE  /\ call'[p].key = call[p].key /\ call'[p].code = code
         /\ \A q \in Callers \ {p} : call'[q] = call[q]
BY DEF GitReturn, GitIdle, GitInv, GitTyped

\* A call that ends with another code is not refused.
LEMMA NeverRefused ==
  ASSUME GitInv, NEW p \in Callers,
         NEW code \in Codes \ {"write_conflict", "publication_rejected"}, GitReturn(p, code)
  PROVE  \A q \in Callers : Refused(q)
BY ReturnIs DEF Refused

\* A call may be refused when the tip does not hold its key.
LEMMA RefusedCleanly ==
  ASSUME GitInv, NEW p \in Callers, NEW code \in Codes, GitReturn(p, code),
         call[p].key = NoGitKey \/ Tip.receipts[call[p].key] = NoGitReceipt
  PROVE  \A q \in Callers : Refused(q)
BY ReturnIs DEF Refused

\* A step by which no call returns.
LEMMA NoReturn ==
  ASSUME GitInv, NEW p \in Callers, NEW c, c.at # "idle", call' = [call EXCEPT ![p] = c]
  PROVE  \A q \in Callers : Refused(q)
BY DEF Refused, GitInv, GitTyped

\* Whatever step a caller takes, a refusal is true of the branch.
LEMMA RefusalsAreClean == GitInv /\ GitNext => \A q \in Callers : Refused(q)
<1> SUFFICES ASSUME GitInv, GitNext PROVE \A q \in Callers : Refused(q)
  OBVIOUS
<1>1. CASE UNCHANGED call
  BY <1>1 DEF Refused
<1>2. CASE Initialize \/ OutsideCommit
  BY <1>1, <1>2 DEF Initialize, OutsideCommit
<1>3. ASSUME NEW p \in Callers, GitStep(p) PROVE \A q \in Callers : Refused(q)
  <2>0. /\ "writer_busy" \in Codes \ {"write_conflict", "publication_rejected"}
        /\ "answered" \in Codes \ {"write_conflict", "publication_rejected"}
        /\ "exported" \in Codes \ {"write_conflict", "publication_rejected"}
        /\ "idempotency_conflict" \in Codes \ {"write_conflict", "publication_rejected"}
        /\ "history_unavailable" \in Codes \ {"write_conflict", "publication_rejected"}
        /\ "publication_ambiguous" \in Codes \ {"write_conflict", "publication_rejected"}
        /\ "unavailable" \in Codes \ {"write_conflict", "publication_rejected"}
        /\ "crashed" \in Codes \ {"write_conflict", "publication_rejected"}
        /\ "write_conflict" \in Codes /\ "publication_rejected" \in Codes
    BY DEF Codes
  <2>1. CASE \E k \in GitKeys, i \in GitIntents : Ask(p, k, i)
    <3>1. PICK k \in GitKeys, i \in GitIntents : Ask(p, k, i)
      BY <2>1
    <3>2. \E c : c.at # "idle" /\ call' = [call EXCEPT ![p] = c]
      BY <3>1 DEF Ask
    <3> QED
      BY <3>2, NoReturn
  <2>2. CASE Lock(p)
    <3>1. CASE gitLock = NoCaller
      <4>1. call' = [call EXCEPT ![p].at = "locked"]
        BY <2>2, <3>1 DEF Lock
      <4> QED
        BY <4>1 DEF Refused, GitInv, GitTyped
    <3>2. CASE gitLock # NoCaller
      BY <2>0, <2>2, <3>2, NeverRefused DEF Lock
    <3> QED
      BY <3>1, <3>2
  <2>3. CASE Replay(p)
    BY <2>0, <2>3, NeverRefused DEF Replay, Answer
  <2>4. CASE PrepareCommit(p)
    <3>1. CASE GuardsHold(Tip, Len(log), call[p])
      BY <2>4, <3>1, NoReturn DEF PrepareCommit
    <3>2. CASE ~GuardsHold(Tip, Len(log), call[p])
      BY <2>4, <3>2, <2>0, RefusedCleanly DEF PrepareCommit, Known, Tip
    <3> QED
      BY <3>1, <3>2
  <2>5. CASE PublishRef(p)
    <3>1. PICK at \in {"confirming", "doubting"} : call' = [call EXCEPT ![p].at = at]
      BY <2>5 DEF PublishRef
    <3> QED
      BY <3>1 DEF Refused, GitInv, GitTyped
  <2>6. CASE Confirm(p)
    <3>1. CASE GitReturn(p, Refusal(p))
      <4>1. CASE Known(log, call[p].key)
        BY <4>1, <2>0, <3>1, NeverRefused DEF Refusal
      <4>2. CASE ~Known(log, call[p].key)
        BY <4>2, <3>1, RefusedCleanly DEF Refusal, Codes, Known, Tip
      <4> QED
        BY <4>1, <4>2
    <3> QED
      BY <2>0, <2>6, <3>1, NeverRefused DEF Confirm, Answer
  <2>7. CASE Abort(p) \/ GitCrash(p)
    BY <2>0, <2>7, NeverRefused DEF Abort, GitCrash
  <2>8. CASE AskExport(p)
    <3>1. CASE ValidHistory(log)
      BY <2>8, <3>1, NoReturn DEF AskExport
    <3> QED
      BY <1>1, <2>8, <3>1 DEF AskExport
  <2>9. CASE Bundle(p)
    BY <2>9, NoReturn DEF Bundle
  <2>10. CASE Export(p)
    BY <2>10, ShapeIs, <2>0, RefusedCleanly DEF Export, Bundling
  <2> QED
    BY <1>3, <2>1, <2>2, <2>3, <2>4, <2>5, <2>6, <2>7, <2>8, <2>9, <2>10 DEF GitStep
<1> QED
  BY <1>2, <1>3 DEF GitNext

\* What is published stays on the branch, and what is reported as refused has no
\* effect (mutation.go, the ambiguous outcome of update-ref).
THEOREM EffectsAlwaysStand == GitSpec => EffectsStand
<1>1. GitInv /\ [GitNext]_gitVars => [IsPrefix(log, log')]_log
  BY LogOnlyGrows DEF gitVars
<1>2. GitInv /\ [GitNext]_gitVars => [\A p \in Callers : Refused(p)]_call
  BY RefusalsAreClean DEF gitVars
<1>3. GitSpec => NothingIsLost
  BY <1>1, GitKept, PTL DEF GitSpec, NothingIsLost
<1>4. (\A p \in Callers : Refused(p))
        <=> \A p \in Callers :
              /\ call[p].at # "idle" /\ call'[p].at = "idle"
              /\ call'[p].code \in {"write_conflict", "publication_rejected"}
              => call'[p].key = NoGitKey \/ Tip.receipts[call'[p].key] = NoGitReceipt
  BY DEF Refused
<1>5. GitSpec => RefusalHasNoEffect
  BY <1>2, <1>4, GitKept, PTL DEF GitSpec, RefusalHasNoEffect
<1> QED
  BY <1>3, <1>5 DEF EffectsStand

\* A prefix of the branch that is short enough is a history the validator takes.
LEMMA PrefixIsValid ==
  ASSUME GitInv, NEW m \in 1..Len(log), m <= MaxHistory
  PROVE  ValidHistory(SubSeq(log, 1, m))
<1> DEFINE l == SubSeq(log, 1, m)
<1>1. log \in Seq(Commit) /\ Len(log) \in Nat /\ LogSound /\ log # <<>>
  BY DEF GitInv, GitTyped
<1>2. Len(l) = m /\ m \in Nat /\ \A n \in 1..m : l[n] = log[n]
  BY <1>1
<1> HIDE DEF l
<1>3. \A n \in 1..m : n \in 1..Len(log)
  BY <1>1, <1>2
<1>4. \A n \in 1..m : WellFormed(l[n])
  BY <1>1, <1>2, <1>3 DEF LogSound
<1>5. \A k \in GitKeys : l[1].receipts[k] = NoGitReceipt
  BY <1>2, <1>1 DEF LogSound
<1>6. ASSUME NEW n \in 2..m
      PROVE  /\ \A kind \in Kinds : l[n].next[kind] >= l[n - 1].next[kind]
             /\ \A k \in GitKeys :
                   IF l[n - 1].receipts[k] = NoGitReceipt
                   THEN l[n].receipts[k] # NoGitReceipt => Describes(l[n], l[n - 1], k)
                   ELSE l[n].receipts[k] = l[n - 1].receipts[k]
             /\ \A e \in GitIds : l[n - 1].ents[e] # NoEntity =>
                   l[n].ents[e] # NoEntity /\ l[n].ents[e].parent = l[n - 1].ents[e].parent
  BY <1>1, <1>2 DEF LogSound, Follows
<1> QED
  BY <1>2, <1>4, <1>5, <1>6 DEF ValidHistory, l

-----------------------------------------------------------------------------
(* Citations.                                                               *)

\* A set of naturals that is not empty has a least element.
LEMMA LeastExists ==
  ASSUME NEW S \in SUBSET Nat, S # {}
  PROVE  \E n \in S : \A m \in S : n <= m
<1>1. IsWellFoundedOn(OpToRel(<, Nat), Nat)
  BY NatLessThanWellFounded
<1>2. PICK n \in S : \A m \in S : <<m, n>> \notin OpToRel(<, Nat)
  BY <1>1, WFMin
<1>3. \A m \in S : ~(m < n)
  BY <1>2 DEF OpToRel
<1> QED
  BY <1>3

\* The walk of History as a function, and what it has cited above commit p.
NoCites == [cited |-> <<>>, pending |-> <<>>]
Walks(l, e, f, k) ==
    f = [n \in 0..k |-> IF n = 0 THEN NoCites ELSE Cite(l, e, f[n - 1], Len(l) + 1 - n)]
Changes(l, e) ==
    {c \in 1..Len(l) : Blob(l, c, e) # NoEntity /\ (c = 1 \/ Blob(l, c - 1, e) # Blob(l, c, e))}
Descends(s) == \A m, n \in DOMAIN s : m < n => s[m].commit > s[n].commit
CommitsOf(s) == {s[m].commit : m \in DOMAIN s}
Cites(s, C) == s \in Seq([commit : Nat, blob : Entity]) /\ CommitsOf(s) = C /\ Descends(s)
Cited(l, e, p, w) ==
    /\ Cites(w.cited, {c \in Changes(l, e) : c > p})
    /\ w.pending = IF p <= Len(l) /\ Blob(l, p, e) # NoEntity
                   THEN <<[commit |-> p, blob |-> Blob(l, p, e)]>> ELSE <<>>

\* An older commit may be cited after newer ones.
LEMMA OneMoreCite ==
  ASSUME NEW C \in SUBSET Nat, NEW s, Cites(s, C), NEW r \in [commit : Nat, blob : Entity],
         \A c \in C : c > r.commit
  PROVE  Cites(s \o <<r>>, C \union {r.commit})
<1> DEFINE K == [commit : Nat, blob : Entity]
<1>1. s \in Seq(K) /\ CommitsOf(s) = C /\ Descends(s)
  BY DEF Cites
<1>2. PICK n \in Nat : n = Len(s)
  BY <1>1
<1>3. PICK t : t = s \o <<r>>
  OBVIOUS
<1>4. t \in Seq(K) /\ DOMAIN t = 1..n + 1 /\ DOMAIN s = 1..n
  BY <1>1, <1>2, <1>3
<1>5. t[n + 1] = r /\ \A m \in 1..n : t[m] = s[m]
  BY <1>1, <1>2, <1>3
<1>6. CommitsOf(t) = C \union {r.commit}
  <2>1. \A c \in C : \E m \in 1..n : c = s[m].commit
    BY <1>1, <1>4 DEF CommitsOf
  <2>2. \A m \in 1..n : s[m].commit \in C
    BY <1>1, <1>4 DEF CommitsOf
  <2>3. \A m \in 1..n + 1 : m \in 1..n \/ m = n + 1
    BY <1>2
  <2>4. 1..n \subseteq 1..n + 1 /\ n + 1 \in 1..n + 1
    BY <1>2
  <2>5. CommitsOf(t) \subseteq C \union {r.commit}
    BY <1>4, <1>5, <2>2, <2>3 DEF CommitsOf
  <2>6. C \union {r.commit} \subseteq CommitsOf(t)
    BY <1>4, <1>5, <2>1, <2>4 DEF CommitsOf
  <2> QED
    BY <2>5, <2>6
<1>7. Descends(t)
  <2> SUFFICES ASSUME NEW i \in 1..n + 1, NEW j \in 1..n + 1, i < j PROVE t[i].commit > t[j].commit
    BY <1>4 DEF Descends
  <2>1. i \in 1..n /\ (j \in 1..n \/ j = n + 1)
    BY <1>2
  <2>2. CASE j \in 1..n
    BY <1>1, <1>4, <1>5, <2>1, <2>2 DEF Descends
  <2>3. CASE j = n + 1
    BY <1>1, <1>4, <2>1, <1>5, <2>3 DEF CommitsOf
  <2> QED
    BY <2>1, <2>2, <2>3
<1> QED
  BY <1>3, <1>4, <1>6, <1>7 DEF Cites

\* What is cited and at hand when the walk has passed commit p, once it has
\* passed the one before.
LEMMA CiteKeeps ==
  ASSUME NEW l \in Seq(Commit), NEW e \in GitIds, NEW p \in 1..Len(l), NEW w, Cited(l, e, p + 1, w)
  PROVE  Cited(l, e, p, Cite(l, e, w, p))
<1>1. PICK L \in Nat : L = Len(l) /\ p \in 1..L /\ p \in Nat
  OBVIOUS
<1>2. \A c \in 1..L : Blob(l, c, e) \in Entity \union {NoEntity}
  <2> SUFFICES ASSUME NEW c \in 1..L PROVE Blob(l, c, e) \in Entity \union {NoEntity}
    OBVIOUS
  <2>1. l[c] \in Commit
    BY <1>1
  <2> QED
    BY <2>1 DEF Blob, Commit
<1>3. PICK blob, v : blob = Blob(l, p, e) /\ v = Cite(l, e, w, p)
  OBVIOUS
<1>4. Cites(w.cited, {c \in Changes(l, e) : c > p + 1})
  BY DEF Cited
<1>5. v.pending = IF p <= Len(l) /\ Blob(l, p, e) # NoEntity
                  THEN <<[commit |-> p, blob |-> Blob(l, p, e)]>> ELSE <<>>
  BY <1>1, <1>3 DEF Cite
<1>6. CASE p + 1 \in Changes(l, e)
  <2>1. p + 1 \in 1..L /\ Blob(l, p + 1, e) # NoEntity /\ blob # Blob(l, p + 1, e)
    BY <1>1, <1>3, <1>6 DEF Changes
  <2>2. PICK r : r = [commit |-> p + 1, blob |-> Blob(l, p + 1, e)]
    OBVIOUS
  <2>3. r \in [commit : Nat, blob : Entity] /\ r.commit = p + 1 /\ r.blob = Blob(l, p + 1, e)
    BY <1>1, <1>2, <2>1, <2>2
  <2>4. w.pending = <<r>> /\ w.pending # <<>> /\ w.pending[1].blob = Blob(l, p + 1, e)
    BY <1>1, <2>1, <2>2, <2>3 DEF Cited
  <2>5. v.cited = w.cited \o <<r>>
    BY <1>3, <2>1, <2>4 DEF Cite
  <2>6. PICK C : C = {c \in Changes(l, e) : c > p + 1}
    OBVIOUS
  <2>7. C \in SUBSET Nat /\ \A c \in C : c > r.commit
    BY <1>1, <2>3, <2>6 DEF Changes
  <2>8. C \union {r.commit} = {c \in Changes(l, e) : c > p}
    BY <1>1, <1>6, <2>3, <2>6 DEF Changes
  <2>9. Cites(v.cited, C \union {r.commit})
    BY <1>4, <2>3, <2>5, <2>6, <2>7, OneMoreCite
  <2> QED
    BY <1>3, <1>5, <2>8, <2>9 DEF Cited
<1>7. CASE p + 1 \notin Changes(l, e)
  <2>1. w.pending = <<>> \/ (blob # NoEntity /\ w.pending[1].blob = blob)
    <3>1. CASE p + 1 <= Len(l) /\ Blob(l, p + 1, e) # NoEntity
      <4>1. blob = Blob(l, p + 1, e)
        BY <1>1, <1>3, <1>7, <3>1 DEF Changes
      <4>2. w.pending = <<[commit |-> p + 1, blob |-> Blob(l, p + 1, e)]>>
        BY <3>1 DEF Cited
      <4> QED
        BY <3>1, <4>1, <4>2
    <3>2. CASE ~(p + 1 <= Len(l) /\ Blob(l, p + 1, e) # NoEntity)
      BY <3>2 DEF Cited
    <3> QED
      BY <3>1, <3>2
  <2>2. v.cited = w.cited
    BY <1>3, <2>1 DEF Cite
  <2>3. {c \in Changes(l, e) : c > p + 1} = {c \in Changes(l, e) : c > p}
    BY <1>1, <1>7 DEF Changes
  <2> QED
    BY <1>3, <1>4, <1>5, <2>2, <2>3 DEF Cited
<1> QED
  BY <1>6, <1>7

\* The walk of a history of any length exists.
LEMMA WalkExists ==
  ASSUME NEW l \in Seq(Commit), NEW e \in GitIds
  PROVE  \E f : Walks(l, e, f, Len(l))
<1>1. PICK L \in Nat : L = Len(l)
  OBVIOUS
<1> DEFINE Good(k, f) == /\ f = [n \in 0..k |-> f[n]] /\ f[0] = NoCites
                         /\ \A n \in 1..k : f[n] = Cite(l, e, f[n - 1], L + 1 - n)
<1> DEFINE Bad == {k \in Nat : ~ \E f : Good(k, f)}
<1>2. Bad = {}
  <2> SUFFICES ASSUME Bad # {} PROVE FALSE
    OBVIOUS
  <2>1. PICK k \in Bad : \A m \in Bad : k <= m
    BY LeastExists
  <2>2. k # 0
    <3>1. PICK f : f = [n \in 0..0 |-> NoCites]
      OBVIOUS
    <3>2. f[0] = NoCites /\ f = [n \in 0..0 |-> f[n]] /\ 1..0 = {}
      BY <3>1
    <3>3. Good(0, f)
      BY <3>2
    <3> QED
      BY <3>3
  <2>3. k \in Nat \ {0} /\ k - 1 \in Nat /\ k - 1 \notin Bad
    <3> HIDE DEF Good
    <3>1. k \in Nat \ {0} /\ k - 1 \in Nat
      BY <2>2
    <3> HIDE DEF Bad
    <3>2. k - 1 \in Bad => k <= k - 1
      BY <2>1
    <3> QED
      BY <3>1, <3>2
  <2>4. PICK f : Good(k - 1, f)
    BY <2>3
  <2>5. PICK w : w = Cite(l, e, f[k - 1], L + 1 - k)
    OBVIOUS
  <2>6. PICK g : g = [n \in 0..k |-> IF n = k THEN w ELSE f[n]]
    OBVIOUS
  <2>7. Good(k, g)
    <3>1. g = [n \in 0..k |-> g[n]]
      BY <2>6
    <3>2. g[k] = w /\ \A n \in 0..k - 1 : g[n] = f[n]
      BY <2>3, <2>6
    <3>3. g[0] = NoCites
      BY <2>3, <2>4, <3>2
    <3>4. ASSUME NEW n \in 1..k PROVE g[n] = Cite(l, e, g[n - 1], L + 1 - n)
      <4>1. n - 1 \in 0..k - 1 /\ (n = k \/ n \in 1..k - 1) /\ (n \in 1..k - 1 => n \in 0..k - 1)
        BY <2>3
      <4>2. CASE n = k
        BY <2>5, <3>2, <4>1, <4>2
      <4>3. CASE n \in 1..k - 1
        BY <2>4, <3>2, <4>1, <4>3
      <4> QED
        BY <4>1, <4>2, <4>3
    <3> QED
      BY <3>1, <3>3, <3>4
  <2> QED
    BY <2>7
<1>3. PICK f : Good(L, f)
  BY <1>1, <1>2
<1>4. ASSUME NEW n \in 0..L
      PROVE  f[n] = IF n = 0 THEN NoCites ELSE Cite(l, e, f[n - 1], Len(l) + 1 - n)
  <2>1. CASE n = 0
    BY <1>3, <2>1
  <2>2. CASE n # 0
    BY <1>1, <2>2, <1>3
  <2> QED
    BY <2>1, <2>2
<1> QED
  BY <1>1, <1>3, <1>4 DEF Walks

\* At its end it has cited all above the first commit, and has that at hand.
LEMMA WalkCites ==
  ASSUME NEW l \in Seq(Commit), NEW e \in GitIds, NEW f, Walks(l, e, f, Len(l))
  PROVE  Cited(l, e, 1, f[Len(l)])
<1>1. PICK L \in Nat : L = Len(l)
  OBVIOUS
<1>2. f[0] = NoCites /\ \A n \in 1..L : f[n] = Cite(l, e, f[n - 1], L + 1 - n)
  <2>1. PICK W : W = [n \in 0..L |-> IF n = 0 THEN NoCites ELSE Cite(l, e, f[n - 1], L + 1 - n)]
    OBVIOUS
  <2>2. f = W
    BY <1>1, <2>1 DEF Walks
  <2>3. W[0] = NoCites /\ \A n \in 1..L : W[n] = Cite(l, e, f[n - 1], L + 1 - n)
    BY <1>1, <2>1
  <2> QED
    BY <2>2, <2>3
<1> DEFINE Bad == {k \in 0..L : ~ Cited(l, e, L + 1 - k, f[k])}
<1>3. Bad = {}
  <2> SUFFICES ASSUME Bad # {} PROVE FALSE
    OBVIOUS
  <2>0. Bad \in SUBSET Nat
    BY <1>1
  <2>1. PICK k \in Bad : \A m \in Bad : k <= m
    BY <2>0, LeastExists
  <2>2. Cited(l, e, L + 1 - 0, NoCites)
    BY EmptySeq, <1>1 DEF Cites, CommitsOf, Descends, Changes, Cited, NoCites
  <2>3. k # 0
    BY <1>2, <2>2
  <2>4. k \in 1..L /\ k - 1 \in 0..L /\ k - 1 \notin Bad
    <3>1. k \in 1..L /\ k - 1 \in 0..L
      BY <1>1, <2>3
    <3> HIDE DEF Bad
    <3>2. k - 1 \in Bad => k <= k - 1
      BY <2>1
    <3> QED
      BY <3>1, <3>2
  <2>5. PICK p \in 1..L : p = L + 1 - k /\ L + 1 - (k - 1) = p + 1
    BY <1>1, <2>4
  <2>6. Cited(l, e, p + 1, f[k - 1])
    BY <2>4, <2>5
  <2>7. Cited(l, e, p, Cite(l, e, f[k - 1], p))
    BY <1>1, <2>5, <2>6, CiteKeeps
  <2> QED
    BY <1>2, <2>4, <2>5, <2>7
<1>4. L \in 0..L /\ L + 1 - L = 1
  BY <1>1
<1>5. Cited(l, e, L + 1 - L, f[L])
  BY <1>3, <1>4
<1> QED
  BY <1>1, <1>4, <1>5

\* Citations names every change of the entity, the newest first.
LEMMA CitationsAre ==
  ASSUME NEW l \in Seq(Commit), NEW e \in GitIds
  PROVE  Cites(Citations(l, e), Changes(l, e))
<1>1. Walks(l, e, CHOOSE f : Walks(l, e, f, Len(l)), Len(l))
  BY WalkExists
<1>2. PICK f : Walks(l, e, f, Len(l)) /\ Citations(l, e) = f[Len(l)].cited \o f[Len(l)].pending
  BY <1>1 DEF Citations, Walks, NoCites
<1>3. PICK w : w = f[Len(l)] /\ Cited(l, e, 1, w)
  BY <1>2, WalkCites
<1>4. PICK L \in Nat : L = Len(l)
  OBVIOUS
<1>5. PICK C : C = {c \in Changes(l, e) : c > 1}
  OBVIOUS
<1>6. C \in SUBSET Nat /\ Cites(w.cited, C) /\ Changes(l, e) \subseteq 1..L
  BY <1>3, <1>4, <1>5 DEF Cited, Changes
<1>7. CASE 1 \in Changes(l, e)
  <2>1. 1 \in 1..L /\ Blob(l, 1, e) # NoEntity
    BY <1>4, <1>7 DEF Changes
  <2>2. Blob(l, 1, e) \in Entity
    <3>1. l[1] \in Commit
      BY <1>4, <2>1
    <3> QED
      BY <2>1, <3>1 DEF Blob, Commit
  <2>3. PICK r : r = [commit |-> 1, blob |-> Blob(l, 1, e)]
    OBVIOUS
  <2>4. r \in [commit : Nat, blob : Entity] /\ r.commit = 1
    BY <2>2, <2>3
  <2>5. w.pending = <<r>>
    BY <1>3, <1>4, <2>1, <2>3 DEF Cited
  <2>6. Cites(w.cited \o <<r>>, C \union {r.commit})
    BY <1>5, <1>6, <2>4, OneMoreCite
  <2>7. C \union {r.commit} = Changes(l, e)
    BY <1>4, <1>5, <1>6, <1>7, <2>4
  <2> QED
    BY <1>2, <1>3, <2>5, <2>6, <2>7
<1>8. CASE 1 \notin Changes(l, e)
  <2>1. w.pending = <<>>
    BY <1>3, <1>4, <1>8 DEF Cited, Changes
  <2>2. C = Changes(l, e)
    BY <1>4, <1>5, <1>6, <1>8
  <2>3. w.cited \in Seq([commit : Nat, blob : Entity])
    BY <1>6 DEF Cites
  <2>4. w.cited \o w.pending = w.cited
    BY <2>1, <2>3
  <2> QED
    BY <1>2, <1>3, <1>6, <2>2, <2>4
<1> QED
  BY <1>7, <1>8

\* So history cites each change once.
LEMMA CitesAll ==
  ASSUME log \in Seq(Commit)
  PROVE  HistoryCitesChanges
<1> SUFFICES ASSUME NEW e \in GitIds
             PROVE  /\ {Citations(log, e)[n].commit : n \in DOMAIN Citations(log, e)} = Changes(log, e)
                    /\ \A m, n \in DOMAIN Citations(log, e) :
                          m < n => Citations(log, e)[m].commit > Citations(log, e)[n].commit
  BY DEF HistoryCitesChanges, Changes
<1> QED
  BY CitationsAre DEF Cites, CommitsOf, Descends
\* The validator of backups takes every history the writers can make, a tombstone is
\* final, an exported bundle can be restored, and history cites each change once
\* (backup.go, validateBackup, ExportBundle, RestoreBundle; reader.go, History).
THEOREM HistoryServesItsReaders == GitSpec => []HistoryIsSound
<1>1. GitInv => HistoryStaysValid
  <2> SUFFICES ASSUME GitInv, log # <<>>, Len(log) <= MaxHistory PROVE ValidHistory(log)
    BY DEF HistoryStaysValid
  <2>1. log \in Seq(Commit) /\ Len(log) \in 1..Len(log)
    BY DEF GitInv, GitTyped
  <2>2. SubSeq(log, 1, Len(log)) = log
    BY <2>1
  <2> QED
    BY <2>1, <2>2, PrefixIsValid
<1>2. GitInv => TombstonesAreFinal
  BY DEF TombstonesAreFinal, GitInv, LogSound, Follows
<1>3. GitInv => BundlesRestore
  BY PrefixIsValid DEF BundlesRestore, GitInv, BundleSound, Restorable
<1>4. GitInv => HistoryCitesChanges
  BY CitesAll DEF GitInv, GitTyped
<1>5. GitInv => HistoryIsSound
  BY <1>1, <1>2, <1>3, <1>4 DEF HistoryIsSound
<1> QED
  BY <1>5, GitKept, PTL
=============================================================================
