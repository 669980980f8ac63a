-------------------------- MODULE RecordSync_proofs --------------------------
(***************************************************************************)
(* That the cache speaks the truth of single records, and that a page's    *)
(* row only advances, for any processes, pages and numbers of edits,       *)
(* operations and mishaps, as long as no page returns to the content of an *)
(* earlier revision.  What a process read outside a transaction stays a    *)
(* pair the provider has had or will never show again; what it compares    *)
(* with the cache it compares under the writer lock.                       *)
(*                                                                         *)
(* Then, that a write under an idempotency key is made once and told as    *)
(* what became of it, for any calls, payloads, edits and failures: at most *)
(* one call is between its claim and its settlement, and a key that may be *)
(* claimed has nothing applied or on the wire.                             *)
(***************************************************************************)
EXTENDS RecordSync, RemoteWrite, FiniteSetTheorems, TLAPS

Rows == [label : Nat, body : Nat, status : {"absent", "fresh", "not_found"}]
Events == {"none", "in_progress", "succeeded", "failed"}
Stages == {"idle", "asked", "meta", "body", "stage", "checkpoint", "next", "fetch", "list"}
Calls == [op : Ops, at : Stages, key : BOOLEAN, started : BOOLEAN, left : SUBSET Pages,
          batch : [Pages -> Rows], page : SUBSET Pages, meta : Nat, body : Nat]

Typed ==
    /\ local \in [Pages -> Rows] /\ event \in [Pages -> Events]
    /\ call \in [Callers -> Calls] /\ lock \in Callers \union {NoCaller}
    /\ pull \in BOOLEAN /\ thread \in Nat /\ stuck \subseteq Pages

RemoteSound ==
    /\ latest \in Nat \ {0} /\ wiki \in [Pages -> Nat] /\ talk \in Nat
    /\ \A p \in Pages : wiki[p] <= latest

\* A revision and a body that may stand together in the cache: should the page
\* ever be at that revision, that is its body.
Pair(p, l, b) ==
    /\ l # 0 /\ b # 0 /\ l <= latest
    /\ wiki[p] = 0 \/ wiki[p] >= l
    /\ wiki[p] = l => b = l
\* A revision the page has had.
Past(p, m) == m # 0 /\ m <= latest /\ (wiki[p] = 0 \/ wiki[p] >= m)

RowsPaired ==
    \A p \in Pages :
      /\ local[p].status = "fresh" => Pair(p, local[p].label, local[p].body)
      /\ local[p].status # "fresh" => local[p].label = 0
      /\ Stored(p) => local[p].body # 0

\* What a call may look like, by its operation.
Shape(k) ==
    /\ k.op = "none" => k.at = "idle"
    /\ k.op = "sync" => /\ k.at \in {"asked", "meta", "body", "stage", "checkpoint"}
                        /\ \E p \in Pages : k.page = {p}
    /\ k.op = "bulk" => k.at \in {"next", "meta", "body", "stage"}
    /\ k.op = "batch" => k.at \in {"fetch", "meta", "body"}
    /\ k.op \in {"comments", "all comments", "comment batch"} => k.at \in {"asked", "list", "stage"}
    /\ k.op \in {"all comments", "comment batch"} => k.at # "asked"
    /\ k.key \/ k.started => k.op = "sync"

\* What a call holds of pages: the revision it read, the pair it is to stage,
\* the pairs it fetched.
InHand(k) ==
    /\ k.at = "body" => \A p \in k.page : Past(p, k.meta)
    /\ k.op \in {"sync", "bulk"} /\ k.at = "stage" => \A p \in k.page : Pair(p, k.meta, k.body)
    /\ k.op = "batch" => \A p \in Pages : k.batch[p] # NoPage =>
         k.batch[p].status = "fresh" /\ Pair(p, k.batch[p].label, k.batch[p].body)

\* A revision read under the lock is no older than the row it will replace.
Ahead(k) == k.op \in {"sync", "bulk"} /\ k.at \in {"body", "stage"} =>
              \A p \in k.page : local[p].label <= k.meta

\* A staged sync has left its success with its key.
Sealed(k) == k.op = "sync" /\ k.at = "checkpoint" /\ k.key => \A p \in k.page : event[p] = "succeeded"

Good(k) == Shape(k) /\ InHand(k) /\ Ahead(k) /\ Sealed(k)
CallsGood == \A c \in Callers : Good(call[c])

\* The writer lock is held by who is inside a foreground operation.
Holds(k) ==
    \/ k.op \in {"sync", "comments"} /\ k.at # "asked"
    \/ k.op \in {"bulk", "all comments"}
LockHeld == \A c \in Callers : lock = c <=> Holds(call[c])

RInv == Typed /\ RemoteSound /\ RowsPaired /\ CallsGood /\ LockHeld /\ KeysAreTrue

-----------------------------------------------------------------------------
\* A pair stays one when others write to the provider: a page gets a revision
\* newer than any, or none.
LEMMA EditKeeps ==
  ASSUME RInv, ~Reverts, (\E p \in Pages : Edit(p)) \/ Comment
  PROVE  /\ RemoteSound'
         /\ \A p \in Pages, l \in Nat, b \in Nat : Pair(p, l, b) => Pair(p, l, b)'
         /\ \A p \in Pages, m \in Nat : Past(p, m) => Past(p, m)'
         /\ UNCHANGED <<rowVars, syncVars>>
BY RecordBounds DEF RInv, RemoteSound, Edit, Comment, Written, Pair, Past

(* An edit or a comment at the provider leaves the cache, the lock and every call alone. *)
LEMMA EditStep ==
  ASSUME RInv, ~Reverts, (\E p \in Pages : Edit(p)) \/ Comment
  PROVE  RInv'
<1>1. /\ RemoteSound'
      /\ \A p \in Pages, l \in Nat, b \in Nat : Pair(p, l, b) => Pair(p, l, b)'
      /\ \A p \in Pages, m \in Nat : Past(p, m) => Past(p, m)'
      /\ UNCHANGED <<rowVars, syncVars>>
  BY EditKeeps
<1>2. Typed' /\ LockHeld' /\ KeysAreTrue'
  BY <1>1 DEF RInv, Typed, LockHeld, Holds, KeysAreTrue, Stored, rowVars, syncVars
<1>3. RowsPaired'
  BY <1>1 DEF RInv, Typed, RowsPaired, Rows, Stored, rowVars
<1>4. ASSUME NEW c \in Callers PROVE Good(call[c])'
  <2>1. Shape(call[c])' /\ Ahead(call[c])' /\ Sealed(call[c])'
    BY <1>1 DEF RInv, CallsGood, Good, Shape, Ahead, Sealed, rowVars, syncVars
  <2>2. InHand(call[c]) /\ call'[c] = call[c] /\ call[c] \in Calls
    BY <1>1 DEF RInv, CallsGood, Good, Typed, syncVars
  <2>3. InHand(call[c])'
    BY <1>1, <2>2 DEF InHand, Calls, Rows
  <2> QED BY <2>1, <2>3 DEF Good
<1> QED BY <1>1, <1>2, <1>3, <1>4 DEF RInv, CallsGood

-----------------------------------------------------------------------------
\* A step of one process, whatever it does: the rest of the processes keep what
\* they have, because a row and a key change only under the lock.
LEMMA CallerStep ==
  ASSUME RInv, NEW c \in Callers, UNCHANGED remoteVars, Typed', RowsPaired', KeysAreTrue',
         \A d \in Callers \ {c} : call'[d] = call[d],
         Good(call[c])',
         UNCHANGED <<local, event>> \/ lock \in {c, NoCaller},
         lock' = IF Holds(call[c])' THEN c ELSE IF lock = c THEN NoCaller ELSE lock,
         Holds(call[c])' => lock \in {c, NoCaller}
  PROVE  RInv'
<1>1. RemoteSound'
  BY DEF RInv, RemoteSound, remoteVars
<1>2. LockHeld'
  <2> SUFFICES ASSUME NEW d \in Callers PROVE (lock = d <=> Holds(call[d]))'
    BY DEF LockHeld
  <2>1. CASE d = c
    BY <2>1, RecordBounds
  <2>2. CASE d # c
    <3>1. (lock = d <=> Holds(call[d])) /\ Holds(call[d])' = Holds(call[d])
      BY <2>2 DEF RInv, LockHeld, Holds
    <3> QED BY <2>2, <3>1, RecordBounds
  <2> QED BY <2>1, <2>2
<1>3. ASSUME NEW d \in Callers PROVE Good(call[d])'
  <2>1. CASE d = c
    BY <2>1
  <2>2. CASE d # c
    <3>1. call'[d] = call[d] /\ Good(call[d])
      BY <2>2 DEF RInv, CallsGood
    <3>2. Shape(call[d])' /\ InHand(call[d])'
      BY <3>1 DEF Good, Shape, InHand, Pair, Past, remoteVars
    <3>3. Ahead(call[d])' /\ Sealed(call[d])'
      <4>1. CASE UNCHANGED <<local, event>>
        BY <3>1, <4>1 DEF Good, Ahead, Sealed
      <4>2. CASE lock \in {c, NoCaller}
        BY <2>2, <4>2, RecordBounds, <3>1 DEF RInv, LockHeld, Ahead, Sealed, Holds
      <4> QED BY <4>1, <4>2
    <3> QED BY <3>2, <3>3 DEF Good
  <2> QED BY <2>1, <2>2
<1> QED BY <1>1, <1>2, <1>3 DEF RInv, CallsGood

\* What is remembered of keys and comments stands when no row, key or comment
\* changes and no owner leaves.
LEMMA KeysStand ==
  ASSUME KeysAreTrue, NEW c \in Callers, UNCHANGED <<local, event, pull, thread>>, stuck \subseteq stuck',
         \A d \in Callers \ {c} : call'[d] = call[d],
         \A d \in Callers \ {c} : lock = d => lock' = d,
         \A p \in Pages : lock = c /\ call[c].key /\ call[c].started /\ p \in call[c].page /\ event[p] = "in_progress" =>
            p \in stuck' \/ (lock' = c /\ call'[c].key /\ call'[c].started /\ p \in call'[c].page)
  PROVE  KeysAreTrue'
BY DEF KeysAreTrue, Stored

\* A step that writes nothing to the cache.
LEMMA QuietStep ==
  ASSUME RInv, NEW c \in Callers, UNCHANGED <<remoteVars, rowVars>>, stuck \subseteq stuck', stuck' \subseteq Pages,
         NEW k \in Calls, Good(k), call' = [call EXCEPT ![c] = k],
         lock' = IF Holds(k) THEN c ELSE IF lock = c THEN NoCaller ELSE lock,
         Holds(k) => lock \in {c, NoCaller},
         \A p \in Pages : lock = c /\ call[c].key /\ call[c].started /\ p \in call[c].page /\ event[p] = "in_progress" =>
            p \in stuck' \/ (Holds(k) /\ k.key /\ k.started /\ p \in k.page)
  PROVE  RInv'
<1>1. call'[c] = k /\ \A d \in Callers \ {c} : call'[d] = call[d]
  BY DEF RInv, Typed
<1>2. Typed'
  BY DEF RInv, Typed, rowVars
<1>3. RowsPaired'
  BY DEF RInv, RowsPaired, Pair, Stored, rowVars, remoteVars
<1>4. Holds(call[c])' <=> Holds(k)
  BY <1>1 DEF Holds
<1>5. KeysAreTrue'
  BY <1>1, KeysStand, RecordBounds DEF RInv, rowVars
<1>6. Good(call[c])'
  BY ZenonT(60), <1>1 DEF Good, Shape, InHand, Ahead, Sealed, Past, Pair, rowVars, remoteVars
<1> QED BY <1>1, <1>2, <1>3, <1>4, <1>5, <1>6, CallerStep DEF rowVars

\* An ended call is no call, and has nothing in its hands.
LEMMA IdleFacts == Idle \in Calls /\ Good(Idle) /\ ~Holds(Idle) /\ ~Idle.key /\ ~Idle.started /\ Idle.page = {}
<1>1. Idle \in Calls /\ ~Holds(Idle) /\ ~Idle.key /\ ~Idle.started /\ Idle.page = {}
  BY DEF Idle, Calls, Ops, Stages, Rows, NoPage, Holds
<1>2. Good(Idle)
  BY DEF Idle, Good, Shape, InHand, Ahead, Sealed
<1> QED BY <1>1, <1>2

\* So it is after the step that ended it.
LEMMA IdleGood ==
  ASSUME NEW c \in Callers, call'[c] = Idle
  PROVE  Good(call[c])'
BY DEF Idle, Good, Shape, InHand, Ahead, Sealed

\* An operation that ends without having written to the cache.
LEMMA QuietEnd ==
  ASSUME RInv, NEW c \in Callers, UNCHANGED <<remoteVars, rowVars>>, EndOp(c), Release(c),
         stuck \subseteq stuck', stuck' \subseteq Pages,
         \A p \in Pages : lock = c /\ call[c].key /\ call[c].started /\ p \in call[c].page /\ event[p] = "in_progress" =>
            p \in stuck'
  PROVE  RInv'
BY IdleFacts, QuietStep DEF EndOp, Release

-----------------------------------------------------------------------------
\* A targeted sync that begins asks for the lock, or is answered by its key.
LEMMA BeginSyncStep ==
  ASSUME RInv, NEW c \in Callers, NEW p \in Pages, NEW b \in BOOLEAN, BeginSync(c, p, b)
  PROVE  RInv'
<1> DEFINE k == IF b /\ event[p] \in {"succeeded", "in_progress"} THEN Idle
                ELSE [Idle EXCEPT !.op = "sync", !.at = "asked", !.key = b, !.page = {p}]
<1>1. k \in Calls /\ ~Holds(k) /\ call' = [call EXCEPT ![c] = k] /\ lock # c
  BY IdleFacts, RecordBounds DEF BeginSync, BeginOp, Idle, Calls, Ops, Stages, Holds, RInv, LockHeld
<1>2. Good(k)
  BY IdleFacts DEF Idle, Good, Shape, InHand, Ahead, Sealed
<1> HIDE DEF k
<1> QED BY <1>1, <1>2, QuietStep DEF BeginSync, RInv, Typed

\* The revision is read under the lock, or by a batch; the row cannot be newer.
LEMMA ReadMetaStep ==
  ASSUME RInv, NEW c \in Callers, NEW p \in Pages, ReadMeta(c, p)
  PROVE  RInv'
<1> DEFINE k == [call[c] EXCEPT !.at = "body", !.meta = wiki[p]]
<1>1. call' = [call EXCEPT ![c] = k] /\ k \in Calls /\ (Holds(k) <=> Holds(call[c]))
      /\ k.key = call[c].key /\ k.started = call[c].started /\ k.page = call[c].page
      /\ UNCHANGED <<remoteVars, rowVars, lock, stuck>>
  BY DEF RInv, Typed, ReadMeta, Calls, Stages, Holds, RemoteSound
<1>2. call[c] \in Calls /\ Good(call[c]) /\ call[c].at = "meta" /\ call[c].page = {p} /\ wiki[p] # 0
  BY DEF RInv, Typed, CallsGood, ReadMeta
<1>3. Shape(k) /\ Sealed(k)
  BY <1>2 DEF Calls, Good, Shape, Sealed
<1>4. InHand(k)
  BY <1>2 DEF Calls, Good, InHand, RInv, RemoteSound, Past
<1>5. local[p].label <= wiki[p]
  BY <1>2 DEF RInv, RowsPaired, Pair, RemoteSound, Typed, Rows
<1>6. Ahead(k)
  BY <1>2, <1>5 DEF Calls, Ahead
<1> HIDE DEF k
<1> QED BY <1>1, <1>3, <1>4, <1>6, QuietStep DEF Good, RInv, LockHeld, Typed

\* Revision and body make a pair even when the page moved between the reads: a
\* newer body is never the one of the older revision that was read.
LEMMA ReadBodyStep ==
  ASSUME RInv, NEW c \in Callers, NEW p \in Pages, ReadBody(c, p)
  PROVE  RInv'
<1> DEFINE isBatch == call[c].op = "batch"
           r == PageRow(call[c].meta, BodyRead(c, p))
           k == [call[c] EXCEPT !.at = IF isBatch THEN "fetch" ELSE "stage", !.body = BodyRead(c, p),
                                !.batch = IF isBatch THEN [call[c].batch EXCEPT ![p] = r] ELSE call[c].batch,
                                !.page = IF isBatch THEN {} ELSE call[c].page]
<1>0. BodyRead(c, p) \in Nat /\ r \in Rows /\ call[c] \in Calls
  BY DEF RInv, Typed, Calls, BodyRead, RemoteSound, PageRow, Rows
<1>1. Pair(p, call[c].meta, BodyRead(c, p))
  BY DEF RInv, CallsGood, Good, InHand, Past, Pair, ReadBody, BodyRead, RemoteSound
<1>2. call' = [call EXCEPT ![c] = k] /\ UNCHANGED <<remoteVars, rowVars, lock, stuck>>
  BY DEF ReadBody, RInv, Typed, Calls
<1>3. k \in Calls
  BY <1>0 DEF Calls, Stages
<1>4. /\ Holds(k) <=> Holds(call[c])
      /\ call[c].key \/ call[c].started => k.page = call[c].page
      /\ k.key = call[c].key /\ k.started = call[c].started
  BY <1>0 DEF Holds, ReadBody, RInv, CallsGood, Good, Shape, Calls
<1>5. Shape(k) /\ Ahead(k) /\ Sealed(k)
  BY <1>0 DEF ReadBody, RInv, CallsGood, Good, Shape, Calls, Ahead, Sealed
<1>6. InHand(k)
  BY <1>0, <1>1 DEF ReadBody, RInv, CallsGood, Good, Shape, Calls, InHand, PageRow, Rows
<1> HIDE DEF k
<1> QED BY <1>2, <1>3, <1>4, <1>5, <1>6, QuietStep DEF Good, RInv, LockHeld, Typed

\* A read tried again forgets the revision it had.
LEMMA RetryReadStep ==
  ASSUME RInv, NEW c \in Callers, RetryRead(c)
  PROVE  RInv'
<1> DEFINE k == [call[c] EXCEPT !.at = "meta", !.meta = 0]
<1>1. call' = [call EXCEPT ![c] = k] /\ k \in Calls /\ (Holds(k) <=> Holds(call[c]))
      /\ k.key = call[c].key /\ k.started = call[c].started /\ k.page = call[c].page
      /\ UNCHANGED <<remoteVars, rowVars, lock, stuck>>
  BY DEF RInv, Typed, RetryRead, Calls, Stages, Holds
<1>2. Good(k)
  BY ZenonT(60) DEF RInv, Typed, Calls, CallsGood, Good, Shape, InHand, Ahead, Sealed, RetryRead
<1> HIDE DEF k
<1> QED BY <1>1, <1>2, QuietStep DEF RInv, LockHeld, Typed

\* An operation that ends after its success, or holding no key, owes nothing.
LEMMA EndSteps ==
  ASSUME RInv, NEW c \in Callers, EndSync(c) \/ EndBulk(c)
  PROVE  RInv'
<1>1. UNCHANGED <<remoteVars, rowVars, stuck>> /\ EndOp(c) /\ Release(c)
  BY DEF EndSync, EndBulk
<1>2. \A p \in Pages : call[c].key /\ p \in call[c].page => event[p] # "in_progress"
  BY DEF EndSync, EndBulk, At, RInv, CallsGood, Good, Sealed, Shape
<1> QED BY <1>1, <1>2, QuietEnd DEF RInv, Typed

\* A process that dies leaves its key to those that block for good.
LEMMA DieStep ==
  ASSUME RInv, NEW c \in Callers, Die(c)
  PROVE  RInv'
<1>1. UNCHANGED <<remoteVars, rowVars>> /\ EndOp(c) /\ Release(c)
      /\ stuck' = stuck \union {p \in call[c].page : call[c].key /\ lock = c /\ event[p] = "in_progress"}
  BY DEF Die, EndOp
<1>2. call[c].page \subseteq Pages /\ stuck \subseteq Pages
  BY DEF RInv, Typed, Calls
<1> QED BY <1>1, <1>2, QuietEnd

\* Listings, skips and given-up pages touch nothing but the process's own hands.
LEMMA BeginBulkStep ==
  ASSUME RInv, NEW c \in Callers, BeginBulk(c)
  PROVE  RInv'
<1> DEFINE k == [Idle EXCEPT !.op = "bulk", !.at = "next", !.left = {p \in Pages : wiki[p] # 0},
                             !.batch = [p \in Pages |-> PageRow(wiki[p], 0)]]
<1>1. k \in Calls /\ Holds(k)
  BY IdleFacts DEF Idle, Calls, Ops, Stages, Holds, PageRow, Rows, RInv, RemoteSound
<1>2. Good(k)
  BY DEF Idle, Good, Shape, InHand, Ahead, Sealed
<1>3. CASE lock = NoCaller
  <2>1. call' = [call EXCEPT ![c] = k] /\ lock' = c /\ UNCHANGED <<remoteVars, rowVars, stuck>>
    BY <1>3 DEF BeginBulk
  <2> HIDE DEF k
  <2> QED BY <1>1, <1>2, <1>3, <2>1, QuietStep, RecordBounds DEF RInv, Typed
<1>4. CASE lock # NoCaller
  BY <1>4, IdleFacts, QuietEnd DEF BeginBulk, BeginOp, RInv, LockHeld, Release, Typed
<1> QED BY <1>3, <1>4

\* The listing is walked page by page, and a page that is given up or skipped
\* leaves nothing behind.
LEMMA NextPageStep ==
  ASSUME RInv, NEW c \in Callers, NEW p \in Pages, NextPage(c, p)
  PROVE  RInv'
<1> DEFINE fresh == Fresh(p, call[c].batch[p].label)
           k == [call[c] EXCEPT !.left = @ \ {p}, !.at = IF fresh THEN "next" ELSE "meta",
                                !.page = IF fresh THEN {} ELSE {p}]
<1>1. call[c] \in Calls /\ Good(call[c]) /\ call[c].op = "bulk"
  BY DEF RInv, Typed, CallsGood, NextPage, At
<1>2. call' = [call EXCEPT ![c] = k] /\ UNCHANGED <<remoteVars, rowVars, lock, stuck>>
  BY DEF NextPage, RInv, Typed
<1> HIDE DEF fresh
<1>3. k \in Calls /\ Holds(k) /\ Holds(call[c]) /\ ~call[c].key
  BY <1>1 DEF Good, Shape, Calls, Stages, Holds
<1>4. Good(k)
  BY <1>1 DEF Calls, Good, Shape, InHand, Ahead, Sealed
<1> HIDE DEF k
<1> QED BY <1>2, <1>3, <1>4, QuietStep DEF RInv, LockHeld, Typed

(* One page of a collection pass that cannot be read is left behind. *)
LEMMA PageFailsStep ==
  ASSUME RInv, NEW c \in Callers, NEW p \in Pages, PageFails(c, p)
  PROVE  RInv'
<1> DEFINE k == [call[c] EXCEPT !.at = "next", !.page = {}]
<1>1. call[c] \in Calls /\ Good(call[c]) /\ call[c].op = "bulk"
  BY DEF RInv, Typed, CallsGood, PageFails
<1>2. call' = [call EXCEPT ![c] = k] /\ UNCHANGED <<remoteVars, rowVars, lock, stuck>>
  BY DEF PageFails, RInv, Typed
<1>3. k \in Calls /\ Holds(k) /\ Holds(call[c]) /\ ~call[c].key
  BY <1>1 DEF Good, Shape, Calls, Stages, Holds
<1>4. Good(k)
  BY <1>1 DEF Calls, Good, Shape, InHand, Ahead, Sealed
<1> HIDE DEF k
<1> QED BY <1>2, <1>3, <1>4, QuietStep DEF RInv, LockHeld, Typed

(* The daemon turns to the next page of its batch, holding no lock. *)
LEMMA FetchNextStep ==
  ASSUME RInv, NEW c \in Callers, NEW p \in Pages, FetchNext(c, p)
  PROVE  RInv'
<1> DEFINE k == [call[c] EXCEPT !.left = @ \ {p}, !.at = "meta", !.page = {p}]
<1>1. call[c] \in Calls /\ Good(call[c]) /\ call[c].op = "batch"
  BY DEF RInv, Typed, CallsGood, FetchNext, At
<1>2. call' = [call EXCEPT ![c] = k] /\ UNCHANGED <<remoteVars, rowVars, lock, stuck>>
  BY DEF FetchNext, RInv, Typed
<1>3. k \in Calls /\ ~Holds(k) /\ ~Holds(call[c]) /\ ~call[c].key
  BY <1>1 DEF Good, Shape, Calls, Stages, Holds
<1>4. Good(k)
  BY <1>1 DEF Calls, Good, Shape, InHand, Ahead, Sealed
<1> HIDE DEF k
<1> QED BY <1>2, <1>3, <1>4, QuietStep DEF RInv, LockHeld, Typed

\* A batch begins with what the listing showed, without the lock.
LEMMA BeginBatchStep ==
  ASSUME RInv, NEW c \in Callers, BeginBatch(c)
  PROVE  RInv'
<1> DEFINE k == [Idle EXCEPT !.op = "batch", !.at = "fetch", !.left = {p \in Pages : wiki[p] # 0}]
<1>1. k \in Calls /\ ~Holds(k) /\ call' = [call EXCEPT ![c] = k] /\ lock # c
      /\ UNCHANGED <<remoteVars, rowVars, lock, stuck>>
  BY IdleFacts DEF BeginBatch, BeginOp, Idle, Calls, Ops, Stages, Holds, RInv, LockHeld
<1>2. Good(k)
  BY DEF Idle, Good, Shape, InHand, Ahead, Sealed
<1> HIDE DEF k
<1> QED BY <1>1, <1>2, QuietStep DEF RInv, Typed

\* Comments are asked for and listed; none is stored yet.
LEMMA BeginCommentsStep ==
  ASSUME RInv, NEW c \in Callers, NEW o \in {"comments", "all comments", "comment batch"}, BeginComments(c, o)
  PROVE  RInv'
<1> DEFINE k == [Idle EXCEPT !.op = o, !.at = IF o = "comments" THEN "asked" ELSE "list"]
<1>1. /\ k \in Calls /\ (Holds(k) <=> o = "all comments") /\ lock # c /\ ~call[c].key
      /\ call' = [call EXCEPT ![c] = k] /\ UNCHANGED <<remoteVars, rowVars, stuck>>
      /\ lock' = IF Holds(k) THEN c ELSE lock
      /\ Holds(k) => lock = NoCaller
  BY IdleFacts DEF BeginComments, BeginOp, Idle, Calls, Ops, Stages, Holds, RInv, LockHeld
<1>2. Good(k)
  BY DEF Idle, Good, Shape, InHand, Ahead, Sealed
<1> HIDE DEF k
<1> QED BY <1>1, <1>2, QuietStep DEF RInv, Typed

(* A comment sync takes the cache lock, or ends because another process holds it. *)
LEMMA LockCommentsStep ==
  ASSUME RInv, NEW c \in Callers, LockComments(c)
  PROVE  RInv'
<1>1. lock # c /\ call[c].op = "comments" /\ call[c].at = "asked"
  BY DEF LockComments, At, RInv, LockHeld, Holds
<1>2. CASE lock = NoCaller /\ lock' = c /\ Rewrite(c, "list")
  <2> DEFINE k == [call[c] EXCEPT !.at = "list"]
  <2>1. call' = [call EXCEPT ![c] = k] /\ k \in Calls /\ Holds(k) /\ UNCHANGED <<remoteVars, rowVars, stuck>>
    BY <1>1, <1>2 DEF RInv, Typed, LockComments, Rewrite, Calls, Stages, Holds
  <2>2. Good(k)
    BY <1>1 DEF RInv, Typed, Calls, CallsGood, Good, Shape, InHand, Ahead, Sealed
  <2> HIDE DEF k
  <2> QED BY <1>1, <1>2, <2>1, <2>2, QuietStep DEF RInv, Typed
<1>3. CASE lock # NoCaller /\ EndOp(c) /\ UNCHANGED lock
  BY <1>1, <1>3, QuietEnd DEF LockComments, Release, RInv, Typed
<1> QED BY <1>2, <1>3 DEF LockComments

(* The comments are read from the provider before the transaction. *)
LEMMA ListCommentsStep ==
  ASSUME RInv, NEW c \in Callers, ListComments(c)
  PROVE  RInv'
<1> DEFINE k == [call[c] EXCEPT !.at = "stage", !.body = talk]
<1>1. call' = [call EXCEPT ![c] = k] /\ k \in Calls /\ (Holds(k) <=> Holds(call[c]))
      /\ ~call[c].key /\ UNCHANGED <<remoteVars, rowVars, lock, stuck>>
  BY ZenonT(60) DEF RInv, Typed, ListComments, RemoteSound, Calls, Stages, Holds, CallsGood, Good, Shape
<1>2. Good(k)
  BY ZenonT(60) DEF RInv, Typed, Calls, CallsGood, Good, Shape, InHand, Ahead, Sealed, ListComments
<1> HIDE DEF k
<1> QED BY <1>1, <1>2, QuietStep DEF RInv, LockHeld, Typed

-----------------------------------------------------------------------------
\* A key is marked under the lock, when no other key has an owner at work.
LEMMA LockSyncStep ==
  ASSUME RInv, NEW c \in Callers, LockSync(c)
  PROVE  RInv'
<1>0. lock # c /\ call[c].op = "sync" /\ call[c].at = "asked" /\ call[c] \in Calls /\ Good(call[c])
  BY DEF LockSync, At, RInv, LockHeld, Holds, CallsGood, Typed
<1>1. CASE lock # NoCaller
  BY <1>0, <1>1, QuietEnd DEF LockSync, Release, rowVars, RInv, Typed
<1>2. CASE lock = NoCaller
  <2>0. PICK p \in call[c].page :
          /\ lock' = c
          /\ call' = [call EXCEPT ![c].at = "meta", ![c].started = Stored(p)]
          /\ event' = IF Stored(p) /\ call[c].key THEN [event EXCEPT ![p] = "in_progress"] ELSE event
    BY <1>2 DEF LockSync
  <2>1. UNCHANGED <<remoteVars, local, pull, thread, stuck>>
    BY DEF LockSync
  <2> DEFINE k == [call[c] EXCEPT !.at = "meta", !.started = Stored(p)]
  <2>2. p \in Pages /\ call[c].page = {p}
    BY <1>0 DEF Good, Shape
  <2>3. call' = [call EXCEPT ![c] = k] /\ k \in Calls /\ Holds(k)
    BY <1>0, <2>0 DEF Calls, Stages, Holds, RInv, Typed, Stored
  <2>4. call'[c] = k /\ \A d \in Callers \ {c} : call'[d] = call[d]
    BY <2>3 DEF RInv, Typed
  <2>5. Typed'
    BY <2>0, <2>1, <2>2, <2>3 DEF RInv, Typed, Events
  <2>6. RowsPaired'
    BY <2>1 DEF RInv, RowsPaired, Pair, Stored, remoteVars
  <2>7. Good(call[c])'
    BY <1>0, <2>4 DEF Good, Shape, InHand, Ahead, Sealed, Calls
  <2>8. KeysAreTrue'
    <3>1. k.page = {p} /\ k.key = call[c].key /\ k.started = Stored(p)
      BY <1>0, <2>2 DEF Calls
    <3>2. \A d \in Callers : lock # d
      BY <1>2, RecordBounds
    <3> HIDE DEF k
    <3> QED BY <2>0, <2>1, <2>2, <2>4, <3>1, <3>2 DEF RInv, Typed, KeysAreTrue, Stored
  <2>9. Holds(call[c])'
    BY <2>3, <2>4 DEF Holds
  <2> HIDE DEF k
  <2> QED BY <1>2, <2>0, <2>1, <2>4, <2>5, <2>6, <2>7, <2>8, <2>9, CallerStep
<1> QED BY <1>1, <1>2

\* A failed sync takes its mark with it, or is known to be stuck.
LEMMA FailsStep ==
  ASSUME RInv, NEW c \in Callers, NEW p \in call[c].page, NEW u \in BOOLEAN, Fails(c, p, u), lock = c,
         call[c].op = "sync", UNCHANGED <<remoteVars, pull, thread>>, RowsPaired', local' \in [Pages -> Rows],
         \A q \in Pages : Stored(q) => Stored(q)'
  PROVE  RInv'
<1>1. p \in Pages /\ call[c].page = {p} /\ call[c] \in Calls
  BY DEF RInv, Typed, CallsGood, Good, Shape, Calls
<1>2. call'[c] = Idle /\ \A d \in Callers \ {c} : call'[d] = call[d]
  BY DEF Fails, EndOp, RInv, Typed
<1>3. Typed'
  BY <1>1, IdleFacts DEF RInv, Typed, Fails, EndOp, Release, Events
<1>4. KeysAreTrue'
  BY <1>1 DEF Fails, RInv, Typed, KeysAreTrue
<1>5. Good(call[c])' /\ ~Holds(call[c])'
  BY <1>2, IdleGood, IdleFacts DEF Holds
<1> QED BY <1>2, <1>3, <1>4, <1>5, CallerStep DEF Fails, Release

(* A page the listing no longer has is marked; its content and its key stay. *)
LEMMA MarkMissingStep ==
  ASSUME RInv, NEW c \in Callers, NEW p \in Pages, MarkMissing(c, p)
  PROVE  RInv'
<1>1. lock = c /\ call[c].op = "sync" /\ p \in call[c].page
  BY DEF MarkMissing, At, RInv, LockHeld, Holds
<1>2. RowsPaired' /\ local' \in [Pages -> Rows] /\ \A q \in Pages : Stored(q) => Stored(q)'
  BY DEF MarkMissing, RInv, Typed, RowsPaired, Pair, Stored, Rows, remoteVars
<1> QED BY <1>1, <1>2, FailsStep DEF MarkMissing

(* A call that fails releases the lock and the pages it held. *)
LEMMA BreakStep ==
  ASSUME RInv, NEW c \in Callers, Break(c)
  PROVE  RInv'
<1>1. lock = c /\ call[c].op = "sync"
  BY DEF Break, RInv, LockHeld, Holds
<1>2. RowsPaired' /\ local' \in [Pages -> Rows] /\ \A q \in Pages : Stored(q) => Stored(q)'
  BY DEF Break, RInv, Typed, RowsPaired, Pair, Stored, remoteVars
<1>3. PICK p \in call[c].page, u \in BOOLEAN : Fails(c, p, u)
  BY DEF Break
<1> QED BY <1>1, <1>2, <1>3, FailsStep DEF Break

\* A row written is the pair in the process's hands.
LEMMA RowWritten ==
  ASSUME RInv, NEW p \in Pages, NEW l \in Nat, NEW b \in Nat, Pair(p, l, b), Upsert(p, l, b), UNCHANGED remoteVars
  PROVE  /\ local' \in [Pages -> Rows] /\ RowsPaired' /\ Stored(p)'
         /\ \A q \in Pages : Stored(q) => Stored(q)'
         /\ local'[p].label = l /\ local'[p].status = "fresh" /\ local'[p].body = b
         /\ \A q \in Pages \ {p} : local'[q] = local[q]
<1>1. /\ local' \in [Pages -> Rows] /\ local'[p] = PageRow(l, b)
      /\ \A q \in Pages \ {p} : local'[q] = local[q]
  BY DEF Upsert, PageRow, Rows, RInv, Typed
<1>2. /\ local'[p].label = l /\ local'[p].status = "fresh" /\ local'[p].body = b /\ Stored(p)'
      /\ \A q \in Pages : Stored(q) => Stored(q)'
  BY <1>1 DEF PageRow, Stored
<1>3. RowsPaired'
  BY <1>1, <1>2 DEF RInv, RowsPaired, Pair, Stored, remoteVars
<1> QED BY <1>1, <1>2, <1>3

\* The record and the event of its success go together.
LEMMA StageSyncStep ==
  ASSUME RInv, NEW c \in Callers, NEW p \in Pages, StageSync(c, p)
  PROVE  RInv'
<1> DEFINE k == [call[c] EXCEPT !.at = "checkpoint"]
<1>1. call[c] \in Calls /\ Good(call[c]) /\ call[c].op = "sync" /\ call[c].at = "stage" /\ call[c].page = {p}
      /\ lock = c
  BY DEF RInv, Typed, CallsGood, StageSync, At, LockHeld, Holds
<1>2. call' = [call EXCEPT ![c] = k] /\ k \in Calls /\ call'[c] = k /\ \A d \in Callers \ {c} : call'[d] = call[d]
  BY <1>1 DEF StageSync, Rewrite, RInv, Typed, Calls, Stages
<1>3. k.op = "sync" /\ k.at = "checkpoint" /\ k.page = {p} /\ k.key = call[c].key /\ k.started = call[c].started
  BY <1>1 DEF Calls
<1> HIDE DEF k
<1>4. Pair(p, call[c].meta, call[c].body) /\ call[c].meta \in Nat /\ call[c].body \in Nat
  BY <1>1 DEF Good, InHand, Calls
<1>5. /\ local' \in [Pages -> Rows] /\ RowsPaired' /\ Stored(p)'
      /\ \A q \in Pages : Stored(q) => Stored(q)'
  BY <1>4, RowWritten DEF StageSync
<1>6. /\ event' \in [Pages -> Events]
      /\ call[c].key => event'[p] = "succeeded"
      /\ \A q \in Pages \ {p} : event'[q] = event[q]
      /\ ~call[c].key => event' = event
  BY DEF StageSync, RInv, Typed, Events
<1>7. Typed'
  BY <1>2, <1>5, <1>6 DEF StageSync, RInv, Typed
<1>8. Good(call[c])' /\ Holds(call[c])'
  BY ZenonT(60), <1>1, <1>2, <1>3, <1>6 DEF Good, Shape, InHand, Ahead, Sealed, Holds
<1>9. KeysAreTrue'
  BY <1>5, <1>6, <1>1, <1>2, <1>3 DEF RInv, KeysAreTrue, StageSync
<1> QED BY <1>1, <1>2, <1>5, <1>7, <1>8, <1>9, CallerStep DEF StageSync

(* A collection pass stages the page it read for its row. *)
LEMMA StageBulkStep ==
  ASSUME RInv, NEW c \in Callers, NEW p \in Pages, StageBulk(c, p)
  PROVE  RInv'
<1> DEFINE k == [call[c] EXCEPT !.at = "next", !.page = {}, !.meta = 0, !.body = 0]
<1>1. call[c] \in Calls /\ Good(call[c]) /\ call[c].op = "bulk" /\ call[c].at = "stage" /\ call[c].page = {p}
      /\ lock = c
  BY DEF RInv, Typed, CallsGood, StageBulk, At, LockHeld, Holds
<1>2. call' = [call EXCEPT ![c] = k] /\ k \in Calls /\ call'[c] = k /\ \A d \in Callers \ {c} : call'[d] = call[d]
  BY <1>1 DEF StageBulk, RInv, Typed, Calls, Stages
<1>3. k.op = "bulk" /\ k.at = "next" /\ k.page = {} /\ k.key = call[c].key /\ k.started = call[c].started
  BY <1>1 DEF Calls
<1> HIDE DEF k
<1>4. Pair(p, call[c].meta, call[c].body) /\ call[c].meta \in Nat /\ call[c].body \in Nat
  BY <1>1 DEF Good, InHand, Calls
<1>5. /\ local' \in [Pages -> Rows] /\ RowsPaired'
      /\ \A q \in Pages : Stored(q) => Stored(q)'
  BY <1>4, RowWritten DEF StageBulk
<1>7. Typed'
  BY <1>2, <1>5 DEF StageBulk, RInv, Typed
<1>8. Good(call[c])' /\ Holds(call[c])' /\ ~call[c].key
  BY <1>1, <1>2, <1>3 DEF Good, Shape, InHand, Ahead, Sealed, Holds
<1>9. KeysAreTrue'
  BY <1>1, <1>2, <1>5, <1>8 DEF RInv, KeysAreTrue, StageBulk
<1> QED BY <1>1, <1>2, <1>5, <1>7, <1>8, <1>9, CallerStep DEF StageBulk

\* A batch is committed only when nobody holds the lock.
LEMMA CommitBatchStep ==
  ASSUME RInv, NEW c \in Callers, CommitBatch(c)
  PROVE  RInv'
<1>1. call[c] \in Calls /\ Good(call[c]) /\ call[c].op = "batch" /\ lock = NoCaller
  BY DEF RInv, Typed, CallsGood, CommitBatch, At
<1>2. call'[c] = Idle /\ \A d \in Callers \ {c} : call'[d] = call[d]
  BY DEF CommitBatch, EndOp, RInv, Typed
<1>3. local' \in [Pages -> Rows] /\ \A p \in Pages : local'[p] = IF call[c].batch[p] # NoPage THEN call[c].batch[p] ELSE local[p]
  BY <1>1 DEF CommitBatch, RInv, Typed, Calls
<1>4. /\ RowsPaired' /\ \A p \in Pages : Stored(p) => Stored(p)'
  <2> SUFFICES ASSUME NEW p \in Pages
               PROVE  /\ local'[p].status = "fresh" => Pair(p, local[p].label, local[p].body)'
                      /\ local'[p].status # "fresh" => local'[p].label = 0
                      /\ Stored(p)' => local'[p].body # 0
                      /\ Stored(p) => Stored(p)'
    BY DEF RowsPaired
  <2>1. CASE call[c].batch[p] # NoPage
    BY <1>1, <2>1, <1>3 DEF Good, InHand, Pair, Stored, CommitBatch, remoteVars
  <2>2. CASE call[c].batch[p] = NoPage
    BY <1>3, <2>2 DEF RInv, RowsPaired, Pair, Stored, CommitBatch, remoteVars
  <2> QED BY <2>1, <2>2
<1>5. Typed'
  BY <1>3, IdleFacts DEF CommitBatch, EndOp, RInv, Typed
<1>6. KeysAreTrue'
  BY <1>1, <1>2, <1>4, RecordBounds DEF RInv, KeysAreTrue, CommitBatch
<1>7. Good(call[c])' /\ ~Holds(call[c])'
  BY <1>2, IdleGood, IdleFacts DEF Holds
<1> QED BY <1>1, <1>2, <1>4, <1>5, <1>6, <1>7, CallerStep, RecordBounds DEF CommitBatch

-----------------------------------------------------------------------------
\* Comments are stored under a pull request that is there.
LEMMA ThreadSteps ==
  ASSUME RInv, NEW c \in Callers, StageComments(c) \/ CommitThread(c)
  PROVE  RInv'
<1>1. call[c] \in Calls /\ ~call[c].key
  BY DEF RInv, Typed, CallsGood, Good, Shape, Calls, StageComments, CommitThread, At
<1>2. /\ UNCHANGED <<remoteVars, local, pull, event, stuck>> /\ EndOp(c)
      /\ thread' = IF pull THEN call[c].body ELSE thread
      /\ lock' = IF lock = c THEN NoCaller ELSE lock
  BY RecordBounds DEF StageComments, CommitThread, ParentStands, Release
<1>3. call'[c] = Idle /\ \A d \in Callers \ {c} : call'[d] = call[d]
  BY <1>2 DEF EndOp, RInv, Typed
<1>4. Typed'
  BY <1>1, <1>2, IdleFacts DEF EndOp, RInv, Typed, Calls
<1>5. RowsPaired'
  BY <1>2 DEF RInv, RowsPaired, Pair, Stored, remoteVars
<1>6. KeysAreTrue'
  BY <1>1, <1>2, <1>3 DEF RInv, KeysAreTrue, Stored
<1>7. Good(call[c])' /\ ~Holds(call[c])'
  BY <1>3, IdleGood, IdleFacts DEF Holds
<1> QED BY <1>2, <1>3, <1>4, <1>5, <1>6, <1>7, CallerStep

\* What the calls hold stays right while the provider, the pages, the keys and
\* the calls are what they were.
LEMMA CallsStand ==
  ASSUME CallsGood, UNCHANGED <<remoteVars, local, event, call>>
  PROVE  CallsGood'
<1> SUFFICES ASSUME NEW d \in Callers PROVE Good(call[d])'
  BY DEF CallsGood
<1>1. Good(call[d]) /\ call'[d] = call[d]
  BY DEF CallsGood
<1>2. UNCHANGED <<wiki, talk, latest, local, event>>
  BY DEF remoteVars
<1>3. Shape(call[d])' /\ Sealed(call[d])'
  BY <1>1, <1>2 DEF Good, Shape, Sealed
<1>4. InHand(call[d])'
  BY <1>1, <1>2 DEF Good, InHand, Past, Pair
<1>5. Ahead(call[d])'
  BY <1>1, <1>2 DEF Good, Ahead
<1> QED BY <1>3, <1>4, <1>5 DEF Good

\* The pull request comes into the cache, and a reset takes everything out.
LEMMA SyncPullStep ==
  ASSUME RInv, NEW c \in Callers, SyncPull(c)
  PROVE  RInv'
<1>1. Typed' /\ KeysAreTrue' /\ UNCHANGED <<remoteVars, local, event, call, lock, stuck>>
  BY DEF SyncPull, RInv, Typed, KeysAreTrue, Stored
<1>2. RowsPaired'
  BY <1>1 DEF RInv, RowsPaired, Pair, Stored, remoteVars
<1>3. RemoteSound' /\ LockHeld'
  BY <1>1 DEF RInv, RemoteSound, LockHeld, Holds, remoteVars
<1>4. CallsGood'
  BY <1>1, CallsStand DEF RInv
<1> QED BY <1>1, <1>2, <1>3, <1>4 DEF RInv

(* The traversal keeps only the pages the listing still had. *)
LEMMA DropLiveStep ==
  ASSUME RInv, NEW c \in Callers, DropLive(c)
  PROVE  RInv'
<1>1. call[c] = Idle /\ lock = NoCaller /\ UNCHANGED <<remoteVars, lock, call, stuck>>
  BY DEF DropLive
<1>2. \A p \in Pages : local'[p] = NoPage
  BY DEF DropLive
<1>3. Typed'
  BY DEF DropLive, RInv, Typed, NoPage, Rows, Events
<1>4. RowsPaired'
  BY <1>2 DEF RowsPaired, NoPage, Stored
<1>5. KeysAreTrue'
  BY <1>1 DEF DropLive, RInv, Typed, KeysAreTrue, Stored
<1>6. Good(call[c])' /\ ~Holds(call[c])'
  BY <1>1, IdleGood, IdleFacts DEF Holds
<1> QED BY <1>1, <1>3, <1>4, <1>5, <1>6, CallerStep, RecordBounds DEF DropLive

-----------------------------------------------------------------------------
\* The first state has nothing of anyone.
LEMMA RInvInit ==
  ASSUME RecordInit
  PROVE  RInv
<1>0. RemoteSound
  BY DEF RecordInit, RemoteSound
<1>1. Typed
  BY IdleFacts DEF RecordInit, NoPage, Rows, Events, Typed
<1>2. RowsPaired /\ KeysAreTrue
  BY DEF RecordInit, RowsPaired, KeysAreTrue, Stored, NoPage
<1>3. \A c \in Callers : call[c] = Idle /\ lock = NoCaller
  BY DEF RecordInit
<1>4. CallsGood /\ LockHeld
  BY <1>3, IdleFacts, RecordBounds DEF CallsGood, LockHeld
<1> QED BY <1>0, <1>1, <1>2, <1>4 DEF RInv

\* Every step keeps the invariant.
LEMMA RInvStep ==
  ASSUME RInv, ~Reverts, [RecordNext]_recordVars
  PROVE  RInv'
<1>1. ASSUME NEW c \in Callers, SyncStep(c) PROVE RInv'
  BY <1>1, LockSyncStep, RetryReadStep, EndSteps, BreakStep, ReadMetaStep, ReadBodyStep, MarkMissingStep,
     StageSyncStep DEF SyncStep
<1>2. ASSUME NEW c \in Callers, BulkStep(c) PROVE RInv'
  BY <1>2, BeginBulkStep, EndSteps, BeginBatchStep, CommitBatchStep, DropLiveStep, NextPageStep, StageBulkStep,
     PageFailsStep, FetchNextStep DEF BulkStep
<1>3. ASSUME NEW c \in Callers, CommentStep(c) PROVE RInv'
  BY <1>3, SyncPullStep, LockCommentsStep, ListCommentsStep, ThreadSteps, BeginCommentsStep DEF CommentStep
<1>4. CASE UNCHANGED recordVars
  <2>1. UNCHANGED <<wiki, talk, latest, local, pull, thread, event, lock, call, stuck>>
    <3>1. UNCHANGED remoteVars /\ UNCHANGED rowVars /\ UNCHANGED syncVars
      BY <1>4 DEF recordVars
    <3>2. UNCHANGED <<wiki, talk, latest>>
      BY <3>1 DEF remoteVars
    <3>3. UNCHANGED <<local, pull, thread, event>>
      BY <3>1 DEF rowVars
    <3>4. UNCHANGED <<lock, call, stuck>>
      BY <3>1 DEF syncVars
    <3> QED BY <3>2, <3>3, <3>4
  <2>2. Typed' /\ RemoteSound' /\ LockHeld' /\ KeysAreTrue'
    BY <2>1 DEF RInv, Typed, RemoteSound, LockHeld, Holds, KeysAreTrue, Stored
  <2>3. RowsPaired'
    BY <2>1 DEF RInv, RowsPaired, Pair, Stored
  <2>4. CallsGood'
    BY <2>1, CallsStand DEF RInv, remoteVars
  <2> QED BY <2>2, <2>3, <2>4 DEF RInv
<1> QED BY <1>1, <1>2, <1>3, <1>4, EditStep, DieStep, BeginSyncStep DEF RecordNext

\* What a listing may skip is the provider's page; what a key or a comment
\* speaks of is in the cache, and a key in progress has a sync at work or is
\* known to be stuck (SyncToCache, SyncWikiPages, the daemon's durable batches).
THEOREM RecordsSpeakTrue ==
  ASSUME ~Reverts
  PROVE  RecordSpec => []CacheSpeaksTrue
<1>1. RInv => CacheSpeaksTrue
  BY DEF RInv, RowsPaired, Pair, CacheSpeaksTrue, SkipsAreRight, Fresh
<1>2. RecordInit => RInv
  BY RInvInit
<1>3. RInv /\ [RecordNext]_recordVars => RInv'
  BY RInvStep
<1> QED BY <1>1, <1>2, <1>3, PTL DEF RecordSpec

\* No step puts an older revision in the place of a newer one, except the batch
\* that was fetched before the lock was its own, and none empties a page but a
\* reset.
LEMMA StepAdvances ==
  ASSUME RInv, ~Reverts, RecordNext
  PROVE  RowAdvances
<1>1. CASE UNCHANGED local
  BY <1>1 DEF RowAdvances, RInv, Typed, Rows, RowsPaired
<1>2. ASSUME NEW c \in Callers, NEW p \in Pages, StageSync(c, p) \/ StageBulk(c, p) PROVE RowAdvances
  <2>1. call[c] \in Calls /\ Good(call[c]) /\ call[c].op \in {"sync", "bulk"} /\ call[c].at = "stage" /\ call[c].page = {p}
    BY <1>2 DEF RInv, Typed, CallsGood, StageSync, StageBulk, At
  <2>2. Pair(p, call[c].meta, call[c].body) /\ call[c].meta \in Nat /\ call[c].body \in Nat /\ local[p].label <= call[c].meta
    BY <2>1 DEF Good, InHand, Ahead, Calls
  <2>3. /\ local'[p].label = call[c].meta /\ local'[p].status = "fresh" /\ local'[p].body = call[c].body
        /\ \A q \in Pages \ {p} : local'[q] = local[q]
    BY <1>2, <2>2, RowWritten DEF StageSync, StageBulk
  <2>4. \A q \in Pages : ~(local'[q].label < local[q].label) /\ (Stored(q) => local'[q].body # 0)
    BY <2>2, <2>3 DEF RInv, Typed, Rows, RowsPaired, Pair
  <2> QED BY <2>4 DEF RowAdvances
<1>3. ASSUME NEW c \in Callers, CommitBatch(c) PROVE RowAdvances
  <2>1. call[c] \in Calls /\ Good(call[c]) /\ At(c, "batch", "fetch") /\ call'[c] = Idle
    BY <1>3 DEF RInv, Typed, CallsGood, CommitBatch, EndOp
  <2>2. \A p \in Pages : local'[p] = IF call[c].batch[p] # NoPage THEN call[c].batch[p] ELSE local[p]
    BY <1>3 DEF CommitBatch
  <2>3. \A p \in Pages : Stored(p) => local'[p].body # 0
    BY <2>1, <2>2 DEF Good, InHand, At, Pair, RInv, RowsPaired
  <2> QED BY <2>1, <2>3 DEF RowAdvances
<1>4. ASSUME NEW c \in Callers, NEW p \in Pages, MarkMissing(c, p) PROVE RowAdvances
  BY <1>4 DEF MarkMissing, RInv, Typed, Rows, RowsPaired, Stored, RowAdvances
<1>5. ASSUME NEW c \in Callers, DropLive(c) PROVE RowAdvances
  BY <1>5 DEF DropLive, NoPage, RowAdvances
<1>6. ASSUME NEW c \in Callers, SyncStep(c) PROVE RowAdvances
  BY <1>1, <1>2, <1>4, <1>6 DEF SyncStep, LockSync, RetryRead, EndSync, Break, ReadMeta, ReadBody, rowVars
<1>7. ASSUME NEW c \in Callers, BulkStep(c) PROVE RowAdvances
  BY <1>1, <1>2, <1>3, <1>5, <1>7 DEF BulkStep, BeginBulk, EndBulk, BeginBatch, NextPage, PageFails, FetchNext, rowVars
<1>8. ASSUME NEW c \in Callers, CommentStep(c) PROVE RowAdvances
  BY <1>1, <1>8 DEF CommentStep, SyncPull, BeginComments, LockComments, ListComments, StageComments, CommitThread, rowVars
<1>9. ASSUME NEW c \in Callers, NEW p \in Pages, NEW b \in BOOLEAN, BeginSync(c, p, b) PROVE RowAdvances
  BY <1>1, <1>9 DEF BeginSync, rowVars
<1>10. ASSUME NEW c \in Callers, Die(c) PROVE RowAdvances
  BY <1>1, <1>10 DEF Die, rowVars
<1>11. CASE Comment \/ \E p \in Pages : Edit(p)
  BY <1>1, <1>11 DEF Comment, Edit, rowVars
<1> QED BY <1>6, <1>7, <1>8, <1>9, <1>10, <1>11 DEF RecordNext

(* While no page is reverted at the provider, a row falls behind what it held only
   where a daemon's batch commits or where it is no longer fresh, and content is
   dropped only by a reset of the whole cache (RowsAdvance). *)
THEOREM RowsOnlyAdvance ==
  ASSUME ~Reverts
  PROVE  RecordSpec => RowsAdvance
<1>1. RecordInit => RInv
  BY RInvInit
<1>2. RInv /\ [RecordNext]_recordVars => RInv' /\ [RowAdvances]_recordVars
  BY RInvStep, StepAdvances
<1> QED BY <1>1, <1>2, PTL DEF RecordSpec, RowsAdvance

-----------------------------------------------------------------------------
(* Remote writes under an idempotency key: what a call may hold.           *)

Stations == {"idle", "prepare", "claim", "send", "sent", "readback", "confirmed", "staged", "publish",
             "finish", "recover", "reconcile", "repair", "repairing", "repaired"}
Call == [at : Stations, seen : Row \union {NoRow}, pre : Doc \union {NoDoc}, graph : Doc \union {NoDoc},
         gen : Nat, outcome : {"none", "unsent", "refused", "lost", "done"}, recovers : BOOLEAN,
         payload : Payloads \union {NoPayload}]

Maybe == Doc \union {NoDoc}
Status == {"in_progress", "failed", "conflict", "pending", "cachefail", "auditfail", "unsafe", "succeeded"}
Waiting == {"idle", "prepare", "claim"}
Believing == {"readback", "confirmed", "staged", "publish", "finish", "repair", "repairing", "repaired"}
Unsettled == {"send", "sent", "readback", "confirmed", "recover", "reconcile", "repair"}

\* The receipt, the object and the calls.
WriteTyped ==
    /\ command \in Commands
    /\ row \in Row \union {NoRow} /\ remote \in Doc /\ cached \in Maybe
    /\ writer \in [Writers -> Call]
    /\ {flying, sent, applied, gens, writes, edits, faults} \subseteq Nat
    /\ payloads \subseteq Payloads /\ told \in BOOLEAN /\ wanted \in BOOLEAN

\* The calls that claimed the key and have neither settled nor given up.
Claims == command \notin {"update-issue", "plain"}
Live(w) ==
    \/ writer[w].at \in {"send", "sent", "readback"}
    \/ writer[w].at = "confirmed" /\ ~writer[w].recovers
Free == row = NoRow \/ row.status \in {"failed", "conflict"}
Underway == row # NoRow /\ row.status = "in_progress"
Closed == row # NoRow /\ row.status \in {"pending", "cachefail", "auditfail", "succeeded"}

\* A free key has changed nothing and a fenced one is claimed once; the
\* payload of the key is the only one sent; and what the receipt or the
\* caller says of the object has been so.
KeySound ==
    /\ remote.o <= edits /\ edits <= MaxEdits
    /\ applied + flying <= sent
    /\ row # NoRow => row.gen \in 1..gens
    /\ ~wanted => /\ remote.f # "want" /\ ~told
                  /\ row # NoRow => row.status \notin {"pending", "cachefail", "succeeded"}
    /\ Guarded => applied + flying <= 1 /\ (Free => applied + flying = 0)
    /\ command \in Fenced => sent <= 1 /\ (row = NoRow => sent = 0)
    /\ Claims => /\ row = NoRow => payloads = {}
                 /\ row # NoRow => payloads \subseteq {row.payload}
    /\ SuccessIsPublished

\* What a call carries at each of its steps.
Carries(w) ==
    LET c == writer[w] IN
    /\ c.gen <= gens /\ (c.at # "idle" => c.payload \in Payloads)
    /\ c.at \in {"confirmed", "staged", "publish", "finish", "repairing", "repaired"} => c.graph \in Doc
    /\ c.at \in {"claim", "send", "sent", "readback"} /\ command \in Updates => c.pre \in Doc
    /\ c.at = "sent" => c.outcome \in {"unsent", "refused", "lost"}
    /\ c.at = "readback" => c.outcome = "done"
    /\ c.at \in Unsettled /\ command # "plain" => c.seen # NoRow /\ c.seen.status # "succeeded"
    /\ c.at \in {"prepare", "claim", "send", "sent", "readback"} => ~c.recovers
    /\ c.at = "repair" \/ (c.at = "confirmed" /\ c.recovers /\ command \in Creations)
          => c.seen.status \in {"pending", "cachefail"}
    /\ c.at = "confirmed" /\ command \in Comments => ~c.recovers
    /\ c.at = "staged" => /\ command \in Creations \union Fenced
                          /\ c.seen # NoRow /\ c.seen.status = "pending" /\ c.seen.graph = c.graph
    /\ c.at \in {"repair", "repairing", "repaired"} => c.seen # NoRow /\ command \notin Fenced \union {"merge-pr"}
    /\ c.at \in {"repairing", "repaired"} => command \notin Creations
    /\ c.at = "publish" => command \in PRUpdates \union Unfenced
    /\ c.at = "finish" => command \in PRUpdates
    /\ c.at \in {"finish", "repaired"} => cached # NoDoc

\* How it stands to the key: what it believes has been so; if it claimed the
\* key, the receipt is its own and, before it sends, nothing was sent for it.
Belongs(w) ==
    LET c == writer[w] IN
    /\ ~wanted => c.at \notin Believing /\ (c.pre # NoDoc => c.pre.f # "want")
    /\ Claims => /\ Live(w) => ~Free /\ (command \in Creations \union Comments => Underway)
                 /\ command \in Comments /\ c.at \in {"publish", "repair", "repairing", "repaired"} => Closed
                 /\ c.at \notin Waiting => row # NoRow /\ row.payload = c.payload
    /\ Guarded /\ (c.at = "send" \/ (c.at = "sent" /\ c.outcome \in {"unsent", "refused"})) => applied + flying = 0
    /\ command \in Fenced /\ c.at = "send" => sent = 0

\* One call at a time has the key.
OneLive == Claims => \A v, w \in Writers : Live(v) /\ Live(w) => v = w

WInv == /\ WriteTyped /\ KeySound /\ OneLive
        /\ \A w \in Writers : Carries(w) /\ Belongs(w)

\* The receipt that RecordAuditEvent leaves.
LEMMA RecordedIs ==
  ASSUME WriteTyped, NEW w \in Writers, writer[w].payload \in Payloads,
         NEW s \in Status, NEW p \in Maybe, NEW g \in Maybe
  PROVE  /\ Recorded(w, s, p, g) \in Row /\ Recorded(w, s, p, g) # NoRow
         /\ Recorded(w, s, p, g).status = s /\ Recorded(w, s, p, g).payload = writer[w].payload
         /\ Recorded(w, s, p, g).graph = g
         /\ Recorded(w, s, p, g).gen = IF row = NoRow THEN gens + 1 ELSE row.gen
<1>1. (IF row = NoRow THEN gens + 1 ELSE row.gen) \in Nat
  BY DEF WriteTyped, Row
<1>2. Recorded(w, s, p, g) \in Row
  BY <1>1 DEF Row, Status, Recorded, Maybe
<1> QED
  BY <1>2, NoneAssumption DEF Recorded

\* The receipt that a claim leaves.
LEMMA ClaimedIs ==
  ASSUME WriteTyped, NEW w \in Writers, writer[w].payload \in Payloads
  PROVE  /\ Claimed(w) \in Row /\ Claimed(w) # NoRow
         /\ Claimed(w).status = "in_progress" /\ Claimed(w).payload = writer[w].payload
         /\ Claimed(w).gen \in Nat
         /\ Claimed(w).gen = gens + 1 \/ (row # NoRow /\ Claimed(w).gen = row.gen)
<1> DEFINE n == IF row # NoRow /\ command \in Unfenced THEN row.gen ELSE gens + 1
<1>1. Claimed(w) = [NewRow(w, "in_progress") EXCEPT !.gen = n]
  BY DEF Claimed
<1>2. n \in Nat /\ writer[w].pre \in Maybe
  BY DEF WriteTyped, Row, Call, Maybe
<1>3. n = gens + 1 \/ (row # NoRow /\ n = row.gen)
  OBVIOUS
<1> HIDE DEF n
<1>4. Claimed(w) =
        [status |-> "in_progress", gen |-> n, payload |-> writer[w].payload,
         phase |-> "claimed", known |-> FALSE, pre |-> writer[w].pre, graph |-> NoDoc]
  BY <1>1 DEF NewRow
<1>5. Claimed(w) \in Row
  BY <1>4, <1>2 DEF Row, Maybe
<1>6. Claimed(w).status = "in_progress" /\ Claimed(w).payload = writer[w].payload /\ Claimed(w).gen = n
  BY <1>4
<1>7. Claimed(w) # NoRow
  BY <1>5, NoneAssumption
<1> QED
  BY <1>2, <1>3, <1>5, <1>6, <1>7

\* The call that rests.
LEMMA RestingIs == Resting \in Call /\ Resting.at = "idle" /\ Resting.pre = NoDoc /\ Resting.gen = 0 /\ Resting.graph = NoDoc
  BY DEF Resting, Call, Stations

-----------------------------------------------------------------------------
(* A step of one call, as the others see it. *)

\* Success that sticks, as a step (SuccessSticks).
Sticks == Succeeded /\ command \notin Unfenced \union {"update-pr"} => row'.status = "succeeded"

Moves(w) ==
    /\ command' = command
    /\ \A v \in Writers \ {w} : writer'[v] = writer[v]
    /\ wanted => wanted'
    /\ cached # NoDoc => cached' # NoDoc
    /\ gens <= gens'
    /\ Sticks
    /\ Claims => /\ Live(w)' => Live(w) \/ Free
                 /\ ~Live(w) /\ ~Free => ~Free' /\ (command \in Creations \union Comments /\ Underway => Underway')
                 /\ command \in Comments /\ Closed => Closed'
                 /\ row # NoRow => row' # NoRow /\ row'.payload = row.payload
                 /\ ~Live(w) => sent' = sent /\ applied' + flying' = applied + flying

\* Every guarded command claims its key,
LEMMA GuardedClaims == Guarded => Claims
  BY DEF Guarded, Claims

\* and so does every fenced one.
LEMMA FencedClaims == command \in Fenced => Claims
  BY DEF Fenced, Claims

\* A step that keeps its own call and the key sound keeps all calls so.
LEMMA MovesStep ==
  ASSUME WInv, NEW w \in Writers, Moves(w), WriteTyped', KeySound', Carries(w)', Belongs(w)'
  PROVE  WInv' /\ Sticks
<1>1. ASSUME NEW v \in Writers \ {w} PROVE Carries(v)'
  BY DEF WInv, Moves, WriteTyped, Call, Carries
<1>2. ASSUME NEW v \in Writers \ {w} PROVE Belongs(v)'
  <2>1. Belongs(v) /\ writer'[v] = writer[v] /\ command' = command /\ (wanted => wanted')
    BY DEF WInv, Moves
  <2>2. (Live(v) <=> Live(v)') /\ (Claims <=> Claims') /\ (Guarded <=> Guarded')
    BY <2>1 DEF Live, Claims, Guarded
  <2>3. Claims /\ Live(v) => ~Live(w) /\ ~Free
    BY <2>1 DEF WInv, OneLive, Belongs
  <2>4. Claims /\ Live(v) => ~Free' /\ (command \in Creations \union Comments => Underway')
    BY <2>1, <2>3 DEF Moves, Belongs
  <2>5. Claims /\ writer[v].at \notin Waiting => row' # NoRow /\ row'.payload = writer[v].payload
    BY <2>1 DEF Moves, Belongs
  <2>6. Claims /\ command \in Comments /\ writer[v].at \in {"publish", "repair", "repairing", "repaired"} => Closed'
    BY <2>1 DEF Moves, Belongs
  <2>7. writer[v].at \in {"send", "sent"} => Live(v)
    BY DEF Live
  <2>8. Guarded /\ (writer[v].at = "send" \/ (writer[v].at = "sent" /\ writer[v].outcome \in {"unsent", "refused"}))
          => applied' + flying' = 0
    BY <2>1, <2>3, <2>7, GuardedClaims DEF Moves, Belongs
  <2>9. command \in Fenced /\ writer[v].at = "send" => sent' = 0
    BY <2>1, <2>3, <2>7, FencedClaims DEF Moves, Belongs
  <2> QED
    BY <2>1, <2>2, <2>4, <2>5, <2>6, <2>8, <2>9 DEF Belongs
<1>3. OneLive'
  <2> SUFFICES ASSUME Claims', NEW u \in Writers, NEW v \in Writers, Live(u)', Live(v)' PROVE u = v
    BY DEF OneLive
  <2>1. Claims /\ (Live(w)' => Live(w) \/ Free)
    BY DEF Moves, Claims
  <2>2. \A x \in Writers \ {w} : Live(x)' => Live(x)
    BY DEF Moves, Live
  <2>3. \A x \in Writers : Live(x) => ~Free
    BY <2>1 DEF WInv, Belongs
  <2>4. \A x, y \in Writers : Live(x) /\ Live(y) => x = y
    BY <2>1 DEF WInv, OneLive
  <2> QED
    BY <2>1, <2>2, <2>3, <2>4
<1> QED
  BY <1>1, <1>2, <1>3 DEF WInv, Moves

\* At first the key is free and every call rests.
LEMMA WInvInit == WriteInit => WInv
<1> SUFFICES ASSUME WriteInit PROVE WInv
  OBVIOUS
<1>1. WriteTyped
  <2>1. remote \in Doc
    BY WriteAssumption DEF WriteInit, Doc
  <2>2. writer \in [Writers -> Call]
    BY RestingIs DEF WriteInit
  <2>3. row \in Row \union {NoRow} /\ cached \in Maybe
    BY DEF WriteInit, Maybe
  <2>4. {flying, sent, applied, gens, writes, edits, faults} \subseteq Nat
    BY DEF WriteInit
  <2>5. payloads \subseteq Payloads /\ told \in BOOLEAN /\ wanted \in BOOLEAN /\ command \in Commands
    BY DEF WriteInit
  <2> QED
    BY <2>1, <2>2, <2>3, <2>4, <2>5 DEF WriteTyped
<1>2. \A w \in Writers : writer[w] = Resting
  BY DEF WriteInit
<1>3. KeySound
  BY WriteAssumption DEF WriteInit, KeySound, SuccessIsPublished, Succeeded
<1>4. \A w \in Writers : Carries(w) /\ Belongs(w) /\ ~Live(w)
  BY <1>2, RestingIs DEF WriteInit, Carries, Belongs, Live, Waiting, Believing, Unsettled
<1> QED
  BY <1>1, <1>3, <1>4 DEF WInv, OneLive

-----------------------------------------------------------------------------
(* Steps that leave the receipt as it is. *)

Goes(w) ==
    /\ UNCHANGED <<command, row, remote, flying, sent, applied, payloads, wanted, gens, edits>>
    /\ writes' \in Nat /\ faults' \in Nat /\ told' \in BOOLEAN
    /\ writer' \in [Writers -> Call] /\ \A v \in Writers \ {w} : writer'[v] = writer[v]
    /\ cached' = cached \/ (cached' \in Doc /\ command \notin Creations \union Fenced)
    /\ told' => told \/ wanted

\* A call that moves on and leaves the receipt keeps everything, if it keeps itself sound.
LEMMA GoesStep ==
  ASSUME WInv, NEW w \in Writers, Goes(w), Live(w)' => Live(w), Carries(w)', Belongs(w)'
  PROVE  WInv' /\ Sticks
<1>1. WriteTyped'
  BY DEF WInv, WriteTyped, Goes, Maybe
<1>2. SuccessIsPublished'
  BY NoneAssumption DEF WInv, KeySound, SuccessIsPublished, Succeeded, Goes
<1>3. KeySound'
  BY <1>2 DEF WInv, KeySound, Goes, Free, Guarded, Claims
<1>4. Moves(w)
  <2>1. cached # NoDoc => cached' # NoDoc
    BY NoneAssumption DEF Goes
  <2>2. gens <= gens'
    BY DEF Goes, WInv, WriteTyped
  <2>3. Free' = Free /\ Underway' = Underway /\ Closed' = Closed
    BY DEF Goes, Free, Underway, Closed
  <2>4. Sticks
    BY DEF Sticks, Succeeded, Goes
  <2> QED
    BY <2>1, <2>2, <2>3, <2>4 DEF Moves, Goes
<1> QED
  BY <1>1, <1>3, <1>4, MovesStep

\* What the receipt says has been so.
LEMMA SucceededIsWanted == WInv /\ Succeeded => wanted
  BY DEF WInv, KeySound, Succeeded

\* A call at rest carries nothing and belongs to nothing.
LEMMA RestIsSound ==
  ASSUME WInv, NEW w \in Writers, writer'[w] = Resting, WriteTyped'
  PROVE  Carries(w)' /\ Belongs(w)' /\ ~Live(w)'
<1>1. writer'[w].at = "idle" /\ writer'[w].gen <= gens' /\ writer'[w].pre = NoDoc
  BY RestingIs DEF WriteTyped
<1>2. Carries(w)'
  BY <1>1 DEF Carries, Unsettled
<1>3. Belongs(w)' /\ ~Live(w)'
  BY <1>1 DEF Belongs, Live, Waiting, Believing
<1> QED
  BY <1>2, <1>3

\* A call that returns and leaves the receipt.
Rests(w) == Goes(w) /\ writer'[w] = Resting

\* A call that returns and leaves the receipt keeps everything.
LEMMA RestsStep == ASSUME WInv, NEW w \in Writers, Rests(w) PROVE WInv' /\ Sticks
<1>1. WriteTyped'
  BY DEF WInv, WriteTyped, Goes, Maybe, Rests
<1>2. Goes(w) /\ Carries(w)' /\ Belongs(w)' /\ ~Live(w)'
  BY <1>1, RestIsSound DEF Rests
<1> QED
  BY <1>2, GoesStep

\* A call that is answered from the receipt.
LEMMA ReplayAnswerStep == ASSUME WInv, NEW w \in Writers, ReplayAnswer(w) PROVE WInv' /\ Sticks
<1>1. Goes(w) /\ writer' = writer
  BY SucceededIsWanted DEF ReplayAnswer, Goes, writeState, WInv, WriteTyped
<1>2. Carries(w)' /\ Belongs(w)' /\ (Live(w)' => Live(w))
  BY <1>1, NoneAssumption DEF WInv, Carries, Belongs, Live, Goes, Claims, Guarded, Free, Underway, Closed,
     ReplayAnswer, writeState
<1> QED
  BY <1>1, <1>2, GoesStep

\* A call that dies.
LEMMA WriterCrashStep == ASSUME WInv, NEW w \in Writers, WriterCrash(w) PROVE WInv' /\ Sticks
<1>1. Rests(w)
  BY RestingIs DEF WriterCrash, Return, Rests, Goes, writeGhosts, writeCounts, WInv, WriteTyped
<1> QED
  BY <1>1, RestsStep

\* The call that starts to work on what it looked up.
Begun(r, s, p, n) == [Resting EXCEPT !.at = r, !.seen = s, !.payload = p, !.gen = n]

\* What it carries.
LEMMA LookedUpIs ==
  ASSUME NEW r \in Stations, NEW s \in Row \union {NoRow}, NEW p \in Payloads, NEW n \in Nat
  PROVE  /\ Begun(r, s, p, n) \in Call
         /\ Begun(r, s, p, n).at = r /\ Begun(r, s, p, n).seen = s /\ Begun(r, s, p, n).payload = p
         /\ Begun(r, s, p, n).gen = n /\ Begun(r, s, p, n).pre = NoDoc /\ ~Begun(r, s, p, n).recovers
<1>1. Resting \in Call /\ Resting.pre = NoDoc /\ ~Resting.recovers
  BY RestingIs DEF Resting
<1> QED
  BY <1>1 DEF Call, Begun

\* A call that starts.
LEMMA LookupStep == ASSUME WInv, NEW w \in Writers, NEW p \in Payloads, Lookup(w, p) PROVE WInv' /\ Sticks
<1> DEFINE n == IF row = NoRow THEN 0 ELSE row.gen
           x == Begun(Route(p), row, p, n)
<1>1. Route(p) \in {"prepare", "reconcile", "repair", "recover"} /\ n \in Nat /\ n <= gens
  BY DEF Lookup, Route, WInv, WriteTyped, KeySound, Row
<1>4. writer' = [writer EXCEPT ![w] = x]
  BY DEF Lookup, Begun
<1> HIDE DEF n
<1>2. Route(p) \in Stations /\ row \in Row \union {NoRow}
  BY <1>1 DEF Stations, WInv, WriteTyped
<1>3. x \in Call /\ x.at = Route(p) /\ x.seen = row /\ x.payload = p /\ x.gen = n /\ x.pre = NoDoc /\ ~x.recovers
  BY <1>1, <1>2, LookedUpIs
<1> HIDE DEF x
<1>5. Goes(w) /\ writer'[w] = x
  BY <1>3, <1>4 DEF Lookup, Goes, writeGhosts, WInv, WriteTyped
<1>6. Route(p) # "prepare" => row # NoRow /\ row.payload = p /\ row.status # "succeeded"
  BY DEF Route, Lookup, Succeeded
<1>7. Route(p) = "repair" => command \notin Fenced \union {"merge-pr"} /\ row.status \in {"pending", "cachefail"}
  BY DEF Route, Lookup
<1>8. Carries(w)'
  BY <1>1, <1>3, <1>5, <1>6, <1>7 DEF Carries, Goes, Unsettled
<1>9. ~Live(w)'
  BY <1>1, <1>3, <1>5 DEF Live
<1>10. Route(p) = "repair" /\ command \in Comments => Closed'
  BY <1>5, <1>6, <1>7 DEF Closed, Goes
<1>11. Belongs(w)'
  BY <1>1, <1>3, <1>5, <1>6, <1>7, <1>9, <1>10 DEF Belongs, Goes, Waiting, Believing, Claims, WInv, KeySound
<1> QED
  BY <1>5, <1>8, <1>9, <1>11, GoesStep

\* The canonical preimage is read.
LEMMA ReadPreimageStep == ASSUME WInv, NEW w \in Writers, ReadPreimage(w) PROVE WInv' /\ Sticks
<1> DEFINE c == [writer[w] EXCEPT !.at = "claim", !.pre = remote]
<1>1. writer' = [writer EXCEPT ![w] = c]
  BY  DEF ReadPreimage, Goto
<1>2. /\ c \in Call
      /\ c.at = "claim" /\ c.seen = writer[w].seen /\ c.pre = remote /\ c.graph = writer[w].graph
      /\ c.gen = writer[w].gen /\ c.outcome = writer[w].outcome /\ c.recovers = writer[w].recovers /\ c.payload = writer[w].payload
  BY ZenonT(60) DEF ReadPreimage, WInv, WriteTyped, Call, Stations, Maybe
<1> HIDE DEF c
<1>3. Carries(w) /\ Belongs(w) /\ (~wanted => remote.f # "want")
  BY DEF WInv, KeySound
<1>4. Goes(w) /\ writer'[w] = c
  BY <1>1, <1>2, <1>3 DEF ReadPreimage, Goes, Carries, Stands, writeGhosts, writeCounts, WInv, WriteTyped, Creations, PRUpdates, Fenced, Unfenced, Comments
<1>5. Carries(w)'
  BY <1>2, <1>3, <1>4, NoneAssumption DEF ReadPreimage, Stands, Goes, Carries, Unsettled, WInv, WriteTyped,
     Creations, Comments, Fenced, Updates, PRUpdates, Unfenced
<1>6. Belongs(w)'
  BY <1>2, <1>3, <1>4 DEF ReadPreimage, Stands, Goes, Belongs, Waiting, Believing, Claims, Live, Free, Underway, Closed, Guarded,
     Creations, Comments, Fenced, Updates, PRUpdates
<1>7. Live(w)' => Live(w)
  BY <1>2, <1>4 DEF ReadPreimage, Stands, Live
<1> QED
  BY <1>4, <1>5, <1>6, <1>7, GoesStep

\* The request of create-issue is repeated.
LEMMA SendAgainStep == ASSUME WInv, NEW w \in Writers, SendAgain(w) PROVE WInv' /\ Sticks
<1> DEFINE c == [writer[w] EXCEPT !.at = "send"]
<1>1. writer' = [writer EXCEPT ![w] = c]
  BY  DEF SendAgain, Goto
<1>2. /\ c \in Call
      /\ c.at = "send" /\ c.seen = writer[w].seen /\ c.pre = writer[w].pre /\ c.graph = writer[w].graph
      /\ c.gen = writer[w].gen /\ c.outcome = writer[w].outcome /\ c.recovers = writer[w].recovers /\ c.payload = writer[w].payload
  BY  DEF SendAgain, WInv, WriteTyped, Call, Stations, Maybe
<1> HIDE DEF c
<1>3. Carries(w) /\ Belongs(w) /\ (~wanted => remote.f # "want")
  BY DEF WInv, KeySound
<1>4. Goes(w) /\ writer'[w] = c
  BY <1>1, <1>2, <1>3 DEF SendAgain, Goes, Carries, Stands, writeGhosts, writeCounts, WInv, WriteTyped, Creations, PRUpdates, Fenced, Unfenced, Comments
<1>5. Carries(w)'
  BY <1>2, <1>3, <1>4, NoneAssumption DEF SendAgain, Stands, Goes, Carries, Unsettled, WInv, WriteTyped,
     Creations, Comments, Fenced, Updates, PRUpdates, Unfenced
<1>6. Belongs(w)'
  BY <1>2, <1>3, <1>4 DEF SendAgain, Stands, Goes, Belongs, Waiting, Believing, Claims, Live, Free, Underway, Closed, Guarded,
     Creations, Comments, Fenced, Updates, PRUpdates
<1>7. Live(w)' => Live(w)
  BY <1>2, <1>4 DEF SendAgain, Stands, Live
<1> QED
  BY <1>4, <1>5, <1>6, <1>7, GoesStep

\* The merge was made already.
LEMMA SkipMergeStep == ASSUME WInv, NEW w \in Writers, SkipMerge(w) PROVE WInv' /\ Sticks
<1>b. writer[w].pre \in Doc /\ writer[w].pre # NoDoc
  BY NoneAssumption DEF SkipMerge, AlreadyMerged, Stands, WInv, Carries, Updates, PRUpdates
<1> DEFINE c == [writer[w] EXCEPT !.at = "confirmed", !.graph = writer[w].pre]
<1>1. writer' = [writer EXCEPT ![w] = c]
  BY  DEF SkipMerge, AlreadyMerged, Goto
<1>2. /\ c \in Call
      /\ c.at = "confirmed" /\ c.seen = writer[w].seen /\ c.pre = writer[w].pre /\ c.graph = writer[w].pre
      /\ c.gen = writer[w].gen /\ c.outcome = writer[w].outcome /\ c.recovers = writer[w].recovers /\ c.payload = writer[w].payload
  BY  DEF SkipMerge, AlreadyMerged, WInv, WriteTyped, Call, Stations, Maybe
<1> HIDE DEF c
<1>3. Carries(w) /\ Belongs(w) /\ (~wanted => remote.f # "want")
  BY DEF WInv, KeySound
<1>4. Goes(w) /\ writer'[w] = c
  BY <1>1, <1>2, <1>3 DEF SkipMerge, AlreadyMerged, Goes, Carries, Stands, writeGhosts, writeCounts, WInv, WriteTyped, Creations, PRUpdates, Fenced, Unfenced, Comments
<1>5. Carries(w)'
  BY <1>2, <1>3, <1>4, <1>b, NoneAssumption DEF SkipMerge, AlreadyMerged, Stands, Goes, Carries, Unsettled, WInv, WriteTyped,
     Creations, Comments, Fenced, Updates, PRUpdates, Unfenced
<1>6. Belongs(w)'
  BY <1>2, <1>3, <1>4, <1>b DEF SkipMerge, AlreadyMerged, Stands, Goes, Belongs, Waiting, Believing, Claims, Live, Free, Underway, Closed, Guarded,
     Creations, Comments, Fenced, Updates, PRUpdates
<1>7. Live(w)' => Live(w)
  BY <1>2, <1>4, <1>b DEF SkipMerge, AlreadyMerged, Stands, Live
<1> QED
  BY <1>4, <1>5, <1>6, <1>7, GoesStep

\* The readback shows what was asked for.
LEMMA ReadBackStep == ASSUME WInv, NEW w \in Writers, ReadBack(w) PROVE WInv' /\ Sticks
<1> DEFINE c == [writer[w] EXCEPT !.at = "confirmed", !.graph = remote]
<1>1. writer' = [writer EXCEPT ![w] = c]
  BY  DEF ReadBack, Matches, Goto
<1>2. /\ c \in Call
      /\ c.at = "confirmed" /\ c.seen = writer[w].seen /\ c.pre = writer[w].pre /\ c.graph = remote
      /\ c.gen = writer[w].gen /\ c.outcome = writer[w].outcome /\ c.recovers = writer[w].recovers /\ c.payload = writer[w].payload
  BY ZenonT(60) DEF ReadBack, Matches, WInv, WriteTyped, Call, Stations, Maybe
<1> HIDE DEF c
<1>3. Carries(w) /\ Belongs(w) /\ (~wanted => remote.f # "want")
  BY DEF WInv, KeySound
<1>4. Goes(w) /\ writer'[w] = c
  BY <1>1, <1>2 DEF ReadBack, writeGhosts, writeCounts, WInv, WriteTyped, Goes
<1>5. Carries(w)'
  BY <1>2, <1>3, <1>4, NoneAssumption DEF ReadBack, Matches, Stands, Goes, Carries, Unsettled, WInv, WriteTyped,
     Creations, Comments, Fenced, Updates, PRUpdates, Unfenced
<1>6. Belongs(w)'
  BY <1>2, <1>3, <1>4 DEF ReadBack, Matches, Stands, Goes, Belongs, Waiting, Believing, Claims, Live, Free, Underway, Closed, Guarded,
     Creations, Comments, Fenced, Updates, PRUpdates
<1>7. Live(w)' => Live(w)
  BY <1>2, <1>4 DEF ReadBack, Matches, Stands, Live
<1> QED
  BY <1>4, <1>5, <1>6, <1>7, GoesStep

\* The graph of a settled write is read again.
LEMMA RepairStep == ASSUME WInv, NEW w \in Writers, Repair(w) PROVE WInv' /\ Sticks
<1>a. PICK a \in {"confirmed", "repairing"} :
          a = (IF command \in Creations THEN "confirmed" ELSE "repairing")
  OBVIOUS
<1>b. a = "confirmed" <=> command \in Creations
  BY <1>a
<1> DEFINE c == [writer[w] EXCEPT !.at = a, !.graph = remote, !.recovers = TRUE]
<1>1. writer' = [writer EXCEPT ![w] = c]
  BY <1>a DEF Repair, Goto
<1>2. /\ c \in Call
      /\ c.at = a /\ c.seen = writer[w].seen /\ c.pre = writer[w].pre /\ c.graph = remote
      /\ c.gen = writer[w].gen /\ c.outcome = writer[w].outcome /\ c.recovers = TRUE /\ c.payload = writer[w].payload
  BY ZenonT(60), <1>a DEF Repair, WInv, WriteTyped, Call, Stations, Maybe
<1> HIDE DEF c
<1>3. Carries(w) /\ Belongs(w) /\ (~wanted => remote.f # "want")
  BY DEF WInv, KeySound
<1>4. Goes(w) /\ writer'[w] = c
  <2>1. UNCHANGED <<command, row, remote, flying, cached, writeGhosts, writeCounts>>
    BY DEF Repair
  <2> QED
    BY <1>1, <1>2, <2>1 DEF Goes, writeGhosts, writeCounts, WInv, WriteTyped
<1>5. Carries(w)'
  BY <1>2, <1>3, <1>4, <1>b, NoneAssumption DEF Repair, Stands, Goes, Carries, Unsettled, WInv, WriteTyped,
     Creations, Comments, Fenced, Updates, PRUpdates, Unfenced
<1>6. Belongs(w)'
  BY <1>2, <1>3, <1>4, <1>b DEF Repair, Stands, Goes, Belongs, Waiting, Believing, Claims, Live, Free, Underway, Closed, Guarded,
     Creations, Comments, Fenced, Updates, PRUpdates
<1>7. Live(w)' => Live(w)
  BY <1>2, <1>4, <1>b DEF Repair, Stands, Live
<1> QED
  BY <1>4, <1>5, <1>6, <1>7, GoesStep

\* The cache is repaired.
LEMMA RepairCacheStep == ASSUME WInv, NEW w \in Writers, RepairCache(w) PROVE WInv' /\ Sticks
<1> DEFINE c == [writer[w] EXCEPT !.at = "repaired"]
<1>1. writer' = [writer EXCEPT ![w] = c]
  BY  DEF RepairCache, Goto
<1>2. /\ c \in Call
      /\ c.at = "repaired" /\ c.seen = writer[w].seen /\ c.pre = writer[w].pre /\ c.graph = writer[w].graph
      /\ c.gen = writer[w].gen /\ c.outcome = writer[w].outcome /\ c.recovers = writer[w].recovers /\ c.payload = writer[w].payload
  BY  DEF RepairCache, WInv, WriteTyped, Call, Stations, Maybe
<1> HIDE DEF c
<1>3. Carries(w) /\ Belongs(w) /\ (~wanted => remote.f # "want")
  BY DEF WInv, KeySound
<1>4. Goes(w) /\ writer'[w] = c
  BY <1>1, <1>2, <1>3 DEF RepairCache, Goes, Carries, Stands, writeGhosts, writeCounts, WInv, WriteTyped, Creations, PRUpdates, Fenced, Unfenced, Comments
<1>5. Carries(w)'
  BY <1>2, <1>3, <1>4, NoneAssumption DEF RepairCache, Stands, Goes, Carries, Unsettled, WInv, WriteTyped,
     Creations, Comments, Fenced, Updates, PRUpdates, Unfenced
<1>6. Belongs(w)'
  BY <1>2, <1>3, <1>4 DEF RepairCache, Stands, Goes, Belongs, Waiting, Believing, Claims, Live, Free, Underway, Closed, Guarded,
     Creations, Comments, Fenced, Updates, PRUpdates
<1>7. Live(w)' => Live(w)
  BY <1>2, <1>4 DEF RepairCache, Stands, Live
<1> QED
  BY <1>4, <1>5, <1>6, <1>7, GoesStep

\* The staged graph enters the cache.
LEMMA PublishGenerationStep == ASSUME WInv, NEW w \in Writers, PublishGeneration(w) PROVE WInv' /\ Sticks
<1> DEFINE c == [writer[w] EXCEPT !.at = "finish"]
<1>1. writer' = [writer EXCEPT ![w] = c]
  BY  DEF PublishGeneration, Goto
<1>2. /\ c \in Call
      /\ c.at = "finish" /\ c.seen = writer[w].seen /\ c.pre = writer[w].pre /\ c.graph = writer[w].graph
      /\ c.gen = writer[w].gen /\ c.outcome = writer[w].outcome /\ c.recovers = writer[w].recovers /\ c.payload = writer[w].payload
  BY  DEF PublishGeneration, WInv, WriteTyped, Call, Stations, Maybe
<1> HIDE DEF c
<1>3. Carries(w) /\ Belongs(w) /\ (~wanted => remote.f # "want")
  BY DEF WInv, KeySound
<1>4. Goes(w) /\ writer'[w] = c
  BY <1>1, <1>2, <1>3 DEF PublishGeneration, Goes, Carries, Stands, writeGhosts, writeCounts, WInv, WriteTyped, Creations, PRUpdates, Fenced, Unfenced, Comments
<1>5. Carries(w)'
  BY <1>2, <1>3, <1>4, NoneAssumption DEF PublishGeneration, Stands, Goes, Carries, Unsettled, WInv, WriteTyped,
     Creations, Comments, Fenced, Updates, PRUpdates, Unfenced
<1>6. Belongs(w)'
  BY <1>2, <1>3, <1>4 DEF PublishGeneration, Stands, Goes, Belongs, Waiting, Believing, Claims, Live, Free, Underway, Closed, Guarded,
     Creations, Comments, Fenced, Updates, PRUpdates
<1>7. Live(w)' => Live(w)
  BY <1>2, <1>4 DEF PublishGeneration, Stands, Live
<1> QED
  BY <1>4, <1>5, <1>6, <1>7, GoesStep

\* A call that finds the object as it was asked for is confirmed.
Confirms(w) ==
    /\ writer[w].at \in {"recover", "reconcile"} /\ remote.f = "want" /\ command \notin Creations \union Comments
    /\ UNCHANGED <<command, row, remote, flying, cached, writeGhosts, writeCounts>>
    /\ \E p \in Maybe :
          writer' = [writer EXCEPT ![w] = [writer[w] EXCEPT !.at = "confirmed", !.graph = remote,
                                                            !.pre = p, !.recovers = TRUE]]

\* It keeps everything.
LEMMA ConfirmsStep == ASSUME WInv, NEW w \in Writers, Confirms(w) PROVE WInv' /\ Sticks
<1>1. PICK p \in Maybe :
        writer' = [writer EXCEPT ![w] = [writer[w] EXCEPT !.at = "confirmed", !.graph = remote,
                                                          !.pre = p, !.recovers = TRUE]]
  BY DEF Confirms
<1> DEFINE c == [writer[w] EXCEPT !.at = "confirmed", !.graph = remote, !.pre = p, !.recovers = TRUE]
<1>2. /\ c \in Call
      /\ c.at = "confirmed" /\ c.seen = writer[w].seen /\ c.pre = p /\ c.graph = remote
      /\ c.gen = writer[w].gen /\ c.recovers = TRUE /\ c.payload = writer[w].payload
  BY ZenonT(60) DEF WInv, WriteTyped, Call, Stations, Maybe
<1> HIDE DEF c
<1>3. Carries(w) /\ Belongs(w) /\ wanted
  BY DEF WInv, KeySound, Confirms
<1>4. Goes(w) /\ writer'[w] = c
  BY <1>1, <1>2 DEF c, Confirms, Goes, writeGhosts, writeCounts, WInv, WriteTyped
<1>5. Carries(w)'
  BY <1>2, <1>3, <1>4 DEF Confirms, Goes, Carries, Unsettled, WInv, WriteTyped
<1>6. ~Live(w)'
  BY <1>2, <1>4 DEF Live
<1>7. Belongs(w)'
  BY <1>2, <1>3, <1>4, <1>6 DEF Confirms, Goes, Belongs, Waiting, Claims
<1> QED
  BY <1>4, <1>5, <1>6, <1>7, GoesStep

\* A call that returns, at most telling that somebody else has settled the key.
Leaves(w) ==
    /\ Return(w)
    /\ UNCHANGED <<command, row, remote, flying, cached, sent, applied, payloads, wanted, gens, edits>>
    /\ writes' \in Nat /\ faults' \in Nat
    /\ told' = told \/ told' = (told \/ Confirmed(writer[w].gen))

\* It keeps everything.
LEMMA LeavesStep == ASSUME WInv, NEW w \in Writers, Leaves(w) PROVE WInv' /\ Sticks
<1>1. Confirmed(writer[w].gen) => wanted
  BY SucceededIsWanted DEF Confirmed, Owned, Succeeded
<1>2. told' \in BOOLEAN /\ (told' => told \/ wanted)
  BY <1>1 DEF Leaves, WInv, WriteTyped, Confirmed, Owned
<1>3. writer' \in [Writers -> Call] /\ \A v \in Writers \ {w} : writer'[v] = writer[v]
  BY RestingIs DEF Leaves, Return, WInv, WriteTyped
<1>4. writer'[w] = Resting
  BY DEF Leaves, Return, WInv, WriteTyped
<1>5. Rests(w)
  BY <1>2, <1>3, <1>4 DEF Leaves, Rests, Goes
<1> QED
  BY <1>5, RestsStep

\* Recovery by reading, of an update or a merge.
LEMMA RecoverStep ==
  ASSUME WInv, NEW w \in Writers, RecoverMerge(w) \/ RecoverPRUpdate(w) \/ RecoverIssueUpdate(w)
  PROVE  WInv' /\ Sticks
<1>1. RecoverWith(w, Recovers(writer[w].seen))
  BY DEF RecoverMerge, RecoverPRUpdate, RecoverIssueUpdate
<1>2. CASE Recovers(writer[w].seen)
  <2>1. writer[w].seen.pre \in Maybe
    <3>1. command # "plain" /\ writer[w].seen \in Row \union {NoRow}
      BY DEF RecoverMerge, RecoverPRUpdate, RecoverIssueUpdate, WInv, WriteTyped, Call
    <3> QED
      BY <1>1, <3>1 DEF WInv, Carries, RecoverWith, Stands, Unsettled, Row, Maybe
  <2>2. writer' = [writer EXCEPT ![w] = [writer[w] EXCEPT !.at = "confirmed", !.graph = remote,
                                            !.pre = writer[w].seen.pre, !.recovers = TRUE]]
    BY <1>1, <1>2 DEF RecoverWith
  <2>3. writer[w].at = "recover" /\ remote.f = "want"
        /\ UNCHANGED <<command, row, remote, flying, cached, writeGhosts, writeCounts>>
    BY <1>1, <1>2 DEF RecoverWith, Recovers, Stands
  <2>4. Confirms(w)
    BY <2>1, <2>2, <2>3 DEF Confirms, RecoverMerge, RecoverPRUpdate, RecoverIssueUpdate, Creations, Comments
  <2> QED
    BY <2>4, ConfirmsStep
<1>3. CASE ~Recovers(writer[w].seen)
  BY <1>1, <1>3, LeavesStep DEF RecoverWith, Leaves, writeGhosts, writeCounts, WInv, WriteTyped
<1> QED
  BY <1>2, <1>3

\* Recovery by reading, of a fenced command.
LEMMA ReconcileStep ==
  ASSUME WInv, NEW w \in Writers, ReconcileWiki(w) \/ ReconcileLabel(w) \/ ReconcileMilestone(w)
  PROVE  WInv' /\ Sticks
<1>1. CASE ReconcileWith(w, TRUE) /\ remote.f = "want"
  <2>1. writer' = [writer EXCEPT ![w] = [writer[w] EXCEPT !.at = "confirmed", !.graph = remote,
                                                          !.recovers = TRUE]]
    BY <1>1 DEF ReconcileWith
  <2>2. writer[w].pre \in Maybe /\ writer[w] \in Call
    BY DEF WInv, WriteTyped, Call, Maybe
  <2>3. [writer[w] EXCEPT !.at = "confirmed", !.graph = remote, !.recovers = TRUE]
        = [writer[w] EXCEPT !.at = "confirmed", !.graph = remote, !.pre = writer[w].pre, !.recovers = TRUE]
    BY <2>2 DEF Call
  <2>4. writer[w].at = "reconcile" /\ remote.f = "want"
        /\ UNCHANGED <<command, row, remote, flying, cached, writeGhosts, writeCounts>>
    BY <1>1 DEF ReconcileWith, Stands
  <2>5. Confirms(w)
    BY <2>1, <2>2, <2>3, <2>4 DEF Confirms, ReconcileWiki, ReconcileLabel, ReconcileMilestone, Creations, Comments
  <2> QED
    BY <2>5, ConfirmsStep
<1>2. CASE ReconcileWith(w, FALSE)
  BY <1>2, LeavesStep DEF ReconcileWith, Leaves, writeGhosts, writeCounts, WInv, WriteTyped
<1>3. (ReconcileWith(w, TRUE) /\ remote.f = "want") \/ ReconcileWith(w, FALSE)
  BY DEF ReconcileWiki, ReconcileLabel, ReconcileMilestone, ReconcileWith
<1> QED
  BY <1>1, <1>2, <1>3

\* A graph enters the cache after its success is recorded.
LEMMA PublishStep == ASSUME WInv, NEW w \in Writers, Publish(w) PROVE WInv' /\ Sticks
<1>1. wanted /\ writer[w].graph \in Doc
  BY DEF WInv, Publish, Stands, Carries, Belongs, Believing
<1>2. writer' \in [Writers -> Call] /\ writer'[w] = Resting /\ \A v \in Writers \ {w} : writer'[v] = writer[v]
  BY RestingIs DEF Publish, Return, WInv, WriteTyped
<1>3. command \notin Creations \union Fenced
  BY DEF Publish, Unfenced, Comments, Creations, Fenced
<1>4. Rests(w)
  BY <1>1, <1>2, <1>3 DEF Publish, Rests, Goes, writeCounts, WInv, WriteTyped
<1> QED
  BY <1>4, RestsStep

-----------------------------------------------------------------------------
(* Steps that write the receipt anew and return. *)

Writes(w, s, p, g) ==
    /\ Record(w, s, p, g)
    /\ UNCHANGED <<command, remote, flying, cached, sent, applied, payloads, wanted, writes, edits>>
    /\ faults' \in Nat /\ told' \in BOOLEAN /\ (told' => told \/ wanted)
    /\ writer[w].payload \in Payloads /\ command \notin Fenced
    /\ s \in {"pending", "cachefail", "succeeded"} => wanted
    /\ Guarded /\ s \in {"failed", "conflict"} => applied + flying = 0
    /\ s = "succeeded" /\ command \notin Unfenced => cached # NoDoc /\ command \notin Creations
    /\ Sticks
    /\ Claims => /\ row # NoRow /\ row.payload = writer[w].payload
                 /\ Live(w) \/ command \notin Creations
                 /\ ~Live(w) => s \notin {"failed", "conflict"}
                 /\ command \in Comments /\ ~Live(w) =>
                       ~Underway /\ s \in {"pending", "cachefail", "auditfail", "succeeded"}

Logs(w, s, p, g) == Writes(w, s, p, g) /\ Return(w)

\* A receipt written anew keeps everything, if the call keeps itself sound.
LEMMA WritesStep ==
  ASSUME WInv, NEW w \in Writers, NEW s \in Status, NEW p \in Maybe, NEW g \in Maybe, Writes(w, s, p, g),
         writer' \in [Writers -> Call], \A v \in Writers \ {w} : writer'[v] = writer[v],
         ~Live(w)', Carries(w)', Belongs(w)'
  PROVE  WInv' /\ Sticks
<1>1. row' = Recorded(w, s, p, g) /\ gens' = IF row = NoRow THEN gens + 1 ELSE gens
  BY DEF Writes, Record
<1>2. /\ row' \in Row /\ row' # NoRow /\ row'.status = s /\ row'.payload = writer[w].payload
      /\ row'.graph = g /\ row'.gen = IF row = NoRow THEN gens + 1 ELSE row.gen
  BY <1>1, RecordedIs DEF Writes, WInv
<1>3. gens \in Nat /\ gens' \in Nat /\ gens <= gens' /\ row'.gen \in 1..gens'
  BY <1>1, <1>2 DEF WInv, WriteTyped, KeySound
<1>4. WriteTyped'
  BY <1>2, <1>3 DEF Writes, WInv, WriteTyped
<1>5. SuccessIsPublished'
  BY <1>2 DEF Writes, SuccessIsPublished, Succeeded
<1>6. (Guarded <=> Guarded') /\ (Claims <=> Claims')
  BY DEF Writes, Guarded, Claims
<1>7. Free' <=> s \in {"failed", "conflict"}
  BY <1>2 DEF Free
<1>8. KeySound'
  <2>1. Claims' => payloads' \subseteq {row'.payload}
    BY <1>2, <1>6 DEF Writes, WInv, KeySound
  <2>2. Guarded' => applied' + flying' <= 1 /\ (Free' => applied' + flying' = 0)
    BY <1>6, <1>7 DEF Writes, WInv, KeySound
  <2>3. ~wanted' => /\ remote'.f # "want" /\ ~told'
                    /\ row' # NoRow => row'.status \notin {"pending", "cachefail", "succeeded"}
    BY <1>2 DEF Writes, WInv, KeySound
  <2>4. remote'.o <= edits' /\ edits' <= MaxEdits /\ applied' + flying' <= sent' /\ command' \notin Fenced
    BY DEF Writes, WInv, KeySound
  <2> QED
    BY <1>2, <1>3, <1>5, <2>1, <2>2, <2>3, <2>4 DEF KeySound
<1>9. Moves(w)
  <2>1. Sticks /\ gens <= gens' /\ cached' = cached /\ command' = command /\ wanted' = wanted /\ ~Live(w)'
    BY <1>3 DEF Writes
  <2>2. ASSUME Claims
        PROVE /\ ~Live(w) /\ ~Free => ~Free' /\ (command \in Creations \union Comments /\ Underway => Underway')
              /\ command \in Comments /\ Closed => Closed'
              /\ row # NoRow => row' # NoRow /\ row'.payload = row.payload
              /\ ~Live(w) => sent' = sent /\ applied' + flying' = applied + flying
    <3>1. row' # NoRow /\ row'.payload = row.payload /\ sent' = sent /\ applied' = applied /\ flying' = flying
      BY <1>2, <2>2 DEF Writes
    <3>2. ~Live(w) => ~Free' /\ (command \in Creations \union Comments => ~Underway)
      BY <1>7, <2>2 DEF Writes
    <3>3. command \in Comments /\ Closed => Closed'
      BY <2>2, <1>2 DEF WInv, Belongs, Underway, Closed, Writes
    <3> QED
      BY <3>1, <3>2, <3>3
  <2> QED
    BY <2>1, <2>2 DEF Moves
<1> QED
  BY <1>4, <1>8, <1>9, MovesStep

\* So does one written by a call that returns.
LEMMA LogsStep ==
  ASSUME WInv, NEW w \in Writers, NEW s \in Status, NEW p \in Maybe, NEW g \in Maybe, Logs(w, s, p, g)
  PROVE  WInv' /\ Sticks
<1>1. writer' \in [Writers -> Call] /\ writer'[w] = Resting /\ \A v \in Writers \ {w} : writer'[v] = writer[v]
  BY RestingIs DEF Logs, Return, WInv, WriteTyped
<1>2. /\ row' \in Row /\ gens' \in Nat
  BY RecordedIs DEF Logs, Writes, Record, WInv, WriteTyped
<1>3. WriteTyped'
  BY <1>1, <1>2 DEF Logs, Writes, WInv, WriteTyped
<1>4. Carries(w)' /\ Belongs(w)' /\ ~Live(w)'
  BY <1>1, <1>3, RestIsSound
<1> QED
  BY <1>1, <1>4, WritesStep DEF Logs

\* The cache cannot be repaired.
LEMMA RepairFailsStep == ASSUME WInv, NEW w \in Writers, RepairFails(w) PROVE WInv' /\ Sticks
<1>1. /\ writer[w].payload \in Payloads /\ command \notin Fenced \union {"merge-pr"} \union Creations
      /\ wanted /\ writer[w].seen # NoRow /\ writer[w].seen \in Row \union {NoRow}
      /\ Claims => row # NoRow /\ row.payload = writer[w].payload
      /\ Claims /\ command \in Comments => Closed
  BY DEF RepairFails, Stands, WInv, Carries, Belongs, Believing, Waiting, WriteTyped, Call
<1>2. writer[w].seen.pre \in Maybe /\ NoDoc \in Maybe /\ "cachefail" \in Status
  BY <1>1 DEF Row, Maybe, Status
<1>3. Sticks
  BY <1>1, WriteAssumption DEF WInv, WriteTyped, Sticks, Unfenced, Updates, PRUpdates
<1>4. Logs(w, "cachefail", writer[w].seen.pre, NoDoc)
  BY <1>1, <1>3 DEF RepairFails, Stands, Logs, Writes, Live, writeGhosts, Underway, Closed, WInv, WriteTyped
<1> QED
  BY <1>2, <1>4, LogsStep

\* The repaired cache settles the key.
LEMMA RepairDoneStep == ASSUME WInv, NEW w \in Writers, RepairDone(w) PROVE WInv' /\ Sticks
<1>1. /\ writer[w].payload \in Payloads /\ command \notin Fenced \union {"merge-pr"} \union Creations
      /\ wanted /\ writer[w].seen # NoRow /\ writer[w].seen \in Row \union {NoRow}
      /\ cached # NoDoc /\ writer[w].graph \in Doc
      /\ Claims => row # NoRow /\ row.payload = writer[w].payload
      /\ Claims /\ command \in Comments => Closed
  BY DEF RepairDone, Stands, WInv, Carries, Belongs, Believing, Waiting, WriteTyped, Call
<1>2. writer[w].seen.pre \in Maybe /\ writer[w].graph \in Maybe /\ "succeeded" \in Status
  BY <1>1 DEF Row, Maybe, Status
<1>3. Sticks
  BY <1>1, WriteAssumption DEF WInv, WriteTyped, Sticks, Unfenced, Updates, PRUpdates
<1>4. Logs(w, "succeeded", writer[w].seen.pre, writer[w].graph)
  BY <1>1, <1>3 DEF RepairDone, Stands, Logs, Writes, Live, Underway, Closed, WInv, WriteTyped
<1> QED
  BY <1>2, <1>4, LogsStep

\* What only an update of an issue writes without a claim of its own.
LEMMA UnclaimedLog ==
  ASSUME WInv, NEW w \in Writers, NEW s \in {"failed", "conflict"}, NEW p \in Maybe,
         command = "update-issue", writer[w].at # "idle", Record(w, s, p, NoDoc), Return(w),
         UNCHANGED <<command, remote, flying, cached, writeGhosts, writes, edits>>, faults' \in Nat
  PROVE  WInv' /\ Sticks
<1>1. ~Claims /\ ~Guarded /\ command \notin Fenced /\ writer[w].payload \in Payloads /\ s \in Status /\ NoDoc \in Maybe
  BY DEF Claims, Guarded, Fenced, WInv, Carries, Status, Maybe
<1>2. Sticks
  BY DEF Sticks, Unfenced
<1>3. Logs(w, s, p, NoDoc)
  BY <1>1, <1>2 DEF Logs, Writes, writeGhosts, WInv, WriteTyped
<1> QED
  BY <1>1, <1>3, LogsStep

\* The preimage cannot be read.
LEMMA PreflightFailsStep == ASSUME WInv, NEW w \in Writers, PreflightFails(w) PROVE WInv' /\ Sticks
<1>1. CASE command = "update-issue"
  BY <1>1, UnclaimedLog DEF Maybe, PreflightFails, Stands, WInv, WriteTyped
<1>2. CASE command # "update-issue"
  BY <1>2, LeavesStep DEF PreflightFails, Leaves, writeGhosts, WInv, WriteTyped
<1> QED
  BY <1>1, <1>2

\* The preimage has changed since the failure that is retried.
LEMMA ClaimConflictStep == ASSUME WInv, NEW w \in Writers, ClaimConflict(w) PROVE WInv' /\ Sticks
<1>1. CASE command = "update-issue"
  BY <1>1, UnclaimedLog DEF Maybe, ClaimConflict, Stands, Stale, WInv, WriteTyped, Call, Row
<1>2. CASE command # "update-issue"
  BY <1>2, LeavesStep DEF ClaimConflict, Leaves, writeGhosts, WInv, WriteTyped
<1> QED
  BY <1>1, <1>2

\* The claim meets a database error.
LEMMA ClaimBreaksStep == ASSUME WInv, NEW w \in Writers, ClaimBreaks(w) PROVE WInv' /\ Sticks
<1>1. writer[w].pre \in Maybe /\ faults' \in Nat /\ writer[w].at # "idle"
  BY DEF Maybe, ClaimBreaks, Stands, WInv, WriteTyped, Call
<1> QED
  BY <1>1, UnclaimedLog DEF ClaimBreaks

\* Success cannot be recorded.
LEMMA RecordBreaksStep == ASSUME WInv, NEW w \in Writers, RecordBreaks(w) PROVE WInv' /\ Sticks
<1>1. /\ writer[w].payload \in Payloads /\ command \notin Fenced \union Creations
      /\ Claims => row # NoRow /\ row.payload = writer[w].payload
      /\ Live(w)
  BY DEF RecordBreaks, Stands, WInv, Carries, Belongs, Waiting, Live, Unfenced, Comments, Fenced, Creations
<1>2. writer[w].pre \in Maybe /\ NoDoc \in Maybe /\ "auditfail" \in Status
  BY DEF Maybe, Status, WInv, WriteTyped, Call
<1>3. Sticks
  BY DEF RecordBreaks, Sticks
<1>4. Logs(w, "auditfail", writer[w].pre, NoDoc)
  BY <1>1, <1>3 DEF RecordBreaks, Logs, Writes, writeGhosts, WInv, WriteTyped
<1> QED
  BY <1>2, <1>4, LogsStep

\* The graph cannot enter the cache.
LEMMA PublishFailsStep == ASSUME WInv, NEW w \in Writers, PublishFails(w) PROVE WInv' /\ Sticks
<1>1. /\ writer[w].payload \in Payloads /\ command \notin Fenced \union Creations
      /\ wanted /\ ~Live(w)
      /\ Claims => row # NoRow /\ row.payload = writer[w].payload
      /\ Claims /\ command \in Comments => Closed
  BY DEF PublishFails, Stands, WInv, Carries, Belongs, Believing, Waiting, Live, Unfenced, Comments, Fenced, Creations
<1>2. writer[w].pre \in Maybe /\ NoDoc \in Maybe /\ "cachefail" \in Status
  BY DEF Maybe, Status, WInv, WriteTyped, Call
<1>3. Sticks
  BY DEF PublishFails, Sticks
<1>4. Logs(w, "cachefail", writer[w].pre, NoDoc)
  BY <1>1, <1>3 DEF PublishFails, Logs, Writes, writeGhosts, Underway, Closed, WInv, WriteTyped
<1> QED
  BY <1>2, <1>4, LogsStep

-----------------------------------------------------------------------------
(* Steps that change the status of the receipt. *)

Turns(w) ==
    /\ row # NoRow /\ row' \in Row /\ row'.payload = row.payload /\ row'.gen = row.gen
    /\ command \notin Unfenced
    /\ UNCHANGED <<command, remote, flying, sent, applied, payloads, wanted, gens, writes, edits>>
    /\ faults' \in Nat /\ told' \in BOOLEAN /\ (told' => told \/ wanted)
    /\ cached' \in Maybe /\ (cached # NoDoc => cached' # NoDoc)
    /\ writer' \in [Writers -> Call] /\ \A v \in Writers \ {w} : writer'[v] = writer[v]
    /\ row'.status \in {"pending", "cachefail", "succeeded"} => wanted
    /\ Guarded /\ row'.status \in {"failed", "conflict"} => applied + flying = 0
    /\ row'.status = "succeeded" =>
         /\ cached' # NoDoc
         /\ command \in Creations \union Fenced => cached' = row'.graph
    /\ Sticks
    /\ ~Live(w) => row'.status \notin {"failed", "conflict"} /\ (command \in Creations => ~Underway)
    /\ Live(w)' => Live(w)

\* A receipt that changes its status keeps everything, if the call keeps itself sound.
LEMMA TurnsStep ==
  ASSUME WInv, NEW w \in Writers, Turns(w), Carries(w)', Belongs(w)'
  PROVE  WInv' /\ Sticks
<1>1. row' # NoRow
  BY NoneAssumption DEF Turns
<1>2. WriteTyped'
  BY DEF Turns, WInv, WriteTyped
<1>3. SuccessIsPublished'
  BY DEF Turns, SuccessIsPublished, Succeeded
<1>4. (Guarded <=> Guarded') /\ (Claims <=> Claims')
  BY DEF Turns, Guarded, Claims
<1>5. Free' <=> row'.status \in {"failed", "conflict"}
  BY <1>1 DEF Free
<1>6. KeySound'
  <2>1. Claims' => payloads' \subseteq {row'.payload}
    BY <1>1, <1>4 DEF Turns, WInv, KeySound
  <2>2. Guarded' => applied' + flying' <= 1 /\ (Free' => applied' + flying' = 0)
    BY <1>4, <1>5 DEF Turns, WInv, KeySound
  <2>3. ~wanted' => /\ remote'.f # "want" /\ ~told'
                    /\ row' # NoRow => row'.status \notin {"pending", "cachefail", "succeeded"}
    BY DEF Turns, WInv, KeySound
  <2>4. /\ remote'.o <= edits' /\ edits' <= MaxEdits /\ applied' + flying' <= sent'
        /\ command' \in Fenced => sent' <= 1
        /\ row'.gen \in 1..gens'
    BY DEF Turns, WInv, KeySound
  <2> QED
    BY <1>1, <1>3, <2>1, <2>2, <2>3, <2>4 DEF KeySound
<1>7. Moves(w)
  BY <1>5, <1>1 DEF Turns, WInv, WriteTyped, Unfenced, Moves
<1> QED
  BY <1>2, <1>6, <1>7, MovesStep

\* A step that changes the status of the receipt and returns.
LEMMA TurnsAndRests ==
  ASSUME WInv, NEW w \in Writers, Return(w),
         ASSUME writer' \in [Writers -> Call], \A v \in Writers \ {w} : writer'[v] = writer[v], ~Live(w)'
         PROVE  Turns(w)
  PROVE  WInv' /\ Sticks
<1>1. writer' \in [Writers -> Call] /\ writer'[w] = Resting /\ \A v \in Writers \ {w} : writer'[v] = writer[v]
  BY RestingIs DEF Return, WInv, WriteTyped
<1>2. ~Live(w)'
  BY <1>1, RestingIs DEF Live
<1>3. Turns(w)
  BY <1>1, <1>2
<1>4. WriteTyped'
  BY <1>3 DEF Turns, WInv, WriteTyped
<1>5. Carries(w)' /\ Belongs(w)'
  BY <1>1, <1>4, RestIsSound
<1> QED
  BY <1>3, <1>5, TurnsStep

\* Telling that somebody else has settled the key is telling the truth.
LEMMA ToldIsWanted ==
  ASSUME WInv, NEW w \in Writers, told' = told \/ told' = (told \/ Confirmed(writer[w].gen))
  PROVE  told' \in BOOLEAN /\ (told' => told \/ wanted)
<1>1. Confirmed(writer[w].gen) => wanted
  BY SucceededIsWanted DEF Confirmed, Owned, Succeeded
<1> QED
  BY <1>1 DEF WInv, WriteTyped, Confirmed, Owned

\* One transaction stores the graph and settles the receipt.
LEMMA SettleAtomicallyStep == ASSUME WInv, NEW w \in Writers, SettleAtomically(w) PROVE WInv' /\ Sticks
<1>1. CASE SameReceipt(writer[w].seen)
  <2>1. /\ row # NoRow /\ row \in Row /\ row.status = "pending" /\ row.graph = writer[w].graph
        /\ writer[w].graph \in Doc /\ wanted /\ command \in Creations \union Fenced
    BY <1>1 DEF SettleAtomically, Stands, SameReceipt, WInv, WriteTyped, Carries, Belongs, Believing
  <2>2. row' = [row EXCEPT !.status = "succeeded"] /\ cached' = writer[w].graph /\ told' = TRUE /\ Return(w)
    BY <1>1 DEF SettleAtomically
  <2>3. row' \in Row /\ row'.payload = row.payload /\ row'.gen = row.gen /\ row'.status = "succeeded"
        /\ row'.graph = row.graph
    BY <2>1, <2>2 DEF Row
  <2>4. cached' # NoDoc /\ cached' \in Maybe /\ command \notin Unfenced /\ ~Underway
    BY <2>1, <2>2, NoneAssumption DEF Maybe, Creations, Fenced, Unfenced, Comments, Underway
  <2>5. UNCHANGED <<command, remote, flying, sent, applied, payloads, wanted, gens, writes, edits>> /\ faults' \in Nat
    BY DEF SettleAtomically, writeCounts, WInv, WriteTyped
  <2>6. Sticks
    BY <2>3 DEF Sticks
  <2> QED
    BY <2>1, <2>2, <2>3, <2>4, <2>5, <2>6, TurnsAndRests DEF Turns
<1>2. CASE ~SameReceipt(writer[w].seen)
  BY <1>2, LeavesStep DEF SettleAtomically, ReturnCurrent, Leaves, writeCounts, WInv, WriteTyped
<1> QED
  BY <1>1, <1>2

\* Staging meets a database error.
LEMMA StageBreaksStep == ASSUME WInv, NEW w \in Writers, StageBreaks(w) PROVE WInv' /\ Sticks
<1>1. row # NoRow /\ row \in Row /\ Live(w) /\ command = "update-pr"
  BY DEF StageBreaks, Stands, Owned, WInv, WriteTyped, Live
<1>2. row' = [row EXCEPT !.status = "auditfail"] /\ Return(w)
  BY DEF StageBreaks
<1>3. row' \in Row /\ row'.payload = row.payload /\ row'.gen = row.gen /\ row'.status = "auditfail"
  BY <1>1, <1>2 DEF Row
<1>4. UNCHANGED <<command, remote, flying, cached, sent, applied, payloads, wanted, told, gens, writes, edits>>
      /\ faults' \in Nat /\ told \in BOOLEAN /\ cached \in Maybe
  BY DEF StageBreaks, writeGhosts, WInv, WriteTyped
<1>5. command \notin Unfenced /\ Sticks
  BY <1>1 DEF Unfenced, Comments, Sticks
<1> QED
  BY <1>1, <1>2, <1>3, <1>4, <1>5, TurnsAndRests DEF Turns

\* The staged graph cannot enter the cache.
LEMMA PublishGenerationFailsStep ==
  ASSUME WInv, NEW w \in Writers, PublishGenerationFails(w) PROVE WInv' /\ Sticks
<1>1. CASE Owned(writer[w].gen, {"pending"})
  <2>1. row # NoRow /\ row \in Row /\ row.status = "pending" /\ wanted /\ ~Live(w) /\ command \in PRUpdates
    BY <1>1 DEF PublishGenerationFails, Stands, Owned, WInv, WriteTyped, Live, Belongs, Believing
  <2>2. row' = [row EXCEPT !.status = "cachefail"] /\ ReturnCurrent(w)
    BY <1>1 DEF PublishGenerationFails
  <2>3. row' \in Row /\ row'.payload = row.payload /\ row'.gen = row.gen /\ row'.status = "cachefail"
    BY <2>1, <2>2 DEF Row
  <2>4. UNCHANGED <<command, remote, flying, cached, sent, applied, payloads, wanted, gens, writes, edits>>
        /\ faults' \in Nat /\ cached \in Maybe
    BY DEF PublishGenerationFails, WInv, WriteTyped
  <2>5. told' \in BOOLEAN /\ (told' => told \/ wanted) /\ Return(w)
    BY <2>2, ToldIsWanted DEF ReturnCurrent
  <2>6. command \notin Unfenced /\ command \notin Creations /\ Sticks
    BY <2>1 DEF PRUpdates, Creations, Unfenced, Comments, Sticks, Succeeded
  <2> QED
    BY <2>1, <2>3, <2>4, <2>5, <2>6, TurnsAndRests DEF Turns
<1>2. CASE ~Owned(writer[w].gen, {"pending"})
  BY <1>2, LeavesStep DEF PublishGenerationFails, ReturnCurrent, Leaves, WInv, WriteTyped
<1> QED
  BY <1>1, <1>2

\* The published graph settles the receipt.
LEMMA FinishGenerationStep == ASSUME WInv, NEW w \in Writers, FinishGeneration(w) PROVE WInv' /\ Sticks
<1>1. CASE Owned(writer[w].gen, {"pending", "cachefail", "succeeded"})
  <2>1. row # NoRow /\ row \in Row /\ wanted /\ ~Live(w) /\ command \in PRUpdates /\ cached # NoDoc
    BY <1>1 DEF FinishGeneration, Stands, Owned, WInv, WriteTyped, Live, Belongs, Believing, Carries
  <2>2. row' = [row EXCEPT !.status = "succeeded"] /\ told' = TRUE /\ Return(w)
    BY <1>1 DEF FinishGeneration
  <2>3. row' \in Row /\ row'.payload = row.payload /\ row'.gen = row.gen /\ row'.status = "succeeded"
    BY <2>1, <2>2 DEF Row
  <2>4. UNCHANGED <<command, remote, flying, cached, sent, applied, payloads, wanted, gens, writes, edits>>
        /\ faults' \in Nat /\ cached \in Maybe
    BY DEF FinishGeneration, writeCounts, WInv, WriteTyped
  <2>5. command \notin Unfenced /\ command \notin Creations \union Fenced /\ Sticks
    BY <2>1, <2>3 DEF PRUpdates, Creations, Fenced, Unfenced, Comments, Sticks
  <2> QED
    BY <2>1, <2>2, <2>3, <2>4, <2>5, TurnsAndRests DEF Turns
<1>2. CASE ~Owned(writer[w].gen, {"pending", "cachefail", "succeeded"})
  BY <1>2, LeavesStep DEF FinishGeneration, Leaves, writeCounts, WInv, WriteTyped
<1> QED
  BY <1>1, <1>2

\* Settling meets a database error.
LEMMA FinishBreaksStep == ASSUME WInv, NEW w \in Writers, FinishBreaks(w) PROVE WInv' /\ Sticks
<1>1. row # NoRow /\ row \in Row /\ row.status = "pending" /\ ~Live(w) /\ command \in PRUpdates
  BY DEF FinishBreaks, Stands, Owned, WInv, WriteTyped, Live, Carries
<1>2. row' = [row EXCEPT !.status = "auditfail"] /\ Return(w)
  BY DEF FinishBreaks
<1>3. row' \in Row /\ row'.payload = row.payload /\ row'.gen = row.gen /\ row'.status = "auditfail"
  BY <1>1, <1>2 DEF Row
<1>4. UNCHANGED <<command, remote, flying, cached, sent, applied, payloads, wanted, told, gens, writes, edits>>
      /\ faults' \in Nat /\ told \in BOOLEAN /\ cached \in Maybe
  BY DEF FinishBreaks, writeGhosts, WInv, WriteTyped
<1>5. command \notin Unfenced /\ command \notin Creations /\ Sticks
  BY <1>1 DEF PRUpdates, Creations, Unfenced, Comments, Sticks, Succeeded
<1> QED
  BY <1>1, <1>2, <1>3, <1>4, <1>5, TurnsAndRests DEF Turns

\* Success is recorded before the graph enters the cache.
LEMMA RecordSuccessStep == ASSUME WInv, NEW w \in Writers, RecordSuccess(w) PROVE WInv' /\ Sticks
<1> DEFINE c == [writer[w] EXCEPT !.at = "publish"]
<1>1. Record(w, "succeeded", writer[w].pre, writer[w].graph) /\ command \in Unfenced /\ command' = command
      /\ writer[w].at = "confirmed"
  BY DEF RecordSuccess, Stands
<1>2. writer' = [writer EXCEPT ![w] = c]
  BY DEF RecordSuccess, Goto
<1>3. /\ c \in Call /\ c.at = "publish" /\ c.pre = writer[w].pre /\ c.graph = writer[w].graph
      /\ c.gen = writer[w].gen /\ c.payload = writer[w].payload
  BY DEF WInv, WriteTyped, Call, Stations
<1> HIDE DEF c
<1>4. writer' \in [Writers -> Call] /\ writer'[w] = c /\ \A v \in Writers \ {w} : writer'[v] = writer[v]
  BY <1>2, <1>3 DEF WInv, WriteTyped
<1>5. /\ writer[w].payload \in Payloads /\ command \notin Fenced \union Creations
      /\ wanted /\ writer[w].graph \in Doc /\ writer[w].gen <= gens /\ writer[w].gen \in Nat
      /\ Claims => row # NoRow /\ row.payload = writer[w].payload
      /\ command \in Comments => Live(w)
  BY <1>1 DEF WInv, WriteTyped, Call, Carries, Belongs, Believing, Waiting, Live, Unfenced, Comments, Fenced, Creations,
     Updates, PRUpdates
<1>6. writer[w].pre \in Maybe /\ writer[w].graph \in Maybe /\ "succeeded" \in Status
  BY DEF Maybe, Status, WInv, WriteTyped, Call
<1>7. Writes(w, "succeeded", writer[w].pre, writer[w].graph)
  BY <1>1, <1>5 DEF RecordSuccess, Writes, Sticks, writeGhosts, WInv, WriteTyped, Claims, Unfenced
<1>8. row' # NoRow /\ row'.status = "succeeded" /\ row'.payload = writer[w].payload /\ gens' \in Nat /\ gens <= gens'
  BY <1>1, <1>5, <1>6, RecordedIs DEF Record, WInv, WriteTyped
<1>9. ~Live(w)'
  BY <1>3, <1>4 DEF Live
<1>10. Carries(w)'
  BY <1>1, <1>3, <1>4, <1>5, <1>8 DEF Carries, Unsettled, WInv, WriteTyped
<1>11. Belongs(w)'
  BY <1>5, <1>7, <1>8, <1>3, <1>4, <1>9 DEF Writes, Closed, Belongs
<1> QED
  BY <1>4, <1>6, <1>7, <1>9, <1>10, <1>11, WritesStep

\* The exact receipt is staged.
LEMMA StageStep == ASSUME WInv, NEW w \in Writers, Stage(w) PROVE WInv' /\ Sticks
<1>1. CASE SameReceipt(writer[w].seen)
  <2> DEFINE c == [writer[w] EXCEPT !.at = "staged", !.seen = PendingRow(w)]
  <2>1. /\ row # NoRow /\ row \in Row /\ row = writer[w].seen /\ row.status # "succeeded" /\ row.payload = writer[w].payload
        /\ writer[w].graph \in Doc /\ wanted /\ command \in Creations \union Fenced
        /\ writer[w].payload \in Payloads /\ writer[w].gen <= gens
        /\ ~Live(w) => (command \in Creations => ~Underway)
    <3>1. writer[w].at = "confirmed" /\ command \in Creations \union Fenced /\ row = writer[w].seen
      BY <1>1 DEF Stage, Stands, SameReceipt
    <3>2. command # "plain" /\ Claims
      BY <3>1 DEF Creations, Fenced, Claims
    <3>3. row # NoRow /\ row.status # "succeeded" /\ writer[w].graph \in Doc /\ writer[w].payload \in Payloads
          /\ writer[w].gen <= gens
      BY <3>1, <3>2 DEF WInv, Carries, Unsettled
    <3>4. wanted /\ row.payload = writer[w].payload
      BY <3>1, <3>2 DEF WInv, Belongs, Believing, Waiting
    <3>5. ~Live(w) => (command \in Creations => ~Underway)
      BY <3>1 DEF WInv, Carries, Live, Underway
    <3> QED
      BY <3>1, <3>3, <3>4, <3>5 DEF WInv, WriteTyped
  <2>2. row' = PendingRow(w) /\ writer' = [writer EXCEPT ![w] = c] /\ told' = told
    BY <1>1 DEF Stage
  <2>3. /\ PendingRow(w) \in Row /\ PendingRow(w) # NoRow /\ PendingRow(w).status = "pending"
        /\ PendingRow(w).payload = row.payload /\ PendingRow(w).gen = row.gen /\ PendingRow(w).graph = writer[w].graph
    BY <2>1, NoneAssumption DEF PendingRow, Row
  <2>4. /\ c \in Call /\ c.at = "staged" /\ c.seen = PendingRow(w) /\ c.pre = writer[w].pre /\ c.graph = writer[w].graph
        /\ c.gen = writer[w].gen /\ c.payload = writer[w].payload
    BY ZenonT(60), <2>3 DEF WInv, WriteTyped, Call, Stations
  <2> HIDE DEF c
  <2>5. writer' \in [Writers -> Call] /\ writer'[w] = c /\ \A v \in Writers \ {w} : writer'[v] = writer[v]
    BY <2>2, <2>4 DEF WInv, WriteTyped
  <2>6. UNCHANGED <<command, remote, flying, cached, sent, applied, payloads, wanted, gens, writes, edits, faults>>
        /\ faults \in Nat /\ told \in BOOLEAN /\ cached \in Maybe
    BY DEF Stage, writeCounts, WInv, WriteTyped
  <2>7. command \notin Unfenced /\ Sticks /\ ~Live(w)'
    BY <2>1, <2>4, <2>5 DEF Creations, Fenced, Unfenced, Comments, Sticks, Succeeded, Live
  <2>8. Turns(w)
    BY <2>1, <2>2, <2>3, <2>5, <2>6, <2>7 DEF Turns
  <2>9. Carries(w)'
    BY <2>1, <2>2, <2>3, <2>4, <2>5, <2>6 DEF Carries, Unsettled
  <2>10. Belongs(w)'
    BY <2>1, <2>2, <2>3, <2>4, <2>5, <2>6, <2>7 DEF Belongs
  <2> QED
    BY <2>8, <2>9, <2>10, TurnsStep
<1>2. CASE ~SameReceipt(writer[w].seen)
  BY <1>2, LeavesStep DEF Stage, ReturnCurrent, Leaves, writeCounts, WInv, WriteTyped
<1> QED
  BY <1>1, <1>2

\* The generation of the claim is staged.
LEMMA StageGenerationStep == ASSUME WInv, NEW w \in Writers, StageGeneration(w) PROVE WInv' /\ Sticks
<1>1. CASE Owned(writer[w].gen, StageFrom(w))
  <2> DEFINE c == [writer[w] EXCEPT !.at = "publish"]
  <2>1. /\ row # NoRow /\ row \in Row /\ row.status # "succeeded" /\ row.payload = writer[w].payload
        /\ writer[w].graph \in Doc /\ wanted /\ command \in PRUpdates
        /\ writer[w].payload \in Payloads /\ writer[w].gen <= gens
    <3>1. writer[w].at = "confirmed" /\ command \in PRUpdates /\ row # NoRow /\ row.status \in StageFrom(w)
      BY <1>1 DEF StageGeneration, Stands, Owned
    <3>2. command # "plain" /\ Claims
      BY <3>1 DEF PRUpdates, Claims
    <3>3. writer[w].seen.status # "succeeded" /\ writer[w].graph \in Doc /\ writer[w].payload \in Payloads
          /\ writer[w].gen <= gens
      BY <3>1, <3>2 DEF WInv, Carries, Unsettled
    <3>4. wanted /\ row.payload = writer[w].payload
      BY <3>1, <3>2 DEF WInv, Belongs, Believing, Waiting
    <3>5. row.status # "succeeded"
      BY <3>1, <3>3 DEF StageFrom
    <3> QED
      BY <3>1, <3>3, <3>4, <3>5 DEF WInv, WriteTyped
  <2>2. row' \in Row /\ row' # NoRow /\ row'.payload = row.payload /\ row'.gen = row.gen /\ row'.status = "pending"
    <3>1. row' = IF row.status = "pending" THEN row
                 ELSE [row EXCEPT !.status = "pending", !.graph = writer[w].graph]
      BY <1>1 DEF StageGeneration
    <3>2. CASE row.status = "pending"
      BY <2>1, <3>1, <3>2
    <3>3. CASE row.status # "pending"
      BY <3>1, <3>3, <2>1, NoneAssumption DEF Row
    <3> QED
      BY <3>2, <3>3
  <2>3. writer' = [writer EXCEPT ![w] = c] /\ told' = told
    BY <1>1 DEF StageGeneration, Goto
  <2>4. /\ c \in Call /\ c.at = "publish" /\ c.pre = writer[w].pre /\ c.graph = writer[w].graph
        /\ c.gen = writer[w].gen /\ c.payload = writer[w].payload
    BY DEF WInv, WriteTyped, Call, Stations
  <2> HIDE DEF c
  <2>5. writer' \in [Writers -> Call] /\ writer'[w] = c /\ \A v \in Writers \ {w} : writer'[v] = writer[v]
    BY <2>3, <2>4 DEF WInv, WriteTyped
  <2>6. UNCHANGED <<command, remote, flying, cached, sent, applied, payloads, wanted, gens, writes, edits, faults>>
        /\ faults \in Nat /\ told \in BOOLEAN /\ cached \in Maybe
    BY DEF StageGeneration, writeCounts, WInv, WriteTyped
  <2>7. command \notin Unfenced /\ command \notin Creations \union Comments /\ Sticks /\ ~Live(w)'
    BY <2>1, <2>4, <2>5 DEF PRUpdates, Creations, Unfenced, Comments, Sticks, Succeeded, Live
  <2>8. Turns(w)
    BY <2>1, <2>2, <2>3, <2>5, <2>6, <2>7 DEF Turns
  <2>9. Carries(w)'
    BY <2>1, <2>2, <2>4, <2>5, <2>6 DEF Carries, Unsettled
  <2>10. Belongs(w)'
    BY <2>1, <2>2, <2>4, <2>5, <2>6, <2>7 DEF Belongs
  <2> QED
    BY <2>8, <2>9, <2>10, TurnsStep
<1>2. CASE ~Owned(writer[w].gen, StageFrom(w))
  BY <1>2, LeavesStep DEF StageGeneration, ReturnCurrent, Leaves, writeCounts, WInv, WriteTyped
<1> QED
  BY <1>1, <1>2

-----------------------------------------------------------------------------
(* The failure paths. *)

GivesUp(w) ==
    /\ writer[w].at \in {"sent", "readback"}
    /\ AfterFailure(w) /\ ReturnCurrent(w)
    /\ UNCHANGED <<command, remote, flying, cached, sent, applied, payloads, wanted, writes, edits, faults>>

\* What a call in flight knows of the key.
LEMMA InFlight ==
  ASSUME WInv, NEW w \in Writers, GivesUp(w)
  PROVE  /\ Live(w) /\ writer[w].payload \in Payloads /\ writer[w].pre \in Maybe
         /\ told' \in BOOLEAN /\ (told' => told \/ wanted) /\ Return(w)
         /\ Claims => row # NoRow /\ row.payload = writer[w].payload
         /\ Guarded /\ Refused(w) => applied + flying = 0
         /\ command \in Creations => Underway
<1>1. Live(w) /\ writer[w].at \notin Waiting /\ writer[w].at # "idle"
  BY DEF GivesUp, Live, Waiting
<1>2. Carries(w) /\ Belongs(w) /\ writer[w] \in Call
  BY DEF WInv, WriteTyped
<1>3. Claims => row # NoRow /\ row.payload = writer[w].payload
  BY <1>1, <1>2 DEF Belongs
<1>4. Guarded /\ Refused(w) => applied + flying = 0
  BY <1>2 DEF GivesUp, Refused, Carries, Belongs
<1>5. command \in Creations => Underway
  BY <1>1, <1>2 DEF Belongs, Claims, Creations
<1>6. told' \in BOOLEAN /\ (told' => told \/ wanted) /\ Return(w)
  BY ToldIsWanted DEF GivesUp, ReturnCurrent
<1> QED
  BY <1>1, <1>2, <1>3, <1>4, <1>5, <1>6 DEF Carries, Call, Maybe

\* A failure of an update of a pull request, a merge or a fenced command.
LEMMA TurnedByFailure ==
  ASSUME WInv, NEW w \in Writers, GivesUp(w), command \in PRUpdates \union Fenced,
         Owned(writer[w].gen, {"in_progress"}), NEW s \in {"failed", "in_progress"}, s = "failed" => Refused(w),
         NEW k \in BOOLEAN, row' = [row EXCEPT !.status = s, !.phase = "tried", !.known = k], gens' = gens
  PROVE  WInv' /\ Sticks
<1>1. row # NoRow /\ row \in Row /\ row.status = "in_progress"
  BY DEF Owned, WInv, WriteTyped
<1>2. row' \in Row /\ row'.payload = row.payload /\ row'.gen = row.gen /\ row'.status = s
  BY <1>1 DEF Row
<1>3. UNCHANGED <<command, remote, flying, cached, sent, applied, payloads, wanted, gens, writes, edits>>
      /\ faults' \in Nat /\ cached \in Maybe
  BY DEF GivesUp, WInv, WriteTyped
<1>4. command \notin Unfenced /\ Sticks
  BY <1>1 DEF PRUpdates, Fenced, Unfenced, Comments, Sticks, Succeeded
<1> QED
  BY <1>1, <1>2, <1>3, <1>4, InFlight, TurnsAndRests DEF Turns

\* A failure of another command that writes its receipt anew.
LEMMA LoggedFailure ==
  ASSUME WInv, NEW w \in Writers, GivesUp(w), command \notin PRUpdates \union Fenced,
         NEW s \in {"failed", "in_progress", "unsafe"}, s = "failed" /\ Guarded => Refused(w),
         NEW p \in Maybe, Record(w, s, p, NoDoc)
  PROVE  WInv' /\ Sticks
<1>1. s \in Status /\ NoDoc \in Maybe
  BY DEF Status, Maybe
<1>2. Sticks
  BY WriteAssumption, InFlight DEF WInv, WriteTyped, Updates, PRUpdates, Unfenced, Comments, Sticks,
         Succeeded, Underway
<1>3. Logs(w, s, p, NoDoc)
  BY <1>2, InFlight DEF Logs, Writes, GivesUp, WInv, WriteTyped
<1> QED
  BY <1>1, <1>3, LogsStep

\* Every failure path keeps everything.
LEMMA GivesUpStep == ASSUME WInv, NEW w \in Writers, GivesUp(w) PROVE WInv' /\ Sticks
<1>1. AfterFailure(w)
  BY DEF GivesUp
<1>2. CASE UNCHANGED <<row, gens>>
  BY <1>2, LeavesStep DEF GivesUp, ReturnCurrent, Leaves, WInv, WriteTyped
<1>3. CASE command \in PRUpdates /\ ~UNCHANGED <<row, gens>>
  <2>1. Owned(writer[w].gen, {"in_progress"}) /\ gens' = gens
        /\ row' = [row EXCEPT !.status = IF Refused(w) THEN "failed" ELSE @, !.phase = "tried"]
    BY <1>1, <1>3 DEF AfterFailure, PRUpdates, Fenced
  <2>2. row \in Row /\ row.status = "in_progress" /\ row.known \in BOOLEAN
    BY <2>1 DEF Owned, WInv, WriteTyped, Row
  <2>3. PICK s \in {"failed", "in_progress"} : s = IF Refused(w) THEN "failed" ELSE "in_progress"
    OBVIOUS
  <2>4. row' = [row EXCEPT !.status = s, !.phase = "tried"]
    BY <2>1, <2>2, <2>3
  <2>5. row' = [row EXCEPT !.status = s, !.phase = "tried", !.known = row.known]
    BY <2>2, <2>4 DEF Row
  <2> QED
    BY <1>3, <2>1, <2>2, <2>3, <2>5, TurnedByFailure
<1>4. CASE command \in Fenced /\ ~UNCHANGED <<row, gens>>
  <2>1. Owned(writer[w].gen, {"in_progress"}) /\ gens' = gens
        /\ row' = [row EXCEPT !.phase = "tried", !.known = writer[w].outcome = "done"]
    BY <1>1, <1>4 DEF AfterFailure, PRUpdates, Fenced
  <2>2. row \in Row /\ row.status = "in_progress" /\ (writer[w].outcome = "done") \in BOOLEAN
    BY <2>1 DEF Owned, WInv, WriteTyped, Row
  <2>3. row' = [row EXCEPT !.status = "in_progress", !.phase = "tried", !.known = writer[w].outcome = "done"]
    BY <2>1, <2>2 DEF Row
  <2> QED
    BY <1>4, <2>1, <2>2, <2>3, TurnedByFailure
<1>5. CASE command \notin PRUpdates \union Fenced /\ ~UNCHANGED <<row, gens>>
  <2>1. CASE command = "create-pr" /\ ~Refused(w)
    BY <1>1, <1>5, <2>1, LoggedFailure DEF AfterFailure, PRUpdates, Fenced, Maybe
  <2>2. CASE command = "mirror" /\ ~Refused(w)
    BY <1>1, <1>5, <2>2 DEF AfterFailure, PRUpdates, Fenced
  <2>3. CASE ~(command = "create-pr" /\ ~Refused(w)) /\ ~(command = "mirror" /\ ~Refused(w))
    <3>1. PICK s \in {"failed", "in_progress"} :
            s = IF Refused(w) \/ command \in {"create-issue", "plain"} THEN "failed" ELSE "in_progress"
      OBVIOUS
    <3>2. Record(w, s, writer[w].pre, NoDoc)
      BY <1>1, <1>5, <2>3, <3>1 DEF AfterFailure, PRUpdates, Fenced
    <3>3. s = "failed" /\ Guarded => Refused(w)
      BY <3>1 DEF Guarded
    <3> QED
      BY <1>5, <3>2, <3>3, InFlight, LoggedFailure
  <2> QED
    BY <2>1, <2>2, <2>3
<1> QED
  BY <1>2, <1>3, <1>4, <1>5

\* A refusal, a lost answer, or a readback that shows something else.
LEMMA FailStep == ASSUME WInv, NEW w \in Writers, Fail(w) \/ ReadBackFails(w) PROVE WInv' /\ Sticks
<1>1. GivesUp(w)
  BY DEF Fail, ReadBackFails, GivesUp, Stands
<1> QED
  BY <1>1, GivesUpStep

-----------------------------------------------------------------------------
(* Claiming the key. *)

\* A key is claimed when it is free, for the payload it had, and a fenced one only once.
LEMMA MayClaimIsFree ==
  ASSUME WInv, NEW w \in Writers, MayClaim(w)
  PROVE  Free /\ (row # NoRow => row.payload = writer[w].payload) /\ (command \in Fenced => row = NoRow)
<1>1. CASE command \in Creations \union PRUpdates
  BY <1>1 DEF MayClaim, Creations, PRUpdates, Fenced, ClaimableGeneration, Claimable, Free
<1>2. CASE command \in Fenced
  BY <1>2 DEF MayClaim, Creations, PRUpdates, Fenced, Free
<1>3. CASE command \notin Creations \union PRUpdates \union Fenced
  BY <1>3 DEF MayClaim, Claimable, Free
<1> QED
  BY <1>1, <1>2, <1>3

Takes(w) ==
    /\ writer[w].at \in {"prepare", "claim"} /\ (writer[w].at = "prepare" => command \notin Updates)
    /\ Claim(w)
    /\ UNCHANGED <<command, remote, flying, cached, writeGhosts, writes, edits, faults>>

\* A claim keeps everything.
LEMMA TakesStep == ASSUME WInv, NEW w \in Writers, Takes(w) PROVE WInv' /\ Sticks
<1>1. CASE ~MayClaim(w)
  BY <1>1, LeavesStep DEF Takes, Claim, Leaves, writeGhosts, WInv, WriteTyped
<1>2. CASE MayClaim(w)
  <2> DEFINE c == [writer[w] EXCEPT !.at = "send", !.gen = Claimed(w).gen, !.seen = Claimed(w)]
  <2>1. /\ row' = Claimed(w) /\ gens' = IF Claimed(w).gen = gens + 1 THEN gens + 1 ELSE gens
        /\ writer' = [writer EXCEPT ![w] = c]
    BY <1>2 DEF Takes, Claim
  <2>2. Carries(w) /\ Belongs(w) /\ writer[w].payload \in Payloads /\ writer[w] \in Call /\ ~writer[w].recovers
        /\ (command \in Updates => writer[w].pre \in Doc)
    BY DEF Takes, WInv, WriteTyped, Carries
  <2>3. /\ row' \in Row /\ row' # NoRow /\ row' = Claimed(w)
        /\ row'.status = "in_progress" /\ row'.payload = writer[w].payload /\ row'.gen \in Nat
        /\ row'.gen = gens + 1 \/ (row # NoRow /\ row'.gen = row.gen)
    BY <2>1, <2>2, ClaimedIs DEF WInv
  <2>4. Free /\ (row # NoRow => row.payload = writer[w].payload) /\ (command \in Fenced => row = NoRow)
    BY <1>2, MayClaimIsFree
  <2>5. gens \in Nat /\ gens' \in Nat /\ gens <= gens' /\ row'.gen \in 1..gens'
    BY <2>1, <2>3 DEF WInv, WriteTyped, KeySound
  <2>6. /\ c \in Call /\ c.at = "send" /\ c.gen = Claimed(w).gen /\ c.seen = Claimed(w) /\ c.pre = writer[w].pre
        /\ c.payload = writer[w].payload /\ c.recovers = writer[w].recovers
    BY <2>2, <2>3 DEF Call, Stations
  <2> HIDE DEF c
  <2>7. writer' \in [Writers -> Call] /\ writer'[w] = c /\ \A v \in Writers \ {w} : writer'[v] = writer[v]
    BY <2>1, <2>6 DEF WInv, WriteTyped
  <2>8. UNCHANGED <<command, remote, flying, cached, sent, applied, payloads, told, wanted, writes, edits, faults>>
    BY DEF Takes, writeGhosts
  <2>9. WriteTyped'
    BY <2>3, <2>5, <2>7, <2>8 DEF WInv, WriteTyped
  <2>10. ~Free' /\ Underway' /\ (Claims <=> Claims') /\ (Guarded <=> Guarded') /\ SuccessIsPublished'
    BY <2>3, <2>8 DEF Free, Underway, Claims, Guarded, SuccessIsPublished, Succeeded
  <2>11. KeySound'
    BY <2>3, <2>4, <2>8, <2>5, <2>10 DEF WInv, KeySound
  <2>12. Moves(w)
    BY <2>4, <2>3, <2>5, <2>7, <2>8 DEF Free, Succeeded, Closed, Moves, Sticks
  <2>13. Carries(w)'
    BY <2>2, <2>3, <2>5, <2>6, <2>7, <2>8 DEF Carries, Unsettled, WInv, WriteTyped
  <2>14. Belongs(w)'
    BY <2>4, <2>2, <2>3, <2>6, <2>7, <2>8, <2>10 DEF WInv, KeySound, Belongs, Believing, Closed
  <2> QED
    BY <2>9, <2>11, <2>12, <2>13, <2>14, MovesStep
<1> QED
  BY <1>1, <1>2

\* A claim, with or without a preimage.
LEMMA ClaimStep == ASSUME WInv, NEW w \in Writers, ClaimFirst(w) \/ ClaimUpdate(w) PROVE WInv' /\ Sticks
<1>1. Takes(w)
  BY DEF ClaimFirst, ClaimUpdate, Takes, Stands, Creations, Comments, Fenced, Updates, PRUpdates
<1> QED
  BY <1>1, TakesStep

-----------------------------------------------------------------------------
(* Sending the request. *)

Sends(w, more) ==
    /\ MaySend(w)
    /\ UNCHANGED <<command, row, cached, told, writeCounts>>
    /\ flying' \in Nat /\ applied' \in Nat /\ applied' + flying' = applied + flying + more
    /\ sent' = sent + 1 \/ (more = 0 /\ sent' = sent)
    /\ payloads' \in {payloads, payloads \union {writer[w].payload}}
    /\ remote' \in Doc /\ remote'.o = remote.o
    /\ wanted' \in BOOLEAN /\ (wanted => wanted') /\ (~wanted' => remote'.f # "want")
    /\ writer' \in [Writers -> Call] /\ \A v \in Writers \ {w} : writer'[v] = writer[v]
    /\ writer'[w].payload = writer[w].payload /\ writer'[w].seen = writer[w].seen
    /\ writer'[w].pre = writer[w].pre /\ writer'[w].gen = writer[w].gen /\ writer'[w].recovers = writer[w].recovers
    /\ \/ /\ writer'[w].at = "sent"
          /\ \/ writer'[w].outcome \in {"unsent", "refused"} /\ more = 0
             \/ writer'[w].outcome = "lost"
       \/ /\ writer'[w].at \in {"confirmed", "readback"} /\ wanted' /\ writer'[w].graph \in Doc
          /\ writer'[w].outcome = "done"

\* What a call that may send knows of the key.
LEMMA MaySendIs ==
  ASSUME WInv, NEW w \in Writers, MaySend(w)
  PROVE  /\ Carries(w) /\ Belongs(w) /\ writer[w] \in Call /\ writer[w].payload \in Payloads /\ ~writer[w].recovers
         /\ Claims => Live(w) /\ row # NoRow /\ row.payload = writer[w].payload /\ ~Free /\ writer[w].at = "send"
         /\ Claims /\ command \in Creations \union Comments => Underway
         /\ Guarded => applied + flying = 0
         /\ command \in Fenced => sent = 0
         /\ command # "plain" => /\ writer[w].seen # NoRow /\ writer[w].seen.status # "succeeded"
                                 /\ command \in Updates => writer[w].pre \in Doc
<1>1. writer[w].at = "send" \/ (writer[w].at = "prepare" /\ command = "plain")
  BY DEF MaySend, Stands
<1>2. Carries(w) /\ Belongs(w) /\ writer[w] \in Call
  BY DEF WInv, WriteTyped
<1>3. command = "plain" => ~Claims /\ ~Guarded /\ command \notin Fenced
  BY DEF Claims, Guarded, Fenced
<1>4. writer[w].payload \in Payloads /\ ~writer[w].recovers
  BY <1>1, <1>2 DEF Carries
<1>5. Claims => Live(w) /\ row # NoRow /\ row.payload = writer[w].payload /\ writer[w].at = "send"
  BY <1>1, <1>2, <1>3 DEF Belongs, Live, Waiting
<1>6. (Claims => ~Free) /\ (Claims /\ command \in Creations \union Comments => Underway)
  BY <1>2, <1>5 DEF Belongs
<1>7. (Guarded => applied + flying = 0) /\ (command \in Fenced => sent = 0)
  BY <1>1, <1>2, <1>3 DEF Belongs
<1>8. command # "plain" => /\ writer[w].seen # NoRow /\ writer[w].seen.status # "succeeded"
                           /\ command \in Updates => writer[w].pre \in Doc
  BY <1>1, <1>2 DEF Carries, Unsettled
<1> QED
  BY <1>2, <1>4, <1>5, <1>6, <1>7, <1>8

\* A request keeps everything, whatever becomes of it.
LEMMA SendsStep ==
  ASSUME WInv, NEW w \in Writers, NEW more \in {0, 1}, Sends(w, more)
  PROVE  WInv' /\ Sticks
<1> USE MaySendIs
<1>1. MaySend(w)
  BY DEF Sends
<1>2. {sent, applied, flying, sent'} \subseteq Nat /\ gens \in Nat
  BY DEF Sends, WInv, WriteTyped
<1>3. WriteTyped'
  BY <1>1, <1>2 DEF Sends, WInv, WriteTyped, writeCounts
<1>4. (Guarded <=> Guarded') /\ (Claims <=> Claims') /\ (Free <=> Free') /\ (Underway <=> Underway') /\ (Closed <=> Closed')
  BY DEF Sends, Guarded, Claims, Free, Underway, Closed
<1>5. SuccessIsPublished' /\ Sticks
  BY DEF Sends, WInv, KeySound, SuccessIsPublished, Sticks, Succeeded
<1>6. KeySound'
  <2>1. Claims => payloads' \subseteq {row'.payload} /\ row' # NoRow
    BY <1>1 DEF Sends, WInv, KeySound
  <2>2. Guarded => applied' + flying' <= 1 /\ ~Free'
    <3>1. Guarded => applied + flying = 0 /\ ~Free'
      BY <1>1, <1>4, GuardedClaims
    <3>2. applied' + flying' = applied + flying + more
      BY DEF Sends
    <3> QED
      BY <1>2, <3>1, <3>2
  <2>3. command \in Fenced => sent' <= 1 /\ row' # NoRow
    BY <1>1, <1>2, FencedClaims DEF Sends
  <2>4. applied' + flying' <= sent'
    BY <1>2 DEF Sends, WInv, KeySound
  <2>5. remote'.o <= edits' /\ edits' <= MaxEdits /\ (row' # NoRow => row'.gen \in 1..gens')
    BY DEF Sends, writeCounts, WInv, KeySound
  <2>6. ~wanted' => /\ remote'.f # "want" /\ ~told'
                    /\ row' # NoRow => row'.status \notin {"pending", "cachefail", "succeeded"}
    BY DEF Sends, WInv, KeySound
  <2> QED
    BY <1>4, <1>5, <2>1, <2>2, <2>3, <2>4, <2>5, <2>6 DEF Sends, KeySound
<1>7. Moves(w)
  BY <1>1, <1>4, <1>2, <1>5 DEF Sends, writeCounts, Moves
<1>8. Carries(w)'
  <2>1. /\ writer'[w].gen <= gens' /\ writer'[w].payload \in Payloads /\ ~writer'[w].recovers
        /\ command # "plain" => /\ writer'[w].seen # NoRow /\ writer'[w].seen.status # "succeeded"
                                /\ command \in Updates => writer'[w].pre \in Doc
    BY <1>1 DEF Sends, writeCounts, Carries
  <2>2. command' = command
    BY DEF Sends
  <2>3. writer'[w].at \in {"sent", "confirmed", "readback"}
        /\ (writer'[w].at = "sent" => writer'[w].outcome \in {"unsent", "refused", "lost"})
        /\ (writer'[w].at = "readback" => writer'[w].outcome = "done")
        /\ (writer'[w].at = "confirmed" => writer'[w].graph \in Doc)
    BY DEF Sends
  <2>4. writer'[w].at = "readback" /\ command \in Updates => command # "plain"
    BY DEF Updates, PRUpdates
  <2>5. command \in Updates => command # "plain"
    BY DEF Updates, PRUpdates
  <2> QED
    BY <2>1, <2>2, <2>3, <2>5 DEF Carries, Unsettled
<1>9. Belongs(w)'
  <2>1. ~wanted' => writer'[w].at \notin Believing /\ (writer'[w].pre # NoDoc => writer'[w].pre.f # "want")
    BY <1>1 DEF Sends, Belongs, Believing
  <2>2. Claims => row' # NoRow /\ row'.payload = writer'[w].payload /\ ~Free'
                  /\ (command \in Creations \union Comments => Underway')
    BY <1>1, <1>4 DEF Sends
  <2>3. Guarded /\ writer'[w].at = "sent" /\ writer'[w].outcome \in {"unsent", "refused"} => applied' + flying' = 0
    BY <1>1, <1>2 DEF Sends
  <2>4. writer'[w].at \notin {"send", "publish", "repair", "repairing", "repaired"} /\ command' = command
    BY DEF Sends
  <2> QED
    BY <1>4, <2>1, <2>2, <2>3, <2>4 DEF Belongs
<1> QED
  BY <1>3, <1>6, <1>7, <1>8, <1>9, MovesStep

\* A request that is refused or was never sent.
LEMMA SendRefusedStep ==
  ASSUME WInv, NEW w \in Writers, NEW outcome \in {"unsent", "refused"}, SendRefused(w, outcome)
  PROVE  WInv' /\ Sticks
<1> DEFINE c == [writer[w] EXCEPT !.at = "sent", !.outcome = outcome]
<1>1. writer' = [writer EXCEPT ![w] = c]
  BY DEF SendRefused
<1>2. /\ c \in Call /\ c.at = "sent" /\ c.outcome = outcome /\ c.payload = writer[w].payload /\ c.seen = writer[w].seen
      /\ c.pre = writer[w].pre /\ c.gen = writer[w].gen /\ c.recovers = writer[w].recovers
  BY ZenonT(60) DEF WInv, WriteTyped, Call, Stations
<1> HIDE DEF c
<1>3. writer' \in [Writers -> Call] /\ writer'[w] = c /\ \A v \in Writers \ {w} : writer'[v] = writer[v]
  BY <1>1, <1>2 DEF WInv, WriteTyped
<1>4. UNCHANGED <<command, row, remote, flying, cached, applied, told, wanted, writeCounts>> /\ MaySend(w)
  BY DEF SendRefused
<1>5. sent' \in {sent, sent + 1} /\ payloads' \in {payloads, payloads \union {writer[w].payload}}
  BY DEF SendRefused, Departs
<1>6. remote \in Doc /\ wanted \in BOOLEAN /\ flying \in Nat /\ applied \in Nat /\ (~wanted => remote.f # "want")
  BY DEF WInv, WriteTyped, KeySound
<1>7. Sends(w, 0)
  BY <1>2, <1>3, <1>4, <1>5, <1>6 DEF Sends
<1> QED
  BY <1>7, SendsStep

\* A request without an answer.
LEMMA SendLostStep == ASSUME WInv, NEW w \in Writers, SendLost(w) PROVE WInv' /\ Sticks
<1> DEFINE c == [writer[w] EXCEPT !.at = "sent", !.outcome = "lost"]
<1>1. writer' = [writer EXCEPT ![w] = c]
  BY DEF SendLost
<1>2. /\ c \in Call /\ c.at = "sent" /\ c.outcome = "lost" /\ c.payload = writer[w].payload /\ c.seen = writer[w].seen
      /\ c.pre = writer[w].pre /\ c.gen = writer[w].gen /\ c.recovers = writer[w].recovers
  BY ZenonT(60) DEF WInv, WriteTyped, Call, Stations
<1> HIDE DEF c
<1>3. writer' \in [Writers -> Call] /\ writer'[w] = c /\ \A v \in Writers \ {w} : writer'[v] = writer[v]
  BY <1>1, <1>2 DEF WInv, WriteTyped
<1>4. UNCHANGED <<command, row, remote, cached, applied, told, wanted, writeCounts>> /\ MaySend(w)
      /\ flying' = flying + 1
  BY DEF SendLost
<1>5. sent' = sent + 1 /\ payloads' \in {payloads, payloads \union {writer[w].payload}}
  BY DEF SendLost, Departs
<1>6. remote \in Doc /\ wanted \in BOOLEAN /\ flying \in Nat /\ applied \in Nat /\ (~wanted => remote.f # "want")
  BY DEF WInv, WriteTyped, KeySound
<1>7. Sends(w, 1)
  BY <1>2, <1>3, <1>4, <1>5, <1>6 DEF Sends
<1> QED
  BY <1>7, SendsStep

\* A request that is answered.
LEMMA SendDoneStep == ASSUME WInv, NEW w \in Writers, SendDone(w) PROVE WInv' /\ Sticks
<1>1. PICK a \in {"confirmed", "readback"} : a = (IF TrustsAnswer THEN "confirmed" ELSE "readback")
  OBVIOUS
<1>2. remote' = [remote EXCEPT !.f = "want"] /\ applied' = applied + 1 /\ wanted' = TRUE
  BY DEF SendDone, Apply
<1>3. remote \in Doc /\ flying \in Nat /\ applied \in Nat
  BY DEF WInv, WriteTyped
<1>4. remote' \in Doc /\ remote'.o = remote.o
  BY <1>2, <1>3 DEF Doc
<1> DEFINE c == [writer[w] EXCEPT !.at = a, !.outcome = "done", !.graph = remote']
<1>5. writer' = [writer EXCEPT ![w] = c]
  BY <1>1 DEF SendDone
<1>6. /\ c \in Call /\ c.at = a /\ c.outcome = "done" /\ c.payload = writer[w].payload /\ c.seen = writer[w].seen
      /\ c.pre = writer[w].pre /\ c.gen = writer[w].gen /\ c.recovers = writer[w].recovers /\ c.graph = remote'
  BY ZenonT(60), <1>1, <1>4 DEF WInv, WriteTyped, Call, Stations
<1> HIDE DEF c
<1>7. writer' \in [Writers -> Call] /\ writer'[w] = c /\ \A v \in Writers \ {w} : writer'[v] = writer[v]
  BY <1>5, <1>6 DEF WInv, WriteTyped
<1>8. UNCHANGED <<command, row, flying, cached, told, writeCounts>> /\ MaySend(w)
  BY DEF SendDone
<1>9. sent' = sent + 1 /\ payloads' \in {payloads, payloads \union {writer[w].payload}}
  BY DEF SendDone, Departs
<1>10. Sends(w, 1)
  BY <1>2, <1>3, <1>4, <1>6, <1>7, <1>8, <1>9 DEF Sends
<1> QED
  BY <1>10, SendsStep

-----------------------------------------------------------------------------
(* The rest of the world. *)

Outside ==
    /\ UNCHANGED <<command, row, cached, writer, sent, payloads, told, gens, writes, faults>>
    /\ remote' \in Doc /\ remote'.o <= edits' /\ edits' \in Nat /\ edits' <= MaxEdits
    /\ flying' \in Nat /\ applied' \in Nat /\ applied' + flying' = applied + flying
    /\ wanted' \in BOOLEAN /\ (wanted => wanted') /\ (~wanted' => remote'.f # "want")

\* What happens outside keeps everything.
LEMMA OutsideStep == ASSUME WInv, Outside PROVE WInv' /\ Sticks
<1>1. WriteTyped'
  BY DEF Outside, WInv, WriteTyped
<1>2. (Guarded <=> Guarded') /\ (Claims <=> Claims') /\ (Free <=> Free') /\ (Underway <=> Underway') /\ (Closed <=> Closed')
      /\ \A v \in Writers : Live(v) <=> Live(v)'
  BY DEF Outside, Guarded, Claims, Free, Underway, Closed, Live
<1>3. SuccessIsPublished' /\ Sticks
  BY DEF Outside, WInv, KeySound, SuccessIsPublished, Sticks, Succeeded
<1>4. KeySound'
  BY <1>2, <1>3 DEF Outside, WInv, WriteTyped, KeySound
<1>5. ASSUME NEW v \in Writers PROVE Carries(v)' /\ Belongs(v)'
  BY <1>2 DEF WInv, Outside, Carries, Belongs
<1>6. OneLive'
  BY <1>2 DEF WInv, OneLive
<1> QED
  BY <1>1, <1>3, <1>4, <1>5, <1>6 DEF WInv

\* A lost request takes effect.
LEMMA LandStep == ASSUME WInv, Land PROVE WInv' /\ Sticks
<1>1. remote' = [remote EXCEPT !.f = "want"] /\ applied' = applied + 1 /\ wanted' = TRUE /\ flying' = flying - 1
      /\ flying > 0
  BY DEF Land, Apply
<1>2. remote \in Doc /\ flying \in Nat /\ applied \in Nat /\ edits \in Nat /\ remote.o <= edits /\ edits <= MaxEdits
  BY DEF WInv, WriteTyped, KeySound
<1>3. remote' \in Doc /\ remote'.o = remote.o
  BY <1>1, <1>2 DEF Doc
<1>4. Outside
  BY <1>1, <1>2, <1>3 DEF Land, Outside, writeCounts
<1> QED
  BY <1>4, OutsideStep

\* Somebody else changes the object.
LEMMA OutsideEditStep == ASSUME WInv, OutsideEdit PROVE WInv' /\ Sticks
<1>1. remote \in Doc /\ flying \in Nat /\ applied \in Nat /\ edits \in Nat /\ remote.o <= edits /\ edits < MaxEdits
      /\ wanted \in BOOLEAN /\ (~wanted => remote.f # "want") /\ edits' = edits + 1 /\ MaxEdits \in Nat
  BY WriteAssumption DEF OutsideEdit, WInv, WriteTyped, KeySound
<1>2. UNCHANGED <<command, row, flying, cached, writer, sent, applied, payloads, told, gens, writes, faults>>
  BY DEF OutsideEdit
<1>3. CASE \E f \in {"other", "want"} \ {remote.f} :
             /\ remote' = [remote EXCEPT !.f = f]
             /\ wanted' = (wanted \/ f = "want")
  <2>1. PICK f \in {"other", "want"} : remote' = [remote EXCEPT !.f = f] /\ wanted' = (wanted \/ f = "want")
    BY <1>3
  <2>2. remote' \in Doc /\ remote'.o = remote.o /\ remote'.f = f
    BY <1>1, <2>1 DEF Doc
  <2>3. wanted' \in BOOLEAN /\ (wanted => wanted') /\ (~wanted' => remote'.f # "want")
    BY <1>1, <2>1, <2>2
  <2>4. remote'.o <= edits' /\ edits' \in Nat /\ edits' <= MaxEdits
    BY <1>1, <2>2 DEF Doc
  <2>5. Outside
    BY <1>1, <1>2, <2>2, <2>3, <2>4 DEF Outside
  <2> QED
    BY <2>5, OutsideStep
<1>4. CASE remote' = [remote EXCEPT !.o = @ + 1] /\ UNCHANGED wanted
  <2>1. remote' \in Doc /\ remote'.o = remote.o + 1 /\ remote'.f = remote.f
    BY <1>1, <1>4 DEF Doc
  <2>2. remote'.o <= edits' /\ edits' \in Nat /\ edits' <= MaxEdits
    BY <1>1, <2>1 DEF Doc
  <2>3. Outside
    BY <1>1, <1>2, <1>4, <2>1, <2>2 DEF Outside
  <2> QED
    BY <2>3, OutsideStep
<1> QED
  BY <1>3, <1>4 DEF OutsideEdit

-----------------------------------------------------------------------------
(* All steps, and what follows. *)

\* Every step keeps the invariant and what has succeeded.
LEMMA WInvNext == WInv /\ [WriteNext]_writeVars => WInv' /\ Sticks
<1> SUFFICES ASSUME WInv, [WriteNext]_writeVars PROVE WInv' /\ Sticks
  OBVIOUS
<1>1. ASSUME NEW w \in Writers, WriteStep(w) PROVE WInv' /\ Sticks
  BY <1>1, ReplayAnswerStep, LookupStep, ClaimStep, ReadPreimageStep, PreflightFailsStep, ClaimConflictStep,
     ClaimBreaksStep, SendRefusedStep, SendLostStep, SendDoneStep, SendAgainStep, SkipMergeStep, FailStep,
     ReadBackStep, RecoverStep, ReconcileStep, RepairStep, RepairCacheStep, RepairFailsStep, RepairDoneStep,
     StageStep, SettleAtomicallyStep, StageGenerationStep, StageBreaksStep, PublishGenerationStep,
     PublishGenerationFailsStep, FinishGenerationStep, FinishBreaksStep, RecordSuccessStep, RecordBreaksStep,
     PublishStep, PublishFailsStep, WriterCrashStep
  DEF WriteStep
<1>2. CASE Land
  BY <1>2, LandStep
<1>3. CASE OutsideEdit
  BY <1>3, OutsideEditStep
<1>4. CASE UNCHANGED writeVars
  <2>1. Outside
    BY <1>4 DEF writeVars, writeState, writeGhosts, writeCounts, Outside, WInv, WriteTyped, KeySound
  <2> QED
    BY <2>1, OutsideStep
<1> QED
  BY <1>1, <1>2, <1>3, <1>4 DEF WriteNext

\* The receipt, the object and every call have their types, for any number of
\* calls, payloads, edits and faults.
THEOREM WriteTypesHold == WriteSpec => []WriteTypeOK
<1>1. WInv => WriteTypeOK
  BY DEF WInv, WriteTyped, KeySound, Carries, WriteTypeOK, Maybe
<1> QED
  BY <1>1, WInvInit, WInvNext, PTL DEF WriteSpec

\* A key sends one payload: a set of payloads that has at most one element.
LEMMA WInvSentOnce == WInv => SentOnce
<1> SUFFICES ASSUME WInv PROVE SentOnce
  OBVIOUS
<1>1. ChangedOnce
  BY DEF WInv, WriteTyped, KeySound, ChangedOnce
<1>2. FencedSentOnce
  BY DEF WInv, KeySound, FencedSentOnce
<1>3. ASSUME Guarded PROVE Cardinality(payloads) <= 1
  <2>1. PICK p : payloads \subseteq {p}
    BY <1>3, GuardedClaims DEF WInv, KeySound
  <2>2. payloads = {} \/ payloads = {p}
    BY <2>1
  <2>3. Cardinality({}) = 0 /\ Cardinality({p}) = 1
    BY FS_EmptySet, FS_Singleton
  <2> QED
    BY <2>2, <2>3
<1> QED
  BY <1>1, <1>2, <1>3 DEF SentOnce, OnePayload

\* However many calls race for a key, die, fail, are refused or go unanswered,
\* and whatever others do to the object, the write is made once, with one
\* payload, and is told and recorded for good as what became of it.
THEOREM WritesAreSound == WriteSpec => RemoteWriteIsSound
<1>1. WInv => SuccessIsTrue
  BY DEF WInv, KeySound, SuccessIsTrue, SuccessIsReal
<1>2. WInv /\ [WriteNext]_writeVars => WInv'
  BY WInvNext
<1>3. WInv /\ [WriteNext]_writeVars => [(Succeeded /\ command \notin Unfenced \union {"update-pr"})
                                         => row'.status = "succeeded"]_writeVars
  BY WInvNext DEF Sticks
<1>4. WriteSpec => []WInv
  BY WInvInit, <1>2, PTL DEF WriteSpec
<1>5. WriteSpec => []SentOnce
  BY <1>4, WInvSentOnce, PTL
<1>6. WriteSpec => []SuccessIsTrue
  BY <1>4, <1>1, PTL
<1>7. WriteSpec => SuccessSticks
  BY <1>4, <1>3, PTL DEF WriteSpec, SuccessSticks
<1> QED
  BY <1>5, <1>6, <1>7 DEF RemoteWriteIsSound
=============================================================================
