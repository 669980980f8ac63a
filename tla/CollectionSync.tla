--------------------------- MODULE CollectionSync ---------------------------
(***************************************************************************)
(* How one issue collection of a repository is mirrored into the cache.    *)
(*                                                                         *)
(* The provider lists records newest change first, in pages.  Two readers  *)
(* follow it: a foreground sync, which stores each page as it is listed,   *)
(* and the daemon, which lists one page per job, stages it, and commits    *)
(* it later in one transaction.  Both may stop early at a record older     *)
(* than the watermark, the newest change of the last traversal recorded    *)
(* as complete; the daemon resumes long passes at a page checkpoint.       *)
(*                                                                         *)
(* A record is known by the stamp of its last change; 0 means it does not  *)
(* exist (remotely) or is not cached (locally).                            *)
(***************************************************************************)
EXTENDS Integers, FiniteSets, Sequences, SequencesExt, FiniteSetsExt

CONSTANTS
    Records,     \* the records of the collection
    PerPage,     \* list page size
    MaxStamp,    \* bound on remote changes
    MaxRuns,     \* bound on foreground runs
    Caps,        \* values of --max-records a foreground run may carry; 0: none
    MayFail,     \* single records of a page may fail to be stored
    MayOverlap   \* a foreground run or a reset may fall between a daemon fetch and its commit

ASSUME CollectionAssumption ==
    /\ IsFiniteSet(Records)
    /\ PerPage \in Nat \ {0}
    /\ {MaxStamp, MaxRuns} \subseteq Nat
    /\ Caps \subseteq Nat
    /\ {MayFail, MayOverlap} \subseteq BOOLEAN

VARIABLES
    remote,    \* record -> stamp of its last change at the provider
    cached,    \* record -> stamp of the revision in the cache
    frontier,  \* sync_frontiers row: [status, high]
    lanes,     \* maintenance_frontiers rows: lane -> [status, page]
    run,       \* foreground run: [on, page, mark, high, cap]
    slice,     \* daemon stage: [on, lane, items, stop, high, next, began]
    began,     \* history: lane -> newest stamp when its pass listed page 1, 0 once a page was partial
    runs       \* foreground runs so far

collectionVars == <<remote, cached, frontier, lanes, run, slice, began, runs>>

Lanes == {"head", "tail"}
Stops == {"watermark", "end_of_collection", "bounded", "partial"}
NoRun == [on |-> FALSE, page |-> 0, mark |-> 0, high |-> 0, cap |-> 0]
NoSlice == [on |-> FALSE, lane |-> "head", items |-> <<>>, stop |-> "partial",
            high |-> 0, began |-> 0, next |-> [status |-> "none", page |-> 0]]

Stamps == 0..MaxStamp
Newest == Max({remote[r] : r \in Records} \union {0})

------------------------------------------------------------------------------
(* The provider's list: newest change first, cut into pages. *)

OnList == {r \in Records : remote[r] # 0}
Position(r) == Cardinality({x \in OnList : remote[x] >= remote[r]})
Listing == [i \in 1..Cardinality(OnList) |-> CHOOSE r \in OnList : Position(r) = i]

CutLoose(items, n) == SubSeq(items, 1, Min({n + 1, Len(items)}))
Cut(items, n) == SubSeq(items, 1, Min({n, Len(items)}))
Page(p) == Cut(SubSeq(Listing, Min({(p - 1) * PerPage, Len(Listing)}) + 1, Len(Listing)), PerPage)

(* The newest stamp of a page, and the mark kept so far. *)
Highest(items, high) == Max({remote[r] : r \in Range(items)} \union {high})

(* The watermark a traversal may stop at; 0 when it must not stop early. *)
CompleteWatermark == IF frontier.status = "complete" THEN frontier.high ELSE 0

\* The items that are not older than a mark: a page is sorted, so they lead it.
AtOrAbove(items, mark) ==
    SubSeq(items, 1, Cardinality({i \in DOMAIN items : remote[items[i]] >= mark}))

(* Why a traversal ends at this page; "more" if it does not. *)
StopAt(items, mark, otherwise) ==
    IF AtOrAbove(items, mark) # items THEN "watermark"
    ELSE IF Len(items) < PerPage THEN "end_of_collection"
    ELSE otherwise

FrontierAfter(stop, high) ==
    LET complete == stop \in {"watermark", "end_of_collection"} IN
    IF ~complete /\ frontier.status = "complete" THEN frontier
    ELSE [status |-> IF complete THEN "complete" ELSE "open", high |-> high]

CollectionInit ==
    /\ remote = [r \in Records |-> 0]
    /\ cached = [r \in Records |-> 0]
    /\ frontier = [status |-> "none", high |-> 0]
    /\ lanes = [l \in Lanes |-> [status |-> "none", page |-> 0]]
    /\ run = NoRun
    /\ slice = NoSlice
    /\ began = [l \in Lanes |-> 0]
    /\ runs = 0

(* Somebody creates or edits a record at the provider: it moves to the front. *)
RemoteChange(r) ==
    /\ Newest < MaxStamp
    /\ remote' = [remote EXCEPT ![r] = Newest + 1]
    /\ UNCHANGED <<cached, frontier, lanes, run, slice, began, runs>>

------------------------------------------------------------------------------
(* Foreground sync: it holds the cache writer from start to end. *)

StartRun(cap) ==
    /\ ~run.on
    /\ runs < MaxRuns
    /\ MayOverlap \/ ~slice.on
    /\ runs' = runs + 1
    /\ run' = [NoRun EXCEPT !.on = TRUE, !.page = 1, !.mark = CompleteWatermark, !.cap = cap]
    /\ UNCHANGED <<remote, cached, frontier, lanes, slice, began>>

(* Records already cached at the listed revision do not use up the cap. *)
Advances(items) == {i \in DOMAIN items : cached[items[i]] # remote[items[i]]}
Processed(items, cap, bad) ==
    {i \in DOMAIN items :
       cap = 0 \/ Cardinality({j \in Advances(items) : j < i /\ items[j] \notin bad}) < cap}

Store(stored) == cached' = [r \in Records |-> IF r \in stored THEN remote[r] ELSE cached[r]]

FinishRun(stop, high) ==
    /\ frontier' = FrontierAfter(stop, high)
    /\ run' = NoRun

(* One page: list, drop what is below the watermark, store the rest record   *)
(* by record until the cap is used up, and decide whether to go on.          *)
ListPage ==
    /\ run.on
    /\ \E bad \in IF MayFail THEN SUBSET Records ELSE {{}} :
         LET listed == Page(run.page)
             items == AtOrAbove(listed, run.mark)
             high == Highest(listed, run.high)
             taken == Processed(items, run.cap, bad)
             advanced == {i \in Advances(items) \intersect taken : items[i] \notin bad}
             capped == run.cap # 0 /\ (taken # DOMAIN items \/ Cardinality(advanced) = run.cap)
             stop == StopAt(listed, run.mark, IF capped THEN "bounded" ELSE "more")
         IN /\ bad \subseteq Range(items)
            /\ Store({items[i] : i \in taken} \ bad)
            /\ IF stop # "more" THEN FinishRun(stop, high)
               ELSE /\ run' = [run EXCEPT !.page = @ + 1, !.high = high,
                                 !.cap = IF @ = 0 THEN 0 ELSE @ - Cardinality(advanced)]
                    /\ UNCHANGED frontier
    /\ UNCHANGED <<remote, lanes, slice, began, runs>>

(* The page bound is reached, the run is cancelled or times out, or the      *)
(* provider fails; a partly received page is stored as far as it goes.       *)
RunStops(received) ==
    /\ run.on
    /\ LET items == AtOrAbove(Cut(Page(run.page), received), run.mark) IN
         /\ Store({items[i] : i \in Processed(items, run.cap, {})})
         /\ FinishRun("bounded", Highest(items, run.high))
    /\ UNCHANGED <<remote, lanes, slice, began, runs>>

(* The process dies in the middle of a page. *)
RunCrashes(stored) ==
    /\ run.on
    /\ LET items == AtOrAbove(Page(run.page), run.mark) IN
         Store({items[i] : i \in {j \in Processed(items, run.cap, {}) : j <= stored}})
    /\ run' = NoRun
    /\ UNCHANGED <<remote, frontier, lanes, slice, began, runs>>

(* cache reset --live: the mirror and its watermark go, the lanes stay. *)
ResetLive ==
    /\ ~run.on
    /\ MayOverlap \/ ~slice.on
    /\ runs < MaxRuns
    /\ runs' = runs + 1
    /\ cached' = [r \in Records |-> 0]
    /\ frontier' = [status |-> "none", high |-> 0]
    /\ began' = [l \in Lanes |-> 0]
    /\ UNCHANGED <<remote, lanes, run, slice>>

------------------------------------------------------------------------------
(* The daemon's lanes. *)

(* A fresh head is due again once its interval has passed. *)
HeadDueOnce == lanes["head"].status = "none"
HeadDue == lanes["head"].status # "fresh"
Lapse ==
    /\ lanes["head"].status = "fresh"
    /\ lanes' = [lanes EXCEPT !["head"].status = "due"]
    /\ UNCHANGED <<remote, cached, frontier, run, slice, began, runs>>

NextLane ==
    IF HeadDue THEN "head"
    ELSE IF lanes["tail"].status # "complete" THEN "tail" ELSE "none"

(* A pass that is not being continued starts at page 1. *)
StartPage(l) == Max({1, lanes[l].page})

(* The maintenance frontier a slice will leave, prepared when it is staged.  *)
LaneSkipsAhead(l, page, stop, degraded) ==
    LET complete == stop \in {"watermark", "end_of_collection"}
    IN [status |-> IF complete THEN IF l = "tail" THEN "complete" ELSE "fresh" ELSE "partial",
        page |-> IF complete THEN 0 ELSE page + 2]
LaneAfter(l, page, stop, degraded) ==
    LET complete == stop \in {"watermark", "end_of_collection"}
        ahead == IF complete THEN 0 ELSE page + 1
    IN [status |-> IF degraded THEN "degraded"
                   ELSE IF l = "tail" THEN IF complete THEN "complete" ELSE "backfilling"
                   ELSE IF complete THEN "fresh" ELSE "partial",
        page |-> IF l = "tail" /\ ~complete THEN Max({ahead, lanes[l].page}) ELSE ahead]

(* Fetch one page.  A partial response keeps the records received, but not   *)
(* the reason to stop; without any record left there is nothing to stage.    *)
FetchSlice(received) ==
    LET l == NextLane
        page == StartPage(l)
        whole == Page(page)
        listed == Cut(whole, received)
        kept == AtOrAbove(listed, CompleteWatermark)
        degraded == received < Len(whole)
        stop == IF degraded THEN "partial" ELSE StopAt(listed, CompleteWatermark, "bounded")
    IN /\ ~slice.on
       /\ l # "none"
       /\ MayOverlap \/ ~run.on
       /\ received <= Len(whole)
       /\ degraded => kept # <<>>
       /\ slice' = [on |-> TRUE, lane |-> l, stop |-> stop, high |-> Highest(listed, 0),
                    items |-> [r \in Range(kept) |-> remote[r]],
                    next |-> LaneAfter(l, page, stop, degraded),
                    began |-> IF degraded THEN 0 ELSE IF page = 1 THEN Newest ELSE began[l]]
       /\ UNCHANGED <<remote, cached, frontier, lanes, run, began, runs>>

FetchPage == FetchSlice(Len(Page(StartPage(NextLane))))

(* The stage is committed: records, watermark and lane in one transaction.   *)
(* Nothing compares the staged revisions with those in the cache.            *)
CommitSlice ==
    /\ slice.on
    /\ ~run.on
    /\ cached' = [r \in Records |-> IF r \in DOMAIN slice.items THEN slice.items[r] ELSE cached[r]]
    /\ frontier' = FrontierAfter(slice.stop, slice.high)
    /\ lanes' = [lanes EXCEPT ![slice.lane] = slice.next]
    /\ began' = [began EXCEPT ![slice.lane] = slice.began]
    /\ slice' = NoSlice
    /\ UNCHANGED <<remote, run, runs>>

(* The stage is rejected, cancelled or cannot be replayed. *)
DropSlice ==
    /\ slice.on
    /\ slice' = NoSlice
    /\ UNCHANGED <<remote, cached, frontier, lanes, run, began, runs>>

CollectionNext ==
    \/ \E r \in Records : RemoteChange(r)
    \/ \E cap \in Caps : StartRun(cap)
    \/ ListPage
    \/ \E n \in 0..(PerPage - 1) : RunStops(n) \/ RunCrashes(n)
    \/ ResetLive
    \/ Lapse
    \/ \E n \in 0..PerPage : FetchSlice(n)
    \/ CommitSlice
    \/ DropSlice

(* A reader keeps reading, the scheduler keeps fetching, a stage is not      *)
(* rejected for ever, and the head's interval passes.                        *)
CollectionFairness ==
    /\ WF_collectionVars(ListPage)
    /\ WF_collectionVars(FetchPage)
    /\ SF_collectionVars(CommitSlice)
    /\ WF_collectionVars(Lapse)

CollectionSpec == CollectionInit /\ [][CollectionNext]_collectionVars
CollectionLiveSpec == CollectionSpec /\ CollectionFairness

------------------------------------------------------------------------------
(* Every variable keeps its type; a stage holds at most one page. *)
CollectionTypeOK ==
    /\ remote \in [Records -> Stamps]
    /\ cached \in [Records -> Stamps]
    /\ frontier \in [status : {"none", "open", "complete"}, high : Stamps]
    /\ DOMAIN lanes = Lanes
    /\ \A l \in Lanes : /\ lanes[l].status \in {"none", "fresh", "due", "partial", "degraded",
                                              "backfilling", "complete"}
                       /\ lanes[l].page \in Nat
    /\ run \in [on : BOOLEAN, page : Nat, mark : Stamps, high : Stamps, cap : Caps \union 0..Max(Caps)]
    /\ slice.on \in BOOLEAN /\ slice.lane \in Lanes /\ slice.stop \in Stops /\ slice.high \in Stamps
    /\ DOMAIN slice.items \subseteq Records /\ Cardinality(DOMAIN slice.items) <= PerPage
    /\ began \in [Lanes -> Stamps]
    /\ runs \in 0..MaxRuns

(* A complete frontier lets every later traversal skip what is older than    *)
(* its mark, so the cache must hold the current revision of all of that:     *)
(* whatever changed, crashed, was cancelled or resumed at a page meanwhile.  *)
WatermarkIsSound ==
    frontier.status = "complete" =>
        \A r \in Records : (remote[r] # 0 /\ remote[r] < frontier.high) => cached[r] = remote[r]

(* A head lane is reported fresh, and a tail complete, only when the pass    *)
(* met every record that existed when the pass began: records that move      *)
(* between pages from one job to the next are not lost in between.           *)
PassMeetsAll ==
    \A l \in Lanes : lanes[l].status \in {"fresh", "due", "complete"} =>
        \A r \in Records : (remote[r] # 0 /\ remote[r] <= began[l]) => cached[r] = remote[r]

(* What a frontier or a lane claims of the collection, the cache holds       *)
(* (service.go, the watermark; sync_jobs.go, checkpointPage).                *)
CollectionIsSound == WatermarkIsSound /\ PassMeetsAll

(* Once the provider is quiet and answers in full, the mirror becomes, and   *)
(* stays, exact, whatever earlier partial pages and dropped stages left.     *)
ProviderSettles == <>[](slice.on => slice.stop # "partial")
CacheCatchesUp == ProviderSettles => <>[](cached = remote)
=============================================================================
