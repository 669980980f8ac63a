--------------------------- MODULE ProviderWrites ---------------------------
(* The write half of the HTTP client: one call is a preflight read for the *)
(* operations that have one, a request sent once or with retries, and a    *)
(* read of the canonical record before the answer.  Requests and answers   *)
(* may be lost and a request may arrive after its call has given up;       *)
(* other users edit the same records all the while.                        *)
EXTENDS Naturals, FiniteSets, Sequences

CONSTANTS
  Doers,          \* concurrent calls
  MaxResends,     \* HTTPClient.maxRetries: further attempts of a retried request
  MaxOthers,      \* edits by others
  MaxLost,        \* requests or answers the network spoils
  PushMidMerge,   \* others push between a merge's preflight and its request
  NoCommit        \* no preimage

ASSUME ClientBounds == {MaxResends, MaxOthers, MaxLost} \subseteq Nat /\ PushMidMerge \in BOOLEAN

VARIABLES
  op,             \* the operation of each call
  step,           \* where it stands in the client's code
  tries,          \* requests sent so far (attempt)
  flagged,        \* mutationAttempted / attempted
  preimage,       \* the record its preflight read
  seen,           \* what its readback holds so far
  reply,          \* what the caller was told
  wire,           \* requests on their way: <<call, try>>
  back,           \* what came back for the current try
  record,         \* the issue or pull request at the provider
  page,           \* the wiki page at the provider: the body of each revision
  entries,        \* comments and replies: who wrote each
  spent           \* edits by others and spoiled messages so far

callVars     == <<op, step, tries, flagged, preimage, seen, reply>>
providerVars == <<record, page, entries>>
clientVars == <<callVars, wire, back, providerVars, spent>>

\* A label and a milestone are created the way a pull request is.
Operations == {"create-issue", "create-pr", "comment", "update-issue", "update-pr", "merge-pr", "reply", "wiki", "wiki-delete"}
Creates == {"create-issue", "create-pr", "comment", "reply"}

\* opts.singleTransportAttempt and requestOptions.noRetry.
SentOnceOnly == {"create-pr", "comment", "update-issue", "update-pr", "merge-pr", "wiki"}
Attempts(o) == IF o \in SentOnceOnly THEN 1 ELSE MaxResends + 1

\* The operations that read before they write, and those that read after.
Preflights == {"update-issue", "update-pr", "merge-pr", "reply", "wiki", "wiki-delete"}
ReadsBack  == {"create-pr", "update-issue", "update-pr", "merge-pr", "reply", "wiki", "wiki-delete"}

\* A title is the call that wrote it, or the original or another user's edit;
\* the same for the milestone an update leaves out and for a page's body.
Other == "other"
Authors == Doers \union {"first", Other}
Opened == [title |-> "first", milestone |-> "first", head |-> "first", state |-> "open"]
Page(r, b) == [rev |-> r, body |-> b]
Nothing == "nothing"
ASSUME CallsAreNoOthers == Doers \cap {"first", Other, Nothing} = {}
Current == Page(Len(page), page[Len(page)])
Gone == Current.body = Nothing

\* What came back for a request, and what a caller is told.
Answer(s) == [status |-> s, id |-> 0]
Confirmed(how, what) == [kind |-> how, of |-> what]

\* What a preflight finds for the operation.
Preimage(o) ==
    CASE o \in {"update-issue", "update-pr", "merge-pr"} -> record
      [] o \in {"wiki", "wiki-delete"} -> Current
      [] OTHER -> NoCommit

ClientInit ==
    /\ op \in [Doers -> Operations]
    /\ step = [c \in Doers |-> IF op[c] \in Preflights THEN "preflight" ELSE "send"]
    /\ tries = [c \in Doers |-> 0]
    /\ flagged = [c \in Doers |-> FALSE]
    /\ preimage = [c \in Doers |-> NoCommit]
    /\ seen = [c \in Doers |-> NoCommit]
    /\ reply = [c \in Doers |-> Confirmed("none", Nothing)]
    /\ wire = {}
    /\ back = [c \in Doers |-> Answer("none")]
    /\ record = Opened
    /\ page = <<"first">>
    /\ entries = <<>>
    /\ spent = [others |-> 0, lost |-> 0]

-----------------------------------------------------------------------------
(* The end of a call. *)

Tell(c, answer) ==
    /\ reply' = [reply EXCEPT ![c] = answer]
    /\ step' = [step EXCEPT ![c] = "done"]

\* ErrWriteMutationPhase: whether the mutation was attempted is what the
\* caller decides by.  The retried operations return the bare error.
Failed(c) == [kind |-> IF flagged[c] THEN "attempted" ELSE "untouched", of |-> Nothing]

\* Anything that fails before the request: a read, or the caller's context.
GiveUp(c) ==
    /\ step[c] \in {"preflight", "send"} /\ tries[c] = 0 /\ spent.lost < MaxLost
    /\ spent' = [spent EXCEPT !.lost = @ + 1]
    /\ Tell(c, Failed(c))
    /\ UNCHANGED <<op, tries, flagged, preimage, seen, wire, back, providerVars>>

\* GetIssue, GetPR, getWikiMetadata or ListPRComments before the mutation.  A
\* merge names the head that was reviewed (req.HeadSHA); a merged pull request
\* and a reply already there are answered at once; a page that is gone cannot
\* be updated or deleted.
Stale(o) == \/ o = "merge-pr" /\ record.head # "first"
            \/ o \in {"wiki", "wiki-delete"} /\ Gone
Existing(o) == \/ o = "merge-pr" /\ record.state = "merged"
               \/ o = "reply" /\ \E i \in DOMAIN entries : entries[i].reply

Preflight(c) ==
    /\ step[c] = "preflight"
    /\ preimage' = [preimage EXCEPT ![c] = Preimage(op[c])]
    /\ CASE Stale(op[c]) -> Tell(c, Failed(c))
         [] ~Stale(op[c]) /\ Existing(op[c]) -> Tell(c, Confirmed("existing", op[c]))
         [] OTHER -> step' = [step EXCEPT ![c] = "send"] /\ UNCHANGED reply
    /\ UNCHANGED <<op, tries, flagged, seen, wire, back, providerVars, spent>>

-----------------------------------------------------------------------------
(* bytesWithOptions: one request, and what comes back for it. *)

\* do(): beforeAttempt runs before client.Do, so that the flag is never late.
Send(c) ==
    /\ step[c] = "send"
    /\ flagged' = [flagged EXCEPT ![c] = TRUE]
    /\ tries' = [tries EXCEPT ![c] = @ + 1]
    /\ wire' = wire \union {<<c, tries[c] + 1>>}
    /\ back' = [back EXCEPT ![c] = Answer("none")]
    /\ step' = [step EXCEPT ![c] = "await"]
    /\ UNCHANGED <<op, preimage, seen, reply, providerVars, spent>>

\* The provider applies a request, whether or not its call still waits.  An
\* issue update carries the milestone its preflight read: the provider clears
\* the one that is left out.  A page is replaced or deleted only at the
\* revision the request names.
Refused(c) ==
    \/ op[c] \in {"wiki", "wiki-delete"} /\ (Gone \/ Len(page) # preimage[c].rev)
    \/ op[c] \in {"update-issue", "update-pr", "merge-pr"} /\ record.state = "merged"

Apply(c) ==
    /\ record' = CASE op[c] = "update-issue" -> [record EXCEPT !.title = c, !.milestone = preimage[c].milestone]
                   [] op[c] = "update-pr" -> [record EXCEPT !.title = c]
                   [] op[c] = "merge-pr" -> [record EXCEPT !.state = "merged"]
                   [] OTHER -> record
    /\ page' = CASE op[c] = "wiki" -> Append(page, c)
                 [] op[c] = "wiki-delete" -> Append(page, Nothing)
                 [] OTHER -> page
    /\ entries' = IF op[c] \in Creates
                  THEN Append(entries, [by |-> c, reply |-> op[c] = "reply"])
                  ELSE entries

\* The answer of a create names the record made.
Receipt(c) == [status |-> "ok", id |-> IF op[c] \in Creates THEN Len(entries) + 1 ELSE 0]

\* The answer reaches the call, if it still waits for this try.
Reaches(c, n, answer) ==
    back' = IF step[c] = "await" /\ tries[c] = n /\ back[c].status = "none"
            THEN [back EXCEPT ![c] = answer] ELSE back

Arrive(c, n) ==
    /\ <<c, n>> \in wire
    /\ wire' = wire \ {<<c, n>>}
    /\ \/ /\ Refused(c)
          /\ Reaches(c, n, Answer("refused"))
          /\ UNCHANGED <<providerVars, spent>>
       \/ /\ ~Refused(c) /\ Apply(c)
          /\ Reaches(c, n, Receipt(c))
          /\ UNCHANGED spent
       \/ /\ ~Refused(c) /\ Apply(c) /\ spent.lost < MaxLost  \* applied, then 5xx, cut off or garbled
          /\ \E s \in {"broken", "garbled"} : Reaches(c, n, Answer(s))
          /\ spent' = [spent EXCEPT !.lost = @ + 1]
       \/ /\ spent.lost < MaxLost                            \* 429 or 5xx before it was applied
          /\ Reaches(c, n, Answer("broken"))
          /\ spent' = [spent EXCEPT !.lost = @ + 1]
          /\ UNCHANGED providerVars
    /\ UNCHANGED callVars

\* A timeout: the request stays on its way.
TimesOut(c) ==
    /\ step[c] = "await" /\ back[c].status = "none" /\ spent.lost < MaxLost
    /\ back' = [back EXCEPT ![c] = Answer("broken")]
    /\ spent' = [spent EXCEPT !.lost = @ + 1]
    /\ UNCHANGED <<callVars, wire, providerVars>>

\* A mutant: requestOptions.noRetry is not looked at.
AgainAlways(c) ==
    /\ step[c] = "await" /\ back[c].status = "broken" /\ tries[c] <= MaxResends
    /\ step' = [step EXCEPT ![c] = "send"]
    /\ UNCHANGED <<op, tries, flagged, preimage, seen, reply, wire, back, providerVars, spent>>

\* A transport error, 429, 5xx or a body cut short with attempts left: the
\* loop goes round.
Again(c) ==
    /\ step[c] = "await" /\ back[c].status \in {"broken", "garbled"}
    /\ tries[c] < Attempts(op[c])
    /\ step' = [step EXCEPT ![c] = "send"]
    /\ UNCHANGED <<op, tries, flagged, preimage, seen, reply, wire, back, providerVars, spent>>

\* The attempts are used up, or the answer is an error of its own.  An update
\* of a pull request reads back after an answer it cannot decode
\* (isWriteAcknowledgementDecodeError), and a wiki write does not decode the
\* answer at all, though a body cut short is an error to it too.
Unanswered(c) ==
    /\ step[c] = "await"
    /\ \/ back[c].status = "broken" /\ tries[c] >= Attempts(op[c])
       \/ back[c].status = "refused"
       \/ back[c].status = "garbled" /\ op[c] # "update-pr"
    /\ Tell(c, Failed(c))
    /\ UNCHANGED <<op, tries, flagged, preimage, seen, wire, back, providerVars, spent>>

Acknowledged(c) ==
    /\ step[c] = "await"
    /\ \/ back[c].status = "ok"
       \/ back[c].status = "garbled" /\ op[c] \in {"update-pr", "wiki"}
    /\ IF op[c] \in ReadsBack
       THEN step' = [step EXCEPT ![c] = "readback"] /\ UNCHANGED reply
       ELSE Tell(c, Confirmed("confirmed", back[c].id))
    /\ UNCHANGED <<op, tries, flagged, preimage, seen, wire, back, providerVars, spent>>

-----------------------------------------------------------------------------
(* The canonical readback. *)

\* confirmPullRequestUpdate and the checks of UpdateIssue: what was asked for
\* is there, and what was left out is what it was.
CreateConfirmed(c) == back[c].id \in DOMAIN entries /\ entries[back[c].id].by = c
UpdateConfirmed(c) == record.title = c /\ record.milestone = preimage[c].milestone
Reads(c) ==
    CASE op[c] \in {"create-pr", "reply"} -> CreateConfirmed(c)
      [] op[c] \in {"update-issue", "update-pr"} -> UpdateConfirmed(c)
      [] op[c] = "merge-pr" -> record.state = "merged"
      [] op[c] = "wiki-delete" -> Gone
      [] OTHER -> FALSE

ReadBack(c) ==
    /\ step[c] = "readback" /\ op[c] # "wiki"
    /\ Tell(c, IF Reads(c)
               THEN Confirmed("confirmed", IF op[c] \in {"create-pr", "reply"} THEN back[c].id ELSE record)
               ELSE Failed(c))
    /\ UNCHANGED <<op, tries, flagged, preimage, seen, wire, back, providerVars, spent>>

ReadFails(c) ==
    /\ step[c] \in {"readback", "raw", "recheck"} /\ spent.lost < MaxLost
    /\ spent' = [spent EXCEPT !.lost = @ + 1]
    /\ Tell(c, Failed(c))
    /\ UNCHANGED <<op, tries, flagged, preimage, seen, wire, back, providerVars>>

\* confirmWikiWrite: the metadata names a revision; when it carries no content
\* the raw body is a second read, and the revision is read once more after it.
ReadMetadata(c) ==
    /\ step[c] = "readback" /\ op[c] = "wiki"
    /\ \/ Gone /\ Tell(c, Failed(c)) /\ UNCHANGED seen
       \/ /\ ~Gone                                            \* the content comes with it
          /\ Tell(c, IF Current.body = c THEN Confirmed("confirmed", Current) ELSE Failed(c))
          /\ UNCHANGED seen
       \/ /\ ~Gone                                            \* it does not
          /\ seen' = [seen EXCEPT ![c] = Page(Len(page), Nothing)]
          /\ step' = [step EXCEPT ![c] = "raw"] /\ UNCHANGED reply
    /\ UNCHANGED <<op, tries, flagged, preimage, wire, back, providerVars, spent>>

ReadRaw(c) ==
    /\ step[c] = "raw"
    /\ \/ Gone /\ Tell(c, Failed(c)) /\ UNCHANGED seen
       \/ /\ ~Gone
          /\ seen' = [seen EXCEPT ![c].body = Current.body]
          /\ step' = [step EXCEPT ![c] = "recheck"] /\ UNCHANGED reply
    /\ UNCHANGED <<op, tries, flagged, preimage, wire, back, providerVars, spent>>

\* A mutant: the page is read again but its revision not compared.
AnyRevision(c) == ~Gone

SameRevision(c) == ~Gone /\ Len(page) = seen[c].rev
Recheck(c) ==
    /\ step[c] = "recheck"
    /\ Tell(c, IF SameRevision(c) /\ seen[c].body = c THEN Confirmed("confirmed", seen[c]) ELSE Failed(c))
    /\ UNCHANGED <<op, tries, flagged, preimage, seen, wire, back, providerVars, spent>>

-----------------------------------------------------------------------------
\* Another user edits the record, or edits or deletes the page or puts an
\* earlier body back.
OthersEdit ==
    /\ spent.others < MaxOthers
    /\ spent' = [spent EXCEPT !.others = @ + 1]
    /\ \/ /\ record.state = "open"
          /\ \E f \in {"title", "milestone", "head"} :
               /\ f = "head" /\ ~PushMidMerge => \A c \in Doers : op[c] # "merge-pr" \/ step[c] \in {"preflight", "done"}
               /\ record' = [record EXCEPT ![f] = Other]
          /\ UNCHANGED page
       \/ /\ \E b \in {Other, Nothing} \union {page[i] : i \in DOMAIN page} : page' = Append(page, b)
          /\ UNCHANGED record
    /\ UNCHANGED <<callVars, wire, back, entries>>

ClientNext ==
    \/ \E c \in Doers :
         \/ GiveUp(c) \/ Preflight(c) \/ Send(c) \/ TimesOut(c) \/ Again(c) \/ Unanswered(c)
         \/ Acknowledged(c) \/ ReadBack(c) \/ ReadFails(c) \/ ReadMetadata(c) \/ ReadRaw(c) \/ Recheck(c)
    \/ \E r \in wire : Arrive(r[1], r[2])
    \/ OthersEdit

ClientSpec == ClientInit /\ [][ClientNext]_clientVars

-----------------------------------------------------------------------------
Steps == {"preflight", "send", "await", "readback", "raw", "recheck", "done"}
ClientTypeOK ==
    /\ op \in [Doers -> Operations] /\ step \in [Doers -> Steps]
    /\ \A c \in Doers : tries[c] \in 0..Attempts(op[c])
    /\ flagged \in [Doers -> BOOLEAN]
    /\ wire \subseteq Doers \X (1..(MaxResends + 1))
    /\ record \in [title : Authors, milestone : {"first", Other}, head : {"first", Other}, state : {"open", "merged"}]
    /\ page \in Seq(Authors \union {Nothing})

-----------------------------------------------------------------------------
(* What a caller may conclude from the answer. *)

RecordsBy(c) == {i \in DOMAIN entries : entries[i].by = c}
VersionsBy(c) == {i \in DOMAIN page : page[i] = c}

\* ErrWriteMutationPhase with MutationAttempted false means what it says:
\* nothing of the call has reached or will ever reach the provider.
UntouchedIsTrue ==
    \A c \in Doers : reply[c].kind = "untouched" =>
        RecordsBy(c) = {} /\ VersionsBy(c) = {} /\ record.title # c /\ \A r \in wire : r[1] # c

\* A confirmed write is at the provider under the identity and the revision it
\* reports; a merge is of the head that was reviewed; what an update left out is what its preflight read; a reported
\* revision of a page has the body that was written.
ConfirmedIsTrue ==
    \A c \in Doers : reply[c].kind = "confirmed" =>
        CASE op[c] \in Creates -> reply[c].of \in RecordsBy(c)
          [] op[c] \in {"update-issue", "update-pr"} ->
               reply[c].of.title = c /\ reply[c].of.milestone = preimage[c].milestone
          [] op[c] = "merge-pr" -> record.state = "merged" /\ record.head = "first"
          [] op[c] = "wiki" -> page[reply[c].of.rev] = c
          [] OTHER -> \E i \in DOMAIN page : i > preimage[c].rev /\ page[i] = Nothing

\* An operation that is sent once takes effect at most once, however the
\* network answers.
SentOnceStaysOnce ==
    \A c \in Doers : op[c] \in SentOnceOnly => Cardinality(RecordsBy(c)) <= 1

\* http_client.go: what the client tells its caller about a write is true of
\* the provider, whatever is lost, repeated, late or edited meanwhile.
ClientIsTruthful == UntouchedIsTrue /\ ConfirmedIsTrue /\ SentOnceStaysOnce
=============================================================================
