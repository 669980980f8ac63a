--------------------------- MODULE ObservationLog ---------------------------
(* The ledger of observations: producers that never wait, one writer that  *)
(* numbers events and appends them to rotating segments, a checkpoint that *)
(* reserves sequence numbers ahead, restarts that are clean, unclean or    *)
(* find damaged files, and a reader that follows a cursor.                 *)
EXTENDS Naturals, Sequences, SequencesExt, FiniteSetsExt

CONSTANTS
  Slots,        \* ledger segments
  SegmentSize,  \* events in a segment (SegmentBytes)
  MaxBacklog,     \* MaxEvents
  Ahead,      \* sequence numbers a checkpoint reserves (255)
  MaxEmits,     \* events that are emitted
  MaxBoots,     \* starts of the collector
  MaxFaults,    \* appends, checkpoints and files that fail
  MaxTotal,     \* emissions, starts and failures together
  NoEvent       \* nothing being written

ASSUME LogBounds ==
    /\ Slots \in Nat \ {0, 1} /\ SegmentSize \in Nat \ {0} /\ Ahead \in Nat
    /\ {MaxBacklog, MaxEmits, MaxBoots, MaxFaults, MaxTotal} \subseteq Nat

VARIABLES
  life,        \* of the process: down, initializing, running, closing, closed
  stored,       \* whether openStorage succeeded
  first,        \* events run() writes before it looks at the queue: Boot, PriorBootUnclean
  backlog,        \* admitted events: their identities
  pendingLoss,  \* rejected by contention and not yet folded in
  coverage,     \* Coverage: state and loss epoch
  generation,
  sequence,
  events,       \* retained in memory, read in the order of their numbers
  writing,      \* the event between its number and its append
  storageFailed,
  unwound,      \* cleanRequested
  reserved,     \* storage.reserved
  state,        \* storage.state, as the process holds it
  stateLeaf,    \* the state leaf on disk
  segments,     \* the ledger files
  manifest,     \* segmentState of each file at the last seal
  reader,       \* the cursor a reader holds, and whether it has skipped an event
  published,    \* ghost: every event ever published
  lost,         \* ghost: an event of this ledger was lost
  spent         \* emissions, boots, faults, identities and generations so far

memVars == <<life, stored, first, backlog, pendingLoss, coverage, generation, sequence, events, writing, storageFailed, unwound, reserved, state>>
fileVars == <<stateLeaf, segments, manifest>>
logVars == <<memVars, fileVars, reader, published, lost, spent>>

Segments == 0..(Slots - 1)
Meta(g, q, e, p, c) == [found |-> TRUE, gen |-> g, seq |-> q, epoch |-> e, partial |-> p, clean |-> c, torn |-> FALSE]
NoMeta == [found |-> FALSE, gen |-> 0, seq |-> 0, epoch |-> 0, partial |-> FALSE, clean |-> FALSE, torn |-> FALSE]
NoCursor == [gen |-> 0, epoch |-> 0, pos |-> 0]
LastSeq(s) == IF s = <<>> THEN 0 ELSE s[Len(s)].seq
Entry(q, i) == [seq |-> q, id |-> i]

LogInit ==
    /\ life = "down" /\ stored = FALSE /\ first = 0 /\ backlog = <<>> /\ pendingLoss = 0
    /\ coverage = [state |-> "initializing", epoch |-> 0]
    /\ generation = 0 /\ sequence = 0 /\ events = {} /\ writing = NoEvent
    /\ storageFailed = FALSE /\ unwound = FALSE /\ reserved = 0
    /\ state = NoMeta /\ stateLeaf = NoMeta
    /\ segments = [i \in Segments |-> <<>>] /\ manifest = [i \in Segments |-> <<>>]
    /\ reader = [cursor |-> NoCursor, state |-> "none", skipped |-> FALSE]
    /\ published = {} /\ lost = FALSE
    /\ spent = [emits |-> 0, boots |-> 0, faults |-> 0, ids |-> 0, gens |-> 0]

\* The bounds also cap the sum of what they count.
Bounded == spent.emits + spent.boots + spent.faults < MaxTotal
Fault == Bounded /\ spent.faults < MaxFaults

-----------------------------------------------------------------------------
(* Producers. *)

\* foldLossLocked.
Folded(c) == IF pendingLoss = 0 THEN c ELSE [state |-> "partial", epoch |-> c.epoch + pendingLoss]
LosesOne(c) == [state |-> "partial", epoch |-> c.epoch + 1]

\* A new collector takes events at once; the ledger is opened beside it.
NewCollector ==
    /\ life = "down" /\ Bounded /\ spent.boots < MaxBoots
    /\ life' = "initializing"
    /\ spent' = [spent EXCEPT !.boots = @ + 1]
    /\ first' = 0 /\ backlog' = <<>> /\ pendingLoss' = 0 /\ coverage' = [state |-> "initializing", epoch |-> 0]
    /\ generation' = 0 /\ sequence' = 0 /\ events' = {} /\ writing' = NoEvent
    /\ storageFailed' = FALSE /\ unwound' = FALSE /\ reserved' = 0 /\ stored' = FALSE
    /\ UNCHANGED <<state, fileVars, reader, published, lost>>

\* What an event loses counts once the ledger is open.
Counts == life = "running" /\ stored

Emit ==
    /\ life \in {"initializing", "running"} /\ Bounded /\ spent.emits < MaxEmits
    /\ spent' = [spent EXCEPT !.emits = @ + 1, !.ids = @ + 1]
    /\ pendingLoss' = 0
    /\ IF Len(backlog) >= MaxBacklog
       THEN coverage' = LosesOne(Folded(coverage)) /\ lost' = (lost \/ Counts) /\ UNCHANGED backlog
       ELSE coverage' = Folded(coverage) /\ backlog' = Append(backlog, spent.ids + 1) /\ UNCHANGED lost
    /\ UNCHANGED <<life, stored, first, generation, sequence, events, writing, storageFailed, unwound, reserved, state, fileVars, reader, published>>

\* TryLock fails: a reader or the writer holds the collector.
EmitContended ==
    /\ life \in {"initializing", "running"} /\ Bounded /\ spent.emits < MaxEmits
    /\ spent' = [spent EXCEPT !.emits = @ + 1, !.ids = @ + 1]
    /\ pendingLoss' = pendingLoss + 1
    /\ lost' = (lost \/ Counts)
    /\ UNCHANGED <<life, stored, first, backlog, coverage, generation, sequence, events, writing, storageFailed, unwound, reserved, state, fileVars, reader, published>>

-----------------------------------------------------------------------------
(* openStorage: what the files say, and what is missing from them. *)

OnDisk == UNION {ToSet(segments[i]) : i \in Segments}
Observed == Max({0} \union {e.seq : e \in OnDisk})
\* A sequence number that is missing between two that are there.
Gap == \E e \in OnDisk : /\ \E d \in OnDisk : d.seq < e.seq
                         /\ \A d \in OnDisk : d.seq + 1 # e.seq
Differs == stateLeaf.clean /\ segments # manifest
Behind == stateLeaf.clean /\ stateLeaf.seq > Observed
NewLoss == \/ stateLeaf.torn \/ Differs \/ Behind \/ Observed > stateLeaf.seq
           \/ ~stateLeaf.partial /\ Gap
\* Mutant: a boot that was not closed counts only if numbers are missing.
UncleanIgnored == stateLeaf.found /\ ~stateLeaf.clean /\ Gap
Unclean == stateLeaf.found /\ ~stateLeaf.clean
Recovered ==
    LET fresh == ~stateLeaf.found \/ Unclean
    IN Meta(IF fresh THEN spent.gens + 1 ELSE stateLeaf.gen,
            Max({stateLeaf.seq, Observed}),
            IF fresh \/ NewLoss THEN stateLeaf.epoch + 1 ELSE stateLeaf.epoch,
            stateLeaf.partial \/ NewLoss \/ (fresh /\ (Unclean \/ OnDisk # {})),
            FALSE)

\* Boot is the first event, and PriorBootUnclean the next.
OpenStorage ==
    /\ life = "initializing"
    /\ state' = Recovered /\ stateLeaf' = Recovered
    /\ life' = "running" /\ stored' = TRUE
    /\ generation' = Recovered.gen /\ sequence' = Recovered.seq
    /\ events' = OnDisk
    /\ coverage' = [state |-> IF Recovered.partial \/ pendingLoss > 0 \/ coverage.state = "partial" THEN "partial" ELSE "ready",
                    epoch |-> Folded(coverage).epoch + Recovered.epoch]
    /\ pendingLoss' = 0
    /\ spent' = [spent EXCEPT !.gens = IF Recovered.gen > @ THEN @ + 1 ELSE @]
    /\ first' = IF Unclean THEN 2 ELSE 1
    /\ UNCHANGED <<backlog, writing, storageFailed, unwound, reserved, segments, manifest, reader, published, lost>>

\* It fails (the lock is taken, a file is not private): the collector goes on
\* in memory, under a generation of its own.
OpenFails ==
    /\ life = "initializing" /\ Fault
    /\ life' = "running" /\ stored' = FALSE
    /\ generation' = spent.gens + 1
    /\ coverage' = LosesOne(Folded(coverage)) /\ pendingLoss' = 0
    /\ first' = 1
    /\ spent' = [spent EXCEPT !.gens = @ + 1, !.faults = @ + 1]
    /\ UNCHANGED <<backlog, sequence, events, writing, storageFailed, unwound, reserved, state, fileVars, reader, published, lost>>

-----------------------------------------------------------------------------
(* The writer. *)

\* write(), up to the append: the number is taken, and the coverage so far
\* goes into the state a checkpoint would publish.
BeginWrite(id, then) ==
    /\ writing = NoEvent
    /\ sequence' = sequence + 1
    /\ writing' = [seq |-> sequence + 1, id |-> id, then |-> then]
    /\ coverage' = Folded(coverage) /\ pendingLoss' = 0
    /\ state' = IF stored THEN [state EXCEPT !.epoch = Folded(coverage).epoch, !.partial = Folded(coverage).state # "ready"] ELSE state

WriteFirst ==
    /\ life \in {"running", "closing"} /\ first > 0
    /\ BeginWrite(spent.ids + 1, "first")
    /\ spent' = [spent EXCEPT !.ids = @ + 1]
    /\ UNCHANGED <<life, stored, first, backlog, generation, events, storageFailed, unwound, reserved, fileVars, reader, published, lost>>

WriteNext ==
    /\ life \in {"running", "closing"} /\ first = 0 /\ backlog # <<>>
    /\ BeginWrite(Head(backlog), "queue")
    /\ UNCHANGED <<life, stored, first, backlog, generation, events, storageFailed, unwound, reserved, fileVars, reader, published, lost, spent>>

\* storage.append: a checkpoint reserves numbers before the first of them is
\* published; a full segment gives way to the oldest one, emptied.
NeedsReserve == writing.seq > reserved
Slot == CHOOSE i \in Segments : \A j \in Segments : LastSeq(segments[j]) <= LastSeq(segments[i])
Rotates == Len(segments[Slot]) >= SegmentSize
Into == IF Rotates THEN (Slot + 1) % Slots ELSE Slot
Emptied == IF Rotates THEN [segments EXCEPT ![Into] = <<>>] ELSE segments
Reservation == [state EXCEPT !.seq = writing.seq + Ahead, !.clean = FALSE]

\* The copies the readers see: what the segments no longer hold is dropped,
\* and so are the oldest of too many.
Retained(evicted, e) ==
    LET kept == {x \in events : x.seq > evicted} \union {e}
    IN {x \in kept : Cardinality({y \in kept : y.seq > x.seq}) < Slots * SegmentSize}

FinishWrite(outcome) ==
    LET e == Entry(writing.seq, writing.id)
        saved == stored /\ outcome = "ok"
        evicted == IF stored /\ Rotates /\ outcome # "unreserved" THEN LastSeq(segments[Into]) ELSE 0
    IN
    /\ writing # NoEvent
    /\ \/ outcome = "ok" /\ UNCHANGED spent
       \/ outcome # "ok" /\ stored /\ Fault /\ spent' = [spent EXCEPT !.faults = @ + 1]
    /\ IF stored /\ NeedsReserve /\ outcome # "unreserved"
       THEN state' = Reservation /\ stateLeaf' = Reservation /\ reserved' = Reservation.seq
       ELSE UNCHANGED <<state, stateLeaf, reserved>>
    /\ segments' = CASE ~stored \/ outcome = "unreserved" -> segments
                     [] stored /\ outcome = "unwritten" -> Emptied
                     [] OTHER -> [Emptied EXCEPT ![Into] = Append(@, e)]
    /\ events' = Retained(evicted, e)
    /\ coverage' = IF outcome = "ok" THEN coverage ELSE LosesOne(coverage)
    /\ storageFailed' = IF outcome = "ok" THEN storageFailed /\ ~stored ELSE TRUE
    /\ lost' = (lost \/ outcome # "ok")
    /\ published' = published \union {[gen |-> generation, seq |-> e.seq, id |-> e.id]}
    /\ writing' = NoEvent
    /\ backlog' = IF writing.then = "queue" THEN Tail(backlog) ELSE backlog
    /\ first' = IF writing.then = "first" THEN first - 1 ELSE first
    /\ life' = IF writing.then = "seal" THEN "sealing" ELSE life
    /\ UNCHANGED <<stored, pendingLoss, generation, sequence, unwound, manifest, reader>>

-----------------------------------------------------------------------------
(* The end of a process. *)

\* Close: the pending losses are folded and the scalar is sealed.
Close ==
    /\ life = "running"
    /\ life' = "closing"
    /\ coverage' = Folded(coverage) /\ pendingLoss' = 0
    /\ \E clean \in BOOLEAN : unwound' = clean
    /\ UNCHANGED <<stored, first, backlog, generation, sequence, events, writing, storageFailed, reserved, state, fileVars, reader, published, lost, spent>>

\* The backlog is drained; the last event says how the boot ended.
LastEvent ==
    /\ life = "closing" /\ first = 0 /\ backlog = <<>> /\ writing = NoEvent
    /\ writing' = [seq |-> sequence + 1, id |-> spent.ids + 1, then |-> "seal"]
    /\ sequence' = sequence + 1
    /\ LET c == IF unwound THEN coverage ELSE LosesOne(coverage) IN
         /\ coverage' = c
         /\ state' = IF stored THEN [state EXCEPT !.epoch = c.epoch, !.partial = c.state # "ready"] ELSE state
    /\ spent' = [spent EXCEPT !.ids = @ + 1]
    /\ UNCHANGED <<life, stored, first, backlog, pendingLoss, generation, events, storageFailed, unwound, reserved, fileVars, reader, published, lost>>

\* sealManifest, syncFiles and the last checkpoint.  A manifest or a sync that
\* fails keeps the boot from being clean; so does a checkpoint that fails.
Seal(fails) ==
    /\ life = "sealing"
    /\ life' = "closed"
    /\ LET c == IF fails = "none" THEN coverage ELSE LosesOne(coverage)
           final == Meta(generation, sequence, c.epoch, c.state # "ready", unwound /\ ~storageFailed /\ fails = "none")
       IN /\ coverage' = c
          /\ \/ fails = "none" /\ UNCHANGED spent
             \/ fails # "none" /\ stored /\ Fault /\ spent' = [spent EXCEPT !.faults = @ + 1]
          /\ IF stored
             THEN /\ manifest' = IF fails = "manifest" THEN manifest ELSE segments
                  /\ state' = final
                  /\ stateLeaf' = IF fails = "checkpoint" THEN stateLeaf ELSE final
             ELSE UNCHANGED <<manifest, state, stateLeaf>>
    /\ UNCHANGED <<stored, first, backlog, pendingLoss, generation, sequence, events, writing, storageFailed, unwound, reserved, segments, reader, published, lost>>

\* The process is gone: after its close, or at any other time.  What was
\* admitted and not written is lost, and so may be the unsynced end of a
\* segment; a death inside a checkpoint leaves the other leaf torn.
Leaves ==
    /\ life' = "down" /\ events' = {} /\ first' = 0 /\ backlog' = <<>> /\ writing' = NoEvent /\ pendingLoss' = 0
    /\ coverage' = [state |-> "initializing", epoch |-> 0] /\ generation' = 0 /\ sequence' = 0 /\ stored' = FALSE
    /\ storageFailed' = FALSE /\ unwound' = FALSE /\ reserved' = 0 /\ state' = NoMeta

Exit == life = "closed" /\ Leaves /\ UNCHANGED <<fileVars, reader, published, lost, spent>>

Crash ==
    /\ life \in {"initializing", "running", "closing", "sealing"}
    /\ Leaves
    /\ \E i \in Segments : \E n \in 0..Len(segments[i]) :
         segments' = IF stored THEN [segments EXCEPT ![i] = SubSeq(@, 1, n)] ELSE segments
    /\ \E torn \in BOOLEAN : stateLeaf' = [stateLeaf EXCEPT !.torn = @ \/ torn]
    /\ lost' = (lost \/ (stored /\ (first > 0 \/ backlog # <<>> \/ writing # NoEvent \/ segments' # segments)))
    /\ UNCHANGED <<manifest, reader, published, spent>>

\* While no process runs a file is cut short or removed, or the leaf is
\* overwritten.
Damage ==
    /\ life = "down" /\ Fault /\ stateLeaf.found
    /\ spent' = [spent EXCEPT !.faults = @ + 1]
    /\ \/ \E i \in Segments : \E n \in 0..(Len(segments[i]) - 1) :
            segments' = [segments EXCEPT ![i] = SubSeq(@, 1, n)] /\ lost' = TRUE /\ UNCHANGED stateLeaf
       \/ stateLeaf' = [NoMeta EXCEPT !.torn = TRUE] /\ UNCHANGED <<segments, lost>>
    /\ UNCHANGED <<memVars, manifest, reader, published>>

-----------------------------------------------------------------------------
(* A reader. *)

Latest == Max({0} \union {e.seq : e \in events})
Earliest == IF events = {} THEN 1 ELSE Min({e.seq : e \in events})

\* query: a page of one event past a position (a longer page is several of
\* them); the ghost notes a published event of the generation it goes past.
Page(from, skipped) ==
    LET later == {e.seq : e \in {x \in events : x.seq > from}}
        upto == IF later = {} THEN from ELSE Min(later)
    IN
    /\ reader' = [cursor |-> [gen |-> generation, epoch |-> Folded(coverage).epoch, pos |-> upto],
                  state |-> Folded(coverage).state,
                  skipped |-> skipped \/ \E p \in published :
                      /\ p.gen = generation /\ from < p.seq /\ p.seq <= upto
                      /\ Entry(p.seq, p.id) \notin events]
    /\ coverage' = Folded(coverage) /\ pendingLoss' = 0

Readable == life \in {"running", "closing", "sealing", "closed"} /\ ~(events = {} /\ Folded(coverage).state = "ready")

Snapshot ==
    /\ Readable
    /\ Page(Earliest - 1, FALSE)
    /\ UNCHANGED <<life, stored, first, backlog, generation, sequence, events, writing, storageFailed, unwound, reserved, state, fileVars, published, lost, spent>>

\* snapshot_required and invalid_cursor leave the reader to start again.
Continues ==
    /\ reader.cursor.gen = generation /\ reader.cursor.epoch = Folded(coverage).epoch
    /\ reader.cursor.pos <= Latest /\ reader.cursor.pos + 1 >= Earliest
Follow ==
    /\ Readable /\ reader.cursor # NoCursor
    /\ IF Continues THEN Page(reader.cursor.pos, reader.skipped)
       ELSE reader' = [cursor |-> NoCursor, state |-> "none", skipped |-> FALSE]
            /\ coverage' = Folded(coverage) /\ pendingLoss' = 0
    /\ UNCHANGED <<life, stored, first, backlog, generation, sequence, events, writing, storageFailed, unwound, reserved, state, fileVars, published, lost, spent>>

-----------------------------------------------------------------------------
LogNext ==
    \/ NewCollector \/ Emit \/ EmitContended \/ OpenStorage \/ OpenFails
    \/ WriteFirst \/ WriteNext \/ \E o \in {"ok", "unreserved", "unwritten", "unmirrored"} : FinishWrite(o)
    \/ Close \/ LastEvent \/ \E f \in {"none", "manifest", "checkpoint"} : Seal(f)
    \/ Exit \/ Crash \/ Damage \/ Snapshot \/ Follow

LogSpec == LogInit /\ [][LogNext]_logVars

LogTypeOK ==
    /\ life \in {"down", "initializing", "running", "closing", "sealing", "closed"}
    /\ Len(backlog) <= MaxBacklog /\ first \in 0..2 /\ coverage.state \in {"initializing", "ready", "partial"}
    /\ sequence \in Nat /\ stateLeaf.seq \in Nat /\ Cardinality(events) <= Slots * SegmentSize
    /\ \A i \in Segments : Len(segments[i]) <= SegmentSize

-----------------------------------------------------------------------------
\* A sequence number names one event of its generation, whatever crashed.
NumbersAreUnique == \A p, q \in published : p.gen = q.gen /\ p.seq = q.seq => p.id = q.id

\* A reader that is never told to take a new snapshot has seen every event
\* between its snapshot and its position; only where an append had failed and
\* the page said that coverage is partial may one be missing.
NothingSkipped == reader.skipped => reader.state = "partial" /\ spent.faults > 0

\* Coverage is ready only if no event of the ledger was lost.
ReadyIsComplete == coverage.state = "ready" /\ pendingLoss = 0 /\ stored => ~lost

\* daemon-observation.md: the ledger never claims continuous coverage after an
\* unclean restart, rotation or loss.
LedgerIsHonest == LogTypeOK /\ NumbersAreUnique /\ NothingSkipped /\ ReadyIsComplete
=============================================================================
