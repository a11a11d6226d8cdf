--------------------------- MODULE ExecutionJournal ---------------------------
(***************************************************************************)
(* The execution journal (orchestration/journal.rs): the events every      *)
(* canonical mutation appends inside its own transaction, the durable      *)
(* boundary (head, floor, anchor, digest) that numbers them, pruning, what *)
(* an open reconciles, the deltas a consumer is served, and the projection *)
(* a consumer rebuilds from a snapshot and the events after it.            *)
(*                                                                         *)
(* Events are abstracted to what the projection does with them: a keyed    *)
(* row is replaced by its post-state (named by the event's cursor), a      *)
(* dependency edge is added or removed, evidence is appended to a list.    *)
(* The environment may lose journal rows outside the module, a prefix or a *)
(* suffix of them, once there is a boundary: what ensure_schema reconciles. *)
(***************************************************************************)
EXTENDS Integers, Sequences, SequencesExt, FiniteSetsExt

CONSTANTS
    Jobs,        \* the streams delta_for_job filters
    Consumers,   \* the readers that rebuild a projection
    MaxHead,     \* bound: events ever appended
    MaxRead,     \* MAX_EVENT_READ: events one delta may carry
    MaxLosses,   \* bound: times rows vanish outside the module
    MaxFetches,  \* bound: deltas one consumer holds on to
    NoMeta,      \* a database from before the boundary row existed
    NoAnchor

JournalAssumption == /\ MaxHead \in Nat \ {0} /\ MaxRead \in Nat \ {0}
                            /\ MaxLosses \in Nat /\ MaxFetches \in Nat

VARIABLES
    canon,       \* the canonical rows: rows, edges, evidence
    events,      \* domain_events: the retained events
    meta,        \* the row of domain_journal_meta
    open,        \* the database has been opened (ensure_schema has run)
    losses,      \* times rows were lost outside the module
    past,        \* history: every event ever appended, and canon after it
    view,        \* the projection of each consumer and its cursor
    fetched      \* the deltas each consumer has read, applied or not

vars == <<canon, events, meta, open, losses, past, view, fetched>>

INITIAL_CURSOR == 0

Seqs(E) == {e.seq : e \in E}
Highest(E) == Max(Seqs(E) \cup {0})
Lowest(E) == IF E = {} THEN 0 ELSE Min(Seqs(E))
InOrder(E) == SetToSortSeq(E, LAMBDA a, b : a.seq < b.seq)
First(s, n) == IF Len(s) > n THEN SubSeq(s, 1, n) ELSE s

Empty == [rows |-> [j \in Jobs |-> 0], edges |-> {}, evidence |-> <<>>]

Kinds == {"put", "add", "remove", "evidence"}
Event(seq, kind, job) == [seq |-> seq, kind |-> kind, job |-> job]

-----------------------------------------------------------------------------
\* The boundary.

\* boundary_digest binds the three fields; two digests are equal iff they are.
Digest(head, floor, anchor) == <<head, floor, anchor>>

Meta(head, floor, anchor) ==
    [head |-> head, floor |-> floor, anchor |-> anchor, digest |-> Digest(head, floor, anchor)]

AnchorFrom(E, seq) == IF seq \in Seqs(E) THEN seq ELSE NoAnchor

FloorIsRetained(E, m) ==
    \/ m.floor = INITIAL_CURSOR
    \/ m.floor = Lowest({e \in E : e.seq >= m.floor})
    \/ m.floor > m.head /\ {e \in E : e.seq >= m.floor} = {}

BoundaryReads(E, m) == m.digest = Digest(m.head, m.floor, m.anchor) /\ FloorIsRetained(E, m)

Readable == open /\ BoundaryReads(events, meta)

\* Mutation: the head is taken from the rows that are stored.
ReconciledFromRows ==
    Meta(Highest(events), IF meta = NoMeta THEN INITIAL_CURSOR ELSE meta.floor, NoAnchor)

\* ensure_schema, on every open.
Reconciled ==
    IF meta = NoMeta THEN Meta(Highest(events), INITIAL_CURSOR, NoAnchor)
    ELSE LET head == Max({meta.head, Highest(events)})
             low == Lowest(events)
         IN  IF low = 0 /\ head > 0
             THEN LET floor == Max({head + 1, meta.floor})
                  IN  Meta(head, floor, AnchorFrom(events, floor - 1))
             ELSE IF meta.floor = INITIAL_CURSOR /\ low > 1
                  THEN Meta(head, low, AnchorFrom(events, low - 1))
                  ELSE Meta(head, meta.floor, meta.anchor)

-----------------------------------------------------------------------------
\* What a reader is served.

Served(outcome, evs) == [outcome |-> outcome, events |-> evs]

\* Mutation: the floor is not compared with what the consumer still needs.
BeforeEventsAnyFloor(after) ==
    IF after > meta.head THEN Served("AheadOfHead", <<>>)
    ELSE IF after = meta.head THEN Served("Empty", <<>>)
    ELSE Served("Available", <<>>)

BeforeEvents(after) ==
    IF ~BoundaryReads(events, meta) THEN Served("Error", <<>>)
    ELSE IF after > meta.head THEN Served("AheadOfHead", <<>>)
    ELSE IF after + 1 < meta.floor THEN Served("ResyncRequired", <<>>)
    ELSE IF after = meta.head THEN Served("Empty", <<>>)
    ELSE Served("Available", <<>>)

ReadAfter(E, after) == First(InOrder({e \in E : e.seq > after}), MaxRead)

\* Mutation: what the read finds is served, wherever it starts.
DeltaUnchecked(after) ==
    LET answer == BeforeEvents(after)
        read == ReadAfter(events, after)
    IN  IF answer.outcome # "Available" THEN answer
        ELSE IF read = <<>> THEN Served("Empty", <<>>) ELSE Served("Available", read)

DeltaAfter(after) ==
    LET answer == BeforeEvents(after)
        read == ReadAfter(events, after)
    IN  IF answer.outcome # "Available" THEN answer
        ELSE IF read = <<>> THEN Served("ResyncRequired", <<>>)
        ELSE IF read[1].seq # after + 1 THEN Served("Error", <<>>)
        ELSE Served("Available", read)

DeltaForJob(job, after) ==
    LET answer == BeforeEvents(after)
    IN  IF answer.outcome # "Available" THEN answer
        ELSE Served("Available", ReadAfter({e \in events : e.job = job}, after))

\* ExecutionProjection::reduce
Reduce(state, e) ==
    CASE e.kind = "put" -> [state EXCEPT !.rows[e.job] = e.seq]
      [] e.kind = "add" -> [state EXCEPT !.edges = @ \cup {e.job}]
      [] e.kind = "remove" -> [state EXCEPT !.edges = @ \ {e.job}]
      [] e.kind = "evidence" -> [state EXCEPT !.evidence = Append(@, e.job)]

\* Mutation: an event already applied is applied again.
ApplyTwice(projection, e) ==
    [cursor |-> Max({e.seq, projection.cursor}), state |-> Reduce(projection.state, e)]

\* ExecutionProjection::apply: a duplicate is ignored, and so is, here, a gap.
Apply(projection, e) ==
    IF e.seq = projection.cursor + 1
    THEN [cursor |-> e.seq, state |-> Reduce(projection.state, e)]
    ELSE projection

\* replay: application stops at the first gap.
RECURSIVE Replay(_, _)
Replay(projection, evs) ==
    IF evs = <<>> \/ evs[1].seq > projection.cursor + 1 THEN projection
    ELSE Replay(Apply(projection, evs[1]), Tail(evs))

-----------------------------------------------------------------------------
Init ==
    \E legacy \in 0..1, job \in Jobs :
        LET old == {Event(seq, "put", job) : seq \in 1..legacy}
            after == IF legacy = 0 THEN Empty ELSE [Empty EXCEPT !.rows[job] = 1]
        IN  /\ canon = after
            /\ events = old
            /\ past = [seq \in 1..legacy |-> [event |-> Event(seq, "put", job), after |-> after]]
            /\ meta = NoMeta
            /\ open = FALSE
            /\ losses = 0
            /\ view = [c \in Consumers |-> [cursor |-> INITIAL_CURSOR, state |-> Empty]]
            /\ fetched = [c \in Consumers |-> {}]

Open ==
    /\ ~open
    /\ open' = TRUE
    /\ meta' = Reconciled
    /\ UNCHANGED <<canon, events, losses, past, view, fetched>>

\* The process ends, at any point between two transactions.
Crash ==
    /\ open
    /\ open' = FALSE
    /\ UNCHANGED <<canon, events, meta, losses, past, view, fetched>>

\* The canonical row a mutation writes.
Written(kind, job, seq) ==
    CASE kind = "put" -> [canon EXCEPT !.rows[job] = seq]
      [] kind = "add" -> [canon EXCEPT !.edges = @ \cup {job}]
      [] kind = "remove" -> [canon EXCEPT !.edges = @ \ {job}]
      [] kind = "evidence" -> [canon EXCEPT !.evidence = Append(@, job)]

\* journal::append, in the caller's transaction: the cursor is the durable
\* counter's, and the digest is bound again to the advanced head.
AppendEvent(e) ==
    /\ meta' = Meta(e.seq, meta.floor, meta.anchor)
    /\ events' = events \cup {e}

\* One canonical mutation: its row and the event emitted for it commit together.
Mutate(kind, job) ==
    /\ open /\ meta.head < MaxHead
    /\ kind = "remove" => job \in canon.edges
    /\ LET seq == meta.head + 1
       IN  /\ canon' = Written(kind, job, seq)
           /\ AppendEvent(Event(seq, kind, job))
           /\ past' = Append(past, [event |-> Event(seq, kind, job), after |-> canon'])
    /\ UNCHANGED <<open, losses, view, fetched>>

\* Mutation: the digest is not bound again to the moved floor.
PruneUnbound(keep_from) ==
    /\ Readable
    /\ keep_from <= meta.head /\ keep_from > meta.floor
    /\ events' = {e \in events : e.seq >= keep_from}
    /\ meta' = [meta EXCEPT !.floor = keep_from]
    /\ UNCHANGED <<canon, open, losses, past, view, fetched>>

Prune(keep_from) ==
    /\ Readable
    /\ keep_from # INITIAL_CURSOR /\ keep_from <= meta.head /\ keep_from > meta.floor
    /\ LET kept == {e \in events : e.seq >= keep_from}
           moved == Meta(meta.head, keep_from, AnchorFrom(events, keep_from - 1))
       IN  /\ FloorIsRetained(kept, moved)
           /\ events' = kept
           /\ meta' = moved
    /\ UNCHANGED <<canon, open, losses, past, view, fetched>>

\* Rows vanish outside the module: a prefix or a suffix of the retained ones.
LoseRows(kept) ==
    /\ losses < MaxLosses /\ meta # NoMeta
    /\ kept # events
    /\ events' = kept
    /\ losses' = losses + 1
    /\ UNCHANGED <<canon, meta, open, past, view, fetched>>

Remainders == {{e \in events : e.seq > n} : n \in Seqs(events)}
                  \cup {{e \in events : e.seq < n} : n \in Seqs(events)}

-----------------------------------------------------------------------------
\* A consumer.

Fetch(c) ==
    /\ open
    /\ Cardinality(fetched[c]) < MaxFetches
    /\ LET reply == DeltaAfter(view[c].cursor)
       IN  /\ reply.outcome = "Available"
           /\ fetched' = [fetched EXCEPT ![c] = @ \cup {reply.events}]
    /\ UNCHANGED <<canon, events, meta, open, losses, past, view>>

\* A delta read some time ago is applied, for the first time or again.
ApplyDelta(c, batch) ==
    /\ batch \in fetched[c]
    /\ view' = [view EXCEPT ![c] = Replay(@, batch)]
    /\ UNCHANGED <<canon, events, meta, open, losses, past, fetched>>

\* ExecutionProjection::from(snapshot)
FromSnapshot(cursor, rows) == [cursor |-> cursor, state |-> rows]

\* The rows and the cursor are read in one transaction.
Snapshot(c) ==
    /\ Readable
    /\ DeltaAfter(view[c].cursor).outcome \in {"ResyncRequired", "AheadOfHead", "Error"}
    /\ view' = [view EXCEPT ![c] = FromSnapshot(meta.head, canon)]
    /\ UNCHANGED <<canon, events, meta, open, losses, past, fetched>>

Next ==
    \/ Open \/ Crash
    \/ \E kind \in Kinds, job \in Jobs : Mutate(kind, job)
    \/ \E keep_from \in 1..MaxHead : Prune(keep_from)
    \/ \E kept \in Remainders : LoseRows(kept)
    \/ \E c \in Consumers : Fetch(c) \/ Snapshot(c) \/ \E batch \in fetched[c] : ApplyDelta(c, batch)

Spec == Init /\ [][Next]_vars

-----------------------------------------------------------------------------
\* Properties.

CanonAt(cursor) == IF cursor = 0 THEN Empty ELSE past[cursor].after

\* The projection of a consumer at a cursor is the canonical state as it was at
\* that cursor: whatever was pruned, lost, delivered twice or late, and across
\* reopens, no event is skipped and none is applied twice.
ProjectionIsHistory == \A c \in Consumers : view[c].state = CanonAt(view[c].cursor)

\* A cursor is never given to a second event, and the head never falls back, even
\* when the newest rows were lost and the database was opened again.
CursorsAreNeverReissued ==
    [][/\ \A e \in events' \ events : e.seq > Len(past)
       /\ meta # NoMeta => meta'.head >= meta.head]_vars

\* A consumer whose next event is no longer stored is told so: it is never
\* answered with later events, nor told that there is nothing new.
LostPrefixIsAnnounced ==
    open => \A after \in 0..(meta.head - 1) :
                after + 1 \notin Seqs(events)
                    => DeltaAfter(after).outcome \in {"ResyncRequired", "Error"}

\* While no row is lost outside the module, appends, prunes and reopens leave a
\* boundary that reads back: a journal never refuses its own readers.
BoundaryStaysReadable == open /\ losses = 0 => BoundaryReads(events, meta)

\* While no row is lost outside the module, a Job's reader is served the events
\* of that Job that follow its cursor, as many as fit the read, with none left
\* out because it was pruned.
JobDeltaIsComplete ==
    open /\ losses = 0 =>
        \A job \in Jobs, after \in 0..meta.head :
            LET reply == DeltaForJob(job, after)
                since == SelectSeq([i \in 1..(Len(past) - after) |-> past[after + i].event],
                                   LAMBDA e : e.job = job)
            IN  reply.outcome = "Available" => reply.events = First(since, MaxRead)

\* delta_after's documentation: a consumer is served the complete delta or an
\* explicit outcome, and a hole inside the retained range is reported.
ServedDeltasHaveNoHole ==
    open => \A after \in 0..meta.head :
                LET reply == DeltaAfter(after)
                IN  \A i \in 1..Len(reply.events) : reply.events[i].seq = after + i
=============================================================================
