------------------------------- MODULE RunCapture -------------------------------
(***************************************************************************)
(* Captured runs (db.ts, the ingestion handlers of server.ts) and the      *)
(* notes their readers write on them (annotations.ts).  Telemetry comes in *)
(* batches that are late, repeated or out of order, and brings back runs   *)
(* that were deleted; notes have no foreign key, so every operation that   *)
(* removes or replaces rows must take care of them.  A span is its         *)
(* identity; payloads, names, times and live events are left out.          *)
(***************************************************************************)
EXTENDS Naturals, Sequences, FiniteSets, SequencesExt

CONSTANTS
  Traces,       \* trace ids of agents
  Replays,      \* ids of replay attempts, also the ids of their placeholder runs
  SpanIds,
  NoteIds,      \* UUIDs createAnnotation may draw
  MaxEntries,   \* MAX_ENTRIES of replay-map.ts
  None

VARIABLES
  run,     \* run id -> [event, meta, restored], or None
  spans,   \* run id -> its span ids
  note,    \* NoteIds -> [run, span, life], or None
  map,     \* replayRunToTraceId, the oldest entry first; memory of the daemon
  lives,   \* history: how often each run was created
  noted    \* history: notes ever written

captureVars == <<run, spans, note, map, lives, noted>>

RunIds == Traces \cup Replays

\* Which replay a run's metadata is of, and whether it failed.
Dress == [replay : Replays, error : BOOLEAN]
Meta == Dress \cup {None}

\* restored is history: the row is what a file said, and no replay wrote its metadata since.
Run == [event : Replays \cup {None}, meta : Meta, restored : BOOLEAN]

Note == [run : RunIds, span : SpanIds \cup {None}, life : Nat]

\* One trace of a batch: its spans, and the identities its attributes give.
TraceSpans == [trace : Traces, spans : SUBSET SpanIds, replay : Replays \cup {None}, event : Replays \cup {None}]

\* What parseTrace lets through: any run id and metadata, an event id or no word
\* of one (~named), each note once, on a span of the file or on none.
File ==
  {file \in [run : RunIds, spans : SUBSET SpanIds, named : BOOLEAN, event : Replays \cup {None}, meta : Meta,
             notes : SUBSET [id : NoteIds, span : SpanIds \cup {None}]] :
     /\ ~file.named => file.event = None
     /\ \A f, g \in file.notes : f.span \in file.spans \cup {None} /\ (f.id = g.id => f = g)}

ASSUME CaptureAssumption ==
  /\ Traces \cap Replays = {}
  /\ None \notin Traces \cup Replays \cup SpanIds \cup Dress \cup Run \cup Note
  /\ MaxEntries \in Nat \ {0}

Stored == {r \in RunIds : run[r] # None}

NotesOf(r) == {n \in NoteIds : note[n] # None /\ note[n].run = r}

CaptureInit ==
  /\ run = [r \in RunIds |-> None]
  /\ spans = [r \in RunIds |-> {}]
  /\ note = [n \in NoteIds |-> None]
  /\ map = <<>>
  /\ lives = [r \in RunIds |-> 0]
  /\ noted = {}

-----------------------------------------------------------------------------
(* Ingestion. *)

\* upsertRun: COALESCE keeps what a batch does not say.
Upserted(old, event) ==
  IF old = None THEN [event |-> event, meta |-> None, restored |-> FALSE]
  ELSE [old EXCEPT !.event = IF event = None THEN @ ELSE event]

Born(rs) == lives' = [r \in RunIds |-> lives[r] + IF r \in rs \ Stored THEN 1 ELSE 0]

\* setReplayTrace: an identity that is set again becomes the newest.
Mapped(entries, replay, trace) ==
  LET at   == {i \in DOMAIN entries : entries[i].replay = replay}
      kept == Append(IF at = {} THEN entries ELSE RemoveAt(entries, CHOOSE i \in at : TRUE),
                     [replay |-> replay, trace |-> trace])
  IN  IF Len(kept) > MaxEntries THEN Tail(kept) ELSE kept

\* The map after the traces of a batch, [trace, spans, replay, event], were tagged.
MapAfter(batch) ==
  LET after[n \in 0 .. Len(batch)] ==
        IF n = 0 THEN map
        ELSE IF batch[n].replay = None THEN after[n - 1]
        ELSE Mapped(after[n - 1], batch[n].replay, batch[n].trace)
  IN  after[Len(batch)]

\* ingestTraces: one transaction; a span that is sent again takes the same row.
IngestTraces(batch) ==
  LET of(t) == {b \in ToSet(batch) : b.trace = t}
      named == {b.trace : b \in ToSet(batch)}
  IN  /\ run' = [r \in RunIds |-> IF r \in named THEN Upserted(run[r], (CHOOSE b \in of(r) : TRUE).event)
                                                 ELSE run[r]]
      /\ spans' = [r \in RunIds |-> spans[r] \cup UNION {b.spans : b \in of(r)}]
      /\ map' = MapAfter(batch)
      /\ Born(named)
      /\ UNCHANGED <<note, noted>>

\* The transaction fails after some of the traces: rows are rolled back, the map
\* is memory.
IngestFails(batch) ==
  /\ \E n \in 1 .. Len(batch) : map' = MapAfter(SubSeq(batch, 1, n))
  /\ UNCHANGED <<run, spans, note, lives, noted>>

\* POST /v1/live: the run of a live event, before or after its first batch.
LiveEvent(t, event) ==
  /\ run' = [run EXCEPT ![t] = Upserted(@, event)]
  /\ Born({t})
  /\ UNCHANGED <<spans, note, map, noted>>

-----------------------------------------------------------------------------
(* Notes. *)

CreateAnnotation(n, r, span) ==
  /\ n \notin noted
  /\ r \in Stored /\ span \in spans[r] \cup {None}
  /\ note' = [note EXCEPT ![n] = [run |-> r, span |-> span, life |-> lives[r]]]
  /\ noted' = noted \cup {n}
  /\ UNCHANGED <<run, spans, map, lives>>

DeleteAnnotation(n) ==
  /\ note[n] # None
  /\ note' = [note EXCEPT ![n] = None]
  /\ UNCHANGED <<run, spans, map, lives, noted>>

\* reassignAnnotations: spans of the old run mean nothing in the new one.
Reassigned(from, to) ==
  [n \in NoteIds |-> IF n \in NotesOf(from) THEN [run |-> to, span |-> None, life |-> lives[to]]
                                            ELSE note[n]]

-----------------------------------------------------------------------------
(* Files and removal. *)

\* importAnnotations: no local note loses its span, and a note that is already
\* here is the same note.
Importable(file) ==
  /\ \A n \in NotesOf(file.run) : note[n].span \in file.spans \cup {None}
  /\ \A f \in file.notes : note[f.id] # None => note[f.id].run = file.run /\ note[f.id].span = f.span

\* The row a file leaves: what it says, a null too; an event id it does not name
\* is kept.  A file that says what is stored changes nothing (the early return).
RestoredRow(old, file) ==
  LET event == IF file.named \/ old = None THEN file.event ELSE old.event
  IN  [event |-> event, meta |-> file.meta,
       restored |-> old = None \/ old.restored \/ old.event # event \/ old.meta # file.meta]

\* importTrace: the run becomes what the file says, notes of either side stay.
ImportTrace(file) ==
  /\ Importable(file)
  /\ Born({file.run})
  /\ LET given(n) == {f \in file.notes : f.id = n}
     IN  note' = [n \in NoteIds |->
           IF note[n] = None /\ given(n) # {}
           THEN [run |-> file.run, span |-> (CHOOSE f \in given(n) : TRUE).span,
                 life |-> lives'[file.run]]
           ELSE note[n]]
  /\ noted' = noted \cup {f.id : f \in file.notes}
  /\ run' = [run EXCEPT ![file.run] = RestoredRow(@, file)]
  /\ spans' = [spans EXCEPT ![file.run] = file.spans]
  /\ UNCHANGED map

WithoutRuns(rs) ==
  /\ run' = [r \in RunIds |-> IF r \in rs THEN None ELSE run[r]]
  /\ spans' = [r \in RunIds |-> IF r \in rs THEN {} ELSE spans[r]]

\* deleteRun, once the imports attached to the run are gone.
DeleteRun(r) ==
  /\ r \in Stored
  /\ WithoutRuns({r})
  /\ note' = [n \in NoteIds |-> IF n \in NotesOf(r) THEN None ELSE note[n]]
  /\ UNCHANGED <<map, lives, noted>>

\* clearAll
ClearAll ==
  /\ Stored # {}
  /\ WithoutRuns(RunIds)
  /\ note' = [n \in NoteIds |-> None]
  /\ UNCHANGED <<map, lives, noted>>
=============================================================================
