------------------------------ MODULE ReplaysProofs ------------------------------
(***************************************************************************)
(* Notes are kept and replays are completed by their own traces, whatever  *)
(* agents send, however many runs, replays and notes there are, and        *)
(* whatever is imported, deleted or lost.                                  *)
(***************************************************************************)
EXTENDS Replays, SequenceTheorems, WellFoundedInduction, TLAPS

ReplaysTypeOK ==
  /\ scenario \in Scenarios
  /\ run \in [RunIds -> Run \cup {None}]
  /\ spans \in [RunIds -> SUBSET SpanIds]
  /\ note \in [NoteIds -> Note \cup {None}]
  /\ lives \in [RunIds -> Nat]
  /\ task \in [Replays -> Task \cup {None}]
  /\ final \in [Replays -> RunIds \cup {None}]

Attached(n) ==
  /\ run[note[n].run] # None
  /\ note[n].life = lives[note[n].run]
  /\ note[n].span \in spans[note[n].run] \cup {None}

\* NotesKept needs that no id is drawn twice and that a replay completes once.
NotesInv ==
  /\ ReplaysTypeOK
  /\ \A n \in NoteIds : note[n] # None => Attached(n) /\ n \in noted
  /\ \A p \in Replays : final[p] # None => task[p] # None /\ task[p].phase = "over"

\* A note goes by itself or with its run, and moves with its placeholder.
Kept(n) ==
  note[n] # None /\ note'[n] # note[n] =>
    IF note'[n] = None
    THEN run' = run \/ (run'[note[n].run] = None /\ final' = final)
    ELSE final'[note[n].run] = note'[n].run /\ final[note[n].run] = None

Advanced == NotesInv' /\ \A n \in NoteIds : Kept(n)

LEMMA NoneApart ==
  /\ \A r \in Run : r # None
  /\ \A n \in Note : n # None
  /\ \A t \in Task : t # None
  /\ \A r \in RunIds : r # None
  /\ \A d \in Dress : d # None
BY CaptureAssumption, ScenarioAssumption DEF RunIds

LEMMA UpsertedType ==
  ASSUME NEW old \in Run \cup {None}, NEW event \in Replays \cup {None}
  PROVE  Upserted(old, event) \in Run
<1>1. CASE old = None
  BY <1>1 DEF Upserted, Run, Meta
<1>2. CASE old # None
  <2> DEFINE chosen == IF event = None THEN old.event ELSE event
  <2>1. old \in Run /\ chosen \in Replays \cup {None}
    BY <1>2 DEF Run
  <2>2. Upserted(old, event) = [old EXCEPT !.event = chosen]
    BY <1>2, <2>1 DEF Upserted, Run
  <2> HIDE DEF chosen
  <2>3. QED BY <2>1, <2>2 DEF Run
<1>3. QED BY <1>1, <1>2

\* Runs that only come and grow leave every note where it is.
LEMMA Grown ==
  ASSUME NotesInv, NEW rs \in SUBSET RunIds, Born(rs),
         run' \in [RunIds -> Run \cup {None}],
         \A r \in RunIds : run'[r] # None \/ run[r] = None,
         spans' \in [RunIds -> SUBSET SpanIds],
         \A r \in RunIds : spans[r] \subseteq spans'[r],
         note' = note, noted' = noted
  PROVE  /\ lives' \in [RunIds -> Nat]
         /\ \A n \in NoteIds : note'[n] # None => Attached(n)' /\ n \in noted'
<1>1. lives' \in [RunIds -> Nat]
  BY DEF Born, NotesInv, ReplaysTypeOK
<1>2. \A r \in RunIds : run[r] # None => lives'[r] = lives[r]
  BY DEF Born, NotesInv, ReplaysTypeOK, Stored
<1>3. ASSUME NEW n \in NoteIds, note'[n] # None
      PROVE  Attached(n)' /\ n \in noted'
  <2>1. note[n] \in Note /\ note[n].run \in RunIds /\ Attached(n) /\ n \in noted
    BY <1>3 DEF NotesInv, ReplaysTypeOK, Note
  <2>2. QED BY <1>2, <2>1 DEF Attached
<1>4. QED BY <1>1, <1>3


LEMMA NotesInit == Init => NotesInv
<1> SUFFICES ASSUME Init
             PROVE  NotesInv
  OBVIOUS
<1>1. ReplaysTypeOK
  BY DEF Init, CaptureInit, ReplaysTypeOK
<1>2. QED BY <1>1 DEF Init, CaptureInit, NotesInv

(***************************************************************************)
(* Telemetry and notes.                                                    *)
(***************************************************************************)

LEMMA IngestType ==
  ASSUME NotesInv, NEW batch \in Seq(TraceSpans), IngestTraces(batch)
  PROVE  /\ {b.trace : b \in ToSet(batch)} \subseteq RunIds
         /\ run' \in [RunIds -> Run \cup {None}]
         /\ \A r \in RunIds : run'[r] # None \/ run[r] = None
         /\ spans' \in [RunIds -> SUBSET SpanIds]
<1>1. ToSet(batch) \subseteq TraceSpans
  BY DEF ToSet
<1>2. {b.trace : b \in ToSet(batch)} \subseteq RunIds
  BY <1>1 DEF TraceSpans, RunIds
<1>3. ASSUME NEW t \in {b.trace : b \in ToSet(batch)}
      PROVE  (CHOOSE b \in {b \in ToSet(batch) : b.trace = t} : TRUE).event \in Replays \cup {None}
  BY <1>1, <1>3 DEF TraceSpans
<1>4. \A r \in RunIds : run'[r] \in Run \/ run'[r] = run[r]
  <2> SUFFICES ASSUME NEW r \in RunIds
               PROVE  run'[r] \in Run \/ run'[r] = run[r]
    OBVIOUS
  <2>1. CASE r \in {b.trace : b \in ToSet(batch)}
    <3> DEFINE event == (CHOOSE b \in {b \in ToSet(batch) : b.trace = r} : TRUE).event
    <3>1. run'[r] = Upserted(run[r], event)
      BY <2>1 DEF IngestTraces
    <3>2. event \in Replays \cup {None} /\ run[r] \in Run \cup {None}
      BY <1>3, <2>1 DEF NotesInv, ReplaysTypeOK
    <3> HIDE DEF event
    <3>3. QED BY <3>1, <3>2, UpsertedType
  <2>2. CASE r \notin {b.trace : b \in ToSet(batch)}
    BY <2>2 DEF IngestTraces
  <2>3. QED BY <2>1, <2>2
<1>5. run' \in [RunIds -> Run \cup {None}]
  <2>1. DOMAIN run' = RunIds /\ run' = [r \in RunIds |-> run'[r]]
    BY DEF IngestTraces
  <2>2. QED BY <1>4, <2>1 DEF NotesInv, ReplaysTypeOK
<1>6. spans' \in [RunIds -> SUBSET SpanIds]
  <2>1. \A r \in RunIds : UNION {b.spans : b \in {b \in ToSet(batch) : b.trace = r}} \subseteq SpanIds
    BY <1>1 DEF TraceSpans
  <2>2. QED BY <2>1 DEF IngestTraces, NotesInv, ReplaysTypeOK
<1>7. QED BY <1>2, <1>4, <1>5, <1>6, NoneApart

LEMMA IngestStep ==
  ASSUME NotesInv, NEW batch \in Seq(TraceSpans), IngestTraces(batch),
         UNCHANGED <<task, final, scenario>>
  PROVE  Advanced
<1>1. Born({b.trace : b \in ToSet(batch)}) /\ note' = note /\ noted' = noted
  BY DEF IngestTraces
<1>2. \A r \in RunIds : spans[r] \subseteq spans'[r]
  BY DEF IngestTraces
<1>3. /\ lives' \in [RunIds -> Nat]
      /\ \A n \in NoteIds : note'[n] # None => Attached(n)' /\ n \in noted'
  BY <1>1, <1>2, IngestType, Grown
<1>4. NotesInv'
  BY <1>1, <1>3, IngestType DEF NotesInv, ReplaysTypeOK
<1>5. QED BY <1>1, <1>4 DEF Advanced, Kept

LEMMA LiveStep ==
  ASSUME NotesInv, NEW t \in Traces, NEW event \in Replays \cup {None}, LiveEvent(t, event),
         UNCHANGED <<task, final, scenario>>
  PROVE  Advanced
<1>1. t \in RunIds /\ Upserted(run[t], event) \in Run
  BY UpsertedType DEF RunIds, NotesInv, ReplaysTypeOK
<1>2. /\ run' \in [RunIds -> Run \cup {None}]
      /\ \A r \in RunIds : run'[r] # None \/ run[r] = None
  BY <1>1, NoneApart DEF LiveEvent, NotesInv, ReplaysTypeOK
<1>3. Born({t}) /\ spans' = spans /\ note' = note /\ noted' = noted
  BY DEF LiveEvent
<1>4. /\ lives' \in [RunIds -> Nat]
      /\ \A n \in NoteIds : note'[n] # None => Attached(n)' /\ n \in noted'
  BY <1>1, <1>2, <1>3, Grown DEF NotesInv, ReplaysTypeOK
<1>5. NotesInv'
  BY <1>2, <1>3, <1>4 DEF NotesInv, ReplaysTypeOK
<1>6. QED BY <1>3, <1>5 DEF Advanced, Kept

LEMMA CreateStep ==
  ASSUME NotesInv, NEW n \in NoteIds, NEW r \in RunIds, NEW span, CreateAnnotation(n, r, span),
         UNCHANGED <<task, final, scenario>>
  PROVE  Advanced
<1>1. note[n] = None
  BY DEF NotesInv, CreateAnnotation
<1>2. run[r] # None /\ span \in spans[r] \cup {None} /\ lives[r] \in Nat /\ span \in SpanIds \cup {None}
  BY DEF CreateAnnotation, Stored, NotesInv, ReplaysTypeOK
<1>3. /\ note' = [note EXCEPT ![n] = [run |-> r, span |-> span, life |-> lives[r]]]
      /\ noted' = noted \cup {n} /\ run' = run /\ spans' = spans /\ lives' = lives
  BY DEF CreateAnnotation
<1>4. ReplaysTypeOK'
  BY <1>2, <1>3 DEF NotesInv, ReplaysTypeOK, Note
<1>5. ASSUME NEW m \in NoteIds, note'[m] # None
      PROVE  Attached(m)' /\ m \in noted'
  <2>1. CASE m = n
    BY <1>2, <1>3, <2>1 DEF Attached, NotesInv, ReplaysTypeOK
  <2>2. CASE m # n
    BY <1>3, <1>5, <2>2 DEF Attached, NotesInv, ReplaysTypeOK
  <2>3. QED BY <2>1, <2>2
<1>6. NotesInv'
  BY <1>4, <1>5 DEF NotesInv
<1>7. \A m \in NoteIds : Kept(m)
  BY <1>1, <1>3 DEF Kept, NotesInv, ReplaysTypeOK
<1>8. QED BY <1>6, <1>7 DEF Advanced

LEMMA DeleteNoteStep ==
  ASSUME NotesInv, NEW n \in NoteIds, DeleteAnnotation(n), UNCHANGED <<task, final, scenario>>
  PROVE  Advanced
<1>1. /\ note' = [note EXCEPT ![n] = None]
      /\ noted' = noted /\ run' = run /\ spans' = spans /\ lives' = lives
  BY DEF DeleteAnnotation
<1>2. NotesInv'
  BY <1>1 DEF NotesInv, ReplaysTypeOK, Attached
<1>3. \A m \in NoteIds : Kept(m)
  BY <1>1 DEF Kept, NotesInv, ReplaysTypeOK
<1>4. QED BY <1>2, <1>3 DEF Advanced

(***************************************************************************)
(* Files and removal.                                                      *)
(***************************************************************************)

LEMMA RestoredType ==
  ASSUME NEW file \in File, NEW old \in Run \cup {None}
  PROVE  RestoredRow(old, file) \in Run
<1> DEFINE event == IF file.named \/ old = None THEN file.event ELSE old.event
           restored == old = None \/ old.restored \/ old.event # event \/ old.meta # file.meta
<1>1. event \in Replays \cup {None} /\ file.meta \in Meta
  BY DEF File, Run
<1>2. restored \in BOOLEAN
  BY DEF Run
<1>3. RestoredRow(old, file) = [event |-> event, meta |-> file.meta, restored |-> restored]
  BY DEF RestoredRow
<1> HIDE DEF event, restored
<1>4. QED BY <1>1, <1>2, <1>3 DEF Run

LEMMA ImportStep ==
  ASSUME NotesInv, NEW file \in File, ImportTrace(file), UNCHANGED <<task, final, scenario>>
  PROVE  Advanced
<1> DEFINE r == file.run
           given(n) == {f \in file.notes : f.id = n}
<1>1. /\ r \in RunIds /\ file.spans \in SUBSET SpanIds
      /\ \A f \in file.notes : f.span \in file.spans \cup {None}
  BY DEF File
<1>2. RestoredRow(run[r], file) \in Run
  BY <1>1, RestoredType DEF NotesInv, ReplaysTypeOK
<1>3. /\ run' \in [RunIds -> Run \cup {None}] /\ spans' \in [RunIds -> SUBSET SpanIds]
      /\ run'[r] # None /\ spans'[r] = file.spans
      /\ \A s \in RunIds \ {r} : run'[s] = run[s] /\ spans'[s] = spans[s]
  BY <1>1, <1>2, NoneApart DEF ImportTrace, NotesInv, ReplaysTypeOK
<1>4. /\ lives' \in [RunIds -> Nat]
      /\ \A s \in RunIds : run[s] # None => lives'[s] = lives[s]
  BY DEF ImportTrace, Born, Stored, NotesInv, ReplaysTypeOK
<1>5. \A n \in NoteIds : IF note[n] = None /\ given(n) # {}
                         THEN /\ note'[n] = [run |-> r, span |-> (CHOOSE f \in given(n) : TRUE).span, life |-> lives'[r]]
                              /\ n \in noted'
                         ELSE note'[n] = note[n]
  BY DEF ImportTrace
<1>6. noted \subseteq noted'
  BY DEF ImportTrace
<1>7. ASSUME NEW n \in NoteIds
      PROVE  /\ note'[n] \in Note \cup {None}
             /\ note'[n] # None => Attached(n)' /\ n \in noted'
             /\ Kept(n)
  <2>1. CASE note[n] = None /\ given(n) # {}
    <3> DEFINE span == (CHOOSE f \in given(n) : TRUE).span
    <3>1. span \in file.spans \cup {None}
      BY <2>1, <1>1
    <3>2. note'[n] = [run |-> r, span |-> span, life |-> lives'[r]] /\ n \in noted'
      BY <2>1, <1>5
    <3> HIDE DEF span
    <3>3. note'[n] \in Note
      BY <3>1, <3>2, <1>1, <1>4 DEF Note
    <3>4. Attached(n)'
      BY <3>1, <3>2, <1>3 DEF Attached
    <3>5. QED BY <2>1, <3>2, <3>3, <3>4 DEF Kept
  <2>2. CASE ~(note[n] = None /\ given(n) # {})
    <3>1. note'[n] = note[n] /\ note[n] \in Note \cup {None}
      BY <2>2, <1>5 DEF NotesInv, ReplaysTypeOK
    <3>2. ASSUME note[n] # None
          PROVE  Attached(n)' /\ n \in noted'
      <4>1. note[n].run \in RunIds /\ Attached(n) /\ n \in noted
        BY <3>1, <3>2 DEF Note, NotesInv
      <4>2. CASE note[n].run = r
        <5>1. note[n].span \in file.spans \cup {None}
          BY <3>2, <4>2 DEF ImportTrace, Importable, NotesOf
        <5>2. QED BY <3>1, <4>1, <4>2, <5>1, <1>3, <1>4, <1>6 DEF Attached
      <4>3. CASE note[n].run # r
        BY <3>1, <4>1, <4>3, <1>3, <1>4, <1>6 DEF Attached
      <4>4. QED BY <4>2, <4>3
    <3>3. QED BY <3>1, <3>2 DEF Kept
  <2>3. QED BY <2>1, <2>2
<1>8. note' \in [NoteIds -> Note \cup {None}]
  BY <1>7 DEF ImportTrace
<1>9. NotesInv'
  BY <1>3, <1>4, <1>7, <1>8 DEF NotesInv, ReplaysTypeOK
<1>10. QED BY <1>7, <1>9 DEF Advanced

LEMMA DeleteStep ==
  ASSUME NotesInv, NEW r \in RunIds, DeleteRun(r), UNCHANGED <<task, final, scenario>>
  PROVE  Advanced
<1>1. /\ run' = [s \in RunIds |-> IF s \in {r} THEN None ELSE run[s]]
      /\ spans' = [s \in RunIds |-> IF s \in {r} THEN {} ELSE spans[s]]
      /\ note' = [n \in NoteIds |-> IF note[n] # None /\ note[n].run = r THEN None ELSE note[n]]
      /\ lives' = lives /\ noted' = noted
  BY DEF DeleteRun, WithoutRuns, NotesOf
<1>2. NotesInv'
  BY <1>1 DEF NotesInv, ReplaysTypeOK, Attached, Note
<1>3. \A n \in NoteIds : Kept(n)
  BY <1>1 DEF Kept
<1>4. QED BY <1>2, <1>3 DEF Advanced

LEMMA ClearStep ==
  ASSUME NotesInv, ClearAll, UNCHANGED <<task, final, scenario>>
  PROVE  Advanced
<1>1. /\ run' = [s \in RunIds |-> None] /\ spans' = [s \in RunIds |-> {}]
      /\ note' = [n \in NoteIds |-> None] /\ lives' = lives /\ noted' = noted
  BY DEF ClearAll, WithoutRuns
<1>2. NotesInv'
  BY <1>1 DEF NotesInv, ReplaysTypeOK
<1>3. \A n \in NoteIds : Kept(n)
  BY <1>1 DEF Kept, NotesInv, ReplaysTypeOK, Note
<1>4. QED BY <1>2, <1>3 DEF Advanced

(***************************************************************************)
(* Replays.                                                                *)
(***************************************************************************)

\* Steps that leave runs, spans and notes alone.
LEMMA ApartStep ==
  ASSUME NotesInv, UNCHANGED <<run, spans, note, lives, noted, final, scenario>>,
         task' \in [Replays -> Task \cup {None}],
         \A p \in Replays : final[p] # None => task'[p] # None /\ task'[p].phase = "over"
  PROVE  Advanced
<1>1. NotesInv'
  BY DEF NotesInv, ReplaysTypeOK, Attached
<1>2. QED BY <1>1 DEF Advanced, Kept

LEMMA GoesType ==
  ASSUME NotesInv, NEW p \in Replays, task[p] # None,
         NEW phase \in {"finding", "asking", "polling", "over"}, Goes(p, phase)
  PROVE  /\ task' \in [Replays -> Task \cup {None}]
         /\ \A q \in Replays \ {p} : task'[q] = task[q]
         /\ task'[p] # None /\ task'[p].phase = phase
<1>1. task[p] \in Task
  BY DEF NotesInv, ReplaysTypeOK
<1>2. [task[p] EXCEPT !.phase = phase] \in Task /\ [task[p] EXCEPT !.phase = phase].phase = phase
  BY <1>1 DEF Task
<1>3. task' = [task EXCEPT ![p] = [task[p] EXCEPT !.phase = phase]]
  BY DEF Goes
<1>4. task'[p] = [task[p] EXCEPT !.phase = phase]
  BY <1>3 DEF NotesInv, ReplaysTypeOK
<1>5. QED BY <1>2, <1>3, <1>4, NoneApart DEF NotesInv, ReplaysTypeOK

LEMMA StartStep ==
  ASSUME NotesInv, NEW p \in Replays, StartReplay(p), scenario' = scenario
  PROVE  Advanced
<1>1. [phase |-> "finding", aborted |-> FALSE] \in Task
  BY DEF Task
<1>2. task[p] = None /\ task' = [task EXCEPT ![p] = [phase |-> "finding", aborted |-> FALSE]]
  BY DEF StartReplay
<1>3. UNCHANGED <<run, spans, note, lives, noted, final, scenario>>
  BY DEF StartReplay, captureVars
<1>4. task' \in [Replays -> Task \cup {None}]
  BY <1>1, <1>2 DEF NotesInv, ReplaysTypeOK
<1>5. \A q \in Replays : final[q] # None => task'[q] # None /\ task'[q].phase = "over"
  BY <1>2 DEF NotesInv, ReplaysTypeOK
<1>6. QED BY <1>3, <1>4, <1>5, ApartStep

\* A placeholder is written, or its record of what went wrong.
LEMMA PlaceholderStep ==
  ASSUME NotesInv, NEW p \in Replays, NEW row \in Run \cup {None}, NEW rs \in SUBSET RunIds, Born(rs),
         run' = [run EXCEPT ![p] = row], row # None \/ run[p] = None,
         task[p] # None, NEW phase \in {"asking", "over"}, Goes(p, phase), final[p] = None,
         UNCHANGED <<spans, note, noted, final, scenario>>
  PROVE  Advanced
<1>1. p \in RunIds
  BY DEF RunIds
<1>2. /\ run' \in [RunIds -> Run \cup {None}]
      /\ \A r \in RunIds : run'[r] # None \/ run[r] = None
  BY <1>1 DEF NotesInv, ReplaysTypeOK
<1>3. /\ lives' \in [RunIds -> Nat]
      /\ \A n \in NoteIds : note'[n] # None => Attached(n)' /\ n \in noted'
  BY <1>2, Grown DEF NotesInv, ReplaysTypeOK
<1>4. /\ task' \in [Replays -> Task \cup {None}]
      /\ \A q \in Replays : final[q] # None => task'[q] # None /\ task'[q].phase = "over"
  BY GoesType DEF NotesInv
<1>5. NotesInv'
  BY <1>2, <1>3, <1>4 DEF NotesInv, ReplaysTypeOK
<1>6. QED BY <1>5 DEF Advanced, Kept

LEMMA AgentStep ==
  ASSUME NotesInv, NEW p \in Replays, AgentFound(p), scenario' = scenario
  PROVE  Advanced
<1>1. task[p] # None /\ task[p].phase = "finding" /\ final' = final
  BY DEF AgentFound, In
<1>2. final[p] = None
  BY <1>1 DEF NotesInv
<1>3. CASE Goes(p, "over") /\ UNCHANGED captureVars
  <2>1. task' \in [Replays -> Task \cup {None}]
    BY <1>1, <1>3, GoesType
  <2>2. \A q \in Replays : final[q] # None => task'[q] # None /\ task'[q].phase = "over"
    BY <1>1, <1>2, <1>3, GoesType DEF NotesInv
  <2>3. QED BY <1>1, <1>3, <2>1, <2>2, ApartStep DEF captureVars
<1>4. CASE /\ run' = [run EXCEPT ![p] = [event |-> None, meta |-> [replay |-> p, error |-> FALSE], restored |-> FALSE]]
           /\ Born({p}) /\ Goes(p, "asking")
           /\ UNCHANGED <<spans, note, map, noted>>
  <2> DEFINE row == [event |-> None, meta |-> [replay |-> p, error |-> FALSE], restored |-> FALSE]
  <2>1. row \in Run
    BY DEF Run, Meta, Dress
  <2>2. run' = [run EXCEPT ![p] = row] /\ {p} \in SUBSET RunIds
    BY <1>4 DEF RunIds
  <2> HIDE DEF row
  <2>3. QED BY <1>1, <1>2, <1>4, <2>1, <2>2, NoneApart, PlaceholderStep
<1>5. QED BY <1>3, <1>4 DEF AgentFound

LEMMA FailStep ==
  ASSUME NotesInv, NEW p \in Replays, Fail(p), task[p] # None, task[p].phase # "over",
         scenario' = scenario
  PROVE  Advanced
<1> DEFINE meta == [replay |-> p, error |-> TRUE]
           row == IF run[p] = None THEN None ELSE [run[p] EXCEPT !.meta = meta, !.restored = FALSE]
<1>1. final[p] = None
  BY DEF NotesInv
<1>2. p \in RunIds /\ run[p] \in Run \cup {None}
  BY DEF RunIds, NotesInv, ReplaysTypeOK
<1>3. meta \in Meta /\ row \in Run \cup {None}
  BY <1>2 DEF Run, Meta, Dress
<1>4. run' = [run EXCEPT ![p] = row]
  BY <1>2 DEF Fail
<1>5. row # None \/ run[p] = None
  <2>1. ASSUME run[p] # None
        PROVE  row \in Run
    BY <1>2, <1>3, <2>1 DEF Run
  <2>2. QED BY <2>1, NoneApart
<1> HIDE DEF row
<1>6. Born({})
  BY DEF Fail, Born, NotesInv, ReplaysTypeOK
<1>7. Goes(p, "over") /\ UNCHANGED <<spans, note, noted, final, scenario>>
  BY DEF Fail
<1>8. QED BY <1>1, <1>3, <1>4, <1>5, <1>6, <1>7, PlaceholderStep

LEMMA DisconnectStep ==
  ASSUME NotesInv, NEW p \in Replays, Disconnect(p), scenario' = scenario
  PROVE  Advanced
<1>1. task[p] \in Task /\ task[p].phase # "over" /\ final[p] = None
  BY DEF Disconnect, NotesInv, ReplaysTypeOK
<1>2. [task[p] EXCEPT !.aborted = TRUE] \in Task
  BY <1>1 DEF Task
<1>3. task' = [task EXCEPT ![p] = [task[p] EXCEPT !.aborted = TRUE]]
  BY DEF Disconnect
<1>4. task' \in [Replays -> Task \cup {None}] /\ \A q \in Replays \ {p} : task'[q] = task[q]
  BY <1>2, <1>3 DEF NotesInv, ReplaysTypeOK
<1>5. UNCHANGED <<run, spans, note, lives, noted, final, scenario>>
  BY DEF Disconnect, captureVars
<1>6. QED BY <1>1, <1>4, <1>5, ApartStep DEF NotesInv

LEMMA AnsweredStep ==
  ASSUME NotesInv, NEW p \in Replays, Answered(p), scenario' = scenario
  PROVE  Advanced
<1>1. task[p] # None /\ task[p].phase = "asking" /\ final[p] = None
  BY DEF Answered, In, NotesInv
<1>2. CASE Fail(p)
  BY <1>1, <1>2, FailStep
<1>3. CASE Goes(p, "polling") /\ UNCHANGED <<captureVars, final, held>>
  <2>1. task' \in [Replays -> Task \cup {None}]
    BY <1>1, <1>3, GoesType
  <2>2. \A q \in Replays : final[q] # None => task'[q] # None /\ task'[q].phase = "over"
    BY <1>1, <1>3, GoesType DEF NotesInv
  <2>3. QED BY <1>3, <2>1, <2>2, ApartStep DEF captureVars
<1>4. QED BY <1>2, <1>3 DEF Answered

LEMMA HandoverStep ==
  ASSUME NotesInv, NEW p \in Replays, NEW t \in Traces, run[t] # None,
         task[p] # None, final[p] = None, Goes(p, "over"),
         run' = [run EXCEPT ![t].meta = [replay |-> p, error |-> FALSE], ![t].restored = FALSE, ![p] = None],
         spans' = [spans EXCEPT ![p] = {}], note' = Handover(p, t),
         final' = [final EXCEPT ![p] = t], UNCHANGED <<lives, noted, scenario>>
  PROVE  Advanced
<1> DEFINE meta == [replay |-> p, error |-> FALSE]
           row == [run[t] EXCEPT !.meta = meta, !.restored = FALSE]
<1>1. p \in RunIds /\ t \in RunIds /\ p # t
  BY CaptureAssumption DEF RunIds
<1>2. run[t] \in Run /\ meta \in Meta
  BY DEF NotesInv, ReplaysTypeOK, RunIds, Meta, Dress
<1>3. row \in Run
  BY <1>2 DEF Run
<1>4. run' = [[run EXCEPT ![t] = row] EXCEPT ![p] = None]
  BY <1>1 DEF NotesInv, ReplaysTypeOK
<1> HIDE DEF row
<1>5. /\ run' \in [RunIds -> Run \cup {None}] /\ run'[p] = None /\ run'[t] # None
      /\ \A r \in RunIds \ {p, t} : run'[r] = run[r]
  <2> DEFINE named == [run EXCEPT ![t] = row]
  <2>1. named \in [RunIds -> Run \cup {None}] /\ named[t] = row /\ \A r \in RunIds \ {t} : named[r] = run[r]
    BY <1>1, <1>3 DEF NotesInv, ReplaysTypeOK
  <2>2. run' = [named EXCEPT ![p] = None]
    BY <1>4
  <2> HIDE DEF named
  <2>3. QED BY <1>1, <1>3, <2>1, <2>2, NoneApart
<1>6. /\ spans' \in [RunIds -> SUBSET SpanIds]
      /\ \A r \in RunIds \ {p} : spans'[r] = spans[r]
  BY DEF NotesInv, ReplaysTypeOK
<1>7. /\ final' \in [Replays -> RunIds \cup {None}] /\ final'[p] = t
      /\ \A q \in Replays \ {p} : final'[q] = final[q]
  BY <1>1 DEF NotesInv, ReplaysTypeOK
<1>8. /\ DOMAIN note' = NoteIds /\ note' = [n \in NoteIds |-> note'[n]]
      /\ \A n \in NoteIds : note'[n] = IF note[n] # None /\ note[n].run = p
                                      THEN [run |-> t, span |-> None, life |-> lives[t]] ELSE note[n]
  BY DEF Handover, Reassigned, NotesOf
<1>9. ASSUME NEW n \in NoteIds
      PROVE  /\ note'[n] \in Note \cup {None}
             /\ note'[n] # None => Attached(n)' /\ n \in noted'
             /\ Kept(n)
  <2>1. CASE note[n] # None /\ note[n].run = p
    <3>1. note'[n] = [run |-> t, span |-> None, life |-> lives[t]] /\ lives[t] \in Nat /\ n \in noted
      BY <1>1, <1>8, <2>1 DEF NotesInv, ReplaysTypeOK
    <3>2. note'[n] \in Note
      BY <1>1, <3>1 DEF Note
    <3>3. Attached(n)'
      BY <1>5, <3>1 DEF Attached
    <3>4. QED BY <1>7, <2>1, <3>1, <3>2, <3>3, NoneApart DEF Kept
  <2>2. CASE ~(note[n] # None /\ note[n].run = p)
    <3>1. note'[n] = note[n] /\ note[n] \in Note \cup {None}
      BY <1>8, <2>2 DEF NotesInv, ReplaysTypeOK
    <3>2. ASSUME note[n] # None
          PROVE  Attached(n)' /\ n \in noted'
      <4>1. note[n].run \in RunIds \ {p} /\ Attached(n) /\ n \in noted
        BY <2>2, <3>1, <3>2 DEF Note, NotesInv
      <4>2. QED BY <3>1, <4>1, <1>5, <1>6 DEF Attached
    <3>3. QED BY <3>1, <3>2 DEF Kept
  <2>3. QED BY <2>1, <2>2
<1>10. note' \in [NoteIds -> Note \cup {None}]
  BY <1>8, <1>9
<1>11. /\ task' \in [Replays -> Task \cup {None}]
       /\ \A q \in Replays : final'[q] # None => task'[q] # None /\ task'[q].phase = "over"
  BY <1>7, GoesType DEF NotesInv
<1>12. NotesInv'
  BY <1>5, <1>6, <1>7, <1>9, <1>10, <1>11 DEF NotesInv, ReplaysTypeOK
<1>13. QED BY <1>9, <1>12 DEF Advanced

LEMMA PollStep ==
  ASSUME NotesInv, NEW p \in Replays, Poll(p), scenario' = scenario
  PROVE  Advanced
<1>1. task[p] # None /\ task[p].phase = "polling" /\ final[p] = None
  BY DEF Poll, In, NotesInv
<1>2. CASE Fail(p)
  BY <1>1, <1>2, FailStep
<1>3. ASSUME NEW t \in Found(p), Promote(p, t)
      PROVE  Advanced
  <2>1. Goes(p, "over")
    BY <1>3 DEF Promote
  <2>2. /\ task' \in [Replays -> Task \cup {None}]
        /\ \A q \in Replays \ {p} : task'[q] = task[q]
        /\ task'[p] # None /\ task'[p].phase = "over"
    BY <1>1, <2>1, GoesType
  <2>3. CASE UNCHANGED <<captureVars, final>>
    BY <2>2, <2>3, ApartStep DEF captureVars, NotesInv
  <2>4. CASE final' = [final EXCEPT ![p] = p] /\ UNCHANGED captureVars
    <3>1. p \in RunIds
      BY DEF RunIds
    <3>2. NotesInv'
      BY <2>2, <2>4, <3>1 DEF captureVars, NotesInv, ReplaysTypeOK, Attached
    <3>3. QED BY <2>4, <3>2 DEF Advanced, Kept, captureVars
  <2>5. CASE run[t] # None /\ p \notin held
    <3>1. t \in Traces
      BY DEF Found
    <3>2. QED BY <1>1, <1>3, <2>1, <2>5, <3>1, HandoverStep DEF Promote
  <2>6. QED BY <1>3, <2>3, <2>4, <2>5 DEF Promote
<1>4. QED BY <1>2, <1>3 DEF Poll

LEMMA RestartStep ==
  ASSUME NotesInv, Restart
  PROVE  Advanced
<1>1. ASSUME NEW p \in Replays
      PROVE  /\ task'[p] \in Task \cup {None}
             /\ final[p] # None => task'[p] # None /\ task'[p].phase = "over"
  <2>1. task'[p] = IF task[p] = None THEN None ELSE [task[p] EXCEPT !.phase = "over"]
    BY DEF Restart
  <2>2. CASE task[p] = None
    BY <2>1, <2>2 DEF NotesInv
  <2>3. CASE task[p] # None
    <3>1. task[p] \in Task
      BY <2>3 DEF NotesInv, ReplaysTypeOK
    <3>2. task'[p] \in Task /\ task'[p].phase = "over"
      BY <2>1, <2>3, <3>1 DEF Task
    <3>3. QED BY <3>2, NoneApart
  <2>4. QED BY <2>2, <2>3
<1>2. task' \in [Replays -> Task \cup {None}]
  BY <1>1 DEF Restart
<1>3. QED BY <1>1, <1>2, ApartStep DEF Restart

(***************************************************************************)
(* Every step.                                                             *)
(***************************************************************************)

LEMMA NotesStep ==
  ASSUME NotesInv, [Next]_vars
  PROVE  Advanced
<1>1. /\ scenario \in Scenarios /\ scenario.batches \subseteq Seq(TraceSpans)
      /\ scenario.files \subseteq File /\ scenario.live \subseteq Traces
      /\ scenario.notes \subseteq NoteIds /\ scenario.replays \subseteq Replays
  BY ScenarioAssumption DEF NotesInv, ReplaysTypeOK
<1>2. ASSUME UNCHANGED <<run, spans, note, lives, noted, task, final, scenario>>
      PROVE  Advanced
  BY <1>2, ApartStep DEF NotesInv, ReplaysTypeOK
<1>3. CASE UNCHANGED vars
  BY <1>2, <1>3 DEF vars, captureVars, replayVars
<1>4. CASE Request
  <2>1. PICK p \in scenario.replays : \/ StartReplay(p) \/ AgentFound(p) \/ Disconnect(p)
                                     \/ Answered(p) \/ Poll(p)
    BY <1>4 DEF Request
  <2>2. p \in Replays /\ scenario' = scenario
    BY <1>1, <1>4, <2>1 DEF Request, Counted
  <2>3. QED BY <2>1, <2>2, StartStep, AgentStep, DisconnectStep, AnsweredStep, PollStep
<1>5. CASE Telemetry
  <2>1. UNCHANGED <<task, final, scenario>>
    BY <1>5 DEF Telemetry, Counted, replayVars
  <2>2. ASSUME NEW batch \in scenario.batches, IngestTraces(batch)
        PROVE  Advanced
    BY <1>1, <2>1, <2>2, IngestStep
  <2>3. ASSUME NEW t \in scenario.live, NEW event \in {None, Carries[t]}, LiveEvent(t, event)
        PROVE  Advanced
    <3>1. t \in Traces /\ event \in Replays \cup {None}
      BY <1>1, ScenarioAssumption
    <3>2. QED BY <2>1, <2>3, <3>1, LiveStep
  <2>4. QED BY <1>5, <2>2, <2>3 DEF Telemetry
<1>6. CASE FailedBatch
  BY <1>2, <1>6 DEF FailedBatch, IngestFails, replayVars
<1>7. CASE Annotate
  <2>1. UNCHANGED <<task, final, scenario>>
    BY <1>7 DEF Annotate, Counted, replayVars
  <2>2. ASSUME NEW n \in scenario.notes, NEW r \in RunIds, NEW span \in scenario.on, CreateAnnotation(n, r, span)
        PROVE  Advanced
    <3>1. n \in NoteIds
      BY <1>1
    <3>2. QED BY <2>1, <2>2, <3>1, CreateStep
  <2>3. ASSUME NEW n \in NoteIds, DeleteAnnotation(n)
        PROVE  Advanced
    BY <2>1, <2>3, DeleteNoteStep
  <2>4. QED BY <1>7, <2>2, <2>3 DEF Annotate
<1>8. CASE Restore
  <2>1. UNCHANGED <<task, final, scenario>>
    BY <1>8 DEF Restore, Counted, replayVars
  <2>2. PICK file \in scenario.files : ImportTrace(file)
    BY <1>8 DEF Restore
  <2>3. file \in File
    BY <1>1
  <2>4. QED BY <2>1, <2>2, <2>3, ImportStep
<1>9. CASE Erase
  <2>1. UNCHANGED <<task, final, scenario>>
    BY <1>9 DEF Erase, Counted, replayVars
  <2>2. ASSUME NEW r \in RunIds \ held, DeleteRun(r)
        PROVE  Advanced
    BY <2>1, <2>2, DeleteStep
  <2>3. QED BY <1>9, <2>1, <2>2, ClearStep DEF Erase
<1>10. CASE Evidence
  BY <1>2, <1>10 DEF Evidence, Counted, captureVars
<1>11. CASE Restart
  BY <1>11, RestartStep
<1>12. QED BY <1>3, <1>4, <1>5, <1>6, <1>7, <1>8, <1>9, <1>10, <1>11 DEF Next

LEMMA NotesInvariant == Spec => []NotesInv
<1>1. NotesInv /\ [Next]_vars => NotesInv'
  BY NotesStep DEF Advanced
<1>2. QED BY <1>1, NotesInit, PTL DEF Spec

\* A note stays on the run and the span it was written on, in the life of the run
\* its author saw, through telemetry that comes again, imports, promotions and
\* deletions (annotations.ts, deleteRun, promoteLocalReplayRun, importTrace).
THEOREM NotesAreKept == Spec => NotesKept
<1> DEFINE Body ==
      /\ \A n \in NoteIds : note'[n] # None =>
           /\ run'[note'[n].run] # None
           /\ note'[n].life = lives'[note'[n].run]
           /\ note'[n].span \in spans'[note'[n].run] \cup {None}
      /\ \A n \in NoteIds : note[n] # None /\ note'[n] # note[n] =>
           IF note'[n] = None
           THEN run' = run \/ (run'[note[n].run] = None /\ final' = final)
           ELSE final'[note[n].run] = note'[n].run /\ final[note[n].run] = None
<1>1. NotesInv /\ [Next]_vars => Body
  BY NotesStep DEF Advanced, NotesInv, Attached, Kept
<1>2. NotesInv /\ [Next]_vars => [Body]_vars
  BY <1>1
<1>3. QED BY <1>2, NotesInvariant, PTL DEF Spec, NotesKept

(***************************************************************************)
(* The identity map.                                                       *)
(***************************************************************************)

\* A trace and the replay it is the work of.
Identity == {e \in [replay : Replays, trace : Traces] : Carries[e.trace] = e.replay}

\* A set of numbers has a least one: induction over numbers, without a predicate.
LEMMA Least ==
  ASSUME NEW T, T \subseteq Nat, T # {}
  PROVE  \E x \in T : \A y \in T : x <= y
<1> DEFINE R == OpToRel(<, Nat)
<1>1. IsWellFoundedOn(R, Nat)
  BY NatLessThanWellFounded
<1>2. \A x, y \in Nat : y < x => <<y, x>> \in R
  BY DEF OpToRel
<1> HIDE DEF R
<1>3. PICK x \in T : \A y \in T : ~(<<y, x>> \in R)
  BY <1>1, WFMin
<1>4. \A y \in T : x <= y
  <2> TAKE y \in T
  <2>1. x \in Nat /\ y \in Nat
    OBVIOUS
  <2>2. ~(y < x)
    BY <1>2, <1>3, <2>1
  <2>3. QED BY <2>1, <2>2
<1>5. QED BY <1>4

LEMMA MappedIdentities ==
  ASSUME NEW entries \in Seq(Identity), NEW t \in Traces, NEW p \in Replays, Carries[t] = p
  PROVE  Mapped(entries, p, t) \in Seq(Identity)
<1> DEFINE at == {i \in DOMAIN entries : entries[i].replay = p}
           left == IF at = {} THEN entries ELSE RemoveAt(entries, CHOOSE i \in at : TRUE)
           kept == Append(left, [replay |-> p, trace |-> t])
<1>1. left \in Seq(Identity)
  <2>1. CASE at = {}
    BY <2>1
  <2>2. CASE at # {}
    <3> DEFINE i == CHOOSE i \in at : TRUE
    <3>1. i \in at
      BY <2>2
    <3>2. i \in 1 .. Len(entries) /\ Len(entries) \in Nat
      BY <3>1
    <3>3. left = SubSeq(entries, 1, i - 1) \o SubSeq(entries, i + 1, Len(entries))
      BY <2>2 DEF RemoveAt
    <3> HIDE DEF i, at, left
    <3>4. SubSeq(entries, 1, i - 1) \in Seq(Identity) /\ SubSeq(entries, i + 1, Len(entries)) \in Seq(Identity)
      BY <3>2, SubSeqProperties
    <3>5. QED BY <3>3, <3>4, ConcatProperties
  <2>3. QED BY <2>1, <2>2
<1>2. [replay |-> p, trace |-> t] \in Identity
  BY DEF Identity
<1> HIDE DEF left
<1>3. kept \in Seq(Identity) /\ kept # <<>>
  BY <1>1, <1>2, AppendProperties
<1>4. Mapped(entries, p, t) = IF Len(kept) > MaxEntries THEN Tail(kept) ELSE kept
  BY DEF Mapped, left
<1> HIDE DEF kept
<1>5. QED BY <1>3, <1>4, HeadTailProperties

\* What agents put in the spans of a batch.
Truthful(batch) == \A i \in DOMAIN batch : {batch[i].replay, batch[i].event} \subseteq {None, Carries[batch[i].trace]}

\* Whatever a batch holds, and how much of it was tagged, the map holds identities.
LEMMA MapHoldsIdentities ==
  ASSUME map \in Seq(Identity), NEW batch \in Seq(TraceSpans), Truthful(batch)
  PROVE  MapAfter(batch) \in Seq(Identity)
<1> DEFINE N == Len(batch)
           Body(f, n) == IF n = 0 THEN map
                         ELSE IF batch[n].replay = None THEN f[n - 1]
                         ELSE Mapped(f[n - 1], batch[n].replay, batch[n].trace)
           IsAfter(f, k) == f = [n \in 0 .. k |-> Body(f, n)]
           Without == {k \in 0 .. N : ~ \E f : IsAfter(f, k)}
<1>1. N \in Nat /\ DOMAIN batch = 1 .. N
  OBVIOUS
<1>2. MapAfter(batch) = (CHOOSE f : IsAfter(f, N))[N]
  BY DEF MapAfter
<1> HIDE DEF N
<1>3. Without = {}
  <2>1. SUFFICES ASSUME Without # {}
                 PROVE  FALSE
    OBVIOUS
  <2>2. PICK k \in Without : \A j \in Without : k <= j
    <3> HIDE DEF IsAfter
    <3>1. Without \subseteq Nat
      BY <1>1
    <3> HIDE DEF Without
    <3>2. QED BY <2>1, <3>1, Least
  <2>3. k # 0
    <3> DEFINE f == [n \in 0 .. 0 |-> map]
    <3>1. IsAfter(f, 0)
      OBVIOUS
    <3>2. QED BY <3>1
  <2>4. k \in 1 .. N /\ k - 1 \in 0 .. N /\ k - 1 \notin Without
    BY <1>1, <2>2, <2>3
  <2>5. PICK f : IsAfter(f, k - 1)
    BY <2>4
  <2> DEFINE g == [n \in 0 .. k |-> Body(f, n)]
  <2>6. ASSUME NEW n \in 0 .. k
        PROVE  Body(f, n) = Body(g, n)
    <3>1. CASE n = 0
      BY <3>1
    <3>2. CASE n # 0
      <4>1. n - 1 \in 0 .. k - 1 /\ n - 1 \in 0 .. k
        BY <1>1, <2>4, <3>2
      <4>2. f[n - 1] = Body(f, n - 1) /\ g[n - 1] = Body(f, n - 1)
        BY <2>5, <4>1
      <4> HIDE DEF g
      <4>3. QED BY <4>2
    <3>3. QED BY <3>1, <3>2
  <2>7. g = [n \in 0 .. k |-> Body(g, n)]
    <3> DEFINE h == [n \in 0 .. k |-> Body(g, n)]
    <3>1. \A n \in 0 .. k : g[n] = h[n]
      <4> HIDE DEF Body
      <4>1. QED BY <2>6
    <3>2. DOMAIN g = 0 .. k /\ DOMAIN h = 0 .. k /\ g = [n \in 0 .. k |-> g[n]] /\ h = [n \in 0 .. k |-> h[n]]
      OBVIOUS
    <3> HIDE DEF g, h
    <3>3. g = h
      BY <3>1, <3>2
    <3>4. QED BY <3>3 DEF h
  <2>8. IsAfter(g, k)
    BY <2>7
  <2> HIDE DEF IsAfter, g
  <2>9. QED BY <2>2, <2>8
<1> DEFINE after == CHOOSE f : IsAfter(f, N)
<1>4. IsAfter(after, N)
  <2>1. N \in 0 .. N
    BY <1>1
  <2>2. \E f : IsAfter(f, N)
    <3> HIDE DEF IsAfter
    <3>1. QED BY <1>3, <2>1
  <2> HIDE DEF IsAfter
  <2>3. QED BY <2>2
<1> HIDE DEF after
<1>5. ASSUME NEW n \in 0 .. N
      PROVE  after[n] = Body(after, n)
  <2> HIDE DEF Body
  <2>1. QED BY <1>4
<1> DEFINE Wrong == {n \in 0 .. N : after[n] \notin Seq(Identity)}
<1>6. Wrong = {}
  <2>1. SUFFICES ASSUME Wrong # {}
                 PROVE  FALSE
    OBVIOUS
  <2>2. PICK n \in Wrong : \A j \in Wrong : n <= j
    <3>1. Wrong \subseteq Nat
      BY <1>1
    <3> HIDE DEF Wrong
    <3>2. QED BY <2>1, <3>1, Least
  <2>3. n # 0
    BY <1>5
  <2>4. n \in 1 .. N /\ n - 1 \in 0 .. N /\ n - 1 \notin Wrong
    BY <1>1, <2>2, <2>3
  <2>5. after[n - 1] \in Seq(Identity)
    BY <2>4
  <2>6. batch[n] \in TraceSpans /\ batch[n].replay \in {None, Carries[batch[n].trace]}
    BY <1>1, <2>4 DEF Truthful
  <2>7. after[n] \in Seq(Identity)
    <3>1. CASE batch[n].replay = None
      BY <1>5, <2>4, <2>5, <3>1
    <3>2. CASE batch[n].replay # None
      <4>1. batch[n].trace \in Traces /\ batch[n].replay \in Replays
        BY <2>6, <3>2 DEF TraceSpans
      <4>2. after[n] = Mapped(after[n - 1], batch[n].replay, batch[n].trace)
        BY <1>5, <2>4, <3>2
      <4>3. QED BY <2>5, <2>6, <3>2, <4>1, <4>2, MappedIdentities
    <3>3. QED BY <3>1, <3>2
  <2>8. QED BY <2>2, <2>7
<1>7. after[N] \in Seq(Identity)
  BY <1>1, <1>6
<1>8. QED BY <1>2, <1>7 DEF after

(***************************************************************************)
(* Runs, placeholders and what replays named.                              *)
(***************************************************************************)

\* A trace is the run of the replay it works for, dressed as none but that one
\* unless a file said so.
TraceSound(t) ==
  run[t] # None => /\ run[t].event \in {None, Carries[t]}
                   /\ ~run[t].restored /\ run[t].meta # None =>
                        run[t].meta.replay \in Replays /\ final[run[t].meta.replay] = t

\* What completed a replay was its own; a placeholder has an error only when its
\* replay ended without a run.
PlaceholderSound(p) ==
  /\ final[p] \in Traces => Carries[final[p]] = p /\ (run[p] # None => run[p].restored)
  /\ run[p] # None /\ ~run[p].restored =>
       /\ task[p] # None /\ run[p].meta # None
       /\ run[p].meta.error => task[p].phase = "over" /\ final[p] = None

\* StitchExact needs that the map and the stored events are what agents were told.
StitchInv ==
  /\ NotesInv
  /\ map \in Seq(Identity)
  /\ \A t \in Traces : TraceSound(t)
  /\ \A p \in Replays : PlaceholderSound(p)

LEMMA StitchInit == Init => StitchInv
<1> SUFFICES ASSUME Init
             PROVE  StitchInv
  OBVIOUS
<1>1. NotesInv /\ map = <<>>
  BY NotesInit DEF Init, CaptureInit
<1>2. map \in Seq(Identity)
  BY <1>1
<1>3. \A t \in Traces : TraceSound(t)
  BY DEF Init, CaptureInit, TraceSound, RunIds
<1>4. \A p \in Replays : run[p] = None /\ final[p] = None /\ None \notin Traces
  BY CaptureAssumption DEF Init, CaptureInit, RunIds
<1>5. QED BY <1>1, <1>2, <1>3, <1>4 DEF StitchInv, PlaceholderSound

\* Placeholders stay, go or are restored, no trace is dressed but by a file, no
\* replay completes.
LEMMA Retold ==
  ASSUME StitchInv, NotesInv', map' \in Seq(Identity), final' = final,
         \A p \in Replays : run'[p] = run[p] \/ run'[p] = None \/ run'[p].restored,
         \A p \in Replays : task[p] # None =>
            task'[p] # None /\ (task[p].phase = "over" => task'[p].phase = "over"),
         \A t \in Traces : run'[t] # None =>
            /\ run'[t].event \in {None, Carries[t]}
            /\ ~run'[t].restored /\ run'[t].meta # None =>
                 run[t] # None /\ ~run[t].restored /\ run'[t].meta = run[t].meta
  PROVE  StitchInv'
<1>1. ASSUME NEW t \in Traces
      PROVE  TraceSound(t)'
  BY DEF StitchInv, TraceSound
<1>2. ASSUME NEW p \in Replays
      PROVE  PlaceholderSound(p)'
  <2>1. PlaceholderSound(p) /\ (run'[p] = run[p] \/ run'[p] = None \/ run'[p].restored)
    BY DEF StitchInv
  <2>2. QED BY <2>1 DEF PlaceholderSound
<1>3. QED BY <1>1, <1>2 DEF StitchInv

LEMMA UpsertedSound ==
  ASSUME StitchInv, NEW t \in Traces, NEW event \in {None, Carries[t]}
  PROVE  /\ Upserted(run[t], event).event \in {None, Carries[t]}
         /\ ~Upserted(run[t], event).restored /\ Upserted(run[t], event).meta # None =>
              run[t] # None /\ ~run[t].restored /\ Upserted(run[t], event).meta = run[t].meta
<1>1. CASE run[t] = None
  BY <1>1 DEF Upserted
<1>2. CASE run[t] # None
  <2>1. run[t] \in Run /\ run[t].event \in {None, Carries[t]}
    BY <1>2 DEF StitchInv, NotesInv, ReplaysTypeOK, RunIds, TraceSound
  <2>2. QED BY <1>2, <2>1 DEF Upserted, Run
<1>3. QED BY <1>1, <1>2

LEMMA StitchTelemetry ==
  ASSUME StitchInv, NotesInv', Telemetry
  PROVE  StitchInv'
<1>1. /\ scenario.batches \subseteq Seq(TraceSpans) /\ scenario.live \subseteq Traces
      /\ \A batch \in scenario.batches : Truthful(batch)
  <2>1. scenario \in Scenarios
    BY DEF StitchInv, NotesInv, ReplaysTypeOK
  <2>2. QED BY <2>1, ScenarioAssumption, CarriesAssumption DEF ToSet, Truthful
<1>2. final' = final /\ task' = task
  BY DEF Telemetry, replayVars
<1>3. ASSUME NEW batch \in scenario.batches, IngestTraces(batch)
      PROVE  StitchInv'
  <2> DEFINE of(t) == {b \in ToSet(batch) : b.trace = t}
             named == {b.trace : b \in ToSet(batch)}
             event(t) == (CHOOSE b \in of(t) : TRUE).event
  <2>1. \A r \in RunIds : run'[r] = IF r \in named THEN Upserted(run[r], event(r)) ELSE run[r]
    BY <1>3 DEF IngestTraces
  <2>2. map' = MapAfter(batch)
    BY <1>3 DEF IngestTraces
  <2>3. map' \in Seq(Identity)
    BY <1>1, <2>2, MapHoldsIdentities DEF StitchInv
  <2>4. ToSet(batch) \subseteq TraceSpans /\ \A b \in ToSet(batch) : b.event \in {None, Carries[b.trace]}
    BY <1>1 DEF ToSet, Truthful
  <2>5. \A p \in Replays : p \notin named /\ p \in RunIds
    BY <2>4, CaptureAssumption DEF TraceSpans, RunIds
  <2>6. ASSUME NEW t \in Traces, run'[t] # None
        PROVE  /\ run'[t].event \in {None, Carries[t]}
               /\ ~run'[t].restored /\ run'[t].meta # None =>
                    run[t] # None /\ ~run[t].restored /\ run'[t].meta = run[t].meta
    <3>1. t \in RunIds
      BY DEF RunIds
    <3>2. CASE t \in named
      <4>1. of(t) # {}
        BY <3>2
      <4>2. (CHOOSE b \in of(t) : TRUE) \in of(t)
        BY <4>1
      <4>3. event(t) \in {None, Carries[t]}
        BY <2>4, <4>2
      <4> HIDE DEF event
      <4>4. run'[t] = Upserted(run[t], event(t))
        BY <2>1, <3>1, <3>2
      <4>5. QED BY <4>3, <4>4, UpsertedSound
    <3>3. CASE t \notin named
      <4>1. run'[t] = run[t]
        BY <2>1, <3>1, <3>3
      <4>2. QED BY <2>6, <4>1 DEF StitchInv, TraceSound
    <3>4. QED BY <3>2, <3>3
  <2> HIDE DEF named, event
  <2>7. \A p \in Replays : run'[p] = run[p]
    BY <2>1, <2>5
  <2>8. QED BY <1>2, <2>3, <2>6, <2>7, Retold
<1>4. ASSUME NEW t \in scenario.live, NEW event \in {None, Carries[t]}, LiveEvent(t, event)
      PROVE  StitchInv'
  <2>1. t \in Traces /\ t \in RunIds /\ t \notin Replays
    BY <1>1, CaptureAssumption DEF RunIds
  <2>2. run' = [run EXCEPT ![t] = Upserted(run[t], event)] /\ map' = map
    BY <1>4 DEF LiveEvent
  <2>3. run'[t] = Upserted(run[t], event) /\ \A r \in RunIds \ {t} : run'[r] = run[r]
    BY <2>1, <2>2 DEF StitchInv, NotesInv, ReplaysTypeOK
  <2>4. \A p \in Replays : run'[p] = run[p]
    BY <2>1, <2>3 DEF RunIds
  <2>5. ASSUME NEW u \in Traces, run'[u] # None
        PROVE  /\ run'[u].event \in {None, Carries[u]}
               /\ ~run'[u].restored /\ run'[u].meta # None =>
                    run[u] # None /\ ~run[u].restored /\ run'[u].meta = run[u].meta
    <3>1. CASE u = t
      BY <2>1, <2>3, <3>1, UpsertedSound
    <3>2. CASE u # t
      <4>1. run'[u] = run[u]
        BY <2>3, <3>2 DEF RunIds
      <4>2. QED BY <2>5, <4>1 DEF StitchInv, TraceSound
    <3>3. QED BY <3>1, <3>2
  <2>6. map' \in Seq(Identity)
    BY <2>2 DEF StitchInv
  <2>7. QED BY <1>2, <2>4, <2>5, <2>6, Retold
<1>5. QED BY <1>3, <1>4 DEF Telemetry

\* Runs that are kept as they are, or go.
LEMMA StitchFewer ==
  ASSUME StitchInv, NotesInv', map' \in Seq(Identity), final' = final, \A r \in RunIds : run'[r] = run[r] \/ run'[r] = None,
         \A p \in Replays : task[p] # None =>
            task'[p] # None /\ (task[p].phase = "over" => task'[p].phase = "over")
  PROVE  StitchInv'
<1>1. \A p \in Replays : run'[p] = run[p] \/ run'[p] = None
  BY DEF RunIds
<1>2. ASSUME NEW t \in Traces, run'[t] # None
      PROVE  /\ run'[t].event \in {None, Carries[t]}
             /\ ~run'[t].restored /\ run'[t].meta # None =>
                  run[t] # None /\ ~run[t].restored /\ run'[t].meta = run[t].meta
  <2>1. run'[t] = run[t]
    BY <1>2 DEF RunIds
  <2>2. QED BY <1>2, <2>1 DEF StitchInv, TraceSound
<1>3. QED BY <1>1, <1>2, Retold

LEMMA StitchSame ==
  ASSUME StitchInv, NotesInv', UNCHANGED <<run, task, final>>, map' = map
  PROVE  StitchInv'
BY StitchFewer DEF StitchInv

\* What a file writes is marked, unless it says what was there.
LEMMA RestoredOrSame ==
  ASSUME NEW file, NEW old \in Run \cup {None}
  PROVE  RestoredRow(old, file).restored \/ (old # None /\ RestoredRow(old, file) = old)
<1> DEFINE event == IF file.named \/ old = None THEN file.event ELSE old.event
<1> SUFFICES ASSUME ~RestoredRow(old, file).restored
             PROVE  old # None /\ RestoredRow(old, file) = old
  OBVIOUS
<1>1. ~(old = None \/ old.restored \/ old.event # event \/ old.meta # file.meta)
  BY DEF RestoredRow
<1>2. old # None /\ old.restored = FALSE /\ old.event = event /\ old.meta = file.meta
  BY <1>1 DEF Run
<1>3. RestoredRow(old, file) = [event |-> event, meta |-> file.meta, restored |-> FALSE]
  BY <1>1 DEF RestoredRow
<1> HIDE DEF event
<1>4. old = [event |-> old.event, meta |-> old.meta, restored |-> old.restored]
  BY <1>2 DEF Run
<1>5. QED BY <1>2, <1>3, <1>4

LEMMA StitchRestore ==
  ASSUME StitchInv, NotesInv', Restore
  PROVE  StitchInv'
<1>1. PICK file \in scenario.files : ImportTrace(file)
  BY DEF Restore
<1> DEFINE r == file.run
<1>2. file \in File /\ file.event \in {None} \cup {Carries[t] : t \in Traces \cap {r}}
  BY ScenarioAssumption, CarriesAssumption DEF StitchInv, NotesInv, ReplaysTypeOK
<1>3. r \in RunIds /\ run[r] \in Run \cup {None}
  BY <1>2 DEF File, StitchInv, NotesInv, ReplaysTypeOK
<1>4. /\ run'[r] = RestoredRow(run[r], file) /\ map' = map
      /\ \A s \in RunIds \ {r} : run'[s] = run[s]
  BY <1>1, <1>3 DEF ImportTrace, StitchInv, NotesInv, ReplaysTypeOK
<1>5. run'[r].restored \/ (run[r] # None /\ run'[r] = run[r])
  BY <1>3, <1>4, RestoredOrSame
<1>6. \A p \in Replays : run'[p] = run[p] \/ run'[p] = None \/ run'[p].restored
  BY <1>4, <1>5 DEF RunIds
<1>7. ASSUME NEW t \in Traces, run'[t] # None
      PROVE  /\ run'[t].event \in {None, Carries[t]}
             /\ ~run'[t].restored /\ run'[t].meta # None =>
                  run[t] # None /\ ~run[t].restored /\ run'[t].meta = run[t].meta
  <2>1. TraceSound(t) /\ t \in RunIds
    BY DEF StitchInv, RunIds
  <2>2. CASE t = r
    <3>1. run'[t].event = IF file.named \/ run[t] = None THEN file.event ELSE run[t].event
      BY <1>4, <2>2 DEF RestoredRow
    <3>2. file.event \in {None, Carries[t]}
      BY <1>2, <2>2
    <3>3. QED BY <1>5, <2>1, <2>2, <3>1, <3>2 DEF TraceSound
  <2>3. CASE t # r
    BY <1>4, <1>7, <2>1, <2>3 DEF TraceSound
  <2>4. QED BY <2>2, <2>3
<1>8. final' = final /\ task' = task /\ map' \in Seq(Identity)
  BY <1>4 DEF Restore, replayVars, StitchInv
<1>9. QED BY <1>6, <1>7, <1>8, Retold

LEMMA FailedRow ==
  ASSUME NEW p \in Replays, NEW old \in Run
  PROVE  /\ [old EXCEPT !.meta = [replay |-> p, error |-> TRUE], !.restored = FALSE].meta = [replay |-> p, error |-> TRUE]
         /\ [replay |-> p, error |-> TRUE] # None
<1> DEFINE meta == [replay |-> p, error |-> TRUE]
<1>1. meta \in Dress
  BY DEF Dress
<1>2. meta # None
  BY <1>1, NoneApart
<1> HIDE DEF meta
<1>3. [old EXCEPT !.meta = meta, !.restored = FALSE].meta = meta
  BY DEF Run
<1>4. QED BY <1>2, <1>3 DEF meta

LEMMA StitchFail ==
  ASSUME StitchInv, NotesInv', NEW p \in Replays, Fail(p), task[p] # None, task[p].phase # "over"
  PROVE  StitchInv'
<1> DEFINE row == IF run[p] = None THEN None ELSE [run[p] EXCEPT !.meta = [replay |-> p, error |-> TRUE], !.restored = FALSE]
<1>1. p \in RunIds /\ p \notin Traces /\ None \notin Traces
  BY CaptureAssumption DEF RunIds
<1>2. run' = [run EXCEPT ![p] = row] /\ map' = map /\ final' = final
  BY DEF Fail
<1>3. run'[p] = row /\ \A r \in RunIds \ {p} : run'[r] = run[r]
  BY <1>1, <1>2 DEF StitchInv, NotesInv, ReplaysTypeOK
<1>4. final[p] = None
  BY DEF StitchInv, NotesInv
<1>5. task'[p] # None /\ task'[p].phase = "over" /\ \A q \in Replays \ {p} : task'[q] = task[q]
  BY GoesType DEF Fail, StitchInv
<1>6. ASSUME NEW t \in Traces
      PROVE  TraceSound(t)'
  <2>1. run'[t] = run[t] /\ TraceSound(t)
    BY <1>1, <1>3 DEF RunIds, StitchInv
  <2>2. QED BY <1>2, <2>1 DEF TraceSound
<1>7. ASSUME NEW q \in Replays
      PROVE  PlaceholderSound(q)'
  <2>1. CASE q = p
    <3>1. row # None => row.meta = [replay |-> p, error |-> TRUE] /\ row.meta # None
      BY <1>1, FailedRow DEF StitchInv, NotesInv, ReplaysTypeOK
    <3> HIDE DEF row
    <3>2. QED BY <1>1, <1>2, <1>3, <1>4, <1>5, <2>1, <3>1 DEF PlaceholderSound
  <2>2. CASE q # p
    <3>1. run'[q] = run[q] /\ task'[q] = task[q] /\ PlaceholderSound(q)
      BY <1>3, <1>5, <2>2 DEF RunIds, StitchInv
    <3>2. QED BY <1>2, <3>1 DEF PlaceholderSound
  <2>3. QED BY <2>1, <2>2
<1>8. QED BY <1>2, <1>6, <1>7 DEF StitchInv

LEMMA StitchFound ==
  ASSUME StitchInv, NEW p \in Replays, NEW t \in Found(p)
  PROVE  t \in Traces /\ (run[t] # None => Carries[t] = p)
<1>1. CASE {u \in Traces : [replay |-> p, trace |-> u] \in ToSet(map)} # {}
  <2>1. t \in Traces /\ [replay |-> p, trace |-> t] \in ToSet(map)
    BY <1>1 DEF Found
  <2>2. ToSet(map) \subseteq Identity
    BY DEF ToSet, StitchInv
  <2>3. QED BY <2>1, <2>2 DEF Identity
<1>2. CASE {u \in Traces : [replay |-> p, trace |-> u] \in ToSet(map)} = {}
  <2>1. t \in Traces /\ run[t] # None /\ run[t].event = p
    BY <1>2 DEF Found
  <2>2. p # None
    BY NoneApart DEF RunIds
  <2>3. QED BY <2>1, <2>2 DEF StitchInv, TraceSound
<1>3. QED BY <1>1, <1>2

LEMMA StitchPoll ==
  ASSUME StitchInv, NotesInv', NEW p \in Replays, Poll(p)
  PROVE  StitchInv'
<1>1. task[p] # None /\ task[p].phase = "polling" /\ final[p] = None
  BY DEF Poll, In, StitchInv, NotesInv
<1>2. CASE Fail(p)
  BY <1>1, <1>2, StitchFail
<1>3. ASSUME NEW t \in Found(p), Promote(p, t)
      PROVE  StitchInv'
  <2>1. /\ t \in Traces /\ p \in RunIds /\ t \in RunIds /\ p # t /\ p \notin Traces
        /\ (run[t] # None => Carries[t] = p)
    BY StitchFound, CaptureAssumption DEF RunIds
  <2>2. task'[p] # None /\ task'[p].phase = "over" /\ \A q \in Replays \ {p} : task'[q] = task[q]
    BY <1>1, <1>3, GoesType DEF Promote, StitchInv
  <2>3. CASE UNCHANGED <<captureVars, final>>
    BY <1>1, <2>2, <2>3, StitchFewer DEF captureVars, StitchInv
  <2>4. CASE final' = [final EXCEPT ![p] = p] /\ UNCHANGED captureVars
    <3>1. final'[p] = p /\ \A q \in Replays \ {p} : final'[q] = final[q]
      BY <2>4 DEF StitchInv, NotesInv, ReplaysTypeOK
    <3>2. run' = run /\ map' = map
      BY <2>4 DEF captureVars
    <3>3. ASSUME NEW u \in Traces
          PROVE  TraceSound(u)'
      <4>1. TraceSound(u) /\ u # None
        BY NoneApart DEF StitchInv, RunIds
      <4>2. QED BY <1>1, <3>1, <3>2, <4>1 DEF TraceSound
    <3>4. ASSUME NEW q \in Replays
          PROVE  PlaceholderSound(q)'
      <4>1. PlaceholderSound(q)
        BY DEF StitchInv
      <4>2. CASE q = p
        <5>1. final'[q] \notin Traces /\ run'[q] = run[q] /\ task'[q] # None
          BY <2>1, <2>2, <3>1, <3>2, <4>2
        <5>2. run[q] # None /\ ~run[q].restored => task[q] # None /\ run[q].meta # None /\ ~run[q].meta.error
          BY <1>1, <4>1, <4>2 DEF PlaceholderSound
        <5>3. QED BY <5>1, <5>2 DEF PlaceholderSound
      <4>3. CASE q # p
        BY <2>2, <3>1, <3>2, <4>1, <4>3 DEF PlaceholderSound
      <4>4. QED BY <4>2, <4>3
    <3>5. QED BY <3>2, <3>3, <3>4 DEF StitchInv
  <2>5. CASE run[t] # None /\ p \notin held
    <3> DEFINE row == [run[t] EXCEPT !.meta = [replay |-> p, error |-> FALSE], !.restored = FALSE]
    <3>1. /\ run' = [run EXCEPT ![t].meta = [replay |-> p, error |-> FALSE], ![t].restored = FALSE, ![p] = None]
          /\ final' = [final EXCEPT ![p] = t] /\ map' = map
      BY <1>3, <2>5 DEF Promote
    <3>2. final'[p] = t /\ \A q \in Replays \ {p} : final'[q] = final[q]
      BY <3>1 DEF StitchInv, NotesInv, ReplaysTypeOK
    <3>3. run' = [[run EXCEPT ![t] = row] EXCEPT ![p] = None]
      BY <2>1, <3>1 DEF StitchInv, NotesInv, ReplaysTypeOK
    <3>4. run[t] \in Run /\ row.event = run[t].event /\ row.meta = [replay |-> p, error |-> FALSE]
      BY <2>1, <2>5 DEF StitchInv, NotesInv, ReplaysTypeOK, Run
    <3> HIDE DEF row
    <3>5. run'[p] = None /\ run'[t] = row /\ \A r \in RunIds \ {p, t} : run'[r] = run[r]
      BY <2>1, <3>3 DEF StitchInv, NotesInv, ReplaysTypeOK
    <3>6. ASSUME NEW u \in Traces
          PROVE  TraceSound(u)'
      <4>1. TraceSound(u) /\ u # None /\ TraceSound(t)
        BY <2>1, NoneApart DEF StitchInv, RunIds
      <4>2. CASE u = t
        BY <2>5, <3>2, <3>4, <3>5, <4>1, <4>2 DEF TraceSound
      <4>3. CASE u # t
        <5>1. run'[u] = run[u]
          BY <2>1, <3>5, <4>3 DEF RunIds
        <5>2. QED BY <1>1, <3>2, <4>1, <5>1 DEF TraceSound
      <4>4. QED BY <4>2, <4>3
    <3>7. ASSUME NEW q \in Replays
          PROVE  PlaceholderSound(q)'
      <4>1. PlaceholderSound(q) /\ q \in RunIds /\ q # t
        BY <2>1, CaptureAssumption DEF StitchInv, RunIds
      <4>2. CASE q = p
        <5>1. Carries[final'[q]] = q /\ run'[q] = None
          BY <2>1, <2>5, <3>2, <3>5, <4>2
        <5>2. QED BY <5>1 DEF PlaceholderSound
      <4>3. CASE q # p
        BY <2>2, <3>2, <3>5, <4>1, <4>3 DEF PlaceholderSound
      <4>4. QED BY <4>2, <4>3
    <3>8. QED BY <3>1, <3>6, <3>7 DEF StitchInv
  <2>6. QED BY <1>3, <2>3, <2>4, <2>5 DEF Promote
<1>4. QED BY <1>2, <1>3 DEF Poll

LEMMA StitchAgent ==
  ASSUME StitchInv, NotesInv', NEW p \in Replays, AgentFound(p)
  PROVE  StitchInv'
<1>1. task[p] # None /\ task[p].phase = "finding" /\ final' = final /\ final[p] = None
  BY DEF AgentFound, In, StitchInv, NotesInv
<1>2. CASE Goes(p, "over") /\ UNCHANGED captureVars
  <2>1. \A q \in Replays : task[q] # None => task'[q] # None /\ (task[q].phase = "over" => task'[q].phase = "over")
    BY <1>1, <1>2, GoesType DEF StitchInv
  <2>2. QED BY <1>1, <1>2, <2>1, StitchFewer DEF captureVars, StitchInv
<1> DEFINE row == [event |-> None, meta |-> [replay |-> p, error |-> FALSE], restored |-> FALSE]
<1>3. CASE /\ run' = [run EXCEPT ![p] = row]
           /\ Goes(p, "asking") /\ map' = map
  <2>1. p \in RunIds /\ p \notin Traces /\ None \notin Traces
    BY CaptureAssumption DEF RunIds
  <2>2. /\ run'[p] = row
        /\ \A r \in RunIds \ {p} : run'[r] = run[r]
    BY <1>3, <2>1 DEF StitchInv, NotesInv, ReplaysTypeOK
  <2>3. task'[p] # None /\ \A q \in Replays \ {p} : task'[q] = task[q]
    BY <1>1, <1>3, GoesType DEF StitchInv
  <2>4. ASSUME NEW t \in Traces
        PROVE  TraceSound(t)'
    <3>1. run'[t] = run[t] /\ TraceSound(t)
      BY <2>1, <2>2 DEF RunIds, StitchInv
    <3>2. QED BY <1>1, <3>1 DEF TraceSound
  <2>5. ASSUME NEW q \in Replays
        PROVE  PlaceholderSound(q)'
    <3>1. CASE q = p
      <4> DEFINE meta == [replay |-> p, error |-> FALSE]
      <4>1. meta \in Dress /\ ~meta.error
        BY DEF Dress
      <4>2. meta # None
        BY <4>1, NoneApart
      <4> HIDE DEF meta
      <4>3. run'[q] = [event |-> None, meta |-> meta, restored |-> FALSE]
        BY <2>2, <3>1 DEF meta
      <4>4. final'[q] = None /\ task'[q] # None
        BY <1>1, <2>3, <3>1
      <4> HIDE DEF row
      <4>5. QED BY <2>1, <4>1, <4>2, <4>3, <4>4 DEF PlaceholderSound
    <3>2. CASE q # p
      <4>1. run'[q] = run[q] /\ task'[q] = task[q] /\ PlaceholderSound(q)
        BY <2>2, <2>3, <3>2 DEF RunIds, StitchInv
      <4>2. QED BY <1>1, <4>1 DEF PlaceholderSound
    <3>3. QED BY <3>1, <3>2
  <2>6. QED BY <1>3, <2>4, <2>5 DEF StitchInv
<1>4. QED BY <1>2, <1>3 DEF AgentFound

LEMMA StitchRequest ==
  ASSUME StitchInv, NotesInv', NEW p \in Replays,
         StartReplay(p) \/ AgentFound(p) \/ Disconnect(p) \/ Answered(p) \/ Poll(p)
  PROVE  StitchInv'
<1>1. CASE StartReplay(p)
  <2>1. task[p] = None /\ task' = [task EXCEPT ![p] = [phase |-> "finding", aborted |-> FALSE]]
    BY <1>1 DEF StartReplay
  <2>2. \A q \in Replays : task[q] # None => task'[q] = task[q]
    BY <2>1 DEF StitchInv, NotesInv, ReplaysTypeOK
  <2>3. final' = final /\ run' = run /\ map' = map
    BY <1>1 DEF StartReplay, captureVars
  <2>4. QED BY <2>2, <2>3, StitchFewer DEF StitchInv
<1>2. CASE Disconnect(p)
  <2>1. task[p] # None /\ task[p].phase # "over" /\ task[p] \in Task
    BY <1>2 DEF Disconnect, StitchInv, NotesInv, ReplaysTypeOK
  <2>2. task' = [task EXCEPT ![p] = [task[p] EXCEPT !.aborted = TRUE]]
    BY <1>2 DEF Disconnect
  <2>3. [task[p] EXCEPT !.aborted = TRUE] \in Task
    BY <2>1 DEF Task
  <2>4. \A q \in Replays : task[q] # None =>
            task'[q] # None /\ (task[q].phase = "over" => task'[q].phase = "over")
    BY <2>1, <2>2, <2>3, NoneApart DEF StitchInv, NotesInv, ReplaysTypeOK
  <2>5. final' = final /\ run' = run /\ map' = map
    BY <1>2 DEF Disconnect, captureVars
  <2>6. QED BY <2>4, <2>5, StitchFewer DEF StitchInv
<1>3. CASE Answered(p)
  <2>1. task[p] # None /\ task[p].phase = "asking"
    BY <1>3 DEF Answered, In
  <2>2. CASE Fail(p)
    BY <2>1, <2>2, StitchFail
  <2>3. CASE Goes(p, "polling") /\ UNCHANGED <<captureVars, final>>
    <3>1. \A q \in Replays : task[q] # None =>
            task'[q] # None /\ (task[q].phase = "over" => task'[q].phase = "over")
      BY <2>1, <2>3, GoesType DEF StitchInv
    <3>2. QED BY <2>3, <3>1, StitchFewer DEF captureVars, StitchInv
  <2>4. QED BY <1>3, <2>2, <2>3 DEF Answered
<1>4. QED BY <1>1, <1>2, <1>3, StitchAgent, StitchPoll

LEMMA StitchRestart ==
  ASSUME StitchInv, NotesInv', Restart
  PROVE  StitchInv'
<1>1. ASSUME NEW p \in Replays, task[p] # None
      PROVE  task'[p] # None /\ task'[p].phase = "over"
  <2>1. task'[p] = [task[p] EXCEPT !.phase = "over"] /\ task[p] \in Task
    BY <1>1 DEF Restart, StitchInv, NotesInv, ReplaysTypeOK
  <2>2. task'[p] \in Task /\ task'[p].phase = "over"
    BY <2>1 DEF Task
  <2>3. QED BY <2>2, NoneApart
<1>2. final' = final /\ run' = run /\ map' = <<>>
  BY DEF Restart
<1>3. map' \in Seq(Identity)
  BY <1>2
<1>4. QED BY <1>1, <1>2, <1>3, StitchFewer

LEMMA StitchStep ==
  ASSUME StitchInv, [Next]_vars
  PROVE  StitchInv'
<1>1. NotesInv' /\ scenario \in Scenarios
  BY NotesStep DEF Advanced, StitchInv, NotesInv, ReplaysTypeOK
<1>2. CASE UNCHANGED vars
  BY <1>1, <1>2, StitchSame DEF vars, captureVars, replayVars
<1>3. CASE Request
  <2>1. \E p \in Replays : StartReplay(p) \/ AgentFound(p) \/ Disconnect(p) \/ Answered(p) \/ Poll(p)
    BY <1>1, <1>3, ScenarioAssumption DEF Request
  <2>2. QED BY <1>1, <2>1, StitchRequest
<1>4. CASE Telemetry
  BY <1>1, <1>4, StitchTelemetry
<1>5. CASE FailedBatch
  <2>1. PICK batch \in scenario.batches : IngestFails(batch)
    BY <1>5 DEF FailedBatch
  <2>2. PICK n \in 1 .. Len(batch) : map' = MapAfter(SubSeq(batch, 1, n))
    BY <2>1 DEF IngestFails
  <2>3. batch \in Seq(TraceSpans) /\ Truthful(batch)
    BY <1>1, ScenarioAssumption, CarriesAssumption DEF ToSet, Truthful
  <2> DEFINE part == SubSeq(batch, 1, n)
  <2>4. part \in Seq(TraceSpans) /\ Len(part) = n /\ \A i \in 1 .. n : part[i] = batch[i] /\ i \in DOMAIN batch
    BY <2>3, SubSeqProperties
  <2> HIDE DEF part
  <2>5. Truthful(part)
    BY <2>3, <2>4 DEF Truthful
  <2>6. MapAfter(part) \in Seq(Identity)
    BY <2>4, <2>5, MapHoldsIdentities DEF StitchInv
  <2>7. UNCHANGED <<run, task, final>> /\ map' \in Seq(Identity)
    BY <1>5, <2>1, <2>2, <2>6 DEF part, FailedBatch, IngestFails, replayVars
  <2>8. QED BY <1>1, <2>7, StitchFewer
<1>6. CASE Annotate
  BY <1>1, <1>6, StitchSame DEF Annotate, CreateAnnotation, DeleteAnnotation, replayVars
<1>7. CASE Restore
  BY <1>1, <1>7, StitchRestore
<1>8. CASE Erase
  <2>1. UNCHANGED <<task, final, map>> /\ \A r \in RunIds : run'[r] = run[r] \/ run'[r] = None
    BY <1>8 DEF Erase, ClearAll, DeleteRun, WithoutRuns, replayVars
  <2>2. QED BY <1>1, <2>1, StitchFewer DEF StitchInv
<1>9. CASE Evidence
  BY <1>1, <1>9, StitchSame DEF Evidence, captureVars
<1>10. CASE Restart
  BY <1>1, <1>10, StitchRestart
<1>11. QED BY <1>2, <1>3, <1>4, <1>5, <1>6, <1>7, <1>8, <1>9, <1>10 DEF Next

LEMMA StitchImplied == StitchInv => StitchExact
<1> SUFFICES ASSUME StitchInv
             PROVE  StitchExact
  OBVIOUS
<1>1. ASSUME NEW p \in Replays, final[p] \in Traces
      PROVE  /\ Carries[final[p]] = p /\ task[p].phase = "over"
             /\ run[p] # None => run[p].restored
  <2>1. final[p] # None
    BY <1>1, NoneApart DEF RunIds
  <2>2. QED BY <1>1, <2>1 DEF StitchInv, NotesInv, PlaceholderSound
<1>2. QED BY <1>1 DEF StitchInv, StitchExact, PlaceholderSound, TraceSound

\* A replay is completed by a trace of its own, once, in its placeholder's place,
\* and no run is dressed as a replay it is not, however batches are repeated,
\* reordered or half-applied and the identity map evicts (replay-map.ts,
\* promoteLocalReplayRun, ingestTraces).
THEOREM StitchIsExact == Spec => []StitchExact
<1>1. StitchInv /\ [Next]_vars => StitchInv'
  BY StitchStep
<1>2. QED BY <1>1, StitchInit, StitchImplied, PTL DEF Spec
=============================================================================
