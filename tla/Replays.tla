--------------------------------- MODULE Replays ---------------------------------
(***************************************************************************)
(* Replays of captured runs (replay.ts): a request asks the user's agent   *)
(* to run again, shows a placeholder run meanwhile, waits for the trace    *)
(* that carries its identity and promotes that run in the placeholder's    *)
(* place.  Replays, telemetry, deletion and clients that disconnect        *)
(* interleave at every wait.  The scenario of a behaviour, fixed at the    *)
(* start, bounds what happens.                                             *)
(***************************************************************************)
EXTENDS RunCapture

CONSTANTS
  Carries,    \* trace -> the replay it is the work of, or None: what agents put in their spans
  Scenarios   \* [batches : what exporters send, live : runs of live events, files : to import,
              \*  notes : ids, on : spans or None, replays : set, removes, holds : BOOLEAN, lives, failures, crashes : Nat]

Task == [phase : {"finding", "asking", "polling", "over"}, aborted : BOOLEAN]

ASSUME ScenarioAssumption ==
  /\ \A s \in Scenarios :
       /\ s.batches \subseteq Seq(TraceSpans) /\ s.files \subseteq File /\ s.live \subseteq Traces
       /\ s.notes \subseteq NoteIds /\ s.on \subseteq SpanIds \cup {None} /\ s.replays \subseteq Replays
  /\ None \notin Task
  /\ \A t \in Traces : Carries[t] \in Replays \cup {None}

\* What agents put in their spans, and a file keeps of them, is the replay they work
\* for; a placeholder is never given an event id.  Of a file's metadata nothing is assumed.
ASSUME CarriesAssumption ==
  \A s \in Scenarios :
    /\ \A batch \in s.batches : \A b \in ToSet(batch) : {b.replay, b.event} \subseteq {None, Carries[b.trace]}
    /\ \A file \in s.files : file.event \in {None} \cup {Carries[t] : t \in Traces \cap {file.run}}

VARIABLES
  task,      \* Replays -> [phase, aborted], or None
  final,     \* Replays -> the run replay_complete named, or None
  held,      \* runs that active evidence imports are attached to
  scenario,
  failures, crashes

replayVars == <<task, final, held>>

vars == <<captureVars, replayVars, scenario, failures, crashes>>

Counted == UNCHANGED <<scenario, failures, crashes>>

In(p, phase) == task[p] # None /\ task[p].phase = phase

Goes(p, phase) == task' = [task EXCEPT ![p].phase = phase]

\* The source of a replay has the model call to repeat.
StartReplay(p) ==
  /\ task[p] = None
  /\ \E source \in Stored : spans[source] # {}
  /\ task' = [task EXCEPT ![p] = [phase |-> "finding", aborted |-> FALSE]]
  /\ UNCHANGED <<captureVars, final, held>>

\* The agent is found, or not, or the client has gone; setupReplay.
AgentFound(p) ==
  /\ In(p, "finding")
  /\ \/ Goes(p, "over") /\ UNCHANGED captureVars
     \/ /\ ~task[p].aborted
        /\ run' = [run EXCEPT ![p] = [event |-> None, meta |-> [replay |-> p, error |-> FALSE],
                                      restored |-> FALSE]]
        /\ Born({p})
        /\ Goes(p, "asking")
        /\ UNCHANGED <<spans, note, map, noted>>
  /\ UNCHANGED <<final, held>>

\* recordPlaceholderError, which finds no row when the placeholder was deleted.
Fail(p) ==
  /\ run' = [run EXCEPT ![p] = IF @ = None THEN None ELSE [@ EXCEPT !.meta = [replay |-> p, error |-> TRUE],
                                                                      !.restored = FALSE]]
  /\ Goes(p, "over")
  /\ UNCHANGED <<spans, note, map, lives, noted, final, held>>

\* The client is gone; what waits notices when it goes on.
Disconnect(p) ==
  /\ task[p] # None /\ task[p].phase # "over" /\ ~task[p].aborted
  /\ task' = [task EXCEPT ![p].aborted = TRUE]
  /\ UNCHANGED <<captureVars, final, held>>

\* The agent refuses, fails or cannot be reached, or accepts the replay.
Answered(p) ==
  /\ In(p, "asking")
  /\ \/ Fail(p)
     \/ ~task[p].aborted /\ Goes(p, "polling") /\ UNCHANGED <<captureVars, final, held>>

\* Mutant of Found: a run that nobody claims is taken for the one looked for.
FoundNearby(p) ==
  LET mapped == {t \in Traces : [replay |-> p, trace |-> t] \in ToSet(map)}
      event  == {t \in Traces : run[t] # None /\ run[t].event = p}
  IN  IF mapped # {} THEN mapped ELSE IF event # {} THEN event
      ELSE {t \in Traces : run[t] # None /\ run[t].meta = None /\ spans[t] # {}}

\* getReplayTrace, then findRunByEventId.
Found(p) ==
  LET mapped == {t \in Traces : [replay |-> p, trace |-> t] \in ToSet(map)}
  IN  IF mapped # {} THEN mapped ELSE {t \in Traces : run[t] # None /\ run[t].event = p}

\* Mutant of Handover: the placeholder's rows go, its notes with them.
HandoverDropping(p, t) == [n \in NoteIds |-> IF n \in NotesOf(p) THEN None ELSE note[n]]

\* Notes first, because deleteRun removes what is left on the placeholder.
Handover(p, t) == Reassigned(p, t)

\* promoteLocalReplayRun
Promote(p, t) ==
  /\ Goes(p, "over")
  /\ IF run[t] = None
     THEN final' = [final EXCEPT ![p] = p] /\ UNCHANGED captureVars
     ELSE IF p \in held THEN UNCHANGED <<captureVars, final>>
     ELSE /\ run' = [run EXCEPT ![t].meta = [replay |-> p, error |-> FALSE],
                                 ![t].restored = FALSE, ![p] = None]
          /\ spans' = [spans EXCEPT ![p] = {}]
          /\ note' = Handover(p, t)
          /\ final' = [final EXCEPT ![p] = t]
          /\ UNCHANGED <<map, lives, noted>>
  /\ UNCHANGED held

\* A poll, or the abort that cuts it short.
Poll(p) ==
  /\ In(p, "polling")
  /\ IF task[p].aborted THEN Fail(p)
     ELSE \/ \E t \in Found(p) : Promote(p, t)
          \/ Found(p) = {} /\ Fail(p)  \* past the deadline

Request ==
  /\ \E p \in scenario.replays : \/ StartReplay(p) \/ AgentFound(p) \/ Disconnect(p)
                                 \/ Answered(p) \/ Poll(p)
  /\ Counted

\* What the agents' exporters send; a client may repeat or reorder it.
Telemetry ==
  /\ \/ \E batch \in scenario.batches : IngestTraces(batch)
     \/ \E t \in scenario.live : \E event \in {None, Carries[t]} : LiveEvent(t, event)
  /\ UNCHANGED replayVars /\ Counted

FailedBatch ==
  /\ failures < scenario.failures /\ failures' = failures + 1
  /\ \E batch \in scenario.batches : IngestFails(batch)
  /\ UNCHANGED <<replayVars, scenario, crashes>>

Annotate ==
  /\ \/ \E n \in scenario.notes, r \in RunIds, span \in scenario.on : CreateAnnotation(n, r, span)
     \/ \E n \in NoteIds : DeleteAnnotation(n)
  /\ UNCHANGED replayVars /\ Counted

Restore ==
  /\ \E file \in scenario.files : ImportTrace(file)
  /\ UNCHANGED replayVars /\ Counted

Erase ==
  /\ scenario.removes
  /\ ClearAll \/ \E r \in RunIds \ held : DeleteRun(r)
  /\ UNCHANGED replayVars /\ Counted

\* EvidenceImport attaches to a stored run, and lets it go.
Evidence ==
  /\ scenario.holds
  /\ held' \in {held \cup {p} : p \in Replays \cap Stored} \cup {held \ {p} : p \in held}
  /\ UNCHANGED <<captureVars, task, final>> /\ Counted

\* The daemon's memory is gone: its map and the replays it was waiting for.
Restart ==
  /\ crashes < scenario.crashes /\ crashes' = crashes + 1
  /\ map' = <<>> /\ held' = {}
  /\ task' = [p \in Replays |-> IF task[p] = None THEN None ELSE [task[p] EXCEPT !.phase = "over"]]
  /\ UNCHANGED <<run, spans, note, lives, noted, final, scenario, failures>>

Init ==
  /\ CaptureInit
  /\ task = [p \in Replays |-> None] /\ final = [p \in Replays |-> None] /\ held = {}
  /\ scenario \in Scenarios /\ failures = 0 /\ crashes = 0

Next ==
  /\ \/ Request \/ Telemetry \/ FailedBatch \/ Annotate \/ Restore \/ Erase \/ Evidence \/ Restart
  /\ \A r \in RunIds : lives'[r] <= scenario.lives

Spec == Init /\ [][Next]_vars

-----------------------------------------------------------------------------
(* Correctness. *)

\* A note stays where it was written, on a run that is stored, in the life of it
\* that the author saw, and on a span that is stored.  It goes only by itself or
\* with its run, and moves only to the run that replaced its placeholder.
NotesKept ==
  [][/\ \A n \in NoteIds : note'[n] # None =>
          /\ run'[note'[n].run] # None
          /\ note'[n].life = lives'[note'[n].run]
          /\ note'[n].span \in spans'[note'[n].run] \cup {None}
     /\ \A n \in NoteIds : note[n] # None /\ note'[n] # note[n] =>
          IF note'[n] = None
          THEN run' = run \/ (run'[note[n].run] = None /\ final' = final)
          ELSE final'[note[n].run] = note'[n].run /\ final[note[n].run] = None]_vars

\* "Exact persisted identity completes the correct replay": whatever was evicted,
\* cancelled, late or deleted, a replay is completed by a trace of its own, once,
\* in the placeholder's place; no error stands on a replay that completed, and no
\* run is dressed as a replay it is not, unless that is what a file said of it.
StitchExact ==
  /\ \A p \in Replays : final[p] \in Traces =>
       /\ Carries[final[p]] = p /\ task[p].phase = "over"
       /\ run[p] # None => run[p].restored
  /\ \A p \in Replays : task[p] # None /\ task[p].phase = "over" /\ run[p] # None /\ ~run[p].restored
       => run[p].meta # None /\ (run[p].meta.error => final[p] = None)
  /\ \A t \in Traces : run[t] # None /\ ~run[t].restored /\ run[t].meta # None
       => final[run[t].meta.replay] = t
=============================================================================
