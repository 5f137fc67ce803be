-------------------------------- MODULE MCReplays --------------------------------
(***************************************************************************)
(* Small instances of Replays: two traces of a first replay, one of a      *)
(* second, one of no replay.                                               *)
(***************************************************************************)
EXTENDS Replays

CONSTANTS t1, t2, t3, t4, p1, p2, x, y, n1, n2

MCCarries == (t1 :> p1) @@ (t2 :> p1) @@ (t3 :> p2) @@ (t4 :> None)

\* A batch of one trace, tagged by its spans' attributes, its event or neither.
MCBatch(t, ids, replay, event) == <<[trace |-> t, spans |-> ids, replay |-> replay, event |-> event]>>

Bare == MCBatch(t4, {x}, None, None)

Quiet == [batches |-> {Bare}, live |-> {}, files |-> {}, notes |-> {}, on |-> {None}, replays |-> {p1},
          removes |-> FALSE, holds |-> FALSE, lives |-> 1, failures |-> 0, crashes |-> 0]

Tagged(t) == MCBatch(t, {x}, MCCarries[t], None)

Known(t) == MCBatch(t, {y}, None, MCCarries[t])

Both == Tagged(t1) \o Tagged(t3)

MCFile(ids, notes) ==
  [run |-> t1, spans |-> ids, notes |-> notes, named |-> TRUE, event |-> None, meta |-> None]

\* A run as another database had it, dressed as a replay or not, or an old file of one.
Told(r, event, error) == [MCFile({x}, {}) EXCEPT !.run = r, !.event = event, !.meta = [replay |-> p1, error |-> error]]

Old(r) == [MCFile({y}, {}) EXCEPT !.run = r, !.named = FALSE]

MCScenarios ==
  { \* two replays at once, found by their tags or by their events
    [Quiet EXCEPT !.batches = {Bare, Tagged(t1), Known(t1), Tagged(t3), Known(t3)}, !.replays = {p1, p2},
                  !.notes = {n1}],
    \* two traces of one replay, live events, deletion, another replay
    [Quiet EXCEPT !.batches = {Bare, Tagged(t1), Known(t2), Tagged(t3)}, !.live = {t1}, !.removes = TRUE,
                  !.lives = 2],
    \* batches that fail, a restart, an evidence import
    [Quiet EXCEPT !.batches = {Bare, Tagged(t1), Both}, !.failures = 1, !.crashes = 1, !.holds = TRUE,
                  !.notes = {n1}, !.replays = {p1, p2}],
    \* notes over promotion, deletion and telemetry that comes again
    [Quiet EXCEPT !.batches = {Bare, Tagged(t1)}, !.removes = TRUE, !.lives = 2, !.notes = {n1, n2}, !.on = {None, x}],
    \* notes over files
    [Quiet EXCEPT !.batches = {Tagged(t1)}, !.removes = TRUE, !.lives = 2, !.notes = {n1, n2}, !.on = {None, x},
       !.files = {MCFile({x}, {[id |-> n1, span |-> x]}), MCFile({y}, {})}],
    \* files of runs that are replays, of a placeholder, and of no event
    [Quiet EXCEPT !.batches = {Known(t1)}, !.removes = TRUE, !.lives = 2,
       !.files = {Told(t1, p1, FALSE), Told(t4, None, FALSE), Told(p1, None, TRUE), Old(t1)}] }
=============================================================================
