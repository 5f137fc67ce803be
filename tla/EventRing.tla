----------------------------- MODULE EventRing -----------------------------
(***************************************************************************)
(* The bounded event buffer of a verification session (ring-buffer.ts):   *)
(* the events in order of their daemon timestamp t, a head index behind   *)
(* which they are evicted, and the newest evicted timestamp.  The byte and *)
(* age limits depend on sizes and clocks the model leaves out: a push says *)
(* how many of the oldest events they cost.                                *)
(***************************************************************************)
EXTENDS Integers, Sequences, FiniteSetsExt

CONSTANTS
  MaxEvents,   \* RINGBUFFER_DEFAULTS.MAX_EVENTS: live events kept
  CompactAt    \* dead prefix (1024 in the code) from which it may be cut off

ASSUME RingAssumption == MaxEvents \in Nat \ {0} /\ CompactAt \in Nat

\* lastLoss is 0 while nothing was evicted: timestamps start at 1.
EmptyRing == [events |-> <<>>, head |-> 0, lastLoss |-> 0]

Live(r) == Len(r.events) - r.head

\* Mutant of Evict: victims are not noted.
EvictUnnoted(r, n) == [r EXCEPT !.head = @ + n]

\* noteLoss on each victim, and the head moved past them.
Evict(r, n) ==
  [r EXCEPT !.head = @ + n,
            !.lastLoss = Max({@} \cup {r.events[i].t : i \in r.head + 1 .. r.head + n})]

Compact(r) ==
  IF r.head > CompactAt /\ r.head * 2 >= Len(r.events)
  THEN [r EXCEPT !.events = SubSeq(@, r.head + 1, Len(@)), !.head = 0]
  ELSE r

\* push: the new event is never a victim, and the count limit evicts at least
\* what exceeds it.  pressed is what the byte and age limits evict.
Push(r, e, pressed) ==
  LET grown == [r EXCEPT !.events = Append(@, e)]
  IN  Compact(Evict(grown, Max({pressed, Live(grown) - MaxEvents})))

\* The binary search: the first live index (from 0) whose event is at or after target.
LowerBound(r, target) ==
  LET n == Len(r.events)
      search[w \in [lo : 0 .. n, hi : 0 .. n]] ==
        LET mid == (w.lo + w.hi) \div 2
        IN  IF w.lo >= w.hi THEN w.lo
            ELSE IF r.events[mid + 1].t < target THEN search[[w EXCEPT !.lo = mid + 1]]
            ELSE search[[w EXCEPT !.hi = mid]]
  IN  search[[lo |-> r.head, hi |-> n]]

Since(r, cursor) == SubSeq(r.events, LowerBound(r, cursor) + 1, Len(r.events))

\* Stamps grow with the index, which is what the binary search relies on.
Sorted(r) == \A i, j \in DOMAIN r.events : i < j => r.events[i].t < r.events[j].t

LostSince(r, cursor) == r.lastLoss # 0 /\ r.lastLoss >= cursor
=============================================================================
