------------------------- MODULE VerificationProofs -------------------------
(***************************************************************************)
(* A session has one command at a time, and its frames are the command's;  *)
(* its ring says when an observation may be missing from a window; an      *)
(* attributed call that passes saw the network event it waited for, and a  *)
(* check for quiet or for no console error saw everything its document     *)
(* reported before it answered: for every number of connections, events,   *)
(* readings and calls, whatever documents leave, sockets close, commands   *)
(* time out or sessions end.                                               *)
(***************************************************************************)
EXTENDS VerificationService, SequenceTheorems, FiniteSetTheorems, WellFoundedInduction, TLAPS

(* The invariant: shapes, the owner of the lock, and what each wire may hold. *)

Fields == DOMAIN NewSession

Awaiting == {"act", "step", "fresh"}

FrameTypes == {"hello", "reading", "boundary", "start", "network", "observer", "console", "result"}

\* Frames of a command.
TurnTypes == {"command", "reading", "boundary", "result"}

IsList(s) == s \in Seq(Range(s))

IsRecord(r, fields) == fields \subseteq DOMAIN r /\ r = [x \in DOMAIN r |-> r[x]]

Plain(s) == \A i \in DOMAIN s : s[i].type \notin TurnTypes

\* At most one command is on the way down.
OneCommand(s, id) ==
  /\ \A i \in DOMAIN s : s[i].type \in TurnTypes => s[i].type = "command" /\ s[i].id = id
  /\ \A i, j \in DOMAIN s : s[i].type = "command" /\ s[j].type = "command" => i = j

\* Nothing of a command follows its result.
OneAnswer(s, id) ==
  /\ \A i \in DOMAIN s : s[i].type \in TurnTypes => s[i].id = id
  /\ \A i, j \in DOMAIN s : s[i].type = "result" /\ i < j => s[j].type \notin TurnTypes

SessionShape(s) ==
  /\ s = [f \in Fields |-> s[f]]
  /\ s.ws \in 0 .. NConns /\ s.cursor \in Nat /\ s.generation \in Nat /\ s.busy \in BOOLEAN
  /\ IsRecord(s.pending, {"id"}) /\ IsRecord(s.reply, {"id"}) /\ s.reply.id \in Nat
  /\ s.pending # NoPending => s.pending.id \in 1 .. s.cursor
  /\ s.actionId \in 0 .. s.cursor /\ s.generationCursor \in 0 .. s.cursor /\ s.lastCommandCursor \in Nat

\* A page p and its wires, up u and down d.
WireShape(p, u, d) ==
  /\ IsRecord(p, DOMAIN NewPage)
  /\ IsList(p.early) /\ \A i \in DOMAIN p.early : p.early[i].type \in Observations
  /\ IsList(u) /\ \A i \in DOMAIN u : u[i].type \in FrameTypes
  /\ IsList(d)

Shape ==
  /\ SessionShape(sess)
  /\ sock \in [Conns -> [st : {"none", "open", "closing", "closed"}, authenticated : BOOLEAN, generation : Nat]]
  /\ page = [c \in Conns |-> page[c]] /\ up = [c \in Conns |-> up[c]] /\ down = [c \in Conns |-> down[c]]
  /\ \A c \in Conns : WireShape(page[c], up[c], down[c])
  /\ IsRecord(caller, {"phase"})
  /\ caller.phase \in Awaiting \cup {"free", "round"}
  /\ caller.phase = "free" <=> caller = Free

\* The owner of the lock and its command.
Owned ==
  /\ sess.busy <=> caller # Free
  /\ sess.pending # NoPending =>
       /\ caller.phase \in Awaiting /\ sess.reply = NoReply
       /\ sess.ws # 0 /\ sock[sess.ws].st = "open"
  /\ caller.phase \in Awaiting => (sess.pending = NoPending) # (sess.reply = NoReply)

\* A socket k of connection c before its hello, and after.
Paired(c, s, k, p, u, d) ==
  /\ p.st \in {"idle", "dialing"} => ~k.authenticated /\ u = <<>> /\ d = <<>>
  /\ p.st = "idle" => k.st = "none"
  /\ s.ws = c => k.authenticated /\ k.generation = s.generation
  /\ k.st = "open" /\ k.authenticated => s.ws = c
  /\ k.st = "open" /\ ~k.authenticated => d = <<>> /\ Plain(u) /\ p.st # "ready"

\* The wires of a session s that is connected.
Ordered(s, p, u, d) ==
  /\ p.st = "open" => d # <<>> /\ \A i \in DOMAIN d : d[i].type = IF i = 1 THEN "ready" ELSE "command"
  /\ p.st = "ready" => \A i \in DOMAIN d : d[i].type = "command"
  /\ IF s.pending = NoPending THEN Plain(u) /\ Plain(d)
     ELSE /\ OneCommand(d, s.pending.id) /\ OneAnswer(u, s.pending.id)
          /\ Plain(u) \/ Plain(d)

Wired(c, s, k, p, u, d) ==
  /\ Paired(c, s, k, p, u, d)
  /\ s.ws = c /\ k.st = "open" => Ordered(s, p, u, d)

Wires == \A c \in Conns : Wired(c, sess, sock[c], page[c], up[c], down[c])

TurnInv == Shape /\ Owned /\ Wires

Unread(p) == p.before = NoReading /\ p.after = NoReading

Silent(s) == \A i \in DOMAIN s : s[i].type # "reading"

\* What a click read before and after, in the daemon or on its way there.
ReadAs(s, p, before, after) ==
  /\ \A i \in DOMAIN s : s[i].type = "reading" =>
       s[i].value = IF s[i].phase = "before" THEN before ELSE after
  /\ p.before # NoReading => p.before.value = before
  /\ p.after # NoReading => p.after.value = after

Moved(t) == t.attributed /\ t.before.value # t.after.value

\* The turn the session holds is one its page had.
Held ==
  sess.causal # NoTurn =>
    /\ sess.ws # 0
    /\ Moved(sess.causal) => \E t \in page[sess.ws].turns : t.id = sess.causal.id /\ t.changed

\* The readings of the pending command are those of its turn.
Heard ==
  sess.pending # NoPending =>
    /\ IsRecord(sess.pending, {"id", "before", "after"})
    /\ ~Plain(down[sess.ws]) => Unread(sess.pending)
    /\ \/ Unread(sess.pending) /\ Silent(up[sess.ws])
       \/ \E t \in page[sess.ws].turns, before, after \in Values \cup {0, Before} :
            /\ t.id = sess.pending.id
            /\ before # 0 /\ after # 0 /\ before # after => t.changed
            /\ ReadAs(up[sess.ws], sess.pending, before, after)

\* What a check is about.  It passes in the round that sees it, unless it waits for
\* the network to settle.
Undecided(k) ==
  /\ IsRecord(k, {"phase", "steps", "latest", "since", "actionId", "generation"})
  /\ k.since \in Nat /\ k.actionId \in Nat
  /\ Head(k.steps) # "network" => k.latest # "pass"

Late ==
  /\ caller.phase \in {"fresh", "round"} => Undecided(caller)
  /\ caller.phase = "fresh" => caller.latest # "pass"

\* A flow or a check is of a generation the session had.
Dated ==
  caller.phase \in {"step", "fresh", "round"} =>
    IsRecord(caller, {"phase", "generation"}) /\ caller.generation \in 0 .. sess.generation

ReadInv == Held /\ Heard /\ Late

-----------------------------------------------------------------------------
LEMMA FieldsAre ==
  Fields = {"live", "ws", "generation", "network", "cursor", "events", "lossCursor", "captureLost",
            "generationCursor", "lastCommandCursor", "requests", "actionId", "causal", "pending",
            "reply", "busy", "quiet"}
BY DEF Fields, NewSession

-----------------------------------------------------------------------------
(* Lists. *)

LEMMA ListOf ==
  ASSUME NEW S, NEW s \in Seq(S)
  PROVE  IsList(s) /\ Len(s) \in Nat /\ DOMAIN s = 1 .. Len(s)
<1>1. Len(s) \in Nat /\ s \in [1 .. Len(s) -> S]
  BY LenProperties
<1>2. s \in [1 .. Len(s) -> Range(s)]
  BY <1>1 DEF Range
<1>3. QED BY <1>1, <1>2 DEF IsList

LEMMA EmptyList == IsList(<<>>) /\ DOMAIN <<>> = {} /\ Plain(<<>>)
<1>1. <<>> \in Seq({}) /\ Len(<<>>) = 0
  BY EmptySeq
<1>2. IsList(<<>>) /\ DOMAIN <<>> = 1 .. 0
  BY <1>1, ListOf
<1>3. QED BY <1>2 DEF Plain

LEMMA TailList ==
  ASSUME NEW s, IsList(s), s # <<>>
  PROVE  /\ IsList(Tail(s)) /\ 1 \in DOMAIN s /\ Head(s) = s[1]
         /\ \A i \in DOMAIN Tail(s) : i + 1 \in DOMAIN s /\ Tail(s)[i] = s[i + 1]
<1>1. s \in Seq(Range(s)) /\ Len(s) \in Nat /\ DOMAIN s = 1 .. Len(s)
  BY ListOf DEF IsList
<1>2. /\ Tail(s) \in Seq(Range(s)) /\ Len(Tail(s)) = Len(s) - 1 /\ Len(s) # 0
      /\ \A i \in 1 .. Len(Tail(s)) : Tail(s)[i] = s[i + 1]
  BY <1>1
<1>3. IsList(Tail(s)) /\ DOMAIN Tail(s) = 1 .. Len(s) - 1
  BY <1>2, ListOf
<1>4. QED BY <1>1, <1>2, <1>3

LEMMA ConcatList ==
  ASSUME NEW s, IsList(s), NEW t, IsList(t)
  PROVE  /\ IsList(s \o t)
         /\ \A i \in DOMAIN (s \o t) : \/ i \in DOMAIN s /\ (s \o t)[i] = s[i]
                                       \/ /\ i - Len(s) \in DOMAIN t /\ i > Len(s)
                                          /\ (s \o t)[i] = t[i - Len(s)]
<1> DEFINE S == Range(s) \cup Range(t)
           u == s \o t
<1>1. s \in Seq(S) /\ t \in Seq(S)
  <2>1. s \in Seq(Range(s)) /\ t \in Seq(Range(t)) /\ Range(s) \subseteq S /\ Range(t) \subseteq S
    BY DEF IsList
  <2> HIDE DEF S
  <2>2. QED BY <2>1, SeqMonotonic
<1>2. /\ Len(s) \in Nat /\ Len(t) \in Nat /\ DOMAIN s = 1 .. Len(s) /\ DOMAIN t = 1 .. Len(t)
  BY ListOf DEF IsList
<1> HIDE DEF S
<1>3. /\ u \in Seq(S) /\ DOMAIN u = 1 .. Len(s) + Len(t)
      /\ \A i \in 1 .. Len(s) : u[i] = s[i]
      /\ \A i \in 1 .. Len(t) : u[Len(s) + i] = t[i]
  BY <1>1, <1>2
<1> HIDE DEF u
<1>4. ASSUME NEW i \in DOMAIN u
      PROVE  \/ i \in DOMAIN s /\ u[i] = s[i]
             \/ i - Len(s) \in DOMAIN t /\ i > Len(s) /\ u[i] = t[i - Len(s)]
  <2>1. CASE i <= Len(s)
    BY <1>2, <1>3, <2>1
  <2>2. CASE ~(i <= Len(s))
    <3>1. i - Len(s) \in 1 .. Len(t) /\ i > Len(s) /\ Len(s) + (i - Len(s)) = i
      BY <1>2, <1>3, <2>2
    <3>2. u[i] = t[i - Len(s)]
      BY <1>3, <3>1
    <3>3. QED BY <1>2, <3>1, <3>2
  <2>3. QED BY <2>1, <2>2
<1>5. IsList(u)
  BY <1>3, ListOf
<1>6. QED BY <1>4, <1>5 DEF u

LEMMA AppendList ==
  ASSUME NEW s, IsList(s), NEW x
  PROVE  /\ IsList(Append(s, x)) /\ Append(s, x) # <<>>
         /\ \A i \in DOMAIN Append(s, x) : \/ i \in DOMAIN s /\ Append(s, x)[i] = s[i]
                                           \/ i = Len(s) + 1 /\ Append(s, x)[i] = x
<1> DEFINE S == Range(s) \cup {x}
           u == Append(s, x)
<1>1. s \in Seq(S) /\ x \in S
  <2>1. s \in Seq(Range(s)) /\ Range(s) \subseteq S
    BY DEF IsList
  <2>2. QED BY <2>1, SeqMonotonic
<1>2. Len(s) \in Nat /\ DOMAIN s = 1 .. Len(s)
  BY ListOf DEF IsList
<1> HIDE DEF S
<1>3. /\ u \in Seq(S) /\ DOMAIN u = 1 .. Len(s) + 1 /\ u # <<>>
      /\ \A i \in 1 .. Len(s) : u[i] = s[i]
      /\ u[Len(s) + 1] = x
  BY <1>1, <1>2, AppendProperties
<1> HIDE DEF u
<1>4. IsList(u)
  BY <1>3, ListOf
<1>5. \A i \in DOMAIN u : \/ i \in DOMAIN s /\ u[i] = s[i]
                          \/ i = Len(s) + 1 /\ u[i] = x
  BY <1>2, <1>3
<1>6. QED BY <1>3, <1>4, <1>5 DEF u

LEMMA PrefixList ==
  ASSUME NEW s, IsList(s), NEW n \in 0 .. Len(s) - 1
  PROVE  /\ IsList(SubSeq(s, 1, n))
         /\ \A i \in DOMAIN SubSeq(s, 1, n) : i \in DOMAIN s /\ SubSeq(s, 1, n)[i] = s[i]
<1>1. s \in Seq(Range(s)) /\ Len(s) \in Nat /\ DOMAIN s = 1 .. Len(s)
  BY ListOf DEF IsList
<1>2. /\ SubSeq(s, 1, n) \in Seq(Range(s)) /\ Len(SubSeq(s, 1, n)) = n
      /\ \A i \in 1 .. n : SubSeq(s, 1, n)[i] = s[i]
  BY <1>1, SubSeqProperties
<1>3. IsList(SubSeq(s, 1, n)) /\ DOMAIN SubSeq(s, 1, n) = 1 .. n
  BY <1>2, ListOf
<1>4. QED BY <1>1, <1>2, <1>3

LEMMA SingleList ==
  ASSUME NEW x
  PROVE  IsList(<<x>>) /\ DOMAIN <<x>> = {1} /\ <<x>>[1] = x /\ <<x>> # <<>>
<1>1. <<x>> \in Seq({x}) /\ Len(<<x>>) = 1 /\ <<x>>[1] = x
  OBVIOUS
<1>2. IsList(<<x>>) /\ DOMAIN <<x>> = 1 .. 1
  BY <1>1, ListOf
<1>3. QED BY <1>1, <1>2

-----------------------------------------------------------------------------
(* What is on the wires of a command. *)

\* Frames of a command that has not been answered.
Partial(s, id) == \A i \in DOMAIN s : s[i].type \in TurnTypes => s[i].id = id /\ s[i].type # "result"

LEMMA PlainIsPartial ==
  ASSUME NEW s, Plain(s), NEW id
  PROVE  Partial(s, id) /\ OneAnswer(s, id) /\ OneCommand(s, id)
BY DEF Plain, Partial, OneAnswer, OneCommand, TurnTypes

\* The frames of Head(s) are taken off s.
LEMMA TailWires ==
  ASSUME NEW s, IsList(s), s # <<>>, NEW id
  PROVE  /\ Plain(s) => Plain(Tail(s))
         /\ OneAnswer(s, id) => OneAnswer(Tail(s), id)
         /\ OneAnswer(s, id) /\ s[1].type = "result" => Plain(Tail(s))
         /\ OneCommand(s, id) => OneCommand(Tail(s), id)
         /\ OneCommand(s, id) /\ s[1].type = "command" => Plain(Tail(s))
<1>1. /\ 1 \in DOMAIN s
      /\ \A i \in DOMAIN Tail(s) : i + 1 \in DOMAIN s /\ Tail(s)[i] = s[i + 1] /\ i \in Nat \ {0}
  <2>1. Tail(s) \in Seq(Range(Tail(s)))
    BY TailList DEF IsList
  <2>2. DOMAIN Tail(s) = 1 .. Len(Tail(s)) /\ Len(Tail(s)) \in Nat
    BY <2>1, ListOf
  <2>3. QED BY <2>2, TailList
<1>2. Plain(s) => Plain(Tail(s))
  BY <1>1 DEF Plain
<1>3. OneAnswer(s, id) => OneAnswer(Tail(s), id)
  BY <1>1 DEF OneAnswer
<1>4. OneAnswer(s, id) /\ s[1].type = "result" => Plain(Tail(s))
  BY <1>1 DEF OneAnswer, Plain
<1>5. OneCommand(s, id) => OneCommand(Tail(s), id)
  BY <1>1 DEF OneCommand
<1>6. OneCommand(s, id) /\ s[1].type = "command" => Plain(Tail(s))
  BY <1>1 DEF OneCommand, Plain
<1>7. QED BY <1>2, <1>3, <1>4, <1>5, <1>6

\* Frames follow those that were on the wire.
LEMMA ConcatWires ==
  ASSUME NEW s, IsList(s), NEW t, IsList(t), NEW id
  PROVE  /\ Plain(s) /\ Plain(t) => Plain(s \o t)
         /\ Partial(s, id) /\ Partial(t, id) => Partial(s \o t, id)
         /\ Partial(s, id) /\ OneAnswer(t, id) => OneAnswer(s \o t, id)
         /\ OneAnswer(s, id) /\ Plain(t) => OneAnswer(s \o t, id)
<1> DEFINE u == s \o t
<1>1. /\ Len(s) \in Nat /\ DOMAIN s = 1 .. Len(s) /\ DOMAIN t = 1 .. Len(t) /\ Len(t) \in Nat
      /\ DOMAIN u \subseteq Nat
  <2>1. s \in Seq(Range(s)) /\ t \in Seq(Range(t)) /\ u \in Seq(Range(u))
    BY ConcatList DEF IsList
  <2> HIDE DEF u
  <2>2. DOMAIN u = 1 .. Len(u) /\ Len(u) \in Nat
    BY <2>1, ListOf
  <2>3. QED BY <2>1, <2>2, ListOf
<1>2. \A i \in DOMAIN u : \/ i \in DOMAIN s /\ u[i] = s[i]
                          \/ i - Len(s) \in DOMAIN t /\ i > Len(s) /\ u[i] = t[i - Len(s)]
  BY ConcatList
<1> HIDE DEF u
<1>3. Plain(s) /\ Plain(t) => Plain(u)
  BY <1>2 DEF Plain
<1>4. Partial(s, id) /\ Partial(t, id) => Partial(u, id)
  BY <1>2 DEF Partial
<1>5. ASSUME Partial(s, id), OneAnswer(t, id)
      PROVE  OneAnswer(u, id)
  <2>1. \A i \in DOMAIN u : u[i].type \in TurnTypes => u[i].id = id
    BY <1>2, <1>5 DEF Partial, OneAnswer
  <2>2. ASSUME NEW i \in DOMAIN u, NEW j \in DOMAIN u, u[i].type = "result", i < j
        PROVE  u[j].type \notin TurnTypes
    <3>1. i - Len(s) \in DOMAIN t /\ i > Len(s) /\ u[i] = t[i - Len(s)]
      BY <1>2, <1>5, <2>2 DEF Partial, TurnTypes
    <3>2. j - Len(s) \in DOMAIN t /\ u[j] = t[j - Len(s)] /\ i - Len(s) < j - Len(s)
      BY <1>1, <1>2, <2>2, <3>1
    <3>3. QED BY <1>5, <2>2, <3>1, <3>2 DEF OneAnswer
  <2>3. QED BY <2>1, <2>2 DEF OneAnswer
<1>6. ASSUME OneAnswer(s, id), Plain(t)
      PROVE  OneAnswer(u, id)
  <2>1. \A i \in DOMAIN u : u[i].type \in TurnTypes => i \in DOMAIN s /\ u[i] = s[i]
    BY <1>2, <1>6 DEF Plain
  <2>2. QED BY <2>1, <1>6 DEF OneAnswer, TurnTypes
<1>7. QED BY <1>3, <1>4, <1>5, <1>6 DEF u

\* One frame follows them.
LEMMA AppendWires ==
  ASSUME NEW s, IsList(s), NEW x, NEW id
  PROVE  /\ Plain(s) /\ x.type \notin TurnTypes => Plain(Append(s, x))
         /\ OneAnswer(s, id) /\ x.type \notin TurnTypes => OneAnswer(Append(s, x), id)
         /\ Plain(s) /\ x.type = "command" /\ x.id = id => OneCommand(Append(s, x), id)
<1> DEFINE u == Append(s, x)
<1>1. \A i \in DOMAIN u : \/ i \in DOMAIN s /\ u[i] = s[i]
                          \/ i = Len(s) + 1 /\ u[i] = x
  BY AppendList
<1> HIDE DEF u
<1>2. Plain(s) /\ x.type \notin TurnTypes => Plain(u)
  BY <1>1 DEF Plain
<1>3. OneAnswer(s, id) /\ x.type \notin TurnTypes => OneAnswer(u, id)
  <2>1. OneAnswer(s, id) /\ x.type \notin TurnTypes =>
          \A i \in DOMAIN u : u[i].type \in TurnTypes => i \in DOMAIN s /\ u[i] = s[i]
    BY <1>1
  <2>2. QED BY <2>1 DEF OneAnswer, TurnTypes
<1>4. Plain(s) /\ x.type = "command" /\ x.id = id => OneCommand(u, id)
  BY <1>1 DEF Plain, OneCommand, TurnTypes
<1>5. QED BY <1>2, <1>3, <1>4 DEF u

\* What a page sends for one command.
LEMMA FramesAnswer ==
  ASSUME NEW id, NEW kind, NEW before, NEW after, NEW ok
  PROVE  LET frames == ActFrames(id, kind, before, after, ok)
         IN  /\ IsList(frames) /\ OneAnswer(frames, id)
             /\ \A i \in DOMAIN frames : frames[i].type \in FrameTypes
<1> DEFINE Sound(s)  == IsList(s) /\ \A i \in DOMAIN s : s[i].type \in FrameTypes
           boundary == IF kind \in Actions THEN <<[type |-> "boundary", id |-> id]>> ELSE <<>>
           first    == <<ReadingFrame(id, "before", before)>>
           last     == IF ok THEN <<ReadingFrame(id, "after", after)>> ELSE <<>>
           result   == <<[type |-> "result", id |-> id, ok |-> ok]>>
<1>1. Sound(boundary) /\ Partial(boundary, id)
  BY SingleList, EmptyList DEF Partial, FrameTypes
<1>2. Sound(first) /\ Partial(first, id)
  BY SingleList DEF Partial, FrameTypes, ReadingFrame
<1>3. Sound(last) /\ Partial(last, id)
  BY SingleList, EmptyList DEF Partial, FrameTypes, ReadingFrame
<1>4. Sound(result) /\ OneAnswer(result, id)
  BY SingleList DEF OneAnswer, FrameTypes
<1>5. ActFrames(id, kind, before, after, ok) =
        IF kind = "causal" THEN ((first \o boundary) \o last) \o result ELSE boundary \o result
  BY DEF ActFrames
<1> HIDE DEF boundary, first, last, result
<1>6. ASSUME NEW s, Sound(s), NEW t, Sound(t)
      PROVE  Sound(s \o t)
  BY <1>6, ConcatList
<1> DEFINE two   == first \o boundary
           three == two \o last
<1>7. Sound(two) /\ Partial(two, id)
  <2> HIDE DEF Sound
  <2>1. QED BY <1>1, <1>2, <1>6, ConcatWires DEF Sound
<1> HIDE DEF two
<1>8. Sound(three) /\ Partial(three, id)
  <2> HIDE DEF Sound
  <2>1. QED BY <1>3, <1>6, <1>7, ConcatWires DEF Sound
<1> HIDE DEF three
<1>9. Sound(three \o result) /\ OneAnswer(three \o result, id)
  <2> HIDE DEF Sound
  <2>1. QED BY <1>4, <1>6, <1>8, ConcatWires DEF Sound
<1>10. Sound(boundary \o result) /\ OneAnswer(boundary \o result, id)
  <2> HIDE DEF Sound
  <2>1. QED BY <1>1, <1>4, <1>6, ConcatWires DEF Sound
<1>11. QED BY <1>5, <1>9, <1>10 DEF three, two

LEMMA PrefixAnswer ==
  ASSUME NEW s, IsList(s), NEW id, OneAnswer(s, id), NEW n \in 0 .. Len(s) - 1
  PROVE  OneAnswer(SubSeq(s, 1, n), id)
BY PrefixList DEF OneAnswer

-----------------------------------------------------------------------------
(* What the functions of the session leave alone. *)

Keeps(s, u) ==
  /\ SessionShape(u)
  /\ u.ws = s.ws /\ u.generation = s.generation /\ u.busy = s.busy
  /\ u.pending = s.pending /\ u.reply = s.reply /\ u.causal = s.causal

LEMMA TickKeeps ==
  ASSUME NEW s, SessionShape(s)
  PROVE  Keeps(s, Tick(s)) /\ Tick(s).cursor = s.cursor + 1
BY FieldsAre DEF Keeps, SessionShape, Tick

LEMMA AppendEventKeeps ==
  ASSUME NEW s, SessionShape(s), NEW e, NEW pressed
  PROVE  Keeps(s, AppendEvent(s, e, pressed))
<1> DEFINE ring == Push(Tick(s).events, [e EXCEPT !.t = s.cursor + 1], pressed)
<1>1. AppendEvent(s, e, pressed) = [Tick(s) EXCEPT !.events = ring, !.quiet = FALSE]
  BY DEF AppendEvent
<1>2. Keeps(s, Tick(s))
  BY TickKeeps
<1> HIDE DEF ring
<1>3. QED BY <1>1, <1>2, FieldsAre DEF Keeps, SessionShape

LEMMA AppendOversizedKeeps ==
  ASSUME NEW s, SessionShape(s)
  PROVE  Keeps(s, AppendOversized(s))
<1>1. Keeps(s, Tick(s)) /\ Tick(s).cursor = s.cursor + 1
  BY TickKeeps
<1>2. QED BY <1>1, FieldsAre DEF Keeps, SessionShape, AppendOversized

LEMMA LossKeeps ==
  ASSUME NEW s, SessionShape(s), NEW pressed
  PROVE  Keeps(s, Loss(s, pressed))
<1> DEFINE u == [Tick(s) EXCEPT !.captureLost = TRUE, !.lossCursor = s.cursor + 1]
<1>1. Keeps(s, Tick(s))
  BY TickKeeps
<1>2. Keeps(s, u)
  BY <1>1, FieldsAre DEF Keeps, SessionShape
<1> HIDE DEF u
<1>3. Keeps(u, AppendEvent(u, Event("loss", 0, 0), pressed))
  BY <1>2, AppendEventKeeps DEF Keeps
<1>4. Loss(s, pressed) = AppendEvent(u, Event("loss", 0, 0), pressed)
  BY DEF Loss, u
<1>5. QED BY <1>2, <1>3, <1>4 DEF Keeps

\* A command that was abandoned: its promise learns that it failed.
Failed(s) == [id |-> s.pending.id, ok |-> FALSE, unavailable |-> FALSE]

Ends(s, u) ==
  /\ SessionShape(u)
  /\ u.busy = s.busy /\ u.pending = NoPending
  /\ s.pending = NoPending => u.reply = s.reply
  /\ s.pending # NoPending => u.reply # NoReply

LEMMA InvalidateEnds ==
  ASSUME NEW s, SessionShape(s)
  PROVE  /\ Ends(s, Invalidate(s)) /\ Invalidate(s).ws = s.ws
         /\ Invalidate(s).generation = s.generation + 1 /\ Invalidate(s).causal = NoTurn
         /\ Invalidate(s).requests = {} /\ Invalidate(s).actionId = 0
         /\ \A f \in {"cursor", "events", "captureLost", "generationCursor", "live"} : Invalidate(s)[f] = s[f]
<1> DEFINE reply == IF s.pending = NoPending THEN s.reply ELSE Failed(s)
<1>1. Invalidate(s) = [s EXCEPT !.generation = @ + 1, !.network = FALSE, !.requests = {},
                         !.actionId = 0, !.causal = NoTurn, !.pending = NoPending, !.reply = reply]
  BY FieldsAre DEF Invalidate, SessionShape, Failed
<1>2. /\ IsRecord(reply, {"id"}) /\ reply.id \in Nat
      /\ s.pending = NoPending => reply = s.reply
      /\ s.pending # NoPending => reply # NoReply
  BY DEF SessionShape, Failed, IsRecord, NoReply
<1>3. IsRecord(NoPending, {"id"})
  BY DEF IsRecord, NoPending
<1> HIDE DEF reply
<1> DEFINE u == Invalidate(s)
<1>4. s = [f \in Fields |-> s[f]] /\ s.generation \in Nat
  BY DEF SessionShape
<1>5. /\ u = [f \in Fields |-> u[f]] /\ u.reply = reply /\ u.pending = NoPending
      /\ u.generation = s.generation + 1
  BY <1>1, <1>4, FieldsAre
<1>6. /\ u.ws = s.ws /\ u.cursor = s.cursor /\ u.busy = s.busy /\ u.causal = NoTurn
      /\ u.actionId = 0 /\ u.generationCursor = s.generationCursor /\ u.lastCommandCursor = s.lastCommandCursor
      /\ u.requests = {} /\ u.events = s.events /\ u.captureLost = s.captureLost /\ u.live = s.live
  BY <1>1, <1>4, FieldsAre
<1> HIDE DEF u
<1>7. QED BY <1>2, <1>3, <1>4, <1>5, <1>6 DEF SessionShape, Ends, u

LEMMA DetachEnds ==
  ASSUME NEW s, SessionShape(s)
  PROVE  /\ Ends(s, Detach(s)) /\ Detach(s).ws = 0 /\ Detach(s).causal = NoTurn
         /\ Detach(s).generation = s.generation + 1
         /\ Detach(s).requests = {} /\ Detach(s).actionId = 0
         /\ \A f \in {"cursor", "events", "captureLost", "generationCursor", "live"} : Detach(s)[f] = s[f]
<1> DEFINE u == [s EXCEPT !.ws = 0]
<1>1. /\ SessionShape(u) /\ u.ws = 0 /\ u.busy = s.busy /\ u.pending = s.pending /\ u.reply = s.reply
      /\ u.generation = s.generation
      /\ \A f \in {"cursor", "events", "captureLost", "generationCursor", "live"} : u[f] = s[f]
  BY FieldsAre, BridgeAssumption DEF SessionShape
<1> HIDE DEF u
<1>2. /\ Ends(u, Invalidate(u)) /\ Invalidate(u).ws = 0 /\ Invalidate(u).causal = NoTurn
      /\ Invalidate(u).generation = u.generation + 1
      /\ Invalidate(u).requests = {} /\ Invalidate(u).actionId = 0
      /\ \A f \in {"cursor", "events", "captureLost", "generationCursor", "live"} : Invalidate(u)[f] = u[f]
  BY <1>1, InvalidateEnds
<1>3. Detach(s) = Invalidate(u)
  BY DEF Detach, u
<1>4. QED BY <1>1, <1>2, <1>3 DEF Ends

\* A new generation of connection c, with nothing captured in it.
Begins(s, w, c) ==
  /\ Ends(s, w) /\ w.ws = c /\ w.causal = NoTurn
  /\ w.generation = s.generation + 1 /\ w.events = EmptyRing
  /\ w.requests = {} /\ w.actionId = 0
  /\ w.captureLost = FALSE /\ w.cursor = s.cursor + 1 /\ w.generationCursor = w.cursor

LEMMA PairEnds ==
  ASSUME NEW s, SessionShape(s), NEW c \in Conns, NEW network
  PROVE  Begins(s, Pair(s, c, network), c)
<1> DEFINE v == Invalidate(s)
           u == Tick(v)
           w == Pair(s, c, network)
<1>1. /\ Ends(s, v) /\ v.causal = NoTurn /\ v.generation = s.generation + 1
      /\ v.requests = {} /\ v.actionId = 0 /\ v.cursor = s.cursor
  BY InvalidateEnds
<1>2. /\ u = [f \in Fields |-> u[f]] /\ u.cursor = s.cursor + 1 /\ s.cursor \in Nat
      /\ \A f \in Fields \ {"cursor"} : u[f] = v[f]
  BY <1>1, FieldsAre DEF Ends, SessionShape, Tick
<1>3. Pair(s, c, network) =
        [u EXCEPT !.ws = c, !.events = EmptyRing, !.generationCursor = u.cursor,
                  !.lossCursor = u.cursor, !.captureLost = FALSE,
                  !.lastCommandCursor = u.cursor, !.network = network, !.quiet = FALSE]
  BY DEF Pair
<1>4. c \in 0 .. NConns
  BY BridgeAssumption DEF Conns
<1> HIDE DEF u, v
<1>5. /\ w = [f \in Fields |-> w[f]] /\ w.ws = c /\ w.cursor = u.cursor /\ w.generationCursor = u.cursor
      /\ w.lastCommandCursor = u.cursor /\ w.events = EmptyRing /\ w.captureLost = FALSE
      /\ \A f \in {"generation", "busy", "pending", "reply", "actionId", "causal", "requests"} : w[f] = u[f]
  BY <1>2, <1>3, FieldsAre
<1> HIDE DEF w
<1>6. /\ w.generation = v.generation /\ w.busy = v.busy /\ w.pending = v.pending /\ w.reply = v.reply
      /\ w.actionId = 0 /\ w.causal = NoTurn /\ w.requests = {}
  BY <1>1, <1>2, <1>5, FieldsAre
<1>7. QED BY <1>1, <1>2, <1>4, <1>5, <1>6 DEF Begins, Ends, SessionShape, w

LEMMA AbandonEnds ==
  ASSUME NEW s, SessionShape(s), s.pending # NoPending
  PROVE  /\ Ends(s, Abandon(s)) /\ Abandon(s).ws = s.ws /\ Abandon(s).generation = s.generation
         /\ Abandon(s).causal = s.causal
<1>1. Abandon(s) = [s EXCEPT !.pending = NoPending, !.reply = Failed(s)]
  BY DEF Abandon, Failed
<1>2. /\ IsRecord(Failed(s), {"id"}) /\ Failed(s).id \in Nat /\ Failed(s) # NoReply
      /\ IsRecord(NoPending, {"id"})
  BY DEF SessionShape, Failed, IsRecord, NoReply, NoPending
<1>3. QED BY <1>1, <1>2, FieldsAre DEF SessionShape, Ends

\* The command that is pending stays the one that is.
KeepsTurn(s, u) ==
  /\ SessionShape(u)
  /\ u.ws = s.ws /\ u.generation = s.generation /\ u.busy = s.busy /\ u.reply = s.reply
  /\ u.causal = s.causal
  /\ u.pending = NoPending <=> s.pending = NoPending
  /\ u.pending.id = s.pending.id

LEMMA KeepsIsTurn ==
  ASSUME NEW s, NEW u, Keeps(s, u)
  PROVE  KeepsTurn(s, u)
BY DEF Keeps, KeepsTurn

\* A field of a session the shape says nothing of.
LEMMA SetField ==
  ASSUME NEW s, SessionShape(s), NEW x,
         NEW f \in Fields \ {"ws", "cursor", "generation", "busy", "pending", "reply", "causal",
                             "actionId", "generationCursor", "lastCommandCursor"}
  PROVE  Keeps(s, [s EXCEPT ![f] = x])
BY FieldsAre DEF Keeps, SessionShape

\* A field of the pending command other than its id.
LEMMA SetPending ==
  ASSUME NEW s, SessionShape(s), s.pending # NoPending, NEW x, NEW f, f # "id"
  PROVE  /\ KeepsTurn(s, [s EXCEPT !.pending[f] = x])
         /\ [s EXCEPT !.pending[f] = x].pending = [s.pending EXCEPT ![f] = x]
<1> DEFINE p == [s.pending EXCEPT ![f] = x]
           u == [s EXCEPT !.pending[f] = x]
<1>1. u = [s EXCEPT !.pending = p]
  BY FieldsAre DEF SessionShape
<1>2. IsRecord(s.pending, {"id"}) /\ s.pending.id \in 1 .. s.cursor
  BY DEF SessionShape
<1>3. IsRecord(p, {"id"}) /\ p.id = s.pending.id
  BY <1>2 DEF IsRecord
<1>4. p # NoPending
  BY <1>2, <1>3 DEF NoPending
<1> HIDE DEF p, u
<1>5. KeepsTurn(s, u) /\ u.pending = p
  BY <1>1, <1>2, <1>3, <1>4, FieldsAre DEF SessionShape, KeepsTurn
<1>6. QED BY <1>5 DEF u, p

\* The frames that are no part of a command.
LEMMA ObservationKeeps ==
  ASSUME NEW s, SessionShape(s), NEW m, m.type \in Observations, NEW pressed
  PROVE  Keeps(s, Accept(s, m, pressed))
<1>1. CASE m.type = "start"
  <2> DEFINE v == [s EXCEPT !.requests = @ \cup {[rid |-> m.rid, act |-> m.act]}]
  <2>1. Keeps(s, v)
    BY SetField, FieldsAre
  <2>2. Accept(s, m, pressed) \in {Loss(s, pressed), AppendEvent(v, Event("start", m.act, m.rid), pressed)}
    BY <1>1 DEF Accept
  <2> HIDE DEF v
  <2>3. Keeps(v, AppendEvent(v, Event("start", m.act, m.rid), pressed))
    BY <2>1, AppendEventKeeps DEF Keeps
  <2>4. Keeps(s, Loss(s, pressed))
    BY LossKeeps
  <2>5. QED BY <2>1, <2>2, <2>3, <2>4 DEF Keeps
<1>2. CASE m.type = "network"
  <2> DEFINE r == CHOOSE q \in s.requests : q.rid = m.rid
             v == [s EXCEPT !.requests = @ \ {r}]
  <2>1. Keeps(s, v)
    BY SetField, FieldsAre
  <2>2. Accept(s, m, pressed) \in {Loss(s, pressed), AppendEvent(v, Event("network", r.act, m.rid), pressed)}
    BY <1>2 DEF Accept
  <2> HIDE DEF r, v
  <2>3. Keeps(v, AppendEvent(v, Event("network", r.act, m.rid), pressed))
    BY <2>1, AppendEventKeeps DEF Keeps
  <2>4. Keeps(s, Loss(s, pressed))
    BY LossKeeps
  <2>5. QED BY <2>1, <2>2, <2>3, <2>4 DEF Keeps
<1>3. CASE m.type = "observer"
  <2> DEFINE v == [s EXCEPT !.network = FALSE]
  <2>1. Keeps(s, v)
    BY SetField, FieldsAre
  <2>2. Accept(s, m, pressed) = AppendEvent(v, Event("observer", s.actionId, 0), pressed)
    BY <1>3 DEF Accept
  <2> HIDE DEF v
  <2>3. Keeps(v, AppendEvent(v, Event("observer", s.actionId, 0), pressed))
    BY <2>1, AppendEventKeeps DEF Keeps
  <2>4. QED BY <2>1, <2>2, <2>3 DEF Keeps
<1>4. CASE m.type = "console"
  <2>1. Accept(s, m, pressed) \in
          {AppendOversized(s), AppendEvent(s, Event("console", s.actionId, 0), pressed)}
    BY <1>4 DEF Accept
  <2>2. /\ Keeps(s, AppendOversized(s))
        /\ Keeps(s, AppendEvent(s, Event("console", s.actionId, 0), pressed))
    BY AppendOversizedKeeps, AppendEventKeeps
  <2>3. QED BY <2>1, <2>2
<1>5. QED BY <1>1, <1>2, <1>3, <1>4 DEF Observations

LEMMA AcceptKeeps ==
  ASSUME NEW s, SessionShape(s), NEW m, m.type \in FrameTypes \ {"hello", "result"},
         ~Refused(s, m), NEW pressed
  PROVE  KeepsTurn(s, Accept(s, m, pressed))
<1>1. CASE m.type = "reading"
  <2> DEFINE u == AppendEvent(s, Event("reading", m.id, 0), pressed)
             r == [t |-> u.cursor, value |-> m.value]
  <2>1. s.pending # NoPending
    BY <1>1 DEF Refused, Reading
  <2>2. Keeps(s, u)
    BY AppendEventKeeps
  <2>3. Accept(s, m, pressed) = IF m.phase = "before" THEN [u EXCEPT !.pending.before = r]
                                                      ELSE [u EXCEPT !.pending.after = r]
    BY <1>1 DEF Accept
  <2> HIDE DEF u, r
  <2>4. /\ KeepsTurn(u, [u EXCEPT !.pending["before"] = r])
        /\ KeepsTurn(u, [u EXCEPT !.pending["after"] = r])
    BY <2>1, <2>2, SetPending DEF Keeps
  <2>5. QED BY <2>2, <2>3, <2>4 DEF Keeps, KeepsTurn
<1>2. CASE m.type = "boundary"
  <2> DEFINE v == [s EXCEPT !.actionId = m.id]
             u == AppendEvent(v, Event("boundary", m.id, 0), pressed)
             w == [u EXCEPT !.pending.boundary = TRUE]
  <2>1. s.pending # NoPending
    BY <1>2 DEF Refused, Boundary
  <2>2. Keeps(s, v)
    <3>1. m.id \in 1 .. s.cursor
      BY <1>2, <2>1 DEF Refused, Boundary, SessionShape
    <3>2. QED BY <3>1, FieldsAre DEF Keeps, SessionShape
  <2> HIDE DEF v
  <2>3. Keeps(v, u)
    BY <2>2, AppendEventKeeps DEF Keeps
  <2>4. Accept(s, m, pressed) = [u EXCEPT !.pending.boundary = TRUE, !.pending.actionCursor = u.cursor]
    BY <1>2 DEF Accept, v
  <2> HIDE DEF u
  <2>5. KeepsTurn(u, [u EXCEPT !.pending["boundary"] = TRUE])
    BY <2>1, <2>2, <2>3, SetPending DEF Keeps
  <2>6. Accept(s, m, pressed) = [w EXCEPT !.pending.actionCursor = u.cursor]
    BY <2>4
  <2> HIDE DEF w
  <2>7. KeepsTurn(u, w)
    BY <2>5 DEF w
  <2>8. KeepsTurn(w, [w EXCEPT !.pending["actionCursor"] = u.cursor])
    <3>1. SessionShape(w) /\ w.pending # NoPending
      BY <2>1, <2>2, <2>3, <2>7 DEF Keeps, KeepsTurn
    <3>2. QED BY <3>1, SetPending
  <2>9. QED BY <2>2, <2>3, <2>6, <2>7, <2>8 DEF Keeps, KeepsTurn
<1>3. CASE m.type \in Observations
  BY <1>3, ObservationKeeps, KeepsIsTurn
<1>4. QED BY <1>1, <1>2, <1>3 DEF FrameTypes, Observations

\* A result resolves the promise.
LEMMA ResultEnds ==
  ASSUME NEW s, SessionShape(s), NEW m, m.type = "result", ~Refused(s, m), NEW pressed
  PROVE  LET u == Accept(s, m, pressed)
         IN  Ends(s, u) /\ u.ws = s.ws /\ u.generation = s.generation
<1> DEFINE p      == s.pending
           causal == p.kind = "causal" /\ m.ok
           u      == IF causal THEN AppendEvent(s, Event("result", p.id, 0), pressed) ELSE s
           ack    == p.kind \in Actions => p.boundary
           turn   == IF causal THEN Turn(u) ELSE u.causal
           reply  == [id |-> p.id, ok |-> m.ok /\ ack, unavailable |-> ack /\ ~m.ok]
           v      == [u EXCEPT !.causal = turn]
<1>1. p # NoPending /\ p.id \in 1 .. s.cursor /\ p.id \in Nat \ {0}
  BY DEF Refused, SessionShape
<1>2. Keeps(s, u)
  BY AppendEventKeeps DEF Keeps
<1>3. Accept(s, m, pressed) = [u EXCEPT !.pending = NoPending, !.causal = turn, !.reply = reply]
  <2>1. Accept(s, m, pressed) = ResultOf(s, m, pressed)
    BY DEF Accept
  <2>2. ResultOf(s, m, pressed) = [u EXCEPT !.pending = NoPending, !.causal = IF causal THEN Turn(u) ELSE @,
                                            !.reply = reply]
    BY DEF ResultOf
  <2> HIDE DEF u, causal, reply
  <2>3. QED BY <2>1, <2>2, <1>2, FieldsAre DEF Keeps, SessionShape
<1>4. IsRecord(reply, {"id"}) /\ reply.id \in Nat /\ reply # NoReply /\ IsRecord(NoPending, {"id"})
  BY <1>1 DEF IsRecord, NoReply, NoPending
<1> HIDE DEF u, turn, reply, causal, ack
<1>5. QED BY <1>1, <1>2, <1>3, <1>4, FieldsAre DEF Keeps, SessionShape, Ends

\* A command is pending, or has failed at once.
LEMMA AskPends ==
  ASSUME NEW s, SessionShape(s), s.pending = NoPending, NEW kind
  PROVE  LET u == Ask([s EXCEPT !.reply = NoReply], kind)
         IN  /\ SessionShape(u)
             /\ u.ws = s.ws /\ u.generation = s.generation /\ u.busy = s.busy
             /\ IF Reachable(s) THEN u.pending # NoPending /\ u.reply = NoReply
                                ELSE u.pending = NoPending /\ u.reply # NoReply /\ ~Fresh(u.reply)
<1> DEFINE v       == [s EXCEPT !.reply = NoReply]
           t       == Tick(v)
           pending == [id |-> t.cursor, kind |-> kind, boundary |-> FALSE,
                       actionCursor |-> 0, before |-> NoReading, after |-> NoReading]
           reply   == [id |-> t.cursor, ok |-> FALSE, unavailable |-> FALSE]
           causal  == IF kind \in Actions THEN NoTurn ELSE t.causal
           last    == IF kind \in Actions THEN t.cursor ELSE t.lastCommandCursor
<1>1. IsRecord(NoReply, {"id"}) /\ NoReply.id = 0
  BY DEF IsRecord, NoReply
<1>2. /\ SessionShape(v) /\ v.ws = s.ws /\ v.generation = s.generation /\ v.busy = s.busy
      /\ v.pending = NoPending /\ v.reply = NoReply
  BY <1>1, FieldsAre DEF SessionShape
<1> HIDE DEF v
<1>3. Keeps(v, t) /\ t.cursor = v.cursor + 1 /\ v.cursor \in Nat
  BY <1>2, TickKeeps DEF SessionShape
<1>4. t.cursor \in Nat \ {0}
  BY <1>3
<1>5. /\ IsRecord(pending, {"id"}) /\ pending.id = t.cursor /\ pending # NoPending
      /\ IsRecord(reply, {"id"}) /\ reply.id = t.cursor /\ reply # NoReply /\ ~Fresh(reply)
  BY <1>4 DEF IsRecord, NoPending, NoReply, Fresh
<1>6. Reachable(v) <=> Reachable(s)
  BY <1>2 DEF Reachable
<1>7. Ask(v, kind) = IF ~Reachable(v) THEN [t EXCEPT !.reply = reply]
                     ELSE [t EXCEPT !.pending = pending, !.causal = causal, !.lastCommandCursor = last]
  <2>1. t = [f \in Fields |-> t[f]]
    BY <1>3 DEF Keeps, SessionShape
  <2> HIDE DEF t
  <2>2. Ask(v, kind) = IF ~Reachable(v) THEN [t EXCEPT !.reply = reply]
                       ELSE [t EXCEPT !.pending = pending,
                                      !.causal = IF kind \in Actions THEN NoTurn ELSE @,
                                      !.lastCommandCursor = IF kind \in Actions THEN t.cursor ELSE @]
    BY DEF Ask, t
  <2> HIDE DEF pending, reply
  <2>3. QED BY <2>1, <2>2, FieldsAre
<1> DEFINE u == Ask(v, kind)
<1> HIDE DEF t, pending, reply, causal, last, u
<1>8. CASE Reachable(s)
  <2>1. u = [t EXCEPT !.pending = pending, !.causal = causal, !.lastCommandCursor = last]
    BY <1>6, <1>7, <1>8 DEF u
  <2>2. /\ SessionShape(u) /\ u.ws = t.ws /\ u.generation = t.generation /\ u.busy = t.busy
        /\ u.pending = pending /\ u.reply = t.reply
    <3>1. /\ t = [f \in Fields |-> t[f]] /\ t.ws \in 0 .. NConns /\ t.generation \in Nat /\ t.busy \in BOOLEAN
          /\ IsRecord(t.reply, {"id"}) /\ t.reply.id \in Nat /\ t.actionId \in 0 .. t.cursor
          /\ t.generationCursor \in 0 .. t.cursor /\ t.lastCommandCursor \in Nat
      BY <1>3 DEF Keeps, SessionShape
    <3>2. /\ u = [f \in Fields |-> u[f]] /\ u.pending = pending /\ u.lastCommandCursor = last
          /\ u.ws = t.ws /\ u.generation = t.generation /\ u.busy = t.busy /\ u.reply = t.reply
          /\ u.cursor = t.cursor /\ u.actionId = t.actionId /\ u.generationCursor = t.generationCursor
      BY <2>1, <3>1, FieldsAre
    <3>3. last \in Nat /\ t.cursor \in 1 .. t.cursor
      BY <1>4, <3>1 DEF last
    <3>4. QED BY <1>4, <1>5, <3>1, <3>2, <3>3 DEF SessionShape
  <2>3. QED BY <2>2, <1>2, <1>3, <1>5, <1>8 DEF Keeps, u, v
<1>9. CASE ~Reachable(s)
  <2>1. u = [t EXCEPT !.reply = reply]
    BY <1>6, <1>7, <1>9 DEF u
  <2>2. /\ SessionShape(u) /\ u.ws = t.ws /\ u.generation = t.generation /\ u.busy = t.busy
        /\ u.pending = t.pending /\ u.reply = reply
    BY <2>1, <1>3, <1>5, FieldsAre DEF Keeps, SessionShape
  <2>3. QED BY <2>2, <1>2, <1>3, <1>5, <1>9 DEF Keeps, u, v
<1>10. QED BY <1>8, <1>9
-----------------------------------------------------------------------------
(* Steps that leave most of the state alone. *)

\* A connection other than the one a step is about keeps its invariant, as long
\* as the session was and stays with neither or with the step's.
LEMMA OthersWired ==
  ASSUME NEW c \in Conns, NEW d \in Conns \ {c}, NEW s, NEW u,
         s.ws \in {0, c}, u.ws \in {0, c},
         NEW k, NEW p, NEW a, NEW b, Wired(d, s, k, p, a, b)
  PROVE  Wired(d, u, k, p, a, b)
<1>1. s.ws # d /\ u.ws # d
  BY DEF Conns
<1>2. QED BY <1>1 DEF Wired, Paired

\* What the session and the socket are to a connection decides its wires.
LEMMA SameWired ==
  ASSUME NEW c \in Conns, NEW s, NEW u,
         u.ws = s.ws, u.generation = s.generation, u.pending = s.pending,
         NEW k, NEW p, NEW a, NEW b, Wired(c, s, k, p, a, b)
  PROVE  Wired(c, u, k, p, a, b)
BY DEF Wired, Paired, Ordered

\* Steps of one document: its own wires are what is left to show.
LEMMA PageStep ==
  ASSUME TurnInv, UNCHANGED <<sess, sock, caller>>, NEW c \in Conns,
         NEW p, page' = [page EXCEPT ![c] = p],
         NEW u, up' = [up EXCEPT ![c] = u], NEW d, down' = [down EXCEPT ![c] = d],
         WireShape(p, u, d), Wired(c, sess, sock[c], p, u, d)
  PROVE  TurnInv'
<1>1. /\ page' = [e \in Conns |-> page'[e]] /\ up' = [e \in Conns |-> up'[e]]
      /\ down' = [e \in Conns |-> down'[e]]
      /\ page'[c] = p /\ up'[c] = u /\ down'[c] = d
      /\ \A e \in Conns \ {c} : page'[e] = page[e] /\ up'[e] = up[e] /\ down'[e] = down[e]
  BY DEF TurnInv, Shape
<1>2. Owned'
  BY DEF TurnInv, Owned
<1>3. \A e \in Conns : WireShape(page'[e], up'[e], down'[e])
  BY <1>1 DEF TurnInv, Shape
<1>4. Shape'
  BY <1>1, <1>3 DEF TurnInv, Shape
<1>5. ASSUME NEW e \in Conns
      PROVE  Wired(e, sess', sock'[e], page'[e], up'[e], down'[e])
  BY <1>1 DEF TurnInv, Wires
<1>6. Wires'
  BY <1>5 DEF Wires
<1>7. QED BY <1>2, <1>4, <1>6 DEF TurnInv

\* Steps of the daemon at one socket, k: the session is with it, or with nobody,
\* or is left alone.
LEMMA SocketStep ==
  ASSUME TurnInv, UNCHANGED <<page, caller>>, NEW c \in Conns,
         NEW k \in [st : {"none", "open", "closing", "closed"}, authenticated : BOOLEAN, generation : Nat],
         sock' = [sock EXCEPT ![c] = k],
         NEW u, up' = [up EXCEPT ![c] = u], NEW d, down' = [down EXCEPT ![c] = d],
         sess' = sess \/ (sess.ws \in {0, c} /\ sess'.ws \in {0, c}),
         SessionShape(sess'), Owned', WireShape(page[c], u, d), Wired(c, sess', k, page[c], u, d)
  PROVE  TurnInv'
<1>1. /\ up' = [e \in Conns |-> up'[e]] /\ down' = [e \in Conns |-> down'[e]]
      /\ sock'[c] = k /\ up'[c] = u /\ down'[c] = d
      /\ \A e \in Conns \ {c} : sock'[e] = sock[e] /\ up'[e] = up[e] /\ down'[e] = down[e]
  BY DEF TurnInv, Shape
<1>2. \A e \in Conns : WireShape(page'[e], up'[e], down'[e])
  BY <1>1 DEF TurnInv, Shape
<1>3. Shape'
  BY <1>1, <1>2 DEF TurnInv, Shape
<1>4. ASSUME NEW e \in Conns
      PROVE  Wired(e, sess', sock'[e], page'[e], up'[e], down'[e])
  <2>1. CASE e = c
    BY <1>1, <2>1
  <2>2. CASE e # c
    <3>1. Wired(e, sess, sock'[e], page'[e], up'[e], down'[e])
      BY <1>1, <2>2 DEF TurnInv, Wires
    <3>2. CASE sess' = sess
      BY <3>1, <3>2
    <3>3. CASE sess.ws \in {0, c} /\ sess'.ws \in {0, c}
      BY <2>2, <3>1, <3>3, OthersWired
    <3>4. QED BY <3>2, <3>3
  <2>3. QED BY <2>1, <2>2
<1>5. Wires'
  BY <1>4 DEF Wires
<1>6. QED BY <1>3, <1>5 DEF TurnInv

\* What a session owes its caller when it ends.
LEMMA EndsOwned ==
  ASSUME TurnInv, UNCHANGED caller, Ends(sess, sess')
  PROVE  Owned'
BY DEF TurnInv, Owned, Ends

\* What every step starts from.
LEMMA WhatHolds ==
  ASSUME TurnInv, NEW c \in Conns
  PROVE  /\ WireShape(page[c], up[c], down[c]) /\ Wired(c, sess, sock[c], page[c], up[c], down[c])
         /\ sock[c] \in [st : {"none", "open", "closing", "closed"}, authenticated : BOOLEAN, generation : Nat]
         /\ SessionShape(sess) /\ Owned
BY DEF TurnInv, Shape, Wires
-----------------------------------------------------------------------------
(* The documents. *)

LEMMA ConnectTurn ==
  ASSUME TurnInv, NEW c \in Conns, Connect(c), UNCHANGED caller
  PROVE  TurnInv'
<1>1. WireShape(page[c], up[c], down[c]) /\ Wired(c, sess, sock[c], page[c], up[c], down[c])
  BY WhatHolds
<1>2. /\ ~sock[c].authenticated /\ sock[c].st = "none" /\ up[c] = <<>> /\ down[c] = <<>>
      /\ page[c].st = "idle" /\ sess.ws # c
  BY <1>1 DEF Connect, Wired, Paired
<1>3. up' = [up EXCEPT ![c] = <<>>] /\ down' = [down EXCEPT ![c] = <<>>]
  BY <1>2 DEF Connect, TurnInv, Shape
<1>4. CASE sess.live /\ sess.ws = 0
  <2> DEFINE p == [page[c] EXCEPT !.st = "dialing"]
             k == [sock[c] EXCEPT !.st = "open"]
  <2>1. k \in [st : {"none", "open", "closing", "closed"}, authenticated : BOOLEAN, generation : Nat]
        /\ k.st = "open" /\ ~k.authenticated
    BY <1>2, WhatHolds
  <2>2. WireShape(p, <<>>, <<>>) /\ p.st = "dialing"
    BY <1>1, <1>2 DEF WireShape, IsRecord, NewPage
  <2>3. sess' = sess /\ sock' = [sock EXCEPT ![c] = k] /\ page' = [page EXCEPT ![c] = p]
    BY <1>4 DEF Connect, TurnInv, Shape
  <2> HIDE DEF p, k
  <2>4. Wired(c, sess, k, p, <<>>, <<>>)
    BY <1>2, <2>1, <2>2, EmptyList DEF Wired, Paired
  <2>5. /\ \A e \in Conns \ {c} : page'[e] = page[e] /\ sock'[e] = sock[e] /\ up'[e] = up[e] /\ down'[e] = down[e]
        /\ page'[c] = p /\ sock'[c] = k /\ up'[c] = <<>> /\ down'[c] = <<>>
        /\ page' = [e \in Conns |-> page'[e]] /\ up' = [e \in Conns |-> up'[e]]
        /\ down' = [e \in Conns |-> down'[e]]
    BY <1>3, <2>3 DEF TurnInv, Shape
  <2>6. \A e \in Conns : /\ WireShape(page'[e], up'[e], down'[e])
                         /\ Wired(e, sess', sock'[e], page'[e], up'[e], down'[e])
    BY <2>2, <2>3, <2>4, <2>5 DEF TurnInv, Shape, Wires
  <2>7. Shape'
    BY <2>1, <2>3, <2>5, <2>6 DEF TurnInv, Shape
  <2>8. Owned'
    BY <1>4, <2>3 DEF TurnInv, Owned
  <2>9. QED BY <2>6, <2>7, <2>8 DEF TurnInv, Wires
<1>5. CASE ~(sess.live /\ sess.ws = 0)
  <2>1. page' = [page EXCEPT ![c] = Leave(page[c])] /\ UNCHANGED <<sess, sock, caller>>
    BY <1>5 DEF Connect, TurnInv, Shape
  <2>2. WireShape(Leave(page[c]), <<>>, <<>>) /\ Leave(page[c]).st = "gone"
    BY <1>1, <1>2, EmptyList DEF WireShape, IsRecord, NewPage, Leave
  <2>3. Wired(c, sess, sock[c], Leave(page[c]), <<>>, <<>>)
    BY <1>2, <2>2 DEF Wired, Paired
  <2>4. QED BY <1>3, <2>1, <2>2, <2>3, PageStep
<1>6. QED BY <1>4, <1>5

LEMMA OpenTurn ==
  ASSUME TurnInv, NEW c \in Conns, Open(c), UNCHANGED caller
  PROVE  TurnInv'
<1>1. WireShape(page[c], up[c], down[c]) /\ Wired(c, sess, sock[c], page[c], up[c], down[c])
  BY WhatHolds
<1>2. /\ ~sock[c].authenticated /\ down[c] = <<>> /\ page[c].st = "dialing" /\ sess.ws # c
  BY <1>1 DEF Open, Wired, Paired
<1>3. PICK network \in BOOLEAN : up' = [up EXCEPT ![c] = <<[type |-> "hello", network |-> network]>>]
  BY DEF Open
<1> DEFINE p == [page[c] EXCEPT !.st = "open"]
           u == <<[type |-> "hello", network |-> network]>>
<1>4. IsList(u) /\ (\A i \in DOMAIN u : u[i].type = "hello") /\ Plain(u)
  BY SingleList DEF Plain, TurnTypes
<1> HIDE DEF u
<1>5. WireShape(p, u, down[c]) /\ p.st = "open"
  BY <1>1, <1>4 DEF WireShape, IsRecord, NewPage, FrameTypes
<1>6. /\ page' = [page EXCEPT ![c] = p] /\ UNCHANGED <<sess, sock, caller>>
      /\ up' = [up EXCEPT ![c] = u] /\ down' = [down EXCEPT ![c] = down[c]]
  BY <1>3 DEF Open, TurnInv, Shape, u
<1> HIDE DEF p
<1>7. Wired(c, sess, sock[c], p, u, down[c])
  BY <1>2, <1>4, <1>5 DEF Wired, Paired
<1>8. QED BY <1>5, <1>6, <1>7, PageStep

LEMMA EmitTurn ==
  ASSUME TurnInv, NEW c \in Conns, Watching(c), UNCHANGED <<sess, sock, down, caller>>,
         NEW p, p = [x \in DOMAIN page[c] |-> p[x]], p.st = page[c].st, p.early = page[c].early,
         NEW m, m.type \in Observations, Emit(c, p, m)
  PROVE  TurnInv'
<1>1. WireShape(page[c], up[c], down[c]) /\ Wired(c, sess, sock[c], page[c], up[c], down[c])
  BY WhatHolds
<1>2. WireShape(p, up[c], down[c])
  BY <1>1 DEF WireShape, IsRecord
<1>3. down' = [down EXCEPT ![c] = down[c]]
  BY DEF TurnInv, Shape
<1>4. m.type \notin TurnTypes /\ m.type \in FrameTypes
  BY DEF Observations, TurnTypes, FrameTypes
<1>5. CASE p.st = "ready"
  <2> DEFINE u == Append(up[c], m)
  <2>1. page' = [page EXCEPT ![c] = p] /\ up' = [up EXCEPT ![c] = u]
    BY <1>5 DEF Emit, TurnInv, Shape
  <2>2. WireShape(p, u, down[c])
    BY <1>2, <1>4, AppendList DEF WireShape
  <2>3. /\ Plain(up[c]) => Plain(u)
        /\ OneAnswer(up[c], sess.pending.id) => OneAnswer(u, sess.pending.id)
    BY <1>1, <1>4, AppendWires DEF WireShape
  <2> HIDE DEF u
  <2>4. Wired(c, sess, sock[c], p, u, down[c])
    BY <1>1, <1>5, <2>3 DEF Wired, Paired, Ordered
  <2>5. QED BY <1>3, <2>1, <2>2, <2>4, PageStep
<1>6. CASE p.st # "ready" /\ Len(p.early) < MaxEarly
  <2> DEFINE q == [p EXCEPT !.early = Append(p.early, m)]
  <2>1. page' = [page EXCEPT ![c] = q] /\ up' = [up EXCEPT ![c] = up[c]]
    BY <1>6 DEF Emit, TurnInv, Shape
  <2>2. q.st = p.st /\ q.early = Append(p.early, m) /\ IsRecord(q, DOMAIN NewPage)
    BY <1>2 DEF WireShape, IsRecord, NewPage
  <2>3. IsList(q.early) /\ \A i \in DOMAIN q.early : q.early[i].type \in Observations
    BY <1>2, <2>2, AppendList DEF WireShape
  <2> HIDE DEF q
  <2>4. WireShape(q, up[c], down[c])
    BY <1>2, <2>2, <2>3 DEF WireShape
  <2>5. Wired(c, sess, sock[c], q, up[c], down[c])
    BY <1>1, <2>2 DEF Wired, Paired, Ordered
  <2>6. QED BY <1>3, <2>1, <2>4, <2>5, PageStep
<1>7. CASE p.st # "ready" /\ ~(Len(p.early) < MaxEarly)
  <2>1. page' = [page EXCEPT ![c] = Leave(p)] /\ up' = [up EXCEPT ![c] = up[c]]
    BY <1>7 DEF Emit, TurnInv, Shape
  <2>2. WireShape(Leave(p), up[c], down[c]) /\ Leave(p).st = "gone"
    BY <1>2, EmptyList DEF WireShape, IsRecord, NewPage, Leave
  <2>3. Wired(c, sess, sock[c], Leave(p), up[c], down[c])
    BY <1>1, <2>2 DEF Wired, Paired, Ordered
  <2>4. QED BY <1>3, <2>1, <2>2, <2>3, PageStep
<1>8. QED BY <1>5, <1>6, <1>7

LEMMA ObservationTurn ==
  ASSUME TurnInv, NEW c \in Conns, UNCHANGED caller,
         RaiseError(c) \/ StartRequest(c) \/ FinishRequest(c) \/ FailObserver(c)
  PROVE  TurnInv'
<1>1. IsRecord(page[c], DOMAIN NewPage)
  BY WhatHolds DEF WireShape
<1>2. ASSUME NEW f \in {"errors", "requests", "blind"}, NEW x
      PROVE  /\ [page[c] EXCEPT ![f] = x] = [y \in DOMAIN page[c] |-> [page[c] EXCEPT ![f] = x][y]]
             /\ [page[c] EXCEPT ![f] = x].st = page[c].st
             /\ [page[c] EXCEPT ![f] = x].early = page[c].early
  BY <1>1 DEF IsRecord, NewPage
<1>3. CASE RaiseError(c)
  <2> DEFINE e == [n |-> Cardinality(page[c].errors) + 1, act |-> page[c].actionId, answered |-> FALSE]
             p == [page[c] EXCEPT !["errors"] = page[c].errors \cup {e}]
  <2>1. PICK large \in scenario.large : Emit(c, p, [type |-> "console", large |-> large])
    BY <1>3 DEF RaiseError
  <2>2. Watching(c) /\ UNCHANGED <<sess, sock, down, caller>>
    BY <1>3 DEF RaiseError
  <2> DEFINE m == [type |-> "console", large |-> large]
  <2>3. m.type \in Observations
    BY DEF Observations
  <2>4. p = [y \in DOMAIN page[c] |-> p[y]] /\ p.st = page[c].st /\ p.early = page[c].early
    BY <1>2
  <2> HIDE DEF p, m
  <2>5. QED BY <2>1, <2>2, <2>3, <2>4, EmitTurn DEF m
<1>4. CASE StartRequest(c)
  <2> DEFINE rid == Cardinality(page[c].requests) + 1
             r == [rid |-> rid, act |-> page[c].actionId, done |-> FALSE, answered |-> FALSE]
             p == [page[c] EXCEPT !["requests"] = page[c].requests \cup {r}]
             m == [type |-> "start", rid |-> rid, act |-> r.act]
  <2>1. Emit(c, p, m) /\ Watching(c) /\ UNCHANGED <<sess, sock, down, caller>>
    BY <1>4 DEF StartRequest
  <2>2. m.type \in Observations
    BY DEF Observations
  <2>3. p = [y \in DOMAIN page[c] |-> p[y]] /\ p.st = page[c].st /\ p.early = page[c].early
    BY <1>2
  <2> HIDE DEF p, m
  <2>4. QED BY <2>1, <2>2, <2>3, EmitTurn
<1>5. CASE FinishRequest(c)
  <2>1. PICK r \in page[c].requests :
          Emit(c, [page[c] EXCEPT !["requests"] = (page[c].requests \ {r}) \cup {[r EXCEPT !.done = TRUE]}],
               [type |-> "network", rid |-> r.rid])
    BY <1>5 DEF FinishRequest
  <2> DEFINE p == [page[c] EXCEPT !["requests"] = (page[c].requests \ {r}) \cup {[r EXCEPT !.done = TRUE]}]
             m == [type |-> "network", rid |-> r.rid]
  <2>2. Emit(c, p, m) /\ Watching(c) /\ UNCHANGED <<sess, sock, down, caller>>
    BY <1>5, <2>1 DEF FinishRequest
  <2>3. m.type \in Observations
    BY DEF Observations
  <2>4. p = [y \in DOMAIN page[c] |-> p[y]] /\ p.st = page[c].st /\ p.early = page[c].early
    BY <1>2
  <2> HIDE DEF p, m
  <2>5. QED BY <2>2, <2>3, <2>4, EmitTurn
<1>6. CASE FailObserver(c)
  <2> DEFINE p == [page[c] EXCEPT !["blind"] = TRUE]
             m == [type |-> "observer"]
  <2>1. Emit(c, p, m) /\ Watching(c) /\ UNCHANGED <<sess, sock, down, caller>>
    BY <1>6 DEF FailObserver
  <2>2. m.type \in Observations
    BY DEF Observations
  <2>3. p = [y \in DOMAIN page[c] |-> p[y]] /\ p.st = page[c].st /\ p.early = page[c].early
    BY <1>2
  <2> HIDE DEF p, m
  <2>4. QED BY <2>1, <2>2, <2>3, EmitTurn
<1>7. QED BY <1>3, <1>4, <1>5, <1>6
LEMMA ReadyTurn ==
  ASSUME TurnInv, NEW c \in Conns, Ready(c), UNCHANGED caller
  PROVE  TurnInv'
<1> DEFINE p == [page[c] EXCEPT !.st = "ready", !.early = <<>>]
           u == up[c] \o page[c].early
           d == Tail(down[c])
           id == sess.pending.id
<1>1. /\ WireShape(page[c], up[c], down[c]) /\ Wired(c, sess, sock[c], page[c], up[c], down[c])
      /\ sock[c].authenticated \in BOOLEAN
  BY WhatHolds
<1>2. page[c].st = "open" /\ down[c] # <<>> /\ IsList(page[c].early) /\ IsList(up[c]) /\ IsList(down[c])
  BY <1>1 DEF Ready, WireShape
<1>3. WireShape(p, u, d) /\ p.st = "ready"
  <2>1. IsRecord(p, DOMAIN NewPage) /\ p.st = "ready" /\ p.early = <<>>
    BY <1>1 DEF WireShape, IsRecord, NewPage
  <2>2. IsList(u) /\ IsList(d)
    BY <1>2, ConcatList, TailList
  <2>3. ASSUME NEW i \in DOMAIN u
        PROVE  u[i].type \in FrameTypes
    <3>1. \A j \in DOMAIN page[c].early : page[c].early[j].type \in FrameTypes
      BY <1>1 DEF WireShape, Observations, FrameTypes
    <3>2. \A j \in DOMAIN up[c] : up[c][j].type \in FrameTypes
      BY <1>1 DEF WireShape
    <3>3. \/ i \in DOMAIN up[c] /\ u[i] = up[c][i]
          \/ i - Len(up[c]) \in DOMAIN page[c].early /\ u[i] = page[c].early[i - Len(up[c])]
      BY <1>2, <2>3, ConcatList
    <3> HIDE DEF u
    <3>4. QED BY <3>1, <3>2, <3>3
  <2> HIDE DEF p, u, d
  <2>4. QED BY <2>1, <2>2, <2>3, EmptyList DEF WireShape
<1>4. Plain(page[c].early)
  BY <1>1 DEF WireShape, Plain, Observations, TurnTypes
<1>5. /\ Plain(up[c]) => Plain(u)
      /\ OneAnswer(up[c], id) => OneAnswer(u, id)
  BY <1>2, <1>4, ConcatWires
<1>6. /\ Plain(down[c]) => Plain(d)
      /\ OneCommand(down[c], id) => OneCommand(d, id)
  BY <1>2, TailWires
<1>7. ASSUME Ordered(sess, page[c], up[c], down[c])
      PROVE  Ordered(sess, p, u, d)
  <2>1. \A i \in DOMAIN d : i + 1 \in DOMAIN down[c] /\ d[i] = down[c][i + 1] /\ i \in Nat \ {0}
    <3>1. d \in Seq(Range(d))
      BY <1>2, TailList DEF IsList
    <3>2. DOMAIN d = 1 .. Len(d) /\ Len(d) \in Nat
      BY <3>1, ListOf
    <3>3. QED BY <1>2, <3>2, TailList
  <2> HIDE DEF p, u, d, id
  <2>2. \A i \in DOMAIN d : d[i].type = "command"
    BY <1>2, <1>7, <2>1 DEF Ordered
  <2>3. QED BY <1>3, <1>5, <1>6, <1>7, <2>2 DEF Ordered, id
<1>8. Wired(c, sess, sock[c], p, u, d)
  <2> HIDE DEF p, u, d
  <2>1. QED BY <1>1, <1>2, <1>3, <1>7 DEF Wired, Paired
<1>9. /\ page' = [page EXCEPT ![c] = p] /\ up' = [up EXCEPT ![c] = u] /\ down' = [down EXCEPT ![c] = d]
      /\ UNCHANGED <<sess, sock, caller>>
  BY DEF Ready, TurnInv, Shape
<1> HIDE DEF p, u, d
<1>10. QED BY <1>3, <1>8, <1>9, PageStep

\* The page takes the command off its wire, and answers it or is gone.
LEMMA AnswerWired ==
  ASSUME TurnInv, NEW c \in Conns, page[c].st = "ready", down[c] # <<>>,
         NEW q, IsRecord(q, DOMAIN NewPage), q.st \in {"ready", "gone"}, q.early \in {<<>>, page[c].early},
         NEW t, IsList(t), OneAnswer(t, Head(down[c]).id), \A i \in DOMAIN t : t[i].type \in FrameTypes
  PROVE  /\ WireShape(q, up[c] \o t, Tail(down[c]))
         /\ Wired(c, sess, sock[c], q, up[c] \o t, Tail(down[c]))
<1> DEFINE u == up[c] \o t
           d == Tail(down[c])
           id == sess.pending.id
<1>1. /\ WireShape(page[c], up[c], down[c]) /\ Wired(c, sess, sock[c], page[c], up[c], down[c])
      /\ sock[c].authenticated \in BOOLEAN
  BY WhatHolds
<1>2. IsList(up[c]) /\ IsList(down[c])
  BY <1>1 DEF WireShape
<1>3. IsList(u) /\ IsList(d) /\ (\A i \in DOMAIN u : u[i].type \in FrameTypes)
  BY <1>1, <1>2, ConcatList, TailList DEF WireShape
<1>4. WireShape(q, u, d)
  <2> HIDE DEF u, d
  <2>1. QED BY <1>1, <1>3, EmptyList DEF WireShape
<1>5. ASSUME Ordered(sess, page[c], up[c], down[c])
      PROVE  Ordered(sess, q, u, d)
  <2>1. 1 \in DOMAIN down[c] /\ Head(down[c]) = down[c][1] /\ down[c][1].type = "command"
    BY <1>2, <1>5, TailList DEF Ordered
  <2>2. ~Plain(down[c])
    BY <2>1 DEF Plain, TurnTypes
  <2>3. sess.pending # NoPending /\ OneCommand(down[c], id) /\ Plain(up[c])
    BY <1>5, <2>2 DEF Ordered
  <2>4. Head(down[c]).id = id
    BY <2>1, <2>3 DEF OneCommand, TurnTypes
  <2>5. Partial(up[c], id) /\ OneAnswer(t, id)
    BY <2>3, <2>4, PlainIsPartial
  <2>6. OneAnswer(u, id)
    BY <1>2, <2>5, ConcatWires
  <2>7. Plain(d) /\ OneCommand(d, id)
    BY <1>2, <2>1, <2>3, TailWires
  <2>8. \A i \in DOMAIN d : d[i].type = "command"
    BY <1>2, <1>5, TailList DEF Ordered
  <2> HIDE DEF u, d
  <2>9. QED BY <2>3, <2>6, <2>7, <2>8 DEF Ordered
<1> HIDE DEF u, d
<1>6. Wired(c, sess, sock[c], q, u, d)
  BY <1>1, <1>5 DEF Wired, Paired
<1>7. QED BY <1>4, <1>6 DEF u, d

LEMMA ExecuteTurn ==
  ASSUME TurnInv, NEW c \in Conns, Execute(c), UNCHANGED caller
  PROVE  TurnInv'
<1> DEFINE m == Head(down[c])
           Acted(before, after) ==
             [page[c] EXCEPT !.actionId = IF m.kind \in Actions THEN m.id ELSE @,
                !.turns = IF m.kind = "causal" THEN @ \cup {[id |-> m.id, changed |-> before # 0 /\ after \notin {0, before}]} ELSE @]
           Answering(q) == [q EXCEPT !.errors = Answered(@), !.requests = Answered(@)]
<1>1. PICK before \in {Before, 0}, after \in Values \cup {0}, ok \in BOOLEAN :
        LET frames == ActFrames(m.id, m.kind, before, after, ok)
        IN  \/ /\ up' = [up EXCEPT ![c] = @ \o frames]
               /\ page' = [page EXCEPT ![c] = Answering(Acted(before, after))]
            \/ \E n \in 0 .. Len(frames) - 1 :
                 /\ up' = [up EXCEPT ![c] = @ \o SubSeq(frames, 1, n)]
                 /\ page' = [page EXCEPT ![c] = Leave(Acted(before, after))]
  BY DEF Execute
<1> DEFINE frames == ActFrames(m.id, m.kind, before, after, ok)
           acted == Acted(before, after)
<1>2. page[c].st = "ready" /\ down[c] # <<>> /\ down' = [down EXCEPT ![c] = Tail(down[c])]
      /\ UNCHANGED <<sess, sock, caller>>
  BY DEF Execute, TurnInv, Shape
<1>3. IsRecord(page[c], DOMAIN NewPage)
  BY WhatHolds DEF WireShape
<1>4. IsRecord(acted, DOMAIN NewPage) /\ acted.st = "ready" /\ acted.early = page[c].early
  BY <1>2, <1>3 DEF IsRecord, NewPage
<1>5. /\ IsList(frames) /\ OneAnswer(frames, m.id)
      /\ \A i \in DOMAIN frames : frames[i].type \in FrameTypes
  BY FramesAnswer
<1> HIDE DEF m, frames, acted, Acted
<1>6. CASE up' = [up EXCEPT ![c] = @ \o frames] /\ page' = [page EXCEPT ![c] = Answering(acted)]
  <2> DEFINE q == Answering(acted)
             u == up[c] \o frames
  <2>1. IsRecord(q, DOMAIN NewPage) /\ q.st = "ready" /\ q.early = page[c].early
    BY <1>4 DEF IsRecord, NewPage
  <2>2. page' = [page EXCEPT ![c] = q] /\ up' = [up EXCEPT ![c] = u]
    BY <1>6 DEF TurnInv, Shape
  <2> HIDE DEF q
  <2>3. WireShape(q, u, Tail(down[c])) /\ Wired(c, sess, sock[c], q, u, Tail(down[c]))
    BY <1>2, <1>5, <2>1, AnswerWired DEF m
  <2> HIDE DEF u
  <2>4. QED BY <1>2, <2>2, <2>3, PageStep
<1>7. ASSUME NEW n \in 0 .. Len(frames) - 1,
             up' = [up EXCEPT ![c] = @ \o SubSeq(frames, 1, n)], page' = [page EXCEPT ![c] = Leave(acted)]
      PROVE  TurnInv'
  <2> DEFINE q == Leave(acted)
             t == SubSeq(frames, 1, n)
             u == up[c] \o t
  <2>1. IsRecord(q, DOMAIN NewPage) /\ q.st = "gone" /\ q.early = <<>>
    BY <1>4 DEF IsRecord, NewPage, Leave
  <2>2. page' = [page EXCEPT ![c] = q] /\ up' = [up EXCEPT ![c] = u]
    BY <1>7 DEF TurnInv, Shape
  <2>3. /\ IsList(t) /\ OneAnswer(t, m.id)
        /\ \A i \in DOMAIN t : t[i].type \in FrameTypes
    BY <1>5, <1>7, PrefixList, PrefixAnswer
  <2> HIDE DEF q, t
  <2>4. WireShape(q, u, Tail(down[c])) /\ Wired(c, sess, sock[c], q, u, Tail(down[c]))
    BY <1>2, <2>1, <2>3, AnswerWired DEF m
  <2> HIDE DEF u
  <2>5. QED BY <1>2, <2>2, <2>4, PageStep
<1>8. QED BY <1>1, <1>6, <1>7 DEF frames, acted

LEMMA PageGoneTurn ==
  ASSUME TurnInv, NEW c \in Conns, PageGone(c), UNCHANGED caller
  PROVE  TurnInv'
<1>1. WireShape(page[c], up[c], down[c]) /\ Wired(c, sess, sock[c], page[c], up[c], down[c])
  BY WhatHolds
<1>2. WireShape(Leave(page[c]), up[c], <<>>) /\ Leave(page[c]).st = "gone"
  BY <1>1, EmptyList DEF WireShape, IsRecord, NewPage, Leave
<1>3. Ordered(sess, page[c], up[c], down[c]) => Ordered(sess, Leave(page[c]), up[c], <<>>)
  BY <1>2, EmptyList, PlainIsPartial DEF Ordered
<1>4. Wired(c, sess, sock[c], Leave(page[c]), up[c], <<>>)
  BY <1>1, <1>2, <1>3 DEF Wired, Paired
<1>5. /\ page' = [page EXCEPT ![c] = Leave(page[c])] /\ up' = [up EXCEPT ![c] = up[c]]
      /\ down' = [down EXCEPT ![c] = <<>>] /\ UNCHANGED <<sess, sock, caller>>
  BY DEF PageGone, TurnInv, Shape
<1>6. QED BY <1>2, <1>4, <1>5, PageStep
-----------------------------------------------------------------------------
(* The daemon. *)

SockTypes == [st : {"none", "open", "closing", "closed"}, authenticated : BOOLEAN, generation : Nat]

LEMMA TerminateIs ==
  ASSUME TurnInv, NEW c \in Conns
  PROVE  \E k \in SockTypes :
           /\ Terminate(c) = [sock EXCEPT ![c] = k] /\ k.st # "open"
           /\ k.authenticated = sock[c].authenticated /\ k.generation = sock[c].generation
           /\ sock[c].st = "none" => k.st = "none"
<1> DEFINE k == [sock[c] EXCEPT !.st = IF @ = "open" THEN "closing" ELSE @]
<1>1. sock[c] \in SockTypes /\ sock = [e \in Conns |-> sock[e]]
  BY DEF TurnInv, Shape, SockTypes
<1>2. /\ k \in SockTypes /\ k.st # "open" /\ k.authenticated = sock[c].authenticated
      /\ k.generation = sock[c].generation /\ (sock[c].st = "none" => k.st = "none")
  BY <1>1 DEF SockTypes
<1>3. Terminate(c) = [sock EXCEPT ![c] = k]
  BY <1>1 DEF Terminate
<1>4. QED BY <1>2, <1>3

\* Head(up[c]) is taken off a wire.
LEMMA HeadIs ==
  ASSUME TurnInv, NEW c \in Conns, up[c] # <<>>
  PROVE  /\ Head(up[c]) = up[c][1] /\ 1 \in DOMAIN up[c] /\ Head(up[c]).type \in FrameTypes
         /\ WireShape(page[c], Tail(up[c]), down[c])
         /\ page[c].st \notin {"idle", "dialing"}
<1>1. /\ WireShape(page[c], up[c], down[c]) /\ Wired(c, sess, sock[c], page[c], up[c], down[c])
  BY WhatHolds
<1>2. /\ Head(up[c]) = up[c][1] /\ 1 \in DOMAIN up[c] /\ IsList(Tail(up[c]))
      /\ \A i \in DOMAIN Tail(up[c]) : i + 1 \in DOMAIN up[c] /\ Tail(up[c])[i] = up[c][i + 1]
  BY <1>1, TailList DEF WireShape
<1>3. WireShape(page[c], Tail(up[c]), down[c])
  BY <1>1, <1>2 DEF WireShape
<1>4. QED BY <1>1, <1>2, <1>3 DEF WireShape, Wired, Paired

LEMMA HelloTurn ==
  ASSUME TurnInv, NEW c \in Conns, up[c] # <<>>, sock[c].st \in {"open", "closing"}, ~sock[c].authenticated,
         Hello(c, Head(up[c])), up' = [up EXCEPT ![c] = Tail(@)], UNCHANGED <<page, scenario, caller>>
  PROVE  TurnInv'
<1> DEFINE m == Head(up[c])
           u == Tail(up[c])
<1>1. /\ WireShape(page[c], up[c], down[c]) /\ Wired(c, sess, sock[c], page[c], up[c], down[c])
      /\ sock[c] \in SockTypes /\ SessionShape(sess) /\ Owned
  BY WhatHolds DEF SockTypes
<1>2. /\ m.type \in FrameTypes /\ page[c].st \notin {"idle", "dialing"}
      /\ WireShape(page[c], u, down[c]) /\ sess.ws # c
  BY <1>1, HeadIs DEF Wired, Paired
<1>3. up' = [up EXCEPT ![c] = u]
  BY DEF TurnInv, Shape
<1>4. Plain(up[c]) => Plain(u)
  BY <1>1, TailWires DEF WireShape
<1> HIDE DEF u
<1>5. CASE m.type = "hello" /\ sess.ws = 0 /\ sess.live
  <2> DEFINE k == [sock[c] EXCEPT !.authenticated = TRUE, !.generation = sess'.generation]
             d == Append(down[c], [type |-> "ready"])
  <2>1. /\ sess' = Pair(sess, c, m.network) /\ sock' = [sock EXCEPT ![c] = k]
        /\ down' = [down EXCEPT ![c] = d]
    <3>1. /\ sess' = Pair(sess, c, m.network)
          /\ sock' = [sock EXCEPT ![c].authenticated = TRUE, ![c].generation = sess'.generation]
          /\ down' = [down EXCEPT ![c] = Append(@, [type |-> "ready"])]
      BY <1>5 DEF Hello
    <3>2. QED BY <3>1 DEF TurnInv, Shape
  <2>2. Ends(sess, sess') /\ sess'.ws = c
    <3>1. Begins(sess, Pair(sess, c, m.network), c)
      BY <1>1, PairEnds
    <3>2. QED BY <2>1, <3>1 DEF Begins
  <2>3. SessionShape(sess') /\ sess'.generation \in Nat /\ Owned'
    BY <2>2, EndsOwned DEF Ends, SessionShape
  <2>4. k \in SockTypes /\ k.authenticated /\ k.generation = sess'.generation /\ k.st = sock[c].st
    BY <1>1, <2>3 DEF SockTypes
  <2>5. WireShape(page[c], u, d)
    BY <1>1, <1>2, AppendList DEF WireShape
  <2>6. ASSUME k.st = "open"
        PROVE  Ordered(sess', page[c], u, d)
    <3>1. down[c] = <<>> /\ Plain(up[c]) /\ page[c].st # "ready"
      BY <1>1, <2>4, <2>6 DEF Wired, Paired
    <3>2. /\ d # <<>> /\ IsList(<<>>) /\ Len(<<>>) = 0
          /\ \A i \in DOMAIN d : i = 1 /\ d[i] = [type |-> "ready"]
      BY <3>1, AppendList, EmptyList, EmptySeq
    <3> HIDE DEF d
    <3>3. Plain(d)
      BY <3>2 DEF Plain, TurnTypes
    <3>4. QED BY <1>4, <2>2, <3>1, <3>2, <3>3 DEF Ordered, Ends
  <2> HIDE DEF k, d, m
  <2>7. Wired(c, sess', k, page[c], u, d)
    BY <1>2, <2>2, <2>4, <2>6 DEF Wired, Paired
  <2>8. QED BY <1>2, <1>3, <1>5, <2>1, <2>2, <2>3, <2>4, <2>5, <2>7, SocketStep DEF SockTypes
<1>6. CASE ~(m.type = "hello" /\ sess.ws = 0 /\ sess.live)
  <2>1. sock' = Terminate(c) /\ UNCHANGED <<sess, down>>
    BY <1>6 DEF Hello
  <2>2. PICK k \in SockTypes : /\ sock' = [sock EXCEPT ![c] = k] /\ k.st # "open"
                               /\ k.authenticated = sock[c].authenticated
    BY <2>1, TerminateIs
  <2>3. down' = [down EXCEPT ![c] = down[c]]
    BY <2>1 DEF TurnInv, Shape
  <2>4. Wired(c, sess', k, page[c], u, down[c])
    BY <1>2, <2>1, <2>2 DEF Wired, Paired
  <2>5. Owned'
    <3>1. \A e \in Conns \ {c} : sock'[e] = sock[e]
      BY <2>2 DEF TurnInv, Shape
    <3>2. sess.ws # 0 => sess.ws \in Conns \ {c}
      BY <1>1, <1>2, BridgeAssumption DEF SessionShape, Conns
    <3>3. QED BY <1>1, <2>1, <3>1, <3>2 DEF Owned
  <2>6. QED BY <1>1, <1>2, <1>3, <2>1, <2>2, <2>3, <2>4, <2>5, SocketStep DEF SockTypes
<1>7. QED BY <1>5, <1>6

LEMMA FrameTurn ==
  ASSUME TurnInv, NEW c \in Conns, up[c] # <<>>, sock[c].st \in {"open", "closing"}, sock[c].authenticated,
         Frame(c, Head(up[c])), up' = [up EXCEPT ![c] = Tail(@)], UNCHANGED <<page, scenario, caller>>
  PROVE  TurnInv'
<1> DEFINE m == Head(up[c])
           u == Tail(up[c])
           d == down[c]
<1>1. /\ WireShape(page[c], up[c], d) /\ Wired(c, sess, sock[c], page[c], up[c], d)
      /\ sock[c] \in SockTypes /\ SessionShape(sess) /\ Owned
  BY WhatHolds DEF SockTypes
<1>2. /\ m.type \in FrameTypes /\ page[c].st \notin {"idle", "dialing"} /\ WireShape(page[c], u, d)
      /\ m = up[c][1] /\ 1 \in DOMAIN up[c]
  BY HeadIs
<1>3. up' = [up EXCEPT ![c] = u]
  BY DEF TurnInv, Shape
<1>4. /\ Plain(up[c]) => Plain(u)
      /\ OneAnswer(up[c], sess.pending.id) => OneAnswer(u, sess.pending.id)
      /\ OneAnswer(up[c], sess.pending.id) /\ m.type = "result" => Plain(u)
  BY <1>1, <1>2, TailWires DEF WireShape
<1> HIDE DEF u, m
<1>5. CASE sess.ws = c /\ sock[c].generation = sess.generation /\ ~Refused(sess, m)
  <2>1. PICK pressed \in 0 .. Min({scenario.pressed, Live(sess.events)}) : sess' = Accept(sess, m, pressed)
    BY <1>5 DEF Frame, m
  <2>2. /\ sock' = [sock EXCEPT ![c] = sock[c]] /\ down' = [down EXCEPT ![c] = d]
        /\ UNCHANGED <<sock, down>>
    BY <1>5 DEF Frame, m, TurnInv, Shape
  <2>3. CASE m.type = "result"
    <3>1. Ends(sess, sess') /\ sess'.ws = sess.ws /\ sess'.generation = sess.generation
      BY <1>1, <1>5, <2>1, <2>3, ResultEnds
    <3>2. Owned'
      BY <3>1, EndsOwned
    <3>3. sess.pending # NoPending
      BY <1>5, <2>3 DEF Refused
    <3>4. ~Plain(up[c])
      BY <1>2, <2>3 DEF Plain, TurnTypes
    <3>5. Ordered(sess, page[c], up[c], d) => Ordered(sess', page[c], u, d)
      BY <1>4, <2>3, <3>1, <3>3, <3>4 DEF Ordered, Ends
    <3>6. Wired(c, sess', sock[c], page[c], u, d)
      BY <1>1, <1>2, <1>5, <3>1, <3>5 DEF Wired, Paired
    <3>7. SessionShape(sess') /\ sess.ws \in {0, c} /\ sess'.ws \in {0, c}
      BY <1>5, <3>1 DEF Ends
    <3>8. QED BY <1>1, <1>2, <1>3, <2>2, <3>2, <3>6, <3>7, SocketStep DEF SockTypes
  <2>4. CASE m.type # "result"
    <3>1. KeepsTurn(sess, sess')
      BY <1>1, <1>2, <1>5, <2>1, <2>4, AcceptKeeps DEF Refused
    <3>2. Owned'
      BY <1>1, <2>2, <3>1 DEF Owned, KeepsTurn
    <3>3. Ordered(sess, page[c], up[c], d) => Ordered(sess', page[c], u, d)
      BY <1>4, <3>1 DEF Ordered, KeepsTurn
    <3>4. Wired(c, sess', sock[c], page[c], u, d)
      BY <1>1, <1>2, <1>5, <3>1, <3>3 DEF Wired, Paired, KeepsTurn
    <3>5. SessionShape(sess') /\ sess.ws \in {0, c} /\ sess'.ws \in {0, c}
      BY <1>5, <3>1 DEF KeepsTurn
    <3>6. QED BY <1>1, <1>2, <1>3, <2>2, <3>2, <3>4, <3>5, SocketStep DEF SockTypes
  <2>5. QED BY <2>3, <2>4
<1>6. CASE ~(sess.ws = c /\ sock[c].generation = sess.generation /\ ~Refused(sess, m))
  <2>1. /\ sess' = IF sess.ws = c THEN Detach(sess) ELSE sess
        /\ sock' = Terminate(c) /\ down' = [down EXCEPT ![c] = d]
    BY <1>6 DEF Frame, m, TurnInv, Shape
  <2>2. PICK k \in SockTypes : /\ sock' = [sock EXCEPT ![c] = k] /\ k.st # "open"
                               /\ k.authenticated = sock[c].authenticated
    BY <2>1, TerminateIs
  <2>3. CASE sess.ws = c
    <3>1. Ends(sess, sess') /\ sess'.ws = 0
      BY <1>1, <2>1, <2>3, DetachEnds
    <3>2. Owned' /\ SessionShape(sess')
      BY <3>1, EndsOwned DEF Ends
    <3>3. Wired(c, sess', k, page[c], u, d)
      BY <1>2, <2>2, <3>1, BridgeAssumption DEF Wired, Paired, Conns
    <3>4. QED BY <1>2, <1>3, <2>1, <2>2, <2>3, <3>1, <3>2, <3>3, SocketStep DEF SockTypes
  <2>4. CASE sess.ws # c
    <3>1. sess' = sess
      BY <2>1, <2>4
    <3>2. Owned'
      <4>1. \A e \in Conns \ {c} : sock'[e] = sock[e]
        BY <2>2 DEF TurnInv, Shape
      <4>2. sess.ws # 0 => sess.ws \in Conns \ {c}
        BY <1>1, <2>4, BridgeAssumption DEF SessionShape, Conns
      <4>3. QED BY <1>1, <3>1, <4>1, <4>2 DEF Owned
    <3>3. Wired(c, sess', k, page[c], u, d)
      BY <1>2, <2>2, <2>4, <3>1 DEF Wired, Paired
    <3>4. QED BY <1>1, <1>2, <1>3, <2>1, <2>2, <3>1, <3>2, <3>3, SocketStep DEF SockTypes
  <2>5. QED BY <2>3, <2>4
<1>7. QED BY <1>5, <1>6

LEMMA ReceiveTurn ==
  ASSUME TurnInv, NEW c \in Conns, Receive(c), UNCHANGED caller
  PROVE  TurnInv'
BY HelloTurn, FrameTurn DEF Receive

LEMMA ClosedTurn ==
  ASSUME TurnInv, NEW c \in Conns, Closed(c), UNCHANGED caller
  PROVE  TurnInv'
<1> DEFINE k == [sock[c] EXCEPT !.st = "closed"]
<1>1. /\ WireShape(page[c], up[c], down[c]) /\ Wired(c, sess, sock[c], page[c], up[c], down[c])
      /\ sock[c] \in SockTypes /\ SessionShape(sess) /\ Owned
  BY WhatHolds DEF SockTypes
<1>2. k \in SockTypes /\ k.st = "closed" /\ k.authenticated = sock[c].authenticated
  BY <1>1 DEF SockTypes
<1>3. /\ sock' = [sock EXCEPT ![c] = k] /\ up' = [up EXCEPT ![c] = <<>>] /\ down' = [down EXCEPT ![c] = <<>>]
      /\ sess' = (IF sess.ws = c THEN Detach(sess) ELSE sess) /\ UNCHANGED <<page, caller>>
      /\ sock[c].st # "none"
  BY DEF Closed, TurnInv, Shape
<1>4. WireShape(page[c], <<>>, <<>>)
  BY <1>1, EmptyList DEF WireShape
<1> HIDE DEF k
<1>5. CASE sess.ws = c
  <2>1. Ends(sess, sess') /\ sess'.ws = 0
    BY <1>1, <1>3, <1>5, DetachEnds
  <2>2. Owned' /\ SessionShape(sess')
    BY <1>3, <2>1, EndsOwned DEF Ends
  <2>3. Wired(c, sess', k, page[c], <<>>, <<>>)
    BY <1>1, <1>2, <1>3, <2>1, BridgeAssumption DEF Wired, Paired, Conns
  <2>4. QED BY <1>2, <1>3, <1>4, <1>5, <2>1, <2>2, <2>3, SocketStep DEF SockTypes
<1>6. CASE sess.ws # c
  <2>1. \A e \in Conns \ {c} : sock'[e] = sock[e]
    BY <1>3 DEF TurnInv, Shape
  <2>2. sess.ws # 0 => sess.ws \in Conns \ {c}
    BY <1>1, <1>6, BridgeAssumption DEF SessionShape, Conns
  <2>3. Owned' /\ sess' = sess
    BY <1>1, <1>3, <1>6, <2>1, <2>2 DEF Owned
  <2>4. Wired(c, sess', k, page[c], <<>>, <<>>)
    BY <1>1, <1>2, <1>3, <1>6 DEF Wired, Paired
  <2>5. QED BY <1>1, <1>2, <1>3, <1>4, <2>3, <2>4, SocketStep DEF SockTypes
<1>7. QED BY <1>5, <1>6

LEMMA HelloTimeoutTurn ==
  ASSUME TurnInv, NEW c \in Conns, HelloTimeout(c), UNCHANGED caller
  PROVE  TurnInv'
<1>1. /\ WireShape(page[c], up[c], down[c]) /\ Wired(c, sess, sock[c], page[c], up[c], down[c])
      /\ SessionShape(sess) /\ Owned
  BY WhatHolds
<1>2. /\ sock' = Terminate(c) /\ UNCHANGED <<page, caller, sess>> /\ sess.ws # c
      /\ up' = [up EXCEPT ![c] = up[c]] /\ down' = [down EXCEPT ![c] = down[c]]
      /\ sock[c].st = "open"
  BY <1>1 DEF HelloTimeout, TurnInv, Shape, Wired, Paired
<1>3. PICK k \in SockTypes : /\ sock' = [sock EXCEPT ![c] = k] /\ k.st # "open"
                             /\ k.authenticated = sock[c].authenticated
  BY <1>2, TerminateIs
<1>4. Owned'
  <2>1. \A e \in Conns \ {c} : sock'[e] = sock[e]
    BY <1>3 DEF TurnInv, Shape
  <2>2. sess.ws # 0 => sess.ws \in Conns \ {c}
    BY <1>1, <1>2, BridgeAssumption DEF SessionShape, Conns
  <2>3. QED BY <1>1, <1>2, <2>1, <2>2 DEF Owned
<1>5. Wired(c, sess', k, page[c], up[c], down[c])
  BY <1>1, <1>2, <1>3 DEF Wired, Paired
<1>6. QED BY <1>1, <1>2, <1>3, <1>4, <1>5, SocketStep DEF SockTypes

LEMMA CommandTimeoutTurn ==
  ASSUME TurnInv, CommandTimeout, UNCHANGED caller
  PROVE  TurnInv'
<1> DEFINE c == sess.ws
<1>1. SessionShape(sess) /\ Owned /\ sess.pending # NoPending
  BY DEF TurnInv, Shape, CommandTimeout
<1>2. c \in Conns /\ sock[c].st = "open"
  BY <1>1, BridgeAssumption DEF SessionShape, Owned, Conns
<1> HIDE DEF c
<1>3. WireShape(page[c], up[c], down[c]) /\ Wired(c, sess, sock[c], page[c], up[c], down[c])
  BY <1>2, WhatHolds
<1>4. /\ sock' = Terminate(c) /\ UNCHANGED <<page, caller>> /\ sess' = Abandon(sess)
      /\ up' = [up EXCEPT ![c] = up[c]] /\ down' = [down EXCEPT ![c] = down[c]]
  BY DEF CommandTimeout, TurnInv, Shape, c
<1>5. PICK k \in SockTypes : /\ sock' = [sock EXCEPT ![c] = k] /\ k.st # "open"
                             /\ k.authenticated = sock[c].authenticated /\ k.generation = sock[c].generation
  BY <1>2, <1>4, TerminateIs
<1>6. Ends(sess, sess') /\ sess'.ws = c /\ sess'.generation = sess.generation
  BY <1>1, <1>4, AbandonEnds DEF c
<1>7. Owned' /\ SessionShape(sess')
  BY <1>4, <1>6, EndsOwned DEF Ends
<1>8. Wired(c, sess', k, page[c], up[c], down[c])
  BY <1>2, <1>3, <1>5, <1>6 DEF Wired, Paired, c
<1>9. sess.ws \in {0, c} /\ sess'.ws \in {0, c}
  BY <1>6 DEF c
<1>10. QED BY <1>2, <1>3, <1>4, <1>5, <1>7, <1>8, <1>9, SocketStep DEF SockTypes

LEMMA RemoveTurn ==
  ASSUME TurnInv, Remove, UNCHANGED caller
  PROVE  TurnInv'
<1> DEFINE v == Detach(sess)
<1>1. SessionShape(sess) /\ Owned
  BY DEF TurnInv, Shape
<1>2. Ends(sess, v) /\ v.ws = 0
  BY <1>1, DetachEnds
<1>3. sess' = [v EXCEPT !.live = FALSE]
  BY DEF Remove
<1> HIDE DEF v
<1>4. Keeps(v, sess')
  BY <1>2, <1>3, FieldsAre DEF Ends, Keeps, SessionShape
<1>5. Ends(sess, sess') /\ sess'.ws = 0
  BY <1>2, <1>4 DEF Ends, Keeps
<1>6. Owned' /\ SessionShape(sess')
  BY <1>5, EndsOwned DEF Ends, Remove
<1>7. CASE sess.ws # 0
  <2> DEFINE c == sess.ws
  <2>1. c \in Conns
    BY <1>1, <1>7, BridgeAssumption DEF SessionShape, Conns
  <2>2. /\ sock' = Terminate(c) /\ UNCHANGED <<page, caller>>
        /\ up' = [up EXCEPT ![c] = up[c]] /\ down' = [down EXCEPT ![c] = down[c]]
    BY <1>7 DEF Remove, TurnInv, Shape
  <2>3. sess.ws \in {0, c} /\ sess'.ws \in {0, c}
    BY <1>5
  <2> HIDE DEF c
  <2>4. WireShape(page[c], up[c], down[c]) /\ Wired(c, sess, sock[c], page[c], up[c], down[c])
    BY <2>1, WhatHolds
  <2>5. PICK k \in SockTypes : /\ sock' = [sock EXCEPT ![c] = k] /\ k.st # "open"
                               /\ k.authenticated = sock[c].authenticated
                               /\ sock[c].st = "none" => k.st = "none"
    BY <2>1, <2>2, TerminateIs
  <2>6. Wired(c, sess', k, page[c], up[c], down[c])
    BY <1>5, <2>1, <2>4, <2>5, BridgeAssumption DEF Wired, Paired, Conns
  <2>7. QED BY <1>6, <2>1, <2>2, <2>3, <2>4, <2>5, <2>6, SocketStep DEF SockTypes
<1>8. CASE sess.ws = 0
  <2>1. UNCHANGED <<sock, page, up, down, caller>>
    BY <1>8 DEF Remove
  <2>2. ASSUME NEW e \in Conns
        PROVE  Wired(e, sess', sock[e], page[e], up[e], down[e])
    BY <1>5, <1>8, BridgeAssumption DEF TurnInv, Wires, Wired, Paired, Conns
  <2>3. QED BY <1>6, <2>1, <2>2 DEF TurnInv, Shape, Wires
<1>9. QED BY <1>7, <1>8

LEMMA QuietenTurn ==
  ASSUME TurnInv, Quieten, UNCHANGED caller
  PROVE  TurnInv'
<1>1. Keeps(sess, sess')
  BY FieldsAre DEF Quieten, TurnInv, Shape, Keeps, SessionShape
<1>2. UNCHANGED <<sock, page, up, down>>
  BY DEF Quieten
<1>3. Shape' /\ Owned'
  BY <1>1, <1>2 DEF TurnInv, Shape, Owned, Keeps
<1>4. Wires'
  BY <1>1, <1>2, SameWired DEF TurnInv, Wires, Keeps
<1>5. QED BY <1>3, <1>4 DEF TurnInv
-----------------------------------------------------------------------------
(* What a step of the bridge does to the session and to the log of what it was sent. *)

Stays == UNCHANGED <<sess, history>>

Detaches == sess' \in {Detach(sess), [Detach(sess) EXCEPT !.live = FALSE]} /\ UNCHANGED history

Pairs == \E c \in Conns : \E network : sess' = Pair(sess, c, network) /\ history' = <<>>

Accepts ==
  \E c \in Conns : \E pressed \in 0 .. Min({scenario.pressed, Live(sess.events)}) :
    LET m == Head(up[c])
    IN  /\ sess.ws = c /\ up[c] # <<>> /\ m.type \in FrameTypes /\ ~Refused(sess, m)
        /\ sess' = Accept(sess, m, pressed)
        /\ history' = IF m.type \in Observations
                      THEN Append(history, [t |-> sess'.cursor, type |-> m.type]) ELSE history
        /\ up' = [up EXCEPT ![c] = Tail(@)] /\ UNCHANGED <<sock, page, down>>

Abandons == sess.pending # NoPending /\ sess' = Abandon(sess) /\ UNCHANGED history

LEMMA SessionSteps ==
  ASSUME TurnInv, BridgeNext
  PROVE  Stays \/ Detaches \/ Pairs \/ Accepts \/ Abandons \/ Quieten
<1>1. CASE \E c \in Conns : \/ Connect(c) \/ Open(c) \/ Ready(c) \/ Execute(c) \/ PageGone(c)
                           \/ RaiseError(c) \/ StartRequest(c) \/ FinishRequest(c) \/ FailObserver(c)
                           \/ HelloTimeout(c)
  BY <1>1 DEF Stays, Connect, Open, Ready, Execute, PageGone, RaiseError, StartRequest, FinishRequest,
              FailObserver, HelloTimeout
<1>2. ASSUME NEW c \in Conns, Receive(c)
      PROVE  Stays \/ Detaches \/ Pairs \/ Accepts
  <2> DEFINE m == Head(up[c])
  <2>1. up[c] # <<>> /\ m.type \in FrameTypes /\ up' = [up EXCEPT ![c] = Tail(@)] /\ UNCHANGED page
    BY <1>2, HeadIs DEF Receive
  <2>2. CASE ~sock[c].authenticated
    BY <1>2, <2>2 DEF Receive, Hello, Stays, Pairs
  <2>3. CASE sock[c].authenticated
    <3>1. Frame(c, m)
      BY <1>2, <2>3 DEF Receive
    <3> HIDE DEF m
    <3>2. CASE sess.ws = c /\ sock[c].generation = sess.generation /\ ~Refused(sess, m)
      BY <2>1, <3>1, <3>2 DEF Frame, Accepts, m
    <3>3. CASE ~(sess.ws = c /\ sock[c].generation = sess.generation /\ ~Refused(sess, m))
      BY <3>1, <3>3 DEF Frame, Stays, Detaches
    <3>4. QED BY <3>2, <3>3
  <2>4. QED BY <2>2, <2>3
<1>3. CASE \E c \in Conns : Closed(c)
  BY <1>3 DEF Closed, Stays, Detaches
<1>4. CASE CommandTimeout
  BY <1>4 DEF CommandTimeout, Abandons
<1>5. CASE Remove
  BY <1>5 DEF Remove, Detaches
<1>6. QED BY <1>1, <1>2, <1>3, <1>4, <1>5 DEF BridgeNext

LEMMA DetachesEnds ==
  ASSUME TurnInv, Detaches
  PROVE  /\ Ends(sess, sess') /\ sess'.ws = 0 /\ sess'.causal = NoTurn
         /\ sess'.generation = sess.generation + 1 /\ sess'.requests = {} /\ sess'.actionId = 0
         /\ sess'.cursor = sess.cursor /\ sess'.events = sess.events
         /\ sess'.captureLost = sess.captureLost /\ sess'.generationCursor = sess.generationCursor
<1> DEFINE v == Detach(sess)
<1>1. SessionShape(sess)
  BY DEF TurnInv, Shape
<1>2. /\ Ends(sess, v) /\ v.ws = 0 /\ v.causal = NoTurn
      /\ v.generation = sess.generation + 1 /\ v.requests = {} /\ v.actionId = 0
      /\ v.cursor = sess.cursor /\ v.events = sess.events
      /\ v.captureLost = sess.captureLost /\ v.generationCursor = sess.generationCursor
  BY <1>1, DetachEnds
<1>3. sess' = v \/ sess' = [v EXCEPT !.live = FALSE]
  BY DEF Detaches
<1> HIDE DEF v
<1>4. CASE sess' = [v EXCEPT !.live = FALSE]
  <2>1. /\ sess' = [f \in Fields |-> sess'[f]] /\ \A f \in Fields \ {"live"} : sess'[f] = v[f]
    BY <1>2, <1>4, FieldsAre DEF Ends, SessionShape
  <2>2. \A f \in {"ws", "causal", "generation", "requests", "actionId", "cursor", "events", "captureLost",
                  "generationCursor", "busy", "pending", "reply", "lastCommandCursor"} : sess'[f] = v[f]
    BY <2>1, FieldsAre
  <2>3. QED BY <1>2, <2>1, <2>2 DEF Ends, SessionShape
<1>5. QED BY <1>2, <1>3, <1>4

LEMMA BridgeAges ==
  ASSUME TurnInv, BridgeNext
  PROVE  sess'.generation \in {sess.generation, sess.generation + 1}
<1>1. SessionShape(sess)
  BY DEF TurnInv, Shape
<1>2. CASE Stays
  BY <1>2 DEF Stays
<1>3. CASE Detaches
  BY <1>3, DetachesEnds
<1>4. CASE Pairs
  <2>1. PICK c \in Conns : \E network : sess' = Pair(sess, c, network)
    BY <1>4 DEF Pairs
  <2>2. PICK network : sess' = Pair(sess, c, network)
    BY <2>1
  <2>3. Begins(sess, sess', c)
    BY <1>1, <2>2, PairEnds
  <2>4. QED BY <2>3 DEF Begins
<1>5. CASE Accepts
  <2>1. PICK c \in Conns : \E pressed \in 0 .. Min({scenario.pressed, Live(sess.events)}) :
               /\ Head(up[c]).type \in FrameTypes /\ ~Refused(sess, Head(up[c]))
               /\ sess' = Accept(sess, Head(up[c]), pressed)
    BY <1>5 DEF Accepts
  <2>2. Head(up[c]).type # "hello"
    BY <2>1 DEF Refused
  <2>3. QED BY <1>1, <2>1, <2>2, AcceptKeeps, ResultEnds DEF KeepsTurn
<1>6. CASE Abandons
  BY <1>1, <1>6, AbandonEnds DEF Abandons
<1>7. CASE Quieten
  BY <1>1, <1>7, FieldsAre DEF Quieten, SessionShape
<1>8. QED BY <1>2, <1>3, <1>4, <1>5, <1>6, <1>7, SessionSteps

-----------------------------------------------------------------------------
(* The caller. *)

\* What was captured stays as it is while time passes.
Steady(s, u) ==
  /\ s.cursor \in Nat /\ u.cursor \in Nat /\ s.cursor <= u.cursor
  /\ u.events = s.events /\ u.captureLost = s.captureLost /\ u.generationCursor = s.generationCursor
  /\ u.requests = s.requests /\ u.actionId = s.actionId

\* A session that differs only in what is not of the lock.
Alike(s) ==
  /\ SessionShape(s) /\ s.pending = NoPending
  /\ s.ws = sess.ws /\ s.generation = sess.generation /\ s.causal = sess.causal
  /\ Steady(sess, s)

LEMMA AlikeFields ==
  ASSUME NEW s, Alike(s), NEW x, NEW b \in BOOLEAN
  PROVE  Alike(Tick(s)) /\ Tick(s).busy = s.busy
         /\ Alike([s EXCEPT !.quiet = x]) /\ [s EXCEPT !.quiet = x].busy = s.busy
         /\ Alike([s EXCEPT !.busy = b]) /\ [s EXCEPT !.busy = b].busy = b
<1>1. SessionShape(s)
  BY DEF Alike
<1>2. Alike(Tick(s)) /\ Tick(s).busy = s.busy
  <2>1. Steady(sess, Tick(s))
    BY <1>1, FieldsAre DEF Alike, Steady, Tick, SessionShape
  <2>2. QED BY <1>1, <2>1, TickKeeps DEF Alike, Keeps
<1>3. Alike([s EXCEPT !.quiet = x]) /\ [s EXCEPT !.quiet = x].busy = s.busy
  BY <1>1, FieldsAre DEF Alike, SessionShape, Steady
<1>4. Alike([s EXCEPT !.busy = b]) /\ [s EXCEPT !.busy = b].busy = b
  BY <1>1, FieldsAre DEF Alike, SessionShape, Steady
<1>5. QED BY <1>2, <1>3, <1>4

\* A caller that is not awaiting has no command, and one that has been answered neither.
LEMMA NothingPends ==
  ASSUME TurnInv, caller.phase \notin Awaiting \/ sess.reply # NoReply
  PROVE  Alike(sess)
BY DEF TurnInv, Shape, SessionShape, Owned, Alike, Steady

LEMMA ReleaseTurn ==
  ASSUME TurnInv, sess.pending = NoPending, NEW s, Alike(s), Release(s), UNCHANGED <<sock, page, up, down>>
  PROVE  TurnInv'
<1>1. /\ SessionShape(sess') /\ sess'.busy = FALSE /\ sess'.reply = NoReply /\ sess'.pending = NoPending
      /\ sess'.ws = sess.ws /\ sess'.generation = sess.generation
  <2>1. /\ sess' = [s EXCEPT !.busy = FALSE, !.reply = NoReply]
        /\ IsRecord(NoReply, {"id"}) /\ NoReply.id = 0
    BY DEF Release, IsRecord, NoReply
  <2>2. /\ SessionShape(s) /\ s = [f \in Fields |-> s[f]] /\ s.pending = NoPending
        /\ s.ws = sess.ws /\ s.generation = sess.generation
    BY DEF Alike, SessionShape
  <2>3. /\ sess' = [f \in Fields |-> sess'[f]] /\ sess'.busy = FALSE /\ sess'.reply = NoReply
        /\ \A f \in Fields \ {"busy", "reply"} : sess'[f] = s[f]
    BY <2>1, <2>2, FieldsAre
  <2>4. /\ sess'.pending = NoPending /\ sess'.ws = s.ws /\ sess'.generation = s.generation
        /\ sess'.cursor = s.cursor /\ sess'.actionId = s.actionId
        /\ sess'.generationCursor = s.generationCursor /\ sess'.lastCommandCursor = s.lastCommandCursor
    BY <2>2, <2>3, FieldsAre
  <2>5. SessionShape(sess')
    <3>1. /\ s.ws \in 0 .. NConns /\ s.cursor \in Nat /\ s.generation \in Nat /\ IsRecord(s.pending, {"id"})
          /\ s.actionId \in 0 .. s.cursor /\ s.generationCursor \in 0 .. s.cursor /\ s.lastCommandCursor \in Nat
      BY <2>2 DEF SessionShape
    <3>2. /\ sess'.busy \in BOOLEAN /\ sess'.reply = NoReply /\ sess' = [f \in Fields |-> sess'[f]] /\ 0 \in Nat
      BY <2>3
    <3>3. IsRecord(NoReply, {"id"}) /\ NoReply.id = 0 /\ IsRecord(NoPending, {"id"})
      BY DEF IsRecord, NoReply, NoPending
    <3>4. QED BY <2>4, <3>1, <3>2, <3>3, Zenon DEF SessionShape
  <2>6. QED BY <2>2, <2>3, <2>4, <2>5
<1>2. caller' = Free /\ IsRecord(Free, {"phase"}) /\ Free.phase = "free" /\ "free" \notin Awaiting
  BY DEF Release, Free, IsRecord, Awaiting
<1>3. Shape'
  BY <1>1, <1>2 DEF TurnInv, Shape
<1>4. Owned'
  BY <1>1, <1>2 DEF Owned
<1>5. Wires'
  BY <1>1, SameWired DEF TurnInv, Wires
<1>6. QED BY <1>3, <1>4, <1>5 DEF TurnInv

LEMMA AwaitTurn ==
  ASSUME TurnInv, sess.pending = NoPending, NEW s, Alike(s), s.busy = TRUE, NEW kind,
         NEW next, IsRecord(next, {"phase"}), next.phase \in Awaiting,
         Await(s, kind, next), UNCHANGED <<sock, page, up>>
  PROVE  TurnInv'
<1> DEFINE u == Ask([s EXCEPT !.reply = NoReply], kind)
           m == [type |-> "command", id |-> u.pending.id, kind |-> kind]
           c == sess.ws
<1>1. sess' = u /\ caller' = next /\ down' = Sent(s, u, kind)
  BY DEF Await
<1>2. /\ SessionShape(u) /\ u.ws = sess.ws /\ u.generation = sess.generation /\ u.busy = TRUE
      /\ IF Reachable(s) THEN u.pending # NoPending /\ u.reply = NoReply
                         ELSE u.pending = NoPending /\ u.reply # NoReply
  BY AskPends DEF Alike
<1>3. Reachable(s) <=> sess.ws # 0 /\ sock[sess.ws].st = "open"
  BY DEF Alike, Reachable
<1>4. caller' # Free
  BY <1>1 DEF Free, Awaiting
<1>5. Owned'
  BY <1>1, <1>2, <1>3, <1>4 DEF Owned
<1>6. "free" \notin Awaiting
  BY DEF Awaiting
<1>7. CASE ~Reachable(s)
  <2>1. down' = down /\ u.pending = NoPending
    BY <1>1, <1>2, <1>7 DEF Sent
  <2> HIDE DEF u
  <2>2. Shape'
    BY <1>1, <1>2, <1>4, <1>6, <2>1 DEF TurnInv, Shape
  <2>3. Wires'
    BY <1>1, <1>2, <2>1, SameWired DEF TurnInv, Wires
  <2>4. QED BY <1>5, <2>2, <2>3 DEF TurnInv
<1>8. CASE Reachable(s)
  <2> DEFINE d == Append(down[c], m)
  <2>1. c \in Conns /\ sock[c].st = "open"
    BY <1>3, <1>8, BridgeAssumption DEF TurnInv, Shape, SessionShape, Conns
  <2>2. down' = [down EXCEPT ![c] = d] /\ u.pending # NoPending
    BY <1>1, <1>2, <1>8 DEF Sent, Alike, TurnInv, Shape
  <2>3. WireShape(page[c], up[c], down[c]) /\ Wired(c, sess, sock[c], page[c], up[c], down[c])
    BY <2>1, WhatHolds
  <2>4. Ordered(sess, page[c], up[c], down[c]) /\ IsList(down[c])
    BY <2>1, <2>3 DEF Wired, WireShape
  <2>5. Plain(up[c]) /\ Plain(down[c])
    BY <2>4 DEF Ordered
  <2> HIDE DEF u, c
  <2>6. OneCommand(d, u.pending.id) /\ OneAnswer(up[c], u.pending.id)
    BY <2>4, <2>5, AppendWires, PlainIsPartial
  <2>7. WireShape(page[c], up[c], d) /\ d # <<>>
    BY <2>3, AppendList DEF WireShape
  <2>8. ASSUME NEW i \in DOMAIN d
        PROVE  /\ page[c].st = "open" => d[i].type = IF i = 1 THEN "ready" ELSE "command"
               /\ page[c].st = "ready" => d[i].type = "command"
    <3>1. \/ i \in DOMAIN down[c] /\ d[i] = down[c][i]
          \/ i = Len(down[c]) + 1 /\ d[i] = m
      BY <2>4, AppendList
    <3>2. page[c].st = "open" => Len(down[c]) \in Nat /\ Len(down[c]) # 0
      <4>1. down[c] \in Seq(Range(down[c]))
        BY <2>4 DEF IsList
      <4>2. Len(down[c]) \in Nat /\ (Len(down[c]) = 0 => down[c] = <<>>)
        BY <4>1, EmptySeq
      <4>3. QED BY <2>4, <4>2 DEF Ordered
    <3> HIDE DEF d
    <3>3. QED BY <2>4, <3>1, <3>2 DEF Ordered
  <2> HIDE DEF d
  <2>9. Ordered(u, page[c], up[c], d)
    BY <2>2, <2>5, <2>6, <2>7, <2>8 DEF Ordered
  <2>10. Wired(c, u, sock[c], page[c], up[c], d)
    BY <1>2, <2>1, <2>3, <2>9 DEF Wired, Paired, c
  <2>11. /\ down'[c] = d /\ down' = [e \in Conns |-> down'[e]]
         /\ \A e \in Conns \ {c} : down'[e] = down[e]
    BY <2>1, <2>2 DEF TurnInv, Shape
  <2>12. Shape'
    BY <1>1, <1>2, <1>4, <1>6, <2>7, <2>11 DEF TurnInv, Shape, u
  <2>13. ASSUME NEW e \in Conns
         PROVE  Wired(e, sess', sock[e], page[e], up[e], down'[e])
    <3>1. CASE e = c
      BY <1>1, <2>10, <2>11, <3>1 DEF u
    <3>2. CASE e # c
      BY <1>1, <1>2, <2>11, <3>2, OthersWired, <2>1 DEF u, c, TurnInv, Wires
    <3>3. QED BY <3>1, <3>2
  <2>14. Wires'
    BY <2>13 DEF Wires
  <2>15. QED BY <1>5, <2>12, <2>14 DEF TurnInv
<1>9. QED BY <1>7, <1>8

LEMMA LoopTurn ==
  ASSUME TurnInv, Alike(sess), caller # Free, Alike(sess'), sess'.busy = sess.busy,
         IsRecord(caller', {"phase"}), caller'.phase = "round", UNCHANGED <<sock, page, up, down>>
  PROVE  TurnInv'
<1>1. caller' # Free /\ "round" \notin Awaiting
  BY DEF Free, Awaiting
<1>2. Shape'
  BY <1>1 DEF TurnInv, Shape, Alike
<1>3. Owned'
  BY <1>1 DEF TurnInv, Owned, Alike
<1>4. Wires'
  BY SameWired DEF TurnInv, Wires, Alike
<1>5. QED BY <1>2, <1>3, <1>4 DEF TurnInv

\* What a step of the caller does: it issues a command and awaits it, gives the
\* lock back, or goes on in the loop of a check.
Asks ==
  \E s, kind, next :
    /\ Alike(s) /\ s.busy = TRUE
    /\ IsRecord(next, {"phase"}) /\ next.phase \in Awaiting
    /\ next.phase = "fresh" => Undecided(next) /\ next.latest # "pass"
    /\ next.phase \in {"step", "fresh"} =>
         IsRecord(next, {"phase", "generation"}) /\ next.generation \in 0 .. sess.generation
    /\ Await(s, kind, next)

Releases == \E s : Alike(s) /\ Release(s) /\ UNCHANGED down

GoesOn ==
  /\ caller.phase \in {"fresh", "round"}
  /\ Alike(sess') /\ sess'.busy = sess.busy /\ UNCHANGED down
  /\ IsRecord(caller', {"phase"}) /\ caller'.phase = "round"
  /\ caller.phase = "fresh" => sess.reply # NoReply /\ Fresh(sess.reply)
  /\ IsRecord(caller', {"phase", "generation"}) /\ caller'.generation = caller.generation
  /\ Undecided(caller) =>
       /\ Undecided(caller') /\ caller'.actionId = caller.actionId /\ caller'.steps = caller.steps
       /\ \/ caller'.latest = caller.latest
          \/ caller.phase = "round" /\ Current /\ caller'.latest = Evaluate

Moves == UNCHANGED <<sock, page, up>> /\ Alike(sess) /\ (Asks \/ Releases \/ GoesOn)

LEMMA BeginCheckMoves ==
  ASSUME NEW s, Alike(s), s.busy = TRUE, NEW steps, NEW since \in Nat, NEW generation \in 0 .. sess.generation,
         BeginCheck(s, steps, since, generation)
  PROVE  Asks
<1> DEFINE v    == [s EXCEPT !.quiet = FALSE]
           next == [phase |-> "fresh", steps |-> steps, since |-> since, generation |-> generation,
                    actionId |-> s.actionId, late |-> FALSE, latest |-> "inconclusive"]
<1>1. Await(v, "read", next)
  BY DEF BeginCheck
<1>2. Alike(v) /\ v.busy = TRUE
  BY FieldsAre DEF Alike, SessionShape, Steady
<1>3. /\ IsRecord(next, {"phase", "generation"}) /\ next.phase \in Awaiting /\ next.latest # "pass"
      /\ next.generation = generation
  BY DEF IsRecord, Awaiting
<1>5. Undecided(next)
  <2>1. s.actionId \in Nat
    BY DEF Alike, SessionShape
  <2>2. QED BY <2>1 DEF Undecided, IsRecord
<1>6. IsRecord(next, {"phase"})
  BY DEF IsRecord
<1> HIDE DEF v, next
<1>4. QED BY <1>1, <1>2, <1>3, <1>5, <1>6 DEF Asks

LEMMA BeginStepMoves ==
  ASSUME NEW s, Alike(s), s.busy = TRUE, NEW steps, NEW generation \in 0 .. sess.generation,
         BeginStep(s, steps, generation)
  PROVE  Asks \/ Releases
<1> DEFINE next == [phase |-> "step", steps |-> steps, generation |-> generation]
<1>1. Alike(Tick(s)) /\ Tick(s).busy = TRUE
  BY AlikeFields
<1>2. \/ Release(Tick(s)) /\ UNCHANGED down
      \/ Await(Tick(s), Command(Head(steps)), next)
  BY DEF BeginStep
<1>3. /\ IsRecord(next, {"phase"}) /\ next.phase \in Awaiting /\ next.phase # "fresh"
      /\ IsRecord(next, {"phase", "generation"}) /\ next.generation = generation
  BY DEF IsRecord, Awaiting
<1> HIDE DEF next
<1>4. QED BY <1>1, <1>2, <1>3 DEF Asks, Releases

LEMMA FinishMoves ==
  ASSUME Alike(sess), sess.busy = TRUE, caller.generation \in 0 .. sess.generation, NEW status, Finish(status)
  PROVE  Asks \/ Releases
<1>1. \/ BeginStep(sess, Tail(caller.steps), caller.generation)
      \/ Release(sess) /\ UNCHANGED down
  BY DEF Finish
<1>2. QED BY <1>1, BeginStepMoves DEF Releases

LEMMA CallMoves ==
  ASSUME TurnInv, Act \/ Assert \/ RunFlow
  PROVE  Moves
<1>1. ~sess.busy /\ UNCHANGED <<sock, page, up>>
  BY DEF Act, Assert, RunFlow, Lock
<1>2. Alike(sess)
  BY <1>1 DEF TurnInv, Shape, SessionShape, Owned, Free, Awaiting, Alike, Steady
<1>3. Alike(Locked) /\ Locked.busy = TRUE
  BY <1>2, AlikeFields DEF Locked
<1>4. CASE Act
  <2> DEFINE next == [phase |-> "act"]
  <2>1. Await(Locked, Call.kind, next)
    BY <1>4 DEF Act, Lock
  <2>2. IsRecord(next, {"phase"}) /\ next.phase \in Awaiting /\ next.phase \notin {"step", "fresh"}
    BY DEF IsRecord, Awaiting
  <2> HIDE DEF next
  <2>3. Asks
    BY <1>3, <2>1, <2>2 DEF Asks
  <2>4. QED BY <1>1, <1>2, <2>3 DEF Moves
<1>5. CASE Assert
  <2>1. \E since \in {sess.lastCommandCursor, sess.cursor} :
          BeginCheck(Locked, <<Call.predicate>>, since, sess.generation)
    BY <1>5 DEF Assert, Lock
  <2>2. /\ \A since \in {sess.lastCommandCursor, sess.cursor} : since \in Nat
        /\ sess.generation \in 0 .. sess.generation
    BY <1>2 DEF Alike, SessionShape
  <2>3. QED BY <1>1, <1>2, <1>3, <2>1, <2>2, BeginCheckMoves DEF Moves
<1>6. CASE RunFlow
  <2>1. BeginStep(Locked, Call.steps, sess.generation)
    BY <1>6 DEF RunFlow, Lock
  <2>2. sess.generation \in 0 .. sess.generation
    BY <1>2 DEF Alike, SessionShape
  <2>3. QED BY <1>1, <1>2, <1>3, <2>1, <2>2, BeginStepMoves DEF Moves
<1>7. QED BY <1>4, <1>5, <1>6

LEMMA CallerMoves ==
  ASSUME TurnInv, Dated, CallerNext
  PROVE  Moves /\ caller # Free /\ sess.busy = TRUE
<1>1. UNCHANGED <<sock, page, up>>
  BY DEF CallerNext, Actor, StepAnswered, FreshAnswered, Round, Deadline, Expired, Goes
<1>2. caller # Free /\ sess.busy = TRUE
  <2>1. caller.phase # "free"
    BY DEF CallerNext, Actor, StepAnswered, FreshAnswered, Round, Deadline, Expired
  <2>2. QED BY <2>1 DEF TurnInv, Shape, SessionShape, Owned
<1>3. Alike(sess)
  <2>1. caller.phase \notin Awaiting \/ sess.reply # NoReply
    BY DEF CallerNext, Actor, StepAnswered, FreshAnswered, Round, Deadline, Expired, Awaiting
  <2>2. QED BY <2>1, NothingPends
<1>4. IsRecord(caller, {"phase"}) /\ SessionShape(sess)
  BY DEF TurnInv, Shape
<1>5. Asks \/ Releases \/ GoesOn
  <2>1. CASE Actor
    BY <1>3, <2>1 DEF Actor, Releases
  <2>2. CASE StepAnswered
    <3>1. \/ BeginCheck(sess, caller.steps, sess.reply.id, caller.generation)
          \/ Release(sess) /\ UNCHANGED down
      BY <2>2 DEF StepAnswered
    <3>2. caller.generation \in 0 .. sess.generation /\ sess.reply.id \in Nat
      BY <1>4, <2>2 DEF StepAnswered, Dated, SessionShape
    <3>3. QED BY <1>2, <1>3, <3>1, <3>2, BeginCheckMoves DEF Releases
  <2>3. CASE FreshAnswered
    <3>1. CASE Fresh(sess.reply)
      <4>1. caller' = [caller EXCEPT !.phase = "round"] /\ UNCHANGED down /\ caller.phase = "fresh"
        BY <2>3, <3>1 DEF FreshAnswered
      <4>2. /\ IsRecord(caller', {"phase"}) /\ caller'.phase = "round"
            /\ IsRecord(caller', {"phase", "generation"}) /\ caller'.generation = caller.generation
        BY <4>1 DEF IsRecord, Dated
      <4>3. Undecided(caller) =>
              /\ Undecided(caller') /\ caller'.latest = caller.latest /\ caller'.actionId = caller.actionId
              /\ caller'.steps = caller.steps
        BY <4>1 DEF Undecided, IsRecord
      <4>4. /\ sess' = [sess EXCEPT !.reply = NoReply] /\ IsRecord(NoReply, {"id"}) /\ NoReply.id = 0
            /\ sess.reply # NoReply
        BY <2>3, <3>1 DEF FreshAnswered, IsRecord, NoReply
      <4>5. Alike(sess') /\ sess'.busy = sess.busy
        BY <1>3, <1>4, <4>4, FieldsAre DEF SessionShape, Alike, Steady
      <4>6. QED BY <3>1, <4>1, <4>2, <4>3, <4>4, <4>5 DEF GoesOn
    <3>2. CASE ~Fresh(sess.reply)
      <4>1. caller.generation \in 0 .. sess.generation
        BY <2>3 DEF FreshAnswered, Dated
      <4>2. QED BY <1>2, <1>3, <2>3, <3>2, <4>1, FinishMoves DEF FreshAnswered
    <3>3. QED BY <3>1, <3>2
  <2>4. CASE Round
    <3>1. CASE \E status \in {"inconclusive", Evaluate} : Finish(status)
      <4>1. caller.generation \in 0 .. sess.generation
        BY <2>4 DEF Round, Dated
      <4>2. QED BY <1>2, <1>3, <3>1, <4>1, FinishMoves
    <3>2. CASE ~(\E status \in {"inconclusive", Evaluate} : Finish(status))
      <4>1. /\ caller' = [caller EXCEPT !.latest = Evaluate] /\ UNCHANGED <<sess, down>>
            /\ caller.phase = "round" /\ Current
        BY <2>4, <3>2 DEF Round
      <4>2. Head(caller.steps) # "network" => Evaluate # "pass"
        <5>1. Evaluate = "pass" => ~Settled
          BY <2>4, <3>2 DEF Round
        <5>2. Head(caller.steps) # "network" => Evaluate \in {EvaluateAbsent, EvaluateChanged}
          BY DEF Evaluate
        <5>3. ~Settled => EvaluateChanged # "pass" /\ EvaluateAbsent # "pass"
          BY DEF EvaluateChanged, EvaluateAbsent
        <5>4. QED BY <5>1, <5>2, <5>3
      <4>3. /\ IsRecord(caller', {"phase"}) /\ caller'.phase = "round"
            /\ IsRecord(caller', {"phase", "generation"}) /\ caller'.generation = caller.generation
        BY <4>1 DEF IsRecord, Dated
      <4>4. Undecided(caller) =>
              /\ Undecided(caller') /\ caller'.latest = Evaluate /\ caller'.actionId = caller.actionId
              /\ caller'.steps = caller.steps
        BY <4>1, <4>2 DEF Undecided, IsRecord
      <4>5. QED BY <1>3, <4>1, <4>3, <4>4 DEF GoesOn
    <3>3. QED BY <3>1, <3>2
  <2>5. CASE Deadline
    <3>1. caller' = [caller EXCEPT !.late = TRUE] /\ UNCHANGED <<sess, down>> /\ caller.phase = "round"
      BY <2>5 DEF Deadline
    <3>2. /\ IsRecord(caller', {"phase"}) /\ caller'.phase = "round"
          /\ IsRecord(caller', {"phase", "generation"}) /\ caller'.generation = caller.generation
      BY <3>1 DEF IsRecord, Dated
    <3>3. Undecided(caller) =>
            /\ Undecided(caller') /\ caller'.latest = caller.latest /\ caller'.actionId = caller.actionId
            /\ caller'.steps = caller.steps
      BY <3>1 DEF Undecided, IsRecord
    <3>4. QED BY <1>3, <3>1, <3>2, <3>3 DEF GoesOn
  <2>6. CASE Expired
    <3>1. caller.generation \in 0 .. sess.generation
      BY <2>6 DEF Expired, Dated
    <3>2. QED BY <1>2, <1>3, <2>6, <3>1, FinishMoves DEF Expired
  <2>7. QED BY <2>1, <2>2, <2>3, <2>4, <2>5, <2>6 DEF CallerNext
<1>6. QED BY <1>1, <1>2, <1>3, <1>5 DEF Moves

LEMMA MovesTurn ==
  ASSUME TurnInv, Moves
  PROVE  TurnInv'
<1>1. /\ UNCHANGED <<sock, page, up>> /\ Alike(sess) /\ sess.pending = NoPending
      /\ Asks \/ Releases \/ GoesOn
  BY DEF Moves, Alike
<1>2. CASE Asks
  BY <1>1, <1>2, AwaitTurn DEF Asks
<1>3. CASE Releases
  BY <1>1, <1>3, ReleaseTurn DEF Releases
<1>4. CASE GoesOn
  <2>1. caller # Free
    BY <1>4 DEF GoesOn, Free
  <2>2. QED BY <1>1, <1>4, <2>1, LoopTurn DEF GoesOn
<1>5. QED BY <1>1, <1>2, <1>3, <1>4

-----------------------------------------------------------------------------

LEMMA TurnInit ==
  ASSUME ServiceInit
  PROVE  TurnInv
<1>1. /\ sess = NewSession /\ sock = [c \in Conns |-> NewSock] /\ page = [c \in Conns |-> NewPage]
      /\ up = [c \in Conns |-> <<>>] /\ down = [c \in Conns |-> <<>>] /\ caller = Free
  BY DEF ServiceInit, BridgeInit
<1>2. SessionShape(NewSession) /\ NewSession.ws = 0 /\ NewSession.pending = NoPending /\ ~NewSession.busy
  <2>1. NewSession = [f \in Fields |-> NewSession[f]]
    BY FieldsAre DEF NewSession
  <2>2. /\ NewSession.ws = 0 /\ NewSession.cursor = 0 /\ NewSession.generation = 0
        /\ NewSession.busy = FALSE /\ NewSession.pending = NoPending /\ NewSession.reply = NoReply
        /\ NewSession.actionId = 0 /\ NewSession.generationCursor = 0 /\ NewSession.lastCommandCursor = 0
    BY DEF NewSession
  <2>3. IsRecord(NoPending, {"id"}) /\ IsRecord(NoReply, {"id"}) /\ NoReply.id = 0
    BY DEF IsRecord, NoPending, NoReply
  <2>4. 0 \in 0 .. NConns /\ 0 \in Nat /\ 0 \in 0 .. 0 /\ FALSE \in BOOLEAN
    BY BridgeAssumption
  <2>5. SessionShape(NewSession)
    BY <2>1, <2>2, <2>3, <2>4, Zenon DEF SessionShape
  <2>6. QED BY <2>2, <2>5
<1>3. /\ NewSock \in SockTypes /\ NewSock.st = "none" /\ ~NewSock.authenticated
      /\ WireShape(NewPage, <<>>, <<>>) /\ NewPage.st = "idle"
  BY EmptyList DEF NewSock, SockTypes, NewPage, WireShape, IsRecord
<1>4. IsRecord(Free, {"phase"}) /\ Free.phase = "free" /\ "free" \notin Awaiting
  BY DEF Free, IsRecord, Awaiting
<1>5. Shape
  BY <1>1, <1>2, <1>3, <1>4 DEF Shape, SockTypes
<1>6. Owned
  BY <1>1, <1>2, <1>4 DEF Owned
<1>7. \A c \in Conns : c # 0
  BY DEF Conns
<1>8. Wires
  BY <1>1, <1>2, <1>3, <1>7 DEF Wires, Wired, Paired
<1>9. QED BY <1>5, <1>6, <1>8 DEF TurnInv

LEMMA TurnStep ==
  ASSUME TurnInv, Dated, [ServiceNext]_serviceVars
  PROVE  TurnInv'
<1>1. CASE BridgeNext /\ UNCHANGED <<caller, calls, verdict>>
  BY <1>1, ConnectTurn, OpenTurn, ReadyTurn, ExecuteTurn, PageGoneTurn, ObservationTurn,
     ReceiveTurn, ClosedTurn, HelloTimeoutTurn, CommandTimeoutTurn, RemoveTurn, QuietenTurn DEF BridgeNext
<1>2. CASE Act \/ Assert \/ RunFlow
  BY <1>2, CallMoves, MovesTurn
<1>3. CASE CallerNext
  BY <1>3, CallerMoves, MovesTurn
<1>4. CASE UNCHANGED serviceVars
  BY <1>4 DEF serviceVars, TurnInv, Shape, Owned, Wires
<1>5. QED BY <1>1, <1>2, <1>3, <1>4 DEF ServiceNext

\* A caller remembers no generation the session has not reached.
LEMMA DatedInit == ServiceInit => Dated
BY DEF ServiceInit, Dated, Free

LEMMA DatedStep ==
  ASSUME TurnInv, Dated, [ServiceNext]_serviceVars
  PROVE  Dated'
<1>1. SessionShape(sess) /\ sess.generation \in Nat
  BY DEF TurnInv, Shape, SessionShape
<1>2. CASE caller' = caller /\ sess'.generation \in Nat /\ sess.generation <= sess'.generation
  BY <1>1, <1>2 DEF Dated
<1>3. CASE Moves
  <2>1. CASE Asks
    <3>1. PICK s, kind, next :
            /\ Alike(s)
            /\ next.phase \in {"step", "fresh"} =>
                 IsRecord(next, {"phase", "generation"}) /\ next.generation \in 0 .. sess.generation
            /\ next.phase \in Awaiting /\ Await(s, kind, next)
      BY <2>1 DEF Asks
    <3>2. sess'.generation = sess.generation /\ caller' = next
      BY <3>1, AskPends DEF Await, Alike
    <3>3. QED BY <3>1, <3>2 DEF Dated, Awaiting
  <2>2. CASE Releases
    BY <2>2 DEF Releases, Release, Dated, Free
  <2>3. CASE GoesOn
    <3>1. sess'.generation = sess.generation
      BY <2>3 DEF GoesOn, Alike
    <3>2. IsRecord(caller', {"phase", "generation"}) /\ caller'.generation = caller.generation
      BY <2>3 DEF GoesOn
    <3>3. QED BY <2>3, <3>1, <3>2 DEF GoesOn, Dated
  <2>4. QED BY <1>3, <2>1, <2>2, <2>3 DEF Moves
<1>4. CASE BridgeNext /\ UNCHANGED <<caller, calls, verdict>>
  <2>1. sess'.generation \in {sess.generation, sess.generation + 1}
    BY <1>4, BridgeAges
  <2>2. QED BY <1>1, <1>2, <1>4, <2>1
<1>5. CASE Act \/ Assert \/ RunFlow
  BY <1>3, <1>5, CallMoves
<1>6. CASE CallerNext
  BY <1>3, <1>6, CallerMoves
<1>7. CASE UNCHANGED serviceVars
  BY <1>1, <1>2, <1>7 DEF serviceVars
<1>8. QED BY <1>4, <1>5, <1>6, <1>7 DEF ServiceNext

LEMMA TurnIsOne ==
  ASSUME TurnInv
  PROVE  OneTurn
<1>1. SessionShape(sess) /\ Owned
  BY DEF TurnInv, Shape
<1>2. ASSUME sess.ws # 0
      PROVE  /\ sess.ws \in Conns
             /\ Wired(sess.ws, sess, sock[sess.ws], page[sess.ws], up[sess.ws], down[sess.ws])
  <2>1. sess.ws \in Conns
    BY <1>1, <1>2, BridgeAssumption DEF SessionShape, Conns
  <2>2. QED BY <2>1 DEF TurnInv, Wires
<1>3. sess.ws # 0 => sock[sess.ws].generation = sess.generation
  BY <1>2 DEF Wired, Paired
<1>4. ASSUME sess.ws # 0, sock[sess.ws].st = "open",
             NEW m \in Range(down[sess.ws]) \cup Range(up[sess.ws]), m.type \in TurnTypes
      PROVE  m.id = sess.pending.id
  <2>1. Ordered(sess, page[sess.ws], up[sess.ws], down[sess.ws])
    BY <1>2, <1>4 DEF Wired
  <2>2. PICK s \in {down[sess.ws], up[sess.ws]} : \E i \in DOMAIN s : m = s[i]
    BY <1>4 DEF Range
  <2>3. QED BY <1>4, <2>1, <2>2 DEF Ordered, Plain, OneCommand, OneAnswer
<1>5. QED BY <1>1, <1>3, <1>4 DEF OneTurn, Owned, Awaiting, TurnTypes

\* A command has one owner that holds the lock and awaits it on an open socket of
\* the session's generation, and no frame of another command is on its wires.
THEOREM OneTurnHolds == ServiceSpec => []OneTurn
<1>1. ServiceInit => TurnInv /\ Dated
  BY TurnInit, DatedInit
<1>2. TurnInv /\ Dated /\ [ServiceNext]_serviceVars => (TurnInv /\ Dated)'
  BY TurnStep, DatedStep
<1>3. TurnInv => OneTurn
  BY TurnIsOne
<1>4. QED BY <1>1, <1>2, <1>3, PTL DEF ServiceSpec

-----------------------------------------------------------------------------
(* Readings. *)

Readable(p) == IsRecord(p, {"id", "before", "after"})

\* A reading is stored with the pending command, and nothing else changes one.
LEMMA AcceptReads ==
  ASSUME NEW s, SessionShape(s), Readable(s.pending), NEW m, m.type \in {"reading", "boundary"},
         ~Refused(s, m), NEW pressed
  PROVE  LET p == Accept(s, m, pressed).pending
         IN  /\ Readable(p)
             /\ \/ m.type # "reading" /\ p.before = s.pending.before /\ p.after = s.pending.after
                \/ m.type = "reading" /\ m.phase = "before" /\ p.before.value = m.value /\ p.after = s.pending.after
                \/ m.type = "reading" /\ m.phase # "before" /\ p.after.value = m.value /\ p.before = s.pending.before
<1>1. CASE m.type = "reading"
  <2> DEFINE u == AppendEvent(s, Event("reading", m.id, 0), pressed)
             r == [t |-> u.cursor, value |-> m.value]
  <2>1. s.pending # NoPending
    BY <1>1 DEF Refused, Reading
  <2>2. Keeps(s, u) /\ r.value = m.value
    BY AppendEventKeeps
  <2>3. Accept(s, m, pressed) = IF m.phase = "before" THEN [u EXCEPT !.pending.before = r]
                                                      ELSE [u EXCEPT !.pending.after = r]
    BY <1>1 DEF Accept
  <2> HIDE DEF u, r
  <2>4. /\ [u EXCEPT !.pending["before"] = r].pending = [s.pending EXCEPT !["before"] = r]
        /\ [u EXCEPT !.pending["after"] = r].pending = [s.pending EXCEPT !["after"] = r]
    BY <2>1, <2>2, SetPending DEF Keeps
  <2>5. /\ Readable([s.pending EXCEPT !["before"] = r]) /\ Readable([s.pending EXCEPT !["after"] = r])
        /\ [s.pending EXCEPT !["before"] = r].before = r /\ [s.pending EXCEPT !["after"] = r].after = r
        /\ [s.pending EXCEPT !["before"] = r].after = s.pending.after
        /\ [s.pending EXCEPT !["after"] = r].before = s.pending.before
    BY DEF Readable, IsRecord
  <2>6. QED BY <1>1, <2>2, <2>3, <2>4, <2>5
<1>2. CASE m.type = "boundary"
  <2> DEFINE v == [s EXCEPT !.actionId = m.id]
             u == AppendEvent(v, Event("boundary", m.id, 0), pressed)
             w == [u EXCEPT !.pending["boundary"] = TRUE]
             p == [s.pending EXCEPT !["boundary"] = TRUE]
             q == [p EXCEPT !["actionCursor"] = u.cursor]
  <2>1. s.pending # NoPending
    BY <1>2 DEF Refused, Boundary
  <2>2. Keeps(s, v)
    <3>1. m.id \in 1 .. s.cursor
      BY <1>2, <2>1 DEF Refused, Boundary, SessionShape
    <3>2. QED BY <3>1, FieldsAre DEF Keeps, SessionShape
  <2> HIDE DEF v
  <2>3. Keeps(v, u)
    BY <2>2, AppendEventKeeps DEF Keeps
  <2>4. Accept(s, m, pressed) = [u EXCEPT !.pending.boundary = TRUE, !.pending.actionCursor = u.cursor]
    BY <1>2 DEF Accept, v
  <2> HIDE DEF u
  <2>5. KeepsTurn(u, w) /\ w.pending = p
    BY <2>1, <2>2, <2>3, SetPending DEF Keeps
  <2>6. Accept(s, m, pressed) = [w EXCEPT !.pending["actionCursor"] = u.cursor]
    BY <2>4
  <2> HIDE DEF w
  <2>7. [w EXCEPT !.pending["actionCursor"] = u.cursor].pending = [w.pending EXCEPT !["actionCursor"] = u.cursor]
    <3>1. SessionShape(w) /\ w.pending # NoPending
      BY <2>1, <2>2, <2>3, <2>5 DEF Keeps, KeepsTurn
    <3>2. QED BY <3>1, SetPending
  <2>8. Readable(p) /\ p.before = s.pending.before /\ p.after = s.pending.after
    BY DEF Readable, IsRecord
  <2> HIDE DEF p
  <2>9. Readable(q) /\ q.before = s.pending.before /\ q.after = s.pending.after
    BY <2>8 DEF Readable, IsRecord
  <2>10. QED BY <1>2, <2>5, <2>6, <2>7, <2>9
<1>3. QED BY <1>1, <1>2

\* A result that is held is of readings that were both taken.
LEMMA ResultReads ==
  ASSUME NEW s, SessionShape(s), NEW m, m.type = "result", ~Refused(s, m), NEW pressed
  PROVE  LET t == Accept(s, m, pressed).causal
             p == s.pending
         IN  \/ t = s.causal
             \/ /\ p.before # NoReading /\ p.after # NoReading
                /\ t.id = p.id /\ t.before = p.before /\ t.after = p.after
                /\ t.attributed => p.before.value # 0 /\ p.after.value # 0
<1> DEFINE p      == s.pending
           causal == p.kind = "causal" /\ m.ok
           u      == IF causal THEN AppendEvent(s, Event("result", p.id, 0), pressed) ELSE s
           ack    == p.kind \in Actions => p.boundary
           reply  == [id |-> p.id, ok |-> m.ok /\ ack, unavailable |-> ack /\ ~m.ok]
           turn   == IF causal THEN Turn(u) ELSE u.causal
<1>1. Keeps(s, u)
  BY AppendEventKeeps DEF Keeps
<1>2. Accept(s, m, pressed) = ResultOf(s, m, pressed)
  BY DEF Accept
<1>3. ResultOf(s, m, pressed) = [u EXCEPT !.pending = NoPending, !.causal = IF causal THEN Turn(u) ELSE @,
                                          !.reply = reply]
  BY DEF ResultOf
<1>4. causal => p.before # NoReading /\ p.after # NoReading
  BY DEF Refused, Bracketed
<1> HIDE DEF u, reply, causal
<1>5. Accept(s, m, pressed).causal = turn
  BY <1>1, <1>2, <1>3, FieldsAre DEF Keeps, SessionShape
<1>6. /\ Turn(u).id = p.id /\ Turn(u).before = p.before /\ Turn(u).after = p.after
      /\ Turn(u).attributed => p.before.value # 0 /\ p.after.value # 0
  BY <1>1 DEF Turn, Keeps
<1>7. QED BY <1>1, <1>4, <1>5, <1>6 DEF Keeps

\* A new command has not been read for.
LEMMA AskReads ==
  ASSUME NEW s, SessionShape(s), s.pending = NoPending, NEW kind
  PROVE  LET u == Ask([s EXCEPT !.reply = NoReply], kind)
         IN  /\ u.causal \in {s.causal, NoTurn}
             /\ u.pending # NoPending => Readable(u.pending) /\ Unread(u.pending)
<1> DEFINE v       == [s EXCEPT !.reply = NoReply]
           t       == Tick(v)
           pending == [id |-> t.cursor, kind |-> kind, boundary |-> FALSE,
                       actionCursor |-> 0, before |-> NoReading, after |-> NoReading]
           reply   == [id |-> t.cursor, ok |-> FALSE, unavailable |-> FALSE]
           causal  == IF kind \in Actions THEN NoTurn ELSE t.causal
           last    == IF kind \in Actions THEN t.cursor ELSE t.lastCommandCursor
<1>1. SessionShape(v) /\ v.pending = NoPending /\ v.causal = s.causal
  BY FieldsAre DEF SessionShape, IsRecord, NoReply
<1> HIDE DEF v
<1>2. Keeps(v, t)
  BY <1>1, TickKeeps
<1>3. Readable(pending) /\ Unread(pending)
  BY DEF Readable, IsRecord, Unread
<1>4. \/ Ask(v, kind) = [t EXCEPT !.reply = reply]
      \/ Ask(v, kind) = [t EXCEPT !.pending = pending, !.causal = causal, !.lastCommandCursor = last]
  <2>1. t = [f \in Fields |-> t[f]]
    BY <1>2 DEF Keeps, SessionShape
  <2> HIDE DEF t
  <2>2. Ask(v, kind) = IF ~Reachable(v) THEN [t EXCEPT !.reply = reply]
                       ELSE [t EXCEPT !.pending = pending,
                                      !.causal = IF kind \in Actions THEN NoTurn ELSE @,
                                      !.lastCommandCursor = IF kind \in Actions THEN t.cursor ELSE @]
    BY DEF Ask, t
  <2> HIDE DEF pending, reply
  <2>3. QED BY <2>1, <2>2, FieldsAre
<1>5. causal \in {s.causal, NoTurn}
  BY <1>1, <1>2 DEF Keeps
<1> HIDE DEF t, pending, reply, causal, last
<1> DEFINE u == Ask(v, kind)
<1>6. /\ u.causal \in {s.causal, NoTurn}
      /\ u.pending \in {NoPending, pending}
  <2>1. t = [f \in Fields |-> t[f]] /\ t.causal = s.causal /\ t.pending = NoPending
    BY <1>1, <1>2 DEF Keeps, SessionShape
  <2>2. CASE u = [t EXCEPT !.reply = reply]
    BY <2>1, <2>2, FieldsAre
  <2>3. CASE u = [t EXCEPT !.pending = pending, !.causal = causal, !.lastCommandCursor = last]
    BY <1>5, <2>1, <2>3, FieldsAre
  <2>4. QED BY <1>4, <2>2, <2>3
<1>7. QED BY <1>3, <1>6 DEF v

\* No reading is on the wire u that was not on s.
Echo(u, s) == \A i \in DOMAIN u : u[i].type = "reading" => \E j \in DOMAIN s : s[j] = u[i]

LEMMA EchoLists ==
  ASSUME NEW s, IsList(s)
  PROVE  /\ Echo(s, s) /\ Echo(<<>>, s)
         /\ s # <<>> => Echo(Tail(s), s)
         /\ \A x : x.type # "reading" => Echo(Append(s, x), s)
         /\ \A t : IsList(t) /\ Silent(t) => Echo(s \o t, s)
<1>1. Echo(s, s) /\ Echo(<<>>, s)
  BY EmptyList DEF Echo
<1>2. s # <<>> => Echo(Tail(s), s)
  BY TailList DEF Echo
<1>3. ASSUME NEW x, x.type # "reading"
      PROVE  Echo(Append(s, x), s)
  BY <1>3, AppendList DEF Echo
<1>4. ASSUME NEW t, IsList(t), Silent(t)
      PROVE  Echo(s \o t, s)
  <2> DEFINE u == s \o t
  <2>1. \A i \in DOMAIN u : \/ i \in DOMAIN s /\ u[i] = s[i]
                            \/ i - Len(s) \in DOMAIN t /\ u[i] = t[i - Len(s)]
    BY <1>4, ConcatList
  <2> HIDE DEF u
  <2>2. Echo(u, s)
    BY <1>4, <2>1 DEF Echo, Silent
  <2>3. QED BY <2>2 DEF u
<1>5. QED BY <1>1, <1>2, <1>3, <1>4

\* What was read stays read while the command is the same.
LEMMA StillReads ==
  ASSUME Held, Heard, sess'.ws = sess.ws, sess'.pending = sess.pending, sess'.causal \in {sess.causal, NoTurn},
         sess.ws # 0 => page[sess.ws].turns \subseteq page'[sess.ws].turns,
         sess.pending # NoPending => /\ Plain(down[sess.ws]) => Plain(down'[sess.ws])
                                     /\ Echo(up'[sess.ws], up[sess.ws])
                                     /\ sess.ws # 0
  PROVE  Held' /\ Heard'
<1>1. Held'
  BY DEF Held
<1>2. ASSUME sess.pending # NoPending, Unread(sess.pending), Silent(up[sess.ws])
      PROVE  Silent(up'[sess.ws])
  BY <1>2 DEF Echo, Silent
<1>3. ASSUME sess.pending # NoPending, NEW before, NEW after,
             ReadAs(up[sess.ws], sess.pending, before, after)
      PROVE  ReadAs(up'[sess.ws], sess.pending, before, after)
  BY <1>3 DEF Echo, ReadAs
<1>4. Heard'
  <2>1. SUFFICES ASSUME sess.pending # NoPending
                 PROVE  /\ Readable(sess.pending)
                        /\ ~Plain(down'[sess.ws]) => Unread(sess.pending)
                        /\ \/ Unread(sess.pending) /\ Silent(up'[sess.ws])
                           \/ \E t \in page'[sess.ws].turns, before, after \in Values \cup {0, Before} :
                                /\ t.id = sess.pending.id
                                /\ before # 0 /\ after # 0 /\ before # after => t.changed
                                /\ ReadAs(up'[sess.ws], sess.pending, before, after)
    BY DEF Heard, Readable, Unread, ReadAs, NoReading
  <2>2. CASE Unread(sess.pending) /\ Silent(up[sess.ws])
    BY <1>2, <2>1, <2>2 DEF Heard, Readable
  <2>3. CASE ~(Unread(sess.pending) /\ Silent(up[sess.ws]))
    <3>1. PICK t \in page[sess.ws].turns, before, after \in Values \cup {0, Before} :
            /\ t.id = sess.pending.id
            /\ before # 0 /\ after # 0 /\ before # after => t.changed
            /\ ReadAs(up[sess.ws], sess.pending, before, after)
      BY <2>1, <2>3 DEF Heard
    <3>2. ReadAs(up'[sess.ws], sess.pending, before, after) /\ t \in page'[sess.ws].turns
      BY <1>3, <2>1, <3>1
    <3>3. QED BY <2>1, <3>1, <3>2 DEF Heard, Readable
  <2>4. QED BY <2>2, <2>3
<1>5. QED BY <1>1, <1>4

LEMMA NothingRead ==
  ASSUME sess'.pending = NoPending, sess'.causal = NoTurn
  PROVE  Held' /\ Heard'
BY DEF Held, Heard

\* A step of a document that is not an answer.
LEMMA PageReads ==
  ASSUME TurnInv, Held, Heard, UNCHANGED sess, NEW c \in Conns,
         NEW p, page' = [page EXCEPT ![c] = p], page[c].turns \subseteq p.turns,
         NEW u, up' = [up EXCEPT ![c] = u], NEW d, down' = [down EXCEPT ![c] = d],
         c = sess.ws /\ sess.pending # NoPending => (Plain(down[c]) => Plain(d)) /\ Echo(u, up[c])
  PROVE  Held' /\ Heard'
<1>1. sess.ws # 0 => sess.ws \in Conns
  BY BridgeAssumption DEF TurnInv, Shape, SessionShape, Conns
<1>2. sess.pending # NoPending => sess.ws # 0
  BY DEF TurnInv, Owned
<1>3. ASSUME sess.ws \in Conns
      PROVE  /\ page[sess.ws].turns \subseteq page'[sess.ws].turns
             /\ sess.pending # NoPending => /\ Plain(down[sess.ws]) => Plain(down'[sess.ws])
                                            /\ Echo(up'[sess.ws], up[sess.ws])
  <2>1. CASE sess.ws = c
    <3>1. page'[c] = p /\ up'[c] = u /\ down'[c] = d
      BY DEF TurnInv, Shape
    <3>2. QED BY <2>1, <3>1
  <2>2. CASE sess.ws # c
    <3>1. page'[sess.ws] = page[sess.ws] /\ up'[sess.ws] = up[sess.ws] /\ down'[sess.ws] = down[sess.ws]
      BY <1>3, <2>2 DEF TurnInv, Shape
    <3>2. IsList(up[sess.ws])
      BY <1>3, WhatHolds DEF WireShape
    <3>3. QED BY <3>1, <3>2, EchoLists
  <2>3. QED BY <2>1, <2>2
<1>4. QED BY <1>1, <1>2, <1>3, StillReads

LEMMA EmitReads ==
  ASSUME TurnInv, Held, Heard, NEW c \in Conns, UNCHANGED <<sess, sock, down, caller>>,
         NEW p, IsRecord(p, DOMAIN NewPage), p.turns = page[c].turns, NEW m, m.type # "reading", Emit(c, p, m)
  PROVE  Held' /\ Heard'
<1>1. IsList(up[c])
  BY WhatHolds DEF WireShape
<1>2. down' = [down EXCEPT ![c] = down[c]]
  BY DEF TurnInv, Shape
<1>3. Echo(up[c], up[c]) /\ Echo(Append(up[c], m), up[c])
  BY <1>1, EchoLists
<1>4. CASE p.st = "ready"
  <2>1. page' = [page EXCEPT ![c] = p] /\ up' = [up EXCEPT ![c] = Append(up[c], m)]
    BY <1>4 DEF Emit, TurnInv, Shape
  <2>2. QED BY <1>2, <1>3, <2>1, PageReads
<1>5. CASE p.st # "ready"
  <2>1. /\ up' = [up EXCEPT ![c] = up[c]]
        /\ \E q \in {[p EXCEPT !.early = Append(p.early, m)], Leave(p)} : page' = [page EXCEPT ![c] = q]
    BY <1>5 DEF Emit, TurnInv, Shape
  <2>2. \A q \in {[p EXCEPT !.early = Append(p.early, m)], Leave(p)} : q.turns = p.turns
    BY DEF IsRecord, NewPage, Leave
  <2>3. QED BY <1>2, <1>3, <2>1, <2>2, PageReads
<1>6. QED BY <1>4, <1>5

LEMMA ObservationReads ==
  ASSUME TurnInv, Held, Heard, NEW c \in Conns, UNCHANGED caller,
         RaiseError(c) \/ StartRequest(c) \/ FinishRequest(c) \/ FailObserver(c)
  PROVE  Held' /\ Heard'
<1>1. IsRecord(page[c], DOMAIN NewPage)
  BY WhatHolds DEF WireShape
<1>2. \E f \in {"errors", "requests", "blind"} : \E x : \E m :
        m.type # "reading" /\ Emit(c, [page[c] EXCEPT ![f] = x], m)
  <2>1. CASE RaiseError(c)
    <3>1. PICK x, large : Emit(c, [page[c] EXCEPT !["errors"] = x], [type |-> "console", large |-> large])
      BY <2>1 DEF RaiseError
    <3>2. [type |-> "console", large |-> large].type # "reading"
      OBVIOUS
    <3>3. QED BY <3>1, <3>2
  <2>2. CASE StartRequest(c)
    <3>1. PICK x, rid, act : Emit(c, [page[c] EXCEPT !["requests"] = x], [type |-> "start", rid |-> rid, act |-> act])
      BY <2>2 DEF StartRequest
    <3>2. [type |-> "start", rid |-> rid, act |-> act].type # "reading"
      OBVIOUS
    <3>3. QED BY <3>1, <3>2
  <2>3. CASE FinishRequest(c)
    <3>1. PICK x, rid : Emit(c, [page[c] EXCEPT !["requests"] = x], [type |-> "network", rid |-> rid])
      BY <2>3 DEF FinishRequest
    <3>2. [type |-> "network", rid |-> rid].type # "reading"
      OBVIOUS
    <3>3. QED BY <3>1, <3>2
  <2>4. CASE FailObserver(c)
    <3>1. Emit(c, [page[c] EXCEPT !["blind"] = TRUE], [type |-> "observer"])
      BY <2>4 DEF FailObserver
    <3>2. [type |-> "observer"].type # "reading"
      OBVIOUS
    <3>3. QED BY <3>1, <3>2
  <2>5. QED BY <2>1, <2>2, <2>3, <2>4
<1>3. PICK f \in {"errors", "requests", "blind"} : \E x : \E m :
        m.type # "reading" /\ Emit(c, [page[c] EXCEPT ![f] = x], m)
  BY <1>2
<1>4. PICK x, m : m.type # "reading" /\ Emit(c, [page[c] EXCEPT ![f] = x], m)
  BY <1>3
<1> DEFINE p == [page[c] EXCEPT ![f] = x]
<1>5. IsRecord(p, DOMAIN NewPage) /\ p.turns = page[c].turns
  BY <1>1 DEF IsRecord, NewPage
<1>6. UNCHANGED <<sess, sock, down, caller>>
  BY DEF RaiseError, StartRequest, FinishRequest, FailObserver
<1> HIDE DEF p
<1>7. Emit(c, p, m) /\ m.type # "reading"
  BY <1>4 DEF p
<1>8. QED BY <1>5, <1>6, <1>7, EmitReads

LEMMA DocumentReads ==
  ASSUME TurnInv, Held, Heard, NEW c \in Conns, UNCHANGED caller,
         Connect(c) \/ Open(c) \/ Ready(c) \/ PageGone(c)
  PROVE  Held' /\ Heard'
<1>1. IsRecord(page[c], DOMAIN NewPage) /\ IsList(up[c]) /\ IsList(page[c].early) /\ IsList(down[c])
  BY WhatHolds DEF WireShape
<1>2. Echo(up[c], up[c])
  BY <1>1, EchoLists
<1>3. UNCHANGED sess
  BY DEF Connect, Open, Ready, PageGone
<1>4. CASE Connect(c)
  <2>1. /\ up' = [up EXCEPT ![c] = up[c]] /\ down' = [down EXCEPT ![c] = down[c]]
        /\ \E p \in {[page[c] EXCEPT !.st = "dialing"], Leave(page[c])} : page' = [page EXCEPT ![c] = p]
    BY <1>4 DEF Connect, TurnInv, Shape
  <2>2. \A p \in {[page[c] EXCEPT !.st = "dialing"], Leave(page[c])} : p.turns = page[c].turns
    BY <1>1 DEF IsRecord, NewPage, Leave
  <2>3. QED BY <1>2, <1>3, <2>1, <2>2, PageReads
<1>5. CASE Open(c)
  <2>1. PICK network \in BOOLEAN : up' = [up EXCEPT ![c] = <<[type |-> "hello", network |-> network]>>]
    BY <1>5 DEF Open
  <2> DEFINE p == [page[c] EXCEPT !.st = "open"]
             u == <<[type |-> "hello", network |-> network]>>
  <2>2. page' = [page EXCEPT ![c] = p] /\ up' = [up EXCEPT ![c] = u] /\ down' = [down EXCEPT ![c] = down[c]]
    BY <1>5, <2>1 DEF Open, TurnInv, Shape
  <2>3. Echo(u, up[c])
    BY SingleList DEF Echo
  <2>4. p.turns = page[c].turns
    BY <1>1 DEF IsRecord, NewPage
  <2> HIDE DEF p, u
  <2>5. QED BY <1>3, <2>2, <2>3, <2>4, PageReads
<1>6. CASE Ready(c)
  <2> DEFINE p == [page[c] EXCEPT !.st = "ready", !.early = <<>>]
  <2>1. page' = [page EXCEPT ![c] = p] /\ up' = [up EXCEPT ![c] = up[c] \o page[c].early]
        /\ down' = [down EXCEPT ![c] = Tail(down[c])] /\ down[c] # <<>>
    BY <1>6 DEF Ready, TurnInv, Shape
  <2>2. p.turns = page[c].turns
    BY <1>1 DEF IsRecord, NewPage
  <2>3. Silent(page[c].early)
    BY WhatHolds DEF WireShape, Silent, Observations
  <2>4. Echo(up[c] \o page[c].early, up[c])
    BY <1>1, <2>3, EchoLists
  <2>5. Plain(down[c]) => Plain(Tail(down[c]))
    BY <1>1, <2>1, TailWires
  <2> HIDE DEF p
  <2>6. QED BY <1>3, <2>1, <2>2, <2>4, <2>5, PageReads
<1>7. CASE PageGone(c)
  <2>1. page' = [page EXCEPT ![c] = Leave(page[c])] /\ up' = [up EXCEPT ![c] = up[c]]
        /\ down' = [down EXCEPT ![c] = <<>>]
    BY <1>7 DEF PageGone, TurnInv, Shape
  <2>2. Leave(page[c]).turns = page[c].turns
    BY <1>1 DEF IsRecord, NewPage, Leave
  <2>3. QED BY <1>2, <1>3, <2>1, <2>2, EmptyList, PageReads
<1>8. QED BY <1>4, <1>5, <1>6, <1>7

\* What the readings among s say.
Says(s, before, after) ==
  \A i \in DOMAIN s : s[i].type = "reading" => s[i].value = IF s[i].phase = "before" THEN before ELSE after

LEMMA ConcatSays ==
  ASSUME NEW s, IsList(s), NEW t, IsList(t), NEW before, NEW after, Says(s, before, after), Says(t, before, after)
  PROVE  IsList(s \o t) /\ Says(s \o t, before, after)
<1> DEFINE u == s \o t
<1>1. /\ IsList(u)
      /\ \A i \in DOMAIN u : \/ i \in DOMAIN s /\ u[i] = s[i]
                             \/ i - Len(s) \in DOMAIN t /\ u[i] = t[i - Len(s)]
  BY ConcatList
<1> HIDE DEF u
<1>2. Says(u, before, after)
  BY <1>1 DEF Says
<1>3. QED BY <1>1, <1>2 DEF u

LEMMA ConcatSilent ==
  ASSUME NEW s, IsList(s), NEW t, IsList(t), Silent(s), Silent(t)
  PROVE  Silent(s \o t)
<1> DEFINE u == s \o t
<1>1. \A i \in DOMAIN u : \/ i \in DOMAIN s /\ u[i] = s[i]
                          \/ i - Len(s) \in DOMAIN t /\ u[i] = t[i - Len(s)]
  BY ConcatList
<1> HIDE DEF u
<1>2. Silent(u)
  BY <1>1 DEF Silent
<1>3. QED BY <1>2 DEF u

\* A click that is read around says what was read, any other command nothing.
LEMMA FramesSay ==
  ASSUME NEW id, NEW kind, NEW before, NEW after, NEW ok
  PROVE  LET frames == ActFrames(id, kind, before, after, ok)
         IN  Says(frames, before, after) /\ (kind # "causal" => Silent(frames))
<1> DEFINE boundary == IF kind \in Actions THEN <<[type |-> "boundary", id |-> id]>> ELSE <<>>
           first    == <<ReadingFrame(id, "before", before)>>
           last     == IF ok THEN <<ReadingFrame(id, "after", after)>> ELSE <<>>
           result   == <<[type |-> "result", id |-> id, ok |-> ok]>>
           Sound(s) == IsList(s) /\ Says(s, before, after)
<1>1. Sound(boundary) /\ Silent(boundary)
  BY SingleList, EmptyList DEF Says, Silent
<1>2. Sound(first) /\ Sound(last)
  BY SingleList, EmptyList DEF Says, ReadingFrame
<1>3. Sound(result) /\ Silent(result)
  BY SingleList DEF Says, Silent
<1>4. ActFrames(id, kind, before, after, ok) =
        IF kind = "causal" THEN ((first \o boundary) \o last) \o result ELSE boundary \o result
  BY DEF ActFrames
<1> HIDE DEF boundary, first, last, result
<1> DEFINE two   == first \o boundary
           three == two \o last
<1>5. Sound(two)
  BY <1>1, <1>2, ConcatSays
<1> HIDE DEF two
<1>6. Sound(three)
  BY <1>2, <1>5, ConcatSays
<1> HIDE DEF three
<1>7. Sound(three \o result)
  BY <1>3, <1>6, ConcatSays
<1>8. Sound(boundary \o result) /\ Silent(boundary \o result)
  BY <1>1, <1>3, ConcatSays, ConcatSilent
<1>9. QED BY <1>4, <1>7, <1>8 DEF two, three

LEMMA ExecuteReads ==
  ASSUME TurnInv, Held, Heard, NEW c \in Conns, Execute(c), UNCHANGED caller
  PROVE  Held' /\ Heard'
<1> DEFINE m == Head(down[c])
           Entry(before, after) == [id |-> m.id, changed |-> before # 0 /\ after \notin {0, before}]
           Acted(before, after) ==
             [page[c] EXCEPT !.actionId = IF m.kind \in Actions THEN m.id ELSE @,
                !.turns = IF m.kind = "causal" THEN @ \cup {Entry(before, after)} ELSE @]
           Answering(q) == [q EXCEPT !.errors = Answered(@), !.requests = Answered(@)]
<1>1. PICK before \in {Before, 0}, after \in Values \cup {0}, ok \in BOOLEAN :
        LET frames == ActFrames(m.id, m.kind, before, after, ok)
        IN  \/ /\ up' = [up EXCEPT ![c] = @ \o frames]
               /\ page' = [page EXCEPT ![c] = Answering(Acted(before, after))]
            \/ \E n \in 0 .. Len(frames) - 1 :
                 /\ up' = [up EXCEPT ![c] = @ \o SubSeq(frames, 1, n)]
                 /\ page' = [page EXCEPT ![c] = Leave(Acted(before, after))]
  BY DEF Execute
<1> DEFINE frames == ActFrames(m.id, m.kind, before, after, ok)
           acted == Acted(before, after)
           d == Tail(down[c])
<1>2. page[c].st = "ready" /\ down[c] # <<>> /\ down' = [down EXCEPT ![c] = d] /\ UNCHANGED <<sess, sock, caller>>
  BY DEF Execute, TurnInv, Shape
<1>3. /\ IsRecord(page[c], DOMAIN NewPage) /\ IsList(up[c]) /\ IsList(down[c])
      /\ Wired(c, sess, sock[c], page[c], up[c], down[c]) /\ Owned
  BY WhatHolds DEF WireShape
<1>4. /\ IsRecord(acted, DOMAIN NewPage)
      /\ acted.turns = IF m.kind = "causal" THEN page[c].turns \cup {Entry(before, after)} ELSE page[c].turns
  BY <1>3 DEF IsRecord, NewPage
<1>5. IsList(frames) /\ Says(frames, before, after) /\ (m.kind # "causal" => Silent(frames))
  BY FramesAnswer, FramesSay
<1> HIDE DEF m, frames, acted, Acted, Entry, d
<1>6. \E q, t : /\ page' = [page EXCEPT ![c] = q] /\ up' = [up EXCEPT ![c] = up[c] \o t]
                /\ q.turns = acted.turns
                /\ IsList(t) /\ Says(t, before, after) /\ (m.kind # "causal" => Silent(t))
  <2>1. CASE up' = [up EXCEPT ![c] = @ \o frames] /\ page' = [page EXCEPT ![c] = Answering(acted)]
    <3>1. Answering(acted).turns = acted.turns
      BY <1>4 DEF IsRecord, NewPage
    <3>2. page' = [page EXCEPT ![c] = Answering(acted)] /\ up' = [up EXCEPT ![c] = up[c] \o frames]
      BY <2>1 DEF TurnInv, Shape
    <3> HIDE DEF Answering
    <3>3. QED BY <1>5, <3>1, <3>2
  <2>2. ASSUME NEW n \in 0 .. Len(frames) - 1,
               up' = [up EXCEPT ![c] = @ \o SubSeq(frames, 1, n)], page' = [page EXCEPT ![c] = Leave(acted)]
        PROVE  \E q, t : /\ page' = [page EXCEPT ![c] = q] /\ up' = [up EXCEPT ![c] = up[c] \o t]
                         /\ q.turns = acted.turns
                         /\ IsList(t) /\ Says(t, before, after) /\ (m.kind # "causal" => Silent(t))
    <3> DEFINE t == SubSeq(frames, 1, n)
    <3>1. Leave(acted).turns = acted.turns
      BY <1>4 DEF IsRecord, NewPage, Leave
    <3>2. page' = [page EXCEPT ![c] = Leave(acted)] /\ up' = [up EXCEPT ![c] = up[c] \o t]
      BY <2>2 DEF TurnInv, Shape
    <3>3. IsList(t) /\ \A i \in DOMAIN t : i \in DOMAIN frames /\ t[i] = frames[i]
      BY <1>5, <2>2, PrefixList
    <3> HIDE DEF t
    <3>4. Says(t, before, after) /\ (m.kind # "causal" => Silent(t))
      BY <1>5, <3>3 DEF Says, Silent
    <3>5. QED BY <3>1, <3>2, <3>3, <3>4
  <2>3. QED BY <1>1, <2>1, <2>2 DEF frames, acted
<1>7. PICK q, t : /\ page' = [page EXCEPT ![c] = q] /\ up' = [up EXCEPT ![c] = up[c] \o t]
                  /\ q.turns = acted.turns
                  /\ IsList(t) /\ Says(t, before, after) /\ (m.kind # "causal" => Silent(t))
  BY <1>6
<1>8. page[c].turns \subseteq q.turns
  BY <1>4, <1>7
<1>9. CASE ~(c = sess.ws /\ sess.pending # NoPending)
  <2> DEFINE u == up[c] \o t
  <2> HIDE DEF u
  <2>1. up' = [up EXCEPT ![c] = u]
    BY <1>7 DEF u
  <2>2. QED BY <1>2, <1>7, <1>8, <1>9, <2>1, PageReads
<1>10. CASE c = sess.ws /\ sess.pending # NoPending
  <2> DEFINE u == up[c] \o t
             p == sess.pending
  <2>1. Ordered(sess, page[c], up[c], down[c])
    BY <1>3, <1>10 DEF Wired, Owned
  <2>2. 1 \in DOMAIN down[c] /\ m = down[c][1] /\ m.type = "command"
    BY <1>2, <1>3, <2>1, TailList DEF Ordered, m
  <2>3. ~Plain(down[c])
    BY <2>2 DEF Plain, TurnTypes
  <2>4. OneCommand(down[c], p.id) /\ Plain(up[c]) /\ m.id = p.id
    BY <1>10, <2>1, <2>2, <2>3 DEF Ordered, OneCommand, TurnTypes
  <2>5. Plain(d)
    BY <1>2, <1>3, <2>2, <2>4, TailWires DEF d
  <2>6. Readable(p) /\ Unread(p)
    BY <1>10, <2>3 DEF Heard, Readable
  <2>7. Silent(up[c]) /\ Says(up[c], before, after)
    BY <2>4 DEF Plain, Silent, Says, TurnTypes
  <2>8. Says(u, before, after) /\ (m.kind # "causal" => Silent(u))
    BY <1>3, <1>7, <2>7, ConcatSays, ConcatSilent
  <2>9. page'[c] = q /\ up'[c] = u /\ down'[c] = d /\ sess' = sess
    BY <1>2, <1>7 DEF TurnInv, Shape
  <2> HIDE DEF u, p
  <2>10. Held'
    BY <1>8, <1>10, <2>9 DEF Held
  <2>11. CASE m.kind = "causal"
    <3> DEFINE e == Entry(before, after)
    <3>1. e \in q.turns /\ e.id = p.id /\ (before # 0 /\ after # 0 /\ before # after => e.changed)
      BY <1>4, <1>7, <2>4, <2>11 DEF Entry
    <3>2. ReadAs(u, p, before, after)
      BY <2>6, <2>8 DEF ReadAs, Says, Unread
    <3>3. before \in Values \cup {0, Before} /\ after \in Values \cup {0, Before}
      BY <1>1
    <3> HIDE DEF e
    <3>4. Heard'
      BY <1>10, <2>5, <2>6, <2>9, <3>1, <3>2, <3>3 DEF Heard, Readable, p
    <3>5. QED BY <2>10, <3>4
  <2>12. CASE m.kind # "causal"
    <3>1. Heard'
      BY <1>10, <2>5, <2>6, <2>8, <2>9, <2>12 DEF Heard, Readable, p
    <3>2. QED BY <2>10, <3>1
  <2>13. QED BY <2>11, <2>12
<1>11. QED BY <1>9, <1>10
\* The frame that is taken off the wire of the session is accepted.
LEMMA AcceptedReads ==
  ASSUME TurnInv, Held, Heard, NEW c \in Conns, sess.ws = c, up[c] # <<>>,
         NEW m, m = Head(up[c]), ~Refused(sess, m), NEW pressed, sess' = Accept(sess, m, pressed),
         up' = [up EXCEPT ![c] = Tail(@)], UNCHANGED <<page, down>>
  PROVE  Held' /\ Heard'
<1> DEFINE p == sess.pending
<1>1. /\ SessionShape(sess) /\ IsList(up[c]) /\ Wired(c, sess, sock[c], page[c], up[c], down[c])
      /\ Owned /\ c # 0
  BY WhatHolds DEF WireShape, Conns
<1>2. /\ m = up[c][1] /\ 1 \in DOMAIN up[c] /\ m.type \in FrameTypes \ {"hello"}
  BY HeadIs DEF Refused
<1>3. up'[c] = Tail(up[c]) /\ Echo(Tail(up[c]), up[c])
  BY <1>1, EchoLists DEF TurnInv, Shape
<1>4. CASE m.type \in Observations
  <2>1. Keeps(sess, sess')
    BY <1>1, <1>4, ObservationKeeps
  <2>2. QED BY <1>1, <1>3, <2>1, StillReads DEF Keeps
<1>5. CASE m.type \in {"reading", "boundary"}
  <2>1. p # NoPending
    BY <1>5 DEF Refused, Reading, Boundary
  <2>2. KeepsTurn(sess, sess')
    BY <1>1, <1>2, <1>5, AcceptKeeps
  <2>3. Readable(p)
    BY <2>1 DEF Heard, Readable
  <2>4. /\ Readable(sess'.pending)
        /\ \/ m.type # "reading" /\ sess'.pending.before = p.before /\ sess'.pending.after = p.after
           \/ m.type = "reading" /\ m.phase = "before" /\ sess'.pending.before.value = m.value /\ sess'.pending.after = p.after
           \/ m.type = "reading" /\ m.phase # "before" /\ sess'.pending.after.value = m.value /\ sess'.pending.before = p.before
    BY <1>1, <1>5, <2>3, AcceptReads
  <2>5. Plain(down[c])
    <3>1. Ordered(sess, page[c], up[c], down[c])
      BY <1>1, <2>1 DEF Owned, Wired
    <3>2. ~Plain(up[c])
      BY <1>2, <1>5 DEF Plain, TurnTypes
    <3>3. QED BY <2>1, <3>1, <3>2 DEF Ordered
  <2>6. Held'
    BY <2>2 DEF Held, KeepsTurn
  <2> HIDE DEF p
  <2>7. CASE Unread(p) /\ Silent(up[c])
    <3>1. m.type # "reading"
      BY <1>2, <2>7 DEF Silent
    <3>2. Unread(sess'.pending) /\ Silent(up'[c])
      BY <1>3, <2>4, <2>7, <3>1 DEF Unread, Silent, Echo
    <3>3. Heard'
      BY <2>1, <2>2, <2>4, <2>5, <3>2 DEF Heard, Readable, KeepsTurn, p
    <3>4. QED BY <2>6, <3>3
  <2>8. CASE ~(Unread(p) /\ Silent(up[c]))
    <3>1. PICK t \in page[c].turns, before, after \in Values \cup {0, Before} :
            /\ t.id = p.id
            /\ before # 0 /\ after # 0 /\ before # after => t.changed
            /\ ReadAs(up[c], p, before, after)
      BY <2>1, <2>8 DEF Heard, p
    <3>2. m.type = "reading" => m.value = IF m.phase = "before" THEN before ELSE after
      BY <1>2, <3>1 DEF ReadAs
    <3>3. ReadAs(up'[c], sess'.pending, before, after)
      <4>1. \A i \in DOMAIN up'[c] : up'[c][i].type = "reading" =>
               up'[c][i].value = IF up'[c][i].phase = "before" THEN before ELSE after
        BY <1>3, <3>1 DEF ReadAs, Echo
      <4>2. QED BY <2>4, <3>1, <3>2, <4>1 DEF ReadAs
    <3>4. sess'.pending.id = p.id
      BY <2>2 DEF KeepsTurn, p
    <3>5. \E e \in page'[c].turns, b, a \in Values \cup {0, Before} :
             /\ e.id = sess'.pending.id
             /\ b # 0 /\ a # 0 /\ b # a => e.changed
             /\ ReadAs(up'[c], sess'.pending, b, a)
      BY <3>1, <3>3, <3>4
    <3>6. sess'.ws = c /\ down' = down
      BY <2>2 DEF KeepsTurn
    <3>7. Heard'
      BY <2>4, <2>5, <3>5, <3>6 DEF Heard, Readable
    <3>8. QED BY <2>6, <3>7
  <2>9. QED BY <2>7, <2>8
<1>6. CASE m.type = "result"
  <2>1. Ends(sess, sess') /\ sess'.ws = sess.ws
    BY <1>1, <1>6, ResultEnds
  <2>2. Heard'
    BY <2>1 DEF Heard, Ends
  <2>3. \/ sess'.causal = sess.causal
        \/ /\ p.before # NoReading /\ p.after # NoReading
           /\ sess'.causal.id = p.id /\ sess'.causal.before = p.before /\ sess'.causal.after = p.after
           /\ sess'.causal.attributed => p.before.value # 0 /\ p.after.value # 0
    BY <1>1, <1>6, ResultReads
  <2>4. CASE sess'.causal = sess.causal
    BY <2>1, <2>2, <2>4 DEF Held
  <2>5. CASE sess'.causal # sess.causal
    <3>1. p # NoPending /\ ~Unread(p)
      BY <1>6, <2>3, <2>5 DEF Refused, Unread
    <3>2. PICK t \in page[c].turns, before, after \in Values \cup {0, Before} :
            /\ t.id = p.id
            /\ before # 0 /\ after # 0 /\ before # after => t.changed
            /\ ReadAs(up[c], p, before, after)
      BY <3>1 DEF Heard
    <3>3. p.before.value = before /\ p.after.value = after
      BY <2>3, <2>5, <3>2 DEF ReadAs
    <3>4. Moved(sess'.causal) => t.id = sess'.causal.id /\ t.changed
      BY <2>3, <2>5, <3>2, <3>3 DEF Moved
    <3>5. Held'
      BY <1>1, <2>1, <3>2, <3>4 DEF Held
    <3>6. QED BY <2>2, <3>5
  <2>6. QED BY <2>4, <2>5
<1>7. QED BY <1>2, <1>4, <1>5, <1>6 DEF FrameTypes, Observations

\* A frame that is refused, or of a socket that the session is not with.
LEMMA ReceiveReads ==
  ASSUME TurnInv, Held, Heard, NEW c \in Conns, Receive(c), UNCHANGED caller
  PROVE  Held' /\ Heard'
<1> DEFINE m == Head(up[c])
<1>1. /\ SessionShape(sess) /\ IsList(up[c]) /\ IsRecord(page[c], DOMAIN NewPage)
  BY WhatHolds DEF WireShape
<1>2. up[c] # <<>> /\ up' = [up EXCEPT ![c] = Tail(up[c])] /\ page' = [page EXCEPT ![c] = page[c]]
      /\ UNCHANGED page
  BY DEF Receive, TurnInv, Shape
<1>3. Echo(Tail(up[c]), up[c])
  BY <1>1, <1>2, EchoLists
<1>4. ASSUME UNCHANGED <<sess, down>>
      PROVE  Held' /\ Heard'
  <2>1. down' = [down EXCEPT ![c] = down[c]]
    BY <1>4 DEF TurnInv, Shape
  <2>2. QED BY <1>2, <1>3, <1>4, <2>1, PageReads
<1>5. CASE ~sock[c].authenticated
  <2>1. Hello(c, m)
    BY <1>5 DEF Receive
  <2>2. \/ sess' = Pair(sess, c, m.network)
        \/ UNCHANGED <<sess, down>>
    BY <2>1 DEF Hello
  <2> HIDE DEF m
  <2>3. CASE sess' = Pair(sess, c, m.network)
    <3>1. sess'.pending = NoPending /\ sess'.causal = NoTurn
      <4>1. Begins(sess, Pair(sess, c, m.network), c)
        BY <1>1, PairEnds
      <4>2. QED BY <2>3, <4>1 DEF Begins, Ends
    <3>2. QED BY <3>1, NothingRead
  <2>4. QED BY <1>4, <2>2, <2>3
<1>6. CASE sock[c].authenticated
  <2>1. Frame(c, m)
    BY <1>6 DEF Receive
  <2>2. CASE sess.ws = c /\ sock[c].generation = sess.generation /\ ~Refused(sess, m)
    <3>1. PICK pressed \in 0 .. Min({scenario.pressed, Live(sess.events)}) : sess' = Accept(sess, m, pressed)
      BY <2>1, <2>2 DEF Frame
    <3>2. UNCHANGED down
      BY <2>1, <2>2 DEF Frame
    <3>3. QED BY <1>2, <2>2, <3>1, <3>2, AcceptedReads
  <2>3. CASE ~(sess.ws = c /\ sock[c].generation = sess.generation /\ ~Refused(sess, m))
    <3>1. sess' = (IF sess.ws = c THEN Detach(sess) ELSE sess) /\ UNCHANGED down
      BY <2>1, <2>3 DEF Frame
    <3>2. CASE sess' = Detach(sess)
      <4>1. sess'.pending = NoPending /\ sess'.causal = NoTurn
        BY <1>1, <3>2, DetachEnds DEF Ends
      <4>2. QED BY <4>1, NothingRead
    <3>3. QED BY <1>4, <3>1, <3>2
  <2>4. QED BY <2>2, <2>3
<1>7. QED BY <1>5, <1>6

\* The ends of sockets, commands and sessions.
LEMMA EndReads ==
  ASSUME TurnInv, Held, Heard, UNCHANGED caller,
         \/ \E c \in Conns : Closed(c) \/ HelloTimeout(c)
         \/ CommandTimeout \/ Remove \/ Quieten
  PROVE  Held' /\ Heard'
<1>1. SessionShape(sess) /\ Owned
  BY DEF TurnInv, Shape
<1>2. ASSUME NEW c \in Conns, Closed(c)
      PROVE  Held' /\ Heard'
  <2>1. /\ up' = [up EXCEPT ![c] = <<>>] /\ down' = [down EXCEPT ![c] = <<>>]
        /\ page' = [page EXCEPT ![c] = page[c]]
        /\ sess' = (IF sess.ws = c THEN Detach(sess) ELSE sess)
    BY <1>2 DEF Closed, TurnInv, Shape
  <2>2. CASE sess.ws = c
    <3>1. sess'.pending = NoPending /\ sess'.causal = NoTurn
      BY <1>1, <2>1, <2>2, DetachEnds DEF Ends
    <3>2. QED BY <3>1, NothingRead
  <2>3. CASE sess.ws # c
    BY <2>1, <2>3, PageReads
  <2>4. QED BY <2>2, <2>3
<1>3. ASSUME NEW c \in Conns, HelloTimeout(c)
      PROVE  Held' /\ Heard'
  <2>1. /\ up' = [up EXCEPT ![c] = up[c]] /\ down' = [down EXCEPT ![c] = down[c]]
        /\ page' = [page EXCEPT ![c] = page[c]] /\ UNCHANGED sess
    BY <1>3 DEF HelloTimeout, TurnInv, Shape
  <2>2. Echo(up[c], up[c])
    BY WhatHolds, EchoLists DEF WireShape
  <2>3. QED BY <2>1, <2>2, PageReads
<1>4. CASE CommandTimeout
  <2>1. sess' = Abandon(sess) /\ sess.pending # NoPending /\ UNCHANGED page
    BY <1>4 DEF CommandTimeout
  <2>2. sess'.pending = NoPending /\ sess'.causal = sess.causal /\ sess'.ws = sess.ws
    BY <1>1, <2>1, AbandonEnds DEF Ends
  <2>3. QED BY <2>1, <2>2 DEF Held, Heard
<1>5. CASE Remove
  <2> DEFINE v == Detach(sess)
  <2>1. SessionShape(v) /\ v.pending = NoPending /\ v.causal = NoTurn
    BY <1>1, DetachEnds DEF Ends
  <2>2. sess' = [v EXCEPT !.live = FALSE]
    BY <1>5 DEF Remove
  <2> HIDE DEF v
  <2>3. sess'.pending = NoPending /\ sess'.causal = NoTurn
    BY <2>1, <2>2, FieldsAre DEF SessionShape
  <2>4. QED BY <2>3, NothingRead
<1>6. CASE Quieten
  <2>1. Keeps(sess, sess')
    BY <1>1, <1>6, FieldsAre DEF Quieten, Keeps, SessionShape
  <2>2. UNCHANGED <<page, up, down>>
    BY <1>6 DEF Quieten
  <2>3. QED BY <2>1, <2>2 DEF Keeps, Held, Heard
<1>7. QED BY <1>2, <1>3, <1>4, <1>5, <1>6
LEMMA MovesReads ==
  ASSUME TurnInv, ReadInv, Moves
  PROVE  ReadInv'
<1>1. /\ UNCHANGED <<sock, page, up>> /\ Alike(sess) /\ sess.pending = NoPending
      /\ Asks \/ Releases \/ GoesOn
  BY DEF Moves, Alike
\* A session without a command holds the turn it held, or none.
<1>2. ASSUME sess'.pending = NoPending, sess'.ws = sess.ws, sess'.causal \in {sess.causal, NoTurn}
      PROVE  Held' /\ Heard'
  BY <1>1, <1>2 DEF ReadInv, Held, Heard
<1>3. CASE Asks
  <2>1. PICK s, kind, next : /\ Alike(s) /\ next.phase \in Awaiting
                             /\ next.phase = "fresh" => Undecided(next) /\ next.latest # "pass"
                             /\ Await(s, kind, next)
    BY <1>3 DEF Asks
  <2> DEFINE u == Ask([s EXCEPT !.reply = NoReply], kind)
  <2>2. sess' = u /\ caller' = next
    BY <2>1 DEF Await
  <2>3. /\ SessionShape(u) /\ u.ws = sess.ws
        /\ u.pending # NoPending => Reachable(s)
    BY <2>1, AskPends DEF Alike
  <2>4. /\ u.causal \in {sess.causal, NoTurn}
        /\ u.pending # NoPending => Readable(u.pending) /\ Unread(u.pending)
    BY <2>1, AskReads DEF Alike
  <2> HIDE DEF u
  <2>5. Late'
    BY <2>1, <2>2 DEF Late, Awaiting
  <2>6. CASE u.pending = NoPending
    BY <1>2, <2>2, <2>3, <2>4, <2>5, <2>6 DEF ReadInv
  <2>7. CASE u.pending # NoPending
    <3>1. sess.ws # 0 /\ sock[sess.ws].st = "open" /\ sess.ws \in Conns
      BY <2>1, <2>3, <2>7, BridgeAssumption DEF Reachable, Alike, SessionShape, Conns
    <3>2. Wired(sess.ws, sess, sock[sess.ws], page[sess.ws], up[sess.ws], down[sess.ws])
      BY <3>1, WhatHolds
    <3>3. Silent(up[sess.ws])
      BY <1>1, <3>1, <3>2 DEF Wired, Ordered, Plain, Silent, TurnTypes
    <3>4. Heard'
      BY <1>1, <2>2, <2>3, <2>4, <2>7, <3>3 DEF Heard, Readable
    <3>5. Held'
      BY <1>1, <2>2, <2>3, <2>4, <3>1 DEF ReadInv, Held
    <3>6. QED BY <2>5, <3>4, <3>5 DEF ReadInv
  <2>8. QED BY <2>6, <2>7
<1>4. CASE Releases
  <2>1. PICK s : Alike(s) /\ Release(s)
    BY <1>4 DEF Releases
  <2>2. sess' = [s EXCEPT !.busy = FALSE, !.reply = NoReply] /\ caller' = Free
    BY <2>1 DEF Release
  <2>3. sess'.pending = NoPending /\ sess'.ws = sess.ws /\ sess'.causal = sess.causal
    BY <2>1, <2>2, FieldsAre DEF Alike, SessionShape
  <2>4. Late'
    BY <2>2 DEF Late, Free
  <2>5. QED BY <1>2, <2>3, <2>4 DEF ReadInv
<1>5. CASE GoesOn
  <2>1. Late'
    BY <1>5 DEF ReadInv, Late, GoesOn
  <2>2. sess'.pending = NoPending /\ sess'.ws = sess.ws /\ sess'.causal = sess.causal
    BY <1>5 DEF GoesOn, Alike
  <2>3. QED BY <1>2, <2>1, <2>2 DEF ReadInv
<1>6. QED BY <1>1, <1>3, <1>4, <1>5

LEMMA ReadInit ==
  ASSUME ServiceInit
  PROVE  ReadInv
<1>1. sess = NewSession /\ caller = Free
  BY DEF ServiceInit, BridgeInit
<1>2. NewSession.pending = NoPending /\ NewSession.causal = NoTurn
  BY DEF NewSession
<1>3. QED BY <1>1, <1>2 DEF ReadInv, Held, Heard, Late, Free

LEMMA ReadStep ==
  ASSUME TurnInv, Dated, ReadInv, [ServiceNext]_serviceVars
  PROVE  ReadInv'
<1>1. CASE BridgeNext /\ UNCHANGED <<caller, calls, verdict>>
  <2>1. Held' /\ Heard'
    BY <1>1, DocumentReads, ExecuteReads, ObservationReads, ReceiveReads, EndReads DEF BridgeNext, ReadInv
  <2>2. Late'
    BY <1>1 DEF ReadInv, Late
  <2>3. QED BY <2>1, <2>2 DEF ReadInv
<1>2. CASE Act \/ Assert \/ RunFlow
  BY <1>2, CallMoves, MovesReads
<1>3. CASE CallerNext
  BY <1>3, CallerMoves, MovesReads
<1>4. CASE UNCHANGED serviceVars
  BY <1>4 DEF serviceVars, ReadInv, Held, Heard, Late
<1>5. QED BY <1>1, <1>2, <1>3, <1>4 DEF ServiceNext

\* A verdict on a change is of a turn the session holds.
LEMMA PassIsHeld ==
  ASSUME TurnInv, ReadInv, [ServiceNext]_serviceVars, Passes("changed")
  PROVE  \E t \in page[verdict'.conn].turns : t.id = verdict'.since /\ t.changed
<1>1. CallerNext /\ \E status : Finish(status)
  BY DEF Passes, ServiceNext, serviceVars, Act, Assert, RunFlow, Lock, CallerNext,
         Actor, StepAnswered, FreshAnswered, Round, Deadline, Expired
<1>2. Head(caller.steps) = "changed" /\ verdict'.conn = sess.ws /\ verdict'.since = caller.since
  BY <1>1 DEF Finish, Verdict, Passes
<1>3. Evaluate = "pass"
  <2>1. \A status : Finish(status) => status = "pass"
    BY DEF Finish, Verdict, Passes
  <2>2. CASE FreshAnswered
    BY <2>1, <2>2 DEF FreshAnswered, Passes
  <2>3. CASE Round
    BY <2>1, <2>3 DEF Round, Passes
  <2>4. CASE Expired
    <3>1. caller.latest # "pass"
      BY <1>2, <2>4 DEF Expired, ReadInv, Late, Undecided
    <3>2. QED BY <2>1, <2>4, <3>1 DEF Expired
  <2>5. QED BY <1>1, <2>2, <2>3, <2>4 DEF CallerNext, Actor, StepAnswered, Deadline, Passes
<1>4. EvaluateChanged = "pass"
  BY <1>2, <1>3 DEF Evaluate
<1>5. sess.causal # NoTurn /\ sess.causal.id = caller.since /\ Moved(sess.causal)
  BY <1>4 DEF EvaluateChanged, Matching, Moved
<1>6. QED BY <1>2, <1>5 DEF ReadInv, Held

\* A check that a value changed passes only on two different readings of the very
\* click it is about, by the document that is connected.
THEOREM CausalPassHolds == ServiceSpec => CausalPass
<1> DEFINE Body == Passes("changed") =>
                     \E t \in page[verdict'.conn].turns : t.id = verdict'.since /\ t.changed
<1>1. ServiceInit => TurnInv /\ Dated /\ ReadInv
  BY TurnInit, DatedInit, ReadInit
<1>2. TurnInv /\ Dated /\ ReadInv /\ [ServiceNext]_serviceVars => (TurnInv /\ Dated /\ ReadInv)'
  BY TurnStep, DatedStep, ReadStep
<1>3. TurnInv /\ ReadInv /\ [ServiceNext]_serviceVars => [Body]_serviceVars
  BY PassIsHeld
<1>4. QED BY <1>1, <1>2, <1>3, PTL DEF ServiceSpec, CausalPass

-----------------------------------------------------------------------------
(* The ring. *)

LEMMA Least ==
  ASSUME NEW T, T \subseteq Nat, T # {}
  PROVE  \E x \in T : \A y \in T : x <= y
<1> DEFINE R == OpToRel(<, Nat)
<1>1. IsWellFoundedOn(R, Nat)
  BY NatLessThanWellFounded
<1>2. \A x, y \in Nat : y < x => <<y, x>> \in R
  BY DEF OpToRel
<1> HIDE DEF R
<1>3. PICK x \in T : \A y \in T : ~(<<y, x>> \in R)
  BY <1>1, WFMin
<1>4. \A y \in T : x <= y
  <2> TAKE y \in T
  <2>1. x \in Nat /\ y \in Nat
    OBVIOUS
  <2>2. ~(y < x)
    BY <1>2, <1>3, <2>1
  <2>3. QED BY <2>1, <2>2
<1>5. QED BY <1>4

LiveEvents(r) == {r.events[i] : i \in r.head + 1 .. Len(r.events)}

RingOrder(r, now) ==
  /\ IsRecord(r, {"events", "head", "lastLoss"})
  /\ IsList(r.events) /\ r.head \in 0 .. Len(r.events) /\ r.lastLoss \in 0 .. now
  /\ Sorted(r) /\ \A i \in DOMAIN r.events : r.events[i].t \in 1 .. now

RingSound(r, now) == RingOrder(r, now) /\ Live(r) <= MaxEvents

\* What was live in r is live in q or noted as lost, and q has the events of X besides.
Grows(r, q, X) ==
  /\ LiveEvents(q) \subseteq LiveEvents(r) \cup X /\ X \subseteq LiveEvents(q)
  /\ r.lastLoss <= q.lastLoss
  /\ \A e \in LiveEvents(r) : e \in LiveEvents(q) \/ e.t <= q.lastLoss

\* How many of the events are before a stamp.
LEMMA SplitsAt ==
  ASSUME NEW r, IsList(r.events), Sorted(r), \A i \in DOMAIN r.events : r.events[i].t \in Nat, NEW target \in Nat
  PROVE  \E k \in 0 .. Len(r.events) : \A i \in DOMAIN r.events : r.events[i].t < target <=> i <= k
<1> DEFINE n == Len(r.events)
           T == {k \in 0 .. n : \A i \in k + 1 .. n : ~(r.events[i].t < target)}
<1>1. n \in Nat /\ DOMAIN r.events = 1 .. n
  BY ListOf DEF IsList
<1> HIDE DEF n
<1>2. n \in T /\ T \subseteq Nat
  BY <1>1
<1>3. PICK k \in T : \A j \in T : k <= j
  BY <1>2, Least
<1>4. ASSUME NEW i \in 1 .. n, i <= k
      PROVE  r.events[i].t < target
  <2>1. k - 1 \in 0 .. n /\ k - 1 \notin T
    BY <1>1, <1>3, <1>4
  <2>2. PICK j \in (k - 1) + 1 .. n : r.events[j].t < target
    BY <2>1
  <2>3. j = k
    BY <1>1, <1>3, <2>2
  <2>4. i = k \/ r.events[i].t < r.events[k].t
    BY <1>1, <1>3, <1>4 DEF Sorted
  <2>5. r.events[i].t \in Nat /\ r.events[k].t \in Nat
    BY <1>1, <1>3, <1>4
  <2>6. QED BY <2>2, <2>3, <2>4, <2>5
<1>5. \A i \in 1 .. n : r.events[i].t < target <=> i <= k
  BY <1>1, <1>3, <1>4
<1>6. QED BY <1>1, <1>3, <1>5 DEF n

\* The binary search of a ring in order finds the first live event at or after a stamp.
THEOREM BinarySearch ==
  ASSUME NEW r, IsList(r.events), Sorted(r), \A i \in DOMAIN r.events : r.events[i].t \in Nat,
         r.head \in 0 .. Len(r.events), NEW target \in Nat
  PROVE  /\ LowerBound(r, target) \in r.head .. Len(r.events)
         /\ \A i \in r.head + 1 .. Len(r.events) : r.events[i].t < target <=> i <= LowerBound(r, target)
<1> DEFINE n == Len(r.events)
           W == [lo : 0 .. n, hi : 0 .. n]
           Mid(w) == (w.lo + w.hi) \div 2
           Body(f, w) == IF w.lo >= w.hi THEN w.lo
                         ELSE IF r.events[Mid(w) + 1].t < target THEN f[[w EXCEPT !.lo = Mid(w) + 1]]
                         ELSE f[[w EXCEPT !.hi = Mid(w)]]
           IsSearch(f) == f = [w \in W |-> Body(f, w)]
<1>1. n \in Nat /\ DOMAIN r.events = 1 .. n
  BY ListOf DEF IsList
<1>2. PICK k \in 0 .. n : \A i \in 1 .. n : r.events[i].t < target <=> i <= k
  BY <1>1, SplitsAt
<1> DEFINE Split(w) == IF w.lo >= w.hi \/ k < w.lo THEN w.lo ELSE IF k > w.hi THEN w.hi ELSE k
           found == [w \in W |-> Split(w)]
           start == [lo |-> r.head, hi |-> n]
<1>3. LowerBound(r, target) = (CHOOSE f : IsSearch(f))[start]
  BY DEF LowerBound
<1>4. \A w \in W : w.lo < w.hi => Mid(w) \in w.lo .. w.hi - 1
  BY <1>1
<1> HIDE DEF Mid, n
<1> DEFINE Upper(w) == [w EXCEPT !.lo = Mid(w) + 1]
           Lower(w) == [w EXCEPT !.hi = Mid(w)]
<1>5. ASSUME NEW w \in W, w.lo < w.hi
      PROVE  /\ Upper(w) \in W /\ Lower(w) \in W
             /\ Upper(w).hi - Upper(w).lo < w.hi - w.lo /\ Upper(w).hi - Upper(w).lo >= 0
             /\ Lower(w).hi - Lower(w).lo < w.hi - w.lo /\ Lower(w).hi - Lower(w).lo >= 0
             /\ Split(w) = IF r.events[Mid(w) + 1].t < target THEN Split(Upper(w)) ELSE Split(Lower(w))
  <2> DEFINE mid == Mid(w)
  <2>1. mid \in w.lo .. w.hi - 1 /\ mid \in 0 .. n /\ mid + 1 \in 1 .. n
    BY <1>1, <1>4, <1>5
  <2>2. /\ Upper(w) \in W /\ Upper(w).lo = mid + 1 /\ Upper(w).hi = w.hi
        /\ Lower(w) \in W /\ Lower(w).lo = w.lo /\ Lower(w).hi = mid
    BY <1>1, <2>1
  <2>3. r.events[mid + 1].t < target <=> mid + 1 <= k
    BY <1>2, <2>1
  <2>4. w.lo \in 0 .. n /\ w.hi \in 0 .. n
    OBVIOUS
  <2> HIDE DEF mid, Upper, Lower, W
  <2>5. Split(w) = IF mid + 1 <= k THEN Split(Upper(w)) ELSE Split(Lower(w))
    BY <1>1, <1>2, <1>5, <2>1, <2>2, <2>4
  <2>6. QED BY <1>1, <1>5, <2>1, <2>2, <2>3, <2>4, <2>5 DEF mid
<1>6. IsSearch(found)
  <2>1. \A w \in W : found[w] = Split(w)
    OBVIOUS
  <2>2. ASSUME NEW w \in W
        PROVE  Split(w) = Body(found, w)
    <3>1. CASE w.lo >= w.hi
      BY <3>1
    <3>2. CASE ~(w.lo >= w.hi)
      <4>1. w.lo < w.hi
        BY <1>1, <3>2
      <4>2. /\ Upper(w) \in W /\ Lower(w) \in W
            /\ Split(w) = IF r.events[Mid(w) + 1].t < target THEN Split(Upper(w)) ELSE Split(Lower(w))
        BY <1>5, <4>1
      <4>3. Body(found, w) = IF r.events[Mid(w) + 1].t < target THEN found[Upper(w)] ELSE found[Lower(w)]
        BY <3>2
      <4> HIDE DEF Split, found, Upper, Lower, Body
      <4>4. QED BY <2>1, <4>2, <4>3
    <3>3. QED BY <3>1, <3>2
  <2> HIDE DEF Split, Body
  <2>3. QED BY <2>2
<1> DEFINE search == CHOOSE f : IsSearch(f)
<1>7. IsSearch(search)
  <2> HIDE DEF IsSearch, found
  <2>1. QED BY <1>6
<1> HIDE DEF search, found
<1>8. ASSUME NEW w \in W
      PROVE  search[w] = Body(search, w)
  <2> HIDE DEF Body
  <2>1. QED BY <1>7
<1> DEFINE Wrong == {d \in Nat : \E w \in W : d = w.hi - w.lo /\ search[w] # Split(w)}
<1>9. \A w \in W : w.lo >= w.hi => search[w] = Split(w)
  BY <1>8
<1>10. Wrong = {}
  <2>1. SUFFICES ASSUME Wrong # {}
                 PROVE  FALSE
    OBVIOUS
  <2>2. PICK d \in Wrong : \A e \in Wrong : d <= e
    BY <2>1, Least
  <2>3. PICK w \in W : d = w.hi - w.lo /\ search[w] # Split(w)
    BY <2>2
  <2>4. ASSUME NEW v \in W, v.hi - v.lo < d, v.hi - v.lo >= 0
        PROVE  search[v] = Split(v)
    <3>1. v.hi - v.lo \in Nat
      BY <1>1, <2>4
    <3> HIDE DEF Split
    <3>2. search[v] # Split(v) => v.hi - v.lo \in Wrong
      BY <3>1
    <3>3. QED BY <2>2, <2>4, <3>1, <3>2
  <2>5. w.lo < w.hi
    BY <1>1, <1>9, <2>3
  <2>6. search[w] = IF r.events[Mid(w) + 1].t < target THEN search[Upper(w)] ELSE search[Lower(w)]
    BY <1>1, <1>8, <2>5
  <2> HIDE DEF Split, Wrong, Upper, Lower
  <2>7. search[Upper(w)] = Split(Upper(w)) /\ search[Lower(w)] = Split(Lower(w))
    BY <1>5, <2>3, <2>4, <2>5
  <2>8. QED BY <1>5, <2>3, <2>5, <2>6, <2>7
<1>11. start \in W /\ start.lo = r.head /\ start.hi = n
  BY <1>1 DEF n
<1>12. search[start] = Split(start)
  <2>1. CASE start.lo >= start.hi
    BY <1>9, <1>11, <2>1
  <2>2. CASE ~(start.lo >= start.hi)
    <3> HIDE DEF start, Split
    <3>1. start.hi - start.lo \in Nat
      BY <1>1, <1>11, <2>2
    <3>2. QED BY <1>10, <1>11, <3>1
  <2>3. QED BY <2>1, <2>2
<1>13. LowerBound(r, target) = Split(start)
  BY <1>3, <1>12 DEF search
<1>14. r.head \in 0 .. n
  BY DEF n
<1>15. Split(start) \in r.head .. n /\ \A i \in r.head + 1 .. n : i <= k <=> i <= Split(start)
  BY <1>1, <1>2, <1>14
<1>16. QED BY <1>1, <1>2, <1>13, <1>14, <1>15 DEF n

LEMMA CompactRing ==
  ASSUME NEW now \in Nat, NEW r, RingOrder(r, now)
  PROVE  /\ RingOrder(Compact(r), now) /\ Live(Compact(r)) = Live(r)
         /\ Compact(r).lastLoss = r.lastLoss /\ LiveEvents(Compact(r)) = LiveEvents(r)
<1> DEFINE n == Len(r.events)
           kept == SubSeq(r.events, r.head + 1, n)
           q == [r EXCEPT !.events = kept, !.head = 0]
<1>1. r.events \in Seq(Range(r.events)) /\ n \in Nat /\ DOMAIN r.events = 1 .. n /\ r.head \in 0 .. n
  BY ListOf DEF IsList, RingOrder
<1>2. Compact(r) \in {r, q}
  BY DEF Compact
<1> HIDE DEF n
<1>3. /\ kept \in Seq(Range(r.events)) /\ Len(kept) = n - r.head
      /\ \A i \in 1 .. n - r.head : kept[i] = r.events[r.head + i]
  <2>1. r.head + 1 \in Int /\ n \in Int /\ \A i \in r.head + 1 .. n : r.events[i] \in Range(r.events)
    BY <1>1 DEF Range
  <2>2. /\ kept \in Seq(Range(r.events))
        /\ Len(kept) = IF r.head + 1 <= n THEN n - (r.head + 1) + 1 ELSE 0
        /\ \A i \in 1 .. n - (r.head + 1) + 1 : kept[i] = r.events[(r.head + 1) + i - 1]
    BY <2>1, SubSeqProperties
  <2> HIDE DEF kept
  <2>3. n - (r.head + 1) + 1 = n - r.head /\ \A i \in 1 .. n - r.head : (r.head + 1) + i - 1 = r.head + i
    BY <1>1
  <2>4. Len(kept) = n - r.head
    BY <1>1, <2>2, <2>3
  <2>5. QED BY <2>2, <2>3, <2>4
<1>4. IsList(kept) /\ DOMAIN kept = 1 .. n - r.head
  BY <1>3, ListOf
<1> HIDE DEF kept
<1>5. q.events = kept /\ q.head = 0 /\ q.lastLoss = r.lastLoss /\ IsRecord(q, {"events", "head", "lastLoss"})
  BY DEF RingOrder, IsRecord
<1> HIDE DEF q
<1>6. Live(q) = Live(r)
  BY <1>1, <1>3, <1>5 DEF Live, n
<1>7. LiveEvents(q) = LiveEvents(r)
  <2>1. \A i \in 1 .. n - r.head : r.head + i \in r.head + 1 .. n /\ q.events[i] = r.events[r.head + i]
    BY <1>1, <1>3, <1>5
  <2>2. \A j \in r.head + 1 .. n : j - r.head \in 1 .. n - r.head /\ q.events[j - r.head] = r.events[j]
    <3> TAKE j \in r.head + 1 .. n
    <3>1. j - r.head \in 1 .. n - r.head /\ r.head + (j - r.head) = j
      BY <1>1
    <3>2. QED BY <2>1, <3>1
  <2>3. LiveEvents(q) = {q.events[i] : i \in 1 .. n - r.head}
    BY <1>1, <1>3, <1>5 DEF LiveEvents
  <2>4. LiveEvents(r) = {r.events[i] : i \in r.head + 1 .. n}
    BY DEF LiveEvents, n
  <2>5. QED BY <2>1, <2>2, <2>3, <2>4
<1>8. Sorted(q)
  <2>1. \A i, j \in DOMAIN q.events : i < j => r.head + i < r.head + j /\ r.head + i \in 1 .. n /\ r.head + j \in 1 .. n
    BY <1>1, <1>4, <1>5
  <2>2. \A i, j \in 1 .. n : i < j => r.events[i].t < r.events[j].t
    BY <1>1 DEF RingOrder, Sorted
  <2>3. QED BY <1>3, <1>4, <1>5, <2>1, <2>2 DEF Sorted
<1>9. \A i \in DOMAIN q.events : q.events[i].t \in 1 .. now
  <2>1. \A i \in 1 .. n - r.head : r.head + i \in 1 .. n
    BY <1>1
  <2>2. \A i \in 1 .. n : r.events[i].t \in 1 .. now
    BY <1>1 DEF RingOrder
  <2>3. QED BY <1>3, <1>4, <1>5, <2>1, <2>2
<1>10. RingOrder(q, now)
  BY <1>1, <1>3, <1>4, <1>5, <1>8, <1>9 DEF RingOrder
<1>11. QED BY <1>2, <1>5, <1>6, <1>7, <1>10

LEMMA EvictRing ==
  ASSUME NEW now \in Nat, NEW r, RingOrder(r, now), NEW n \in 0 .. Live(r)
  PROVE  LET q == Evict(r, n)
         IN  /\ RingOrder(q, now) /\ Live(q) = Live(r) - n
             /\ LiveEvents(q) = {r.events[i] : i \in r.head + n + 1 .. Len(r.events)}
             /\ Grows(r, q, {})
<1> DEFINE len == Len(r.events)
           victims == {r.events[i].t : i \in r.head + 1 .. r.head + n}
           lost == Max({r.lastLoss} \cup victims)
           q == [r EXCEPT !.head = @ + n, !.lastLoss = lost]
<1>1. /\ len \in Nat /\ DOMAIN r.events = 1 .. len /\ r.head \in 0 .. len /\ r.head + n \in 0 .. len /\ n \in Nat
      /\ r.lastLoss \in 0 .. now
  BY ListOf DEF IsList, RingOrder, Live
<1>2. Evict(r, n) = q
  BY DEF Evict, RingOrder, IsRecord
<1>3. /\ \A i \in 1 .. len : r.events[i].t \in 1 .. now
      /\ \A i, j \in 1 .. len : i < j => r.events[i].t < r.events[j].t
  BY <1>1 DEF RingOrder, Sorted
<1> HIDE DEF len
<1>4. \E x \in {r.lastLoss} \cup victims : \A y \in {r.lastLoss} \cup victims : x >= y
  <2>1. CASE n = 0
    <3>1. victims = {}
      BY <1>1, <2>1
    <3> HIDE DEF victims
    <3>2. QED BY <1>1, <3>1
  <2>2. CASE n # 0
    <3> DEFINE x == r.events[r.head + n].t
    <3>1. x \in victims /\ r.head + n \in 1 .. len
      BY <1>1, <2>2
    <3>2. \A i \in r.head + 1 .. r.head + n : r.events[i].t <= x
      <4> TAKE i \in r.head + 1 .. r.head + n
      <4>1. i \in 1 .. len /\ (i = r.head + n \/ i < r.head + n)
        BY <1>1
      <4>2. r.events[i].t <= r.events[r.head + n].t
        BY <1>3, <3>1, <4>1
      <4>3. QED BY <4>2
    <3>3. x \in Nat /\ \A y \in victims : y \in Nat /\ y <= x
      <4>1. \A i \in r.head + 1 .. r.head + n : i \in 1 .. len
        BY <1>1
      <4>2. x \in Nat /\ \A i \in r.head + 1 .. r.head + n : r.events[i].t \in Nat /\ r.events[i].t <= x
        BY <1>3, <3>1, <3>2, <4>1
      <4> HIDE DEF x
      <4>3. QED BY <4>2
    <3> HIDE DEF victims, x
    <3> DEFINE a == r.lastLoss
    <3>7. a \in Nat
      BY <1>1
    <3> HIDE DEF a
    <3>4. CASE a <= x
      BY <3>1, <3>3, <3>4, <3>7 DEF a
    <3>5. CASE ~(a <= x)
      <4>1. \A y \in {a} \cup victims : a >= y
        BY <3>3, <3>5, <3>7
      <4>2. QED BY <4>1 DEF a
    <3>6. QED BY <3>4, <3>5
  <2>3. QED BY <2>1, <2>2
<1>5. lost \in {r.lastLoss} \cup victims /\ \A y \in {r.lastLoss} \cup victims : lost >= y
  <2> HIDE DEF victims
  <2>1. QED BY <1>4 DEF Max
<1>6. lost \in 0 .. now /\ r.lastLoss <= lost /\ \A i \in r.head + 1 .. r.head + n : r.events[i].t <= lost
  <2>1. \A y \in {r.lastLoss} \cup victims : y \in 0 .. now
    BY <1>1, <1>3
  <2>2. \A i \in r.head + 1 .. r.head + n : r.events[i].t \in victims
    OBVIOUS
  <2> HIDE DEF victims, lost
  <2>3. QED BY <1>1, <1>5, <2>1, <2>2
<1> HIDE DEF lost
<1>7. /\ q.events = r.events /\ q.head = r.head + n /\ q.lastLoss = lost
      /\ IsRecord(q, {"events", "head", "lastLoss"})
  BY DEF RingOrder, IsRecord
<1> HIDE DEF q
<1>8. RingOrder(q, now)
  BY <1>1, <1>6, <1>7 DEF RingOrder, Sorted, len
<1>9. Live(q) = Live(r) - n
  BY <1>1, <1>7 DEF Live, len
<1>10. LiveEvents(q) = {r.events[i] : i \in r.head + n + 1 .. Len(r.events)}
  BY <1>7 DEF LiveEvents
<1>11. Grows(r, q, {})
  <2>1. \A i \in r.head + 1 .. len : i \in r.head + n + 1 .. len \/ i \in r.head + 1 .. r.head + n
    BY <1>1
  <2>2. LiveEvents(q) \subseteq LiveEvents(r)
    <3>1. \A i \in r.head + n + 1 .. len : i \in r.head + 1 .. len
      BY <1>1
    <3>2. QED BY <1>10, <3>1 DEF LiveEvents, len
  <2>3. \A e \in LiveEvents(r) : e \in LiveEvents(q) \/ e.t <= lost
    BY <1>6, <1>10, <2>1 DEF LiveEvents, len
  <2>4. QED BY <1>6, <1>7, <2>2, <2>3 DEF Grows
<1>12. QED BY <1>2, <1>8, <1>9, <1>10, <1>11

\* A push keeps the ring in order and within its limit; the event it adds is live,
\* and what it evicts is noted.
THEOREM PushHolds ==
  ASSUME NEW now \in Nat, NEW r, RingSound(r, now), NEW pressed \in 0 .. Live(r),
         NEW e, e.t \in Nat, now < e.t
  PROVE  RingSound(Push(r, e, pressed), e.t) /\ Grows(r, Push(r, e, pressed), {e})
<1> DEFINE grown == [r EXCEPT !.events = Append(@, e)]
           len == Len(r.events)
           n == Max({pressed, Live(grown) - MaxEvents})
<1>1. /\ len \in Nat /\ DOMAIN r.events = 1 .. len /\ r.head \in 0 .. len /\ r.events \in Seq(Range(r.events))
      /\ r.lastLoss \in 0 .. now /\ \A i \in 1 .. len : r.events[i].t \in 1 .. now
  BY ListOf DEF IsList, RingSound, RingOrder
<1>2. /\ grown.events = Append(r.events, e) /\ grown.head = r.head /\ grown.lastLoss = r.lastLoss
      /\ IsRecord(grown, {"events", "head", "lastLoss"})
  BY DEF RingSound, RingOrder, IsRecord
<1>3. /\ IsList(grown.events) /\ Len(grown.events) = len + 1 /\ DOMAIN grown.events = 1 .. len + 1
      /\ grown.events[len + 1] = e /\ \A i \in 1 .. len : grown.events[i] = r.events[i]
  <2>1. Append(r.events, e) \in Seq(Range(r.events) \cup {e}) /\ Len(Append(r.events, e)) = len + 1
    <3>1. r.events \in Seq(Range(r.events) \cup {e})
      BY <1>1, SeqMonotonic
    <3>2. QED BY <3>1, AppendProperties
  <2>2. IsList(Append(r.events, e)) /\ DOMAIN Append(r.events, e) = 1 .. len + 1
    BY <2>1, ListOf
  <2>3. Append(r.events, e)[len + 1] = e /\ \A i \in 1 .. len : Append(r.events, e)[i] = r.events[i]
    BY <1>1, AppendProperties
  <2>4. QED BY <1>2, <2>1, <2>2, <2>3
<1> HIDE DEF grown, len
<1>4. RingOrder(grown, e.t)
  <2>1. Sorted(grown)
    <3> SUFFICES ASSUME NEW i \in 1 .. len + 1, NEW j \in 1 .. len + 1, i < j
                 PROVE  grown.events[i].t < grown.events[j].t
      BY <1>3 DEF Sorted
    <3>1. i \in 1 .. len /\ (j \in 1 .. len \/ j = len + 1)
      BY <1>1
    <3>2. CASE j \in 1 .. len
      BY <1>1, <1>3, <3>1, <3>2 DEF RingSound, RingOrder, Sorted
    <3>3. CASE j = len + 1
      <4>1. grown.events[j] = e /\ grown.events[i] = r.events[i] /\ r.events[i].t \in 1 .. now
        BY <1>1, <1>3, <3>1, <3>3
      <4>2. QED BY <4>1
    <3>4. QED BY <3>1, <3>2, <3>3
  <2>2. \A i \in 1 .. len + 1 : grown.events[i].t \in 1 .. e.t
    <3> TAKE i \in 1 .. len + 1
    <3>1. i \in 1 .. len \/ i = len + 1
      BY <1>1
    <3>2. \/ grown.events[i] = e
          \/ grown.events[i] = r.events[i] /\ r.events[i].t \in 1 .. now
      BY <1>1, <1>3, <3>1
    <3>3. CASE grown.events[i] = e
      BY <3>3
    <3>4. CASE grown.events[i] = r.events[i] /\ r.events[i].t \in 1 .. now
      BY <3>4
    <3>5. QED BY <3>2, <3>3, <3>4
  <2>3. QED BY <1>1, <1>2, <1>3, <2>1, <2>2 DEF RingOrder
<1>5. Live(grown) = Live(r) + 1 /\ Live(r) = len - r.head /\ Live(r) \in 0 .. MaxEvents
  <2>1. Live(r) = len - r.head
    BY DEF Live, len
  <2>2. Len(grown.events) = len + 1 /\ grown.head = r.head
    BY <1>2, <1>3
  <2>3. Live(grown) = Len(grown.events) - grown.head
    BY DEF Live
  <2>4. len \in Nat /\ r.head \in 0 .. len /\ Live(r) <= MaxEvents /\ MaxEvents \in Nat
    BY <1>1, RingAssumption DEF RingSound
  <2> HIDE DEF len, grown
  <2>5. QED BY <2>1, <2>2, <2>3, <2>4
<1>6. n \in 0 .. Live(grown) - 1 /\ Live(grown) - n <= MaxEvents
  <2> DEFINE a == pressed
             b == Live(grown) - MaxEvents
  <2>1. a \in Int /\ b \in Int /\ a <= Live(grown) - 1 /\ b <= Live(grown) - 1 /\ a >= 0
    BY <1>5, RingAssumption
  <2> HIDE DEF a, b
  <2>2. \E x \in {a, b} : \A y \in {a, b} : x >= y
    <3>1. CASE a >= b
      BY <2>1, <3>1
    <3>2. CASE ~(a >= b)
      BY <2>1, <3>2
    <3>3. QED BY <3>1, <3>2
  <2>3. Max({a, b}) \in {a, b} /\ Max({a, b}) >= a /\ Max({a, b}) >= b
    BY <2>2 DEF Max
  <2>4. Max({a, b}) \in 0 .. Live(grown) - 1
    BY <1>5, <2>1, <2>3, RingAssumption
  <2>5. Max({a, b}) >= Live(grown) - MaxEvents
    BY <2>3 DEF b
  <2>6. n = Max({a, b})
    BY DEF a, b
  <2>7. QED BY <1>5, <2>4, <2>5, <2>6, RingAssumption
<1> HIDE DEF n
<1> DEFINE q == Evict(grown, n)
<1>7. n \in 0 .. Live(grown) /\ e.t \in Nat
  BY <1>5, <1>6, RingAssumption
<1>8. /\ RingOrder(q, e.t) /\ Live(q) = Live(grown) - n /\ Grows(grown, q, {})
      /\ LiveEvents(q) = {grown.events[i] : i \in grown.head + n + 1 .. Len(grown.events)}
  BY <1>4, <1>7, EvictRing
<1> HIDE DEF q
<1>9. Push(r, e, pressed) = Compact(q)
  BY DEF Push, q, n, grown
<1>10. /\ RingOrder(Compact(q), e.t) /\ Live(Compact(q)) = Live(q) /\ Compact(q).lastLoss = q.lastLoss
       /\ LiveEvents(Compact(q)) = LiveEvents(q)
  BY <1>8, CompactRing
<1>11. RingSound(Compact(q), e.t)
  BY <1>6, <1>8, <1>10 DEF RingSound
<1>12. LiveEvents(grown) = LiveEvents(r) \cup {e}
  <2>1. LiveEvents(grown) = {grown.events[i] : i \in r.head + 1 .. len + 1}
    BY <1>2, <1>3 DEF LiveEvents
  <2>2. LiveEvents(r) = {r.events[i] : i \in r.head + 1 .. len}
    BY DEF LiveEvents, len
  <2>3. \A i \in r.head + 1 .. len + 1 : i \in r.head + 1 .. len \/ i = len + 1
    BY <1>1
  <2>4. \A i \in r.head + 1 .. len : i \in 1 .. len /\ i \in r.head + 1 .. len + 1 /\ grown.events[i] = r.events[i]
    BY <1>1, <1>3
  <2>5. len + 1 \in r.head + 1 .. len + 1
    BY <1>1
  <2>6. QED BY <1>3, <2>1, <2>2, <2>3, <2>4, <2>5
<1>13. e \in LiveEvents(q)
  <2>1. len + 1 \in grown.head + n + 1 .. Len(grown.events)
    BY <1>1, <1>2, <1>3, <1>5, <1>6
  <2>2. QED BY <1>3, <1>8, <2>1
<1>14. Grows(r, Compact(q), {e})
  BY <1>2, <1>8, <1>10, <1>12, <1>13 DEF Grows
<1>15. QED BY <1>9, <1>11, <1>14

\* What an observation returns is the live events after its window opened.
LEMMA ObservedIs ==
  ASSUME NEW s, NEW now \in Nat, RingSound(s.events, now), NEW since \in Nat
  PROVE  Observed(s, since) = {e \in LiveEvents(s.events) : e.t > since}
<1> DEFINE r == s.events
           n == Len(r.events)
           low == LowerBound(r, since)
           list == SubSeq(r.events, low + 1, n)
<1>1. /\ n \in Nat /\ DOMAIN r.events = 1 .. n /\ r.head \in 0 .. n /\ r.events \in Seq(Range(r.events))
      /\ \A i \in 1 .. n : r.events[i].t \in Nat
      /\ IsList(r.events) /\ Sorted(r)
  BY ListOf DEF IsList, RingSound, RingOrder
<1>2. low \in r.head .. n /\ \A i \in r.head + 1 .. n : r.events[i].t < since <=> i <= low
  BY <1>1, BinarySearch
<1> HIDE DEF r, n, low
<1>3. /\ list \in Seq(Range(r.events)) /\ Len(list) = n - low
      /\ \A i \in 1 .. n - low : list[i] = r.events[low + i]
  <2>1. low + 1 \in Int /\ n \in Int /\ \A i \in low + 1 .. n : r.events[i] \in Range(r.events)
    BY <1>1, <1>2 DEF Range
  <2>2. /\ list \in Seq(Range(r.events))
        /\ Len(list) = IF low + 1 <= n THEN n - (low + 1) + 1 ELSE 0
        /\ \A i \in 1 .. n - (low + 1) + 1 : list[i] = r.events[(low + 1) + i - 1]
    BY <2>1, SubSeqProperties
  <2> HIDE DEF list
  <2>3. low \in Nat /\ n - (low + 1) + 1 = n - low /\ \A i \in 1 .. n - low : (low + 1) + i - 1 = low + i
    BY <1>1, <1>2
  <2>4. QED BY <1>1, <1>2, <2>2, <2>3
<1>4. DOMAIN list = 1 .. n - low
  BY <1>3, ListOf
<1> HIDE DEF list
<1>5. Range(list) = {r.events[i] : i \in low + 1 .. n}
  <2>1. \A i \in 1 .. n - low : low + i \in low + 1 .. n
    BY <1>1, <1>2
  <2>2. \A j \in low + 1 .. n : j - low \in 1 .. n - low /\ low + (j - low) = j
    BY <1>1, <1>2
  <2>3. Range(list) = {list[i] : i \in 1 .. n - low}
    BY <1>4 DEF Range
  <2>4. \A j \in low + 1 .. n : list[j - low] = r.events[j]
    BY <1>3, <2>2
  <2>5. QED BY <1>3, <2>1, <2>2, <2>3, <2>4
<1>6. Observed(s, since) = {e \in {r.events[i] : i \in low + 1 .. n} : e.t > since}
  BY <1>5 DEF Observed, Since, list, low, n, r
<1>7. LiveEvents(r) = {r.events[i] : i \in r.head + 1 .. n}
  BY DEF LiveEvents, n
<1>8. \A i \in r.head + 1 .. n : r.events[i].t > since => i \in low + 1 .. n
  BY <1>1, <1>2
<1>9. \A i \in low + 1 .. n : i \in r.head + 1 .. n
  BY <1>1, <1>2
<1>10. QED BY <1>6, <1>7, <1>8, <1>9 DEF r

-----------------------------------------------------------------------------
(* What a frame adds to what was captured. *)

LEMMA RingLater ==
  ASSUME NEW r, NEW now \in Nat, RingSound(r, now), NEW later \in Nat, now <= later
  PROVE  RingSound(r, later)
BY DEF RingSound, RingOrder

\* The session goes on in its generation, with the events of X.
Adds(s, u, X) ==
  /\ u.cursor \in Nat /\ s.cursor <= u.cursor /\ RingSound(u.events, u.cursor) /\ Grows(s.events, u.events, X)
  /\ u.ws = s.ws /\ u.generation = s.generation /\ u.generationCursor = s.generationCursor
  /\ \A e \in X : e.t = u.cursor /\ s.cursor < e.t

\* ... with one event.
Appends(s, u, type, act, rid) ==
  /\ \E e : Adds(s, u, {e}) /\ e = [t |-> u.cursor, type |-> type, act |-> act, rid |-> rid]
  /\ \A f \in {"captureLost", "requests", "actionId"} : u[f] = s[f]

LEMMA NothingAdded ==
  ASSUME NEW now \in Nat, NEW r, RingSound(r, now)
  PROVE  Grows(r, r, {})
BY DEF RingSound, RingOrder, Grows

LEMMA AppendEventAdds ==
  ASSUME NEW s, SessionShape(s), RingSound(s.events, s.cursor), NEW pressed \in 0 .. Live(s.events),
         NEW type, NEW act, NEW rid
  PROVE  Appends(s, AppendEvent(s, Event(type, act, rid), pressed), type, act, rid)
<1> DEFINE e == [t |-> s.cursor + 1, type |-> type, act |-> act, rid |-> rid]
           ring == Push(s.events, e, pressed)
           u == AppendEvent(s, Event(type, act, rid), pressed)
<1>1. s = [f \in Fields |-> s[f]] /\ s.cursor \in Nat
  BY DEF SessionShape
<1>2. e = [Event(type, act, rid) EXCEPT !.t = s.cursor + 1] /\ e.t = s.cursor + 1
  BY DEF Event
<1>3. u = [Tick(s) EXCEPT !.events = Push(Tick(s).events, e, pressed), !.quiet = FALSE]
  BY <1>2 DEF AppendEvent
<1>4. RingSound(ring, e.t) /\ Grows(s.events, ring, {e})
  <2>1. e.t \in Nat /\ s.cursor < e.t
    BY <1>1, <1>2
  <2> HIDE DEF e
  <2>2. QED BY <1>1, <2>1, PushHolds
<1> HIDE DEF e
<1>5. /\ Tick(s) = [f \in Fields |-> Tick(s)[f]] /\ Tick(s).cursor = s.cursor + 1
      /\ \A f \in Fields \ {"cursor"} : Tick(s)[f] = s[f]
  BY <1>1, FieldsAre DEF Tick
<1>6. Tick(s).events = s.events
  BY <1>5, FieldsAre
<1> HIDE DEF ring
<1>7. u = [Tick(s) EXCEPT !.events = ring, !.quiet = FALSE]
  BY <1>3, <1>6 DEF ring
<1> HIDE DEF u
<1>8. /\ u.events = ring /\ u.cursor = s.cursor + 1
      /\ \A f \in Fields \ {"cursor", "events", "quiet"} : u[f] = s[f]
  BY <1>5, <1>7, FieldsAre
<1>9. u.ws = s.ws /\ u.generation = s.generation /\ u.generationCursor = s.generationCursor
  BY <1>8, FieldsAre
<1>10. Adds(s, u, {e})
  BY <1>1, <1>2, <1>4, <1>8, <1>9 DEF Adds
<1>11. \A f \in {"captureLost", "requests", "actionId"} : u[f] = s[f]
  BY <1>8, FieldsAre
<1>12. e = [t |-> u.cursor, type |-> type, act |-> act, rid |-> rid]
  BY <1>8 DEF e
<1>13. QED BY <1>10, <1>11, <1>12 DEF Appends, u

\* Authority was lost: the frame left no trace but the loss.
LosesAuthority(s, u) ==
  /\ u.captureLost = TRUE /\ u.requests = s.requests /\ u.actionId = s.actionId
  /\ \E X : Adds(s, u, X) /\ \A e \in X : e.type = "loss"

LEMMA LossLoses ==
  ASSUME NEW s, SessionShape(s), RingSound(s.events, s.cursor), NEW pressed \in 0 .. Live(s.events)
  PROVE  LosesAuthority(s, Loss(s, pressed)) /\ LosesAuthority(s, AppendOversized(s))
<1> DEFINE v == [Tick(s) EXCEPT !.captureLost = TRUE, !.lossCursor = s.cursor + 1]
           w == AppendOversized(s)
           u == AppendEvent(v, Event("loss", 0, 0), pressed)
<1>1. s = [f \in Fields |-> s[f]] /\ s.cursor \in Nat
  BY DEF SessionShape
<1>2. /\ Tick(s) = [f \in Fields |-> Tick(s)[f]] /\ Tick(s).cursor = s.cursor + 1
      /\ \A f \in Fields \ {"cursor"} : Tick(s)[f] = s[f]
  BY <1>1, FieldsAre DEF Tick
<1>3. Keeps(s, Tick(s))
  BY TickKeeps
<1>4. SessionShape(v)
  BY <1>2, <1>3, FieldsAre DEF Keeps, SessionShape
<1>5. /\ v.captureLost = TRUE /\ v.cursor = s.cursor + 1
      /\ \A f \in Fields \ {"cursor", "captureLost", "lossCursor"} : v[f] = s[f]
  BY <1>2, FieldsAre
<1>6. w = [Tick(s) EXCEPT !.lossCursor = s.cursor + 1, !.captureLost = TRUE]
  BY DEF AppendOversized
<1> HIDE DEF w
<1>7. /\ w.captureLost = TRUE /\ w.cursor = s.cursor + 1
      /\ \A f \in Fields \ {"cursor", "captureLost", "lossCursor"} : w[f] = s[f]
  BY <1>2, <1>6, FieldsAre
<1> HIDE DEF v
<1>8. ASSUME NEW x, x.cursor = s.cursor + 1,
             \A f \in Fields \ {"cursor", "captureLost", "lossCursor"} : x[f] = s[f]
      PROVE  Adds(s, x, {}) /\ x.events = s.events /\ x.requests = s.requests /\ x.actionId = s.actionId
  <2>1. /\ x.events = s.events /\ x.requests = s.requests /\ x.actionId = s.actionId
        /\ x.ws = s.ws /\ x.generation = s.generation /\ x.generationCursor = s.generationCursor
    BY <1>8, FieldsAre
  <2>2. x.cursor \in Nat /\ s.cursor <= x.cursor
    BY <1>1, <1>8
  <2>3. RingSound(x.events, x.cursor)
    BY <1>1, <2>1, <2>2, RingLater
  <2>4. Grows(s.events, x.events, {})
    BY <1>1, <2>1, NothingAdded
  <2>5. QED BY <2>1, <2>2, <2>3, <2>4 DEF Adds
<1>9. LosesAuthority(s, w)
  BY <1>7, <1>8 DEF LosesAuthority
<1>10. /\ Adds(s, v, {}) /\ v.events = s.events /\ v.requests = s.requests /\ v.actionId = s.actionId
  BY <1>5, <1>8
<1>11. RingSound(v.events, v.cursor)
  BY <1>10 DEF Adds
<1>12. Appends(v, u, "loss", 0, 0)
  <2>1. pressed \in 0 .. Live(v.events)
    BY <1>10
  <2>2. QED BY <1>4, <1>11, <2>1, AppendEventAdds
<1> HIDE DEF u
<1>13. \E e : Adds(v, u, {e}) /\ e.type = "loss"
  <2>1. PICK e : Adds(v, u, {e}) /\ e = [t |-> u.cursor, type |-> "loss", act |-> 0, rid |-> 0]
    BY <1>12, Zenon DEF Appends
  <2>2. QED BY <2>1
<1>14. \E e : Adds(s, u, {e}) /\ e.type = "loss"
  <2>1. PICK e : Adds(v, u, {e}) /\ e.type = "loss"
    BY <1>13
  <2>2. Adds(s, u, {e})
    BY <1>1, <1>5, <1>10, <2>1 DEF Adds
  <2>3. QED BY <2>1, <2>2
<1>15. LosesAuthority(s, u)
  BY <1>5, <1>10, <1>12, <1>14 DEF LosesAuthority, Appends
<1>16. u = Loss(s, pressed)
  BY DEF Loss, u, v
<1>17. QED BY <1>9, <1>15, <1>16 DEF w

\* Authority is kept: the frame is an event, of the action it belongs to.
Records(s, m, u) ==
  /\ u.captureLost = s.captureLost /\ u.actionId = s.actionId
  /\ \E e : /\ Adds(s, u, {e}) /\ e = [t |-> u.cursor, type |-> m.type, act |-> e.act, rid |-> e.rid]
            /\ m.type \in {"console", "observer"} => e.act = s.actionId /\ u.requests = s.requests
            /\ m.type = "start" =>
                 /\ m.act = s.actionId /\ e.act = m.act /\ e.rid = m.rid
                 /\ u.requests = s.requests \cup {[rid |-> m.rid, act |-> m.act]}
            /\ m.type = "network" =>
                 \E q \in s.requests : /\ q.rid = m.rid /\ e.act = q.act /\ e.rid = m.rid
                                       /\ u.requests = s.requests \ {q}

\* A frame of a command is an event of its own type, if any, and no observation.
Marks(s, m, u) ==
  /\ u.captureLost = s.captureLost /\ u.requests = s.requests
  /\ u.actionId = IF m.type = "boundary" THEN m.id ELSE s.actionId
  /\ \E X : Adds(s, u, X) /\ \A e \in X : e.type = m.type

Seems(s, v) ==
  /\ v.cursor = s.cursor /\ v.events = s.events /\ v.ws = s.ws /\ v.generation = s.generation
  /\ v.generationCursor = s.generationCursor /\ v.captureLost = s.captureLost

LEMMA AppendsLike ==
  ASSUME NEW s, SessionShape(s), RingSound(s.events, s.cursor), NEW pressed \in 0 .. Live(s.events),
         NEW v, SessionShape(v), Seems(s, v), NEW type, NEW act, NEW rid
  PROVE  LET u == AppendEvent(v, Event(type, act, rid), pressed)
         IN  /\ Adds(s, u, {[t |-> u.cursor, type |-> type, act |-> act, rid |-> rid]})
             /\ u.captureLost = s.captureLost /\ u.requests = v.requests /\ u.actionId = v.actionId
<1> DEFINE u == AppendEvent(v, Event(type, act, rid), pressed)
<1>1. RingSound(v.events, v.cursor) /\ pressed \in 0 .. Live(v.events)
  BY DEF Seems
<1>2. Appends(v, u, type, act, rid)
  BY <1>1, AppendEventAdds
<1> HIDE DEF u
<1>3. PICK e : Adds(v, u, {e}) /\ e = [t |-> u.cursor, type |-> type, act |-> act, rid |-> rid]
  BY <1>2, Zenon DEF Appends
<1>4. Adds(s, u, {e})
  BY <1>3 DEF Adds, Seems
<1>5. u.captureLost = s.captureLost /\ u.requests = v.requests /\ u.actionId = v.actionId
  BY <1>2 DEF Appends, Seems
<1>6. QED BY <1>3, <1>4, <1>5 DEF u

LEMMA AddsLike ==
  ASSUME NEW s, NEW u, NEW X, Adds(s, u, X), NEW w, Seems(u, w)
  PROVE  Adds(s, w, X)
BY DEF Adds, Seems

LEMMA AcceptEffect ==
  ASSUME NEW s, SessionShape(s), RingSound(s.events, s.cursor), NEW pressed \in 0 .. Live(s.events),
         NEW m, m.type \in FrameTypes, ~Refused(s, m)
  PROVE  LET u == Accept(s, m, pressed)
         IN  /\ m.type \in Observations => LosesAuthority(s, u) \/ Records(s, m, u)
             /\ m.type \notin Observations => Marks(s, m, u)
<1> DEFINE u == Accept(s, m, pressed)
<1>1. s = [f \in Fields |-> s[f]]
  BY DEF SessionShape
<1>2. Seems(s, s)
  BY DEF Seems
<1>3. CASE m.type = "start"
  <2> DEFINE v == [s EXCEPT !.requests = @ \cup {[rid |-> m.rid, act |-> m.act]}]
             e == [t |-> u.cursor, type |-> "start", act |-> m.act, rid |-> m.rid]
  <2>1. CASE m.act # s.actionId
    <3>1. u = Loss(s, pressed)
      BY <1>3, <2>1 DEF Accept
    <3>2. LosesAuthority(s, u)
      BY <3>1, LossLoses
    <3> HIDE DEF u
    <3>3. QED BY <1>3, <3>2 DEF Observations, u
  <2>2. CASE m.act = s.actionId
    <3>1. u = AppendEvent(v, Event("start", m.act, m.rid), pressed)
      BY <1>3, <2>2 DEF Accept
    <3>2. SessionShape(v) /\ Seems(s, v) /\ v.actionId = s.actionId
          /\ v.requests = s.requests \cup {[rid |-> m.rid, act |-> m.act]}
      BY FieldsAre DEF SessionShape, Seems
    <3> HIDE DEF u, v
    <3>3. /\ Adds(s, u, {e})
          /\ u.captureLost = s.captureLost /\ u.requests = v.requests /\ u.actionId = v.actionId
      BY <3>1, <3>2, AppendsLike
    <3>4. e.act = m.act /\ e.rid = m.rid /\ e = [t |-> u.cursor, type |-> m.type, act |-> e.act, rid |-> e.rid]
      BY <1>3
    <3> HIDE DEF e
    <3>5. Records(s, m, u)
      BY <1>3, <2>2, <3>2, <3>3, <3>4 DEF Records
    <3>6. QED BY <1>3, <3>5 DEF Observations, u
  <2>3. QED BY <2>1, <2>2
<1>4. CASE m.type = "network"
  <2> DEFINE q == CHOOSE r \in s.requests : r.rid = m.rid
             v == [s EXCEPT !.requests = @ \ {q}]
             e == [t |-> u.cursor, type |-> "network", act |-> q.act, rid |-> m.rid]
  <2>1. CASE \A r \in s.requests : r.rid # m.rid
    <3>1. u = Loss(s, pressed)
      BY <1>4, <2>1 DEF Accept
    <3>2. LosesAuthority(s, u)
      BY <3>1, LossLoses
    <3> HIDE DEF u
    <3>3. QED BY <1>4, <3>2 DEF Observations, u
  <2>2. CASE ~(\A r \in s.requests : r.rid # m.rid)
    <3>1. u = AppendEvent(v, Event("network", q.act, m.rid), pressed)
      BY <1>4, <2>2 DEF Accept
    <3>2. q \in s.requests /\ q.rid = m.rid
      BY <2>2
    <3> HIDE DEF q
    <3>3. SessionShape(v) /\ Seems(s, v) /\ v.actionId = s.actionId /\ v.requests = s.requests \ {q}
      BY FieldsAre DEF SessionShape, Seems
    <3> HIDE DEF u, v
    <3>4. /\ Adds(s, u, {e})
          /\ u.captureLost = s.captureLost /\ u.requests = v.requests /\ u.actionId = v.actionId
      BY <3>1, <3>3, AppendsLike
    <3>5. e.act = q.act /\ e.rid = m.rid /\ e = [t |-> u.cursor, type |-> m.type, act |-> e.act, rid |-> e.rid]
      BY <1>4
    <3> HIDE DEF e
    <3>6. Records(s, m, u)
      BY <1>4, <3>2, <3>3, <3>4, <3>5 DEF Records
    <3>7. QED BY <1>4, <3>6 DEF Observations, u
  <2>3. QED BY <2>1, <2>2
<1>5. CASE m.type = "observer"
  <2> DEFINE v == [s EXCEPT !.network = FALSE]
             e == [t |-> u.cursor, type |-> "observer", act |-> s.actionId, rid |-> 0]
  <2>1. u = AppendEvent(v, Event("observer", s.actionId, 0), pressed)
    BY <1>5 DEF Accept
  <2>2. SessionShape(v) /\ Seems(s, v) /\ v.actionId = s.actionId /\ v.requests = s.requests
    BY FieldsAre DEF SessionShape, Seems
  <2> HIDE DEF u, v
  <2>3. /\ Adds(s, u, {e})
        /\ u.captureLost = s.captureLost /\ u.requests = v.requests /\ u.actionId = v.actionId
    BY <2>1, <2>2, AppendsLike
  <2>4. e.act = s.actionId /\ e = [t |-> u.cursor, type |-> m.type, act |-> e.act, rid |-> e.rid]
    BY <1>5
  <2> HIDE DEF e
  <2>5. Records(s, m, u)
    BY <1>5, <2>2, <2>3, <2>4 DEF Records
  <2>6. QED BY <1>5, <2>5 DEF Observations, u
<1>6. CASE m.type = "console"
  <2> DEFINE e == [t |-> u.cursor, type |-> "console", act |-> s.actionId, rid |-> 0]
  <2>1. CASE m.large
    <3>1. u = AppendOversized(s)
      BY <1>6, <2>1 DEF Accept
    <3>2. LosesAuthority(s, u)
      BY <3>1, LossLoses
    <3> HIDE DEF u
    <3>3. QED BY <1>6, <3>2 DEF Observations, u
  <2>2. CASE ~m.large
    <3>1. u = AppendEvent(s, Event("console", s.actionId, 0), pressed)
      BY <1>6, <2>2 DEF Accept
    <3> HIDE DEF u
    <3>2. /\ Adds(s, u, {e})
          /\ u.captureLost = s.captureLost /\ u.requests = s.requests /\ u.actionId = s.actionId
      BY <1>2, <3>1, AppendsLike
    <3>3. e.act = s.actionId /\ e = [t |-> u.cursor, type |-> m.type, act |-> e.act, rid |-> e.rid]
      BY <1>6
    <3> HIDE DEF e
    <3>4. Records(s, m, u)
      BY <1>6, <3>2, <3>3 DEF Records
    <3>5. QED BY <1>6, <3>4 DEF Observations, u
  <2>3. QED BY <2>1, <2>2
<1>7. CASE m.type = "reading"
  <2> DEFINE w == AppendEvent(s, Event("reading", m.id, 0), pressed)
             r == [t |-> w.cursor, value |-> m.value]
             e == [t |-> w.cursor, type |-> "reading", act |-> m.id, rid |-> 0]
  <2>1. u = IF m.phase = "before" THEN [w EXCEPT !.pending.before = r] ELSE [w EXCEPT !.pending.after = r]
    BY <1>7 DEF Accept
  <2>2. Keeps(s, w)
    BY AppendEventKeeps
  <2> HIDE DEF w
  <2>3. /\ Adds(s, w, {e})
        /\ w.captureLost = s.captureLost /\ w.requests = s.requests /\ w.actionId = s.actionId
    BY <1>2, AppendsLike DEF w
  <2> HIDE DEF r, u
  <2>4. w = [f \in Fields |-> w[f]]
    BY <2>2 DEF Keeps, SessionShape
  <2>5. Seems(w, u) /\ u.requests = w.requests /\ u.actionId = w.actionId
    BY <2>1, <2>4, FieldsAre DEF Seems
  <2>6. e.type = "reading"
    OBVIOUS
  <2> HIDE DEF e
  <2>7. Adds(s, u, {e}) /\ u.captureLost = s.captureLost
    BY <2>3, <2>5, AddsLike DEF Seems
  <2>8. Marks(s, m, u)
    BY <1>7, <2>3, <2>5, <2>6, <2>7 DEF Marks
  <2>9. QED BY <1>7, <2>8 DEF Observations, u
<1>8. CASE m.type = "boundary"
  <2> DEFINE v == [s EXCEPT !.actionId = m.id]
             w == AppendEvent(v, Event("boundary", m.id, 0), pressed)
             e == [t |-> w.cursor, type |-> "boundary", act |-> m.id, rid |-> 0]
  <2>1. u = [w EXCEPT !.pending.boundary = TRUE, !.pending.actionCursor = w.cursor]
    BY <1>8 DEF Accept
  <2>2. m.id \in 1 .. s.cursor
    BY <1>8 DEF Refused, Boundary, SessionShape
  <2>3. SessionShape(v) /\ Seems(s, v) /\ v.actionId = m.id /\ v.requests = s.requests
    BY <2>2, FieldsAre DEF SessionShape, Seems
  <2> HIDE DEF v
  <2>4. Keeps(v, w)
    BY <2>3, AppendEventKeeps
  <2> HIDE DEF w
  <2>5. /\ Adds(s, w, {e})
        /\ w.captureLost = s.captureLost /\ w.requests = v.requests /\ w.actionId = v.actionId
    BY <2>3, AppendsLike DEF w
  <2> HIDE DEF u
  <2>6. w = [f \in Fields |-> w[f]]
    BY <2>4 DEF Keeps, SessionShape
  <2>7. Seems(w, u) /\ u.requests = w.requests /\ u.actionId = w.actionId
    BY <2>1, <2>6, FieldsAre DEF Seems
  <2>8. e.type = "boundary"
    OBVIOUS
  <2> HIDE DEF e
  <2>9. Adds(s, u, {e}) /\ u.captureLost = s.captureLost
    BY <2>5, <2>7, AddsLike DEF Seems
  <2>10. Marks(s, m, u)
    BY <1>8, <2>3, <2>5, <2>7, <2>8, <2>9 DEF Marks
  <2>11. QED BY <1>8, <2>10 DEF Observations, u
<1>9. CASE m.type = "result"
  <2> DEFINE p == s.pending
             causal == p.kind = "causal" /\ m.ok
             w == IF causal THEN AppendEvent(s, Event("result", p.id, 0), pressed) ELSE s
             acknowledged == p.kind \in Actions => p.boundary
             reply == [id |-> p.id, ok |-> m.ok /\ acknowledged, unavailable |-> acknowledged /\ ~m.ok]
  <2>1. u = [w EXCEPT !.pending = NoPending, !.causal = IF causal THEN Turn(w) ELSE @, !.reply = reply]
    <3>1. u = ResultOf(s, m, pressed)
      BY <1>9 DEF Accept
    <3>2. QED BY <3>1 DEF ResultOf
  <2>2. Keeps(s, w)
    BY AppendEventKeeps DEF Keeps
  <2>3. /\ \E X : Adds(s, w, X) /\ \A e \in X : e.type = "result"
        /\ w.captureLost = s.captureLost /\ w.requests = s.requests /\ w.actionId = s.actionId
    <3>1. CASE causal
      <4> DEFINE e == [t |-> w.cursor, type |-> "result", act |-> p.id, rid |-> 0]
      <4>1. w = AppendEvent(s, Event("result", p.id, 0), pressed)
        BY <3>1
      <4> HIDE DEF w
      <4>2. /\ Adds(s, w, {e})
            /\ w.captureLost = s.captureLost /\ w.requests = s.requests /\ w.actionId = s.actionId
        BY <1>2, <4>1, AppendsLike
      <4>3. e.type = "result"
        OBVIOUS
      <4> HIDE DEF e
      <4>4. QED BY <4>2, <4>3
    <3>2. CASE ~causal
      <4>1. w = s
        BY <3>2
      <4> HIDE DEF w
      <4>2. Adds(s, w, {})
        <5>1. s.cursor \in Nat
          BY DEF SessionShape
        <5>2. Grows(s.events, s.events, {})
          BY <5>1, NothingAdded
        <5>3. QED BY <4>1, <5>1, <5>2 DEF Adds
      <4>3. QED BY <4>1, <4>2
    <3>3. QED BY <3>1, <3>2
  <2> HIDE DEF w, reply, u, causal
  <2>4. w = [f \in Fields |-> w[f]]
    BY <2>2 DEF Keeps, SessionShape
  <2>5. Seems(w, u) /\ u.requests = w.requests /\ u.actionId = w.actionId
    BY <2>1, <2>4, FieldsAre DEF Seems
  <2>6. \E X : Adds(s, u, X) /\ \A e \in X : e.type = "result"
    BY <2>3, <2>5, AddsLike
  <2>7. Marks(s, m, u)
    BY <1>9, <2>3, <2>5, <2>6 DEF Marks, Seems
  <2>8. QED BY <1>9, <2>7 DEF Observations, u
<1>10. QED
  <2>1. m.type # "hello"
    BY DEF Refused
  <2>2. QED BY <1>3, <1>4, <1>5, <1>6, <1>7, <1>8, <1>9, <2>1 DEF FrameTypes

-----------------------------------------------------------------------------
(* What a step of the service does to what was captured. *)

Idles == Steady(sess, sess') /\ sess'.ws = sess.ws /\ sess'.generation = sess.generation

LEMMA AskIdles ==
  ASSUME NEW s, SessionShape(s), NEW kind
  PROVE  Steady(s, Ask([s EXCEPT !.reply = NoReply], kind))
<1> DEFINE v == [s EXCEPT !.reply = NoReply]
           t == Tick(v)
           u == Ask(v, kind)
<1>1. s = [f \in Fields |-> s[f]] /\ s.cursor \in Nat
  BY DEF SessionShape
<1>2. v = [f \in Fields |-> v[f]] /\ \A f \in Fields \ {"reply"} : v[f] = s[f]
  BY <1>1, FieldsAre
<1>3. t = [v EXCEPT !.cursor = s.cursor + 1]
  BY <1>2, FieldsAre DEF Tick
<1> HIDE DEF v, t
<1>4. t = [f \in Fields |-> t[f]] /\ t.cursor = s.cursor + 1 /\ \A f \in Fields \ {"reply", "cursor"} : t[f] = s[f]
  BY <1>2, <1>3, FieldsAre
<1>5. \E reply, pending, causal, last :
        u \in {[t EXCEPT !.reply = reply], [t EXCEPT !.pending = pending, !.causal = causal, !.lastCommandCursor = last]}
  <2>1. u = IF ~Reachable(v) THEN [t EXCEPT !.reply = [id |-> t.cursor, ok |-> FALSE, unavailable |-> FALSE]]
            ELSE [t EXCEPT !.pending = [id |-> t.cursor, kind |-> kind, boundary |-> FALSE,
                                        actionCursor |-> 0, before |-> NoReading, after |-> NoReading],
                           !.causal = IF kind \in Actions THEN NoTurn ELSE @,
                           !.lastCommandCursor = IF kind \in Actions THEN t.cursor ELSE @]
    BY DEF Ask, t
  <2>2. QED BY <2>1
<1> HIDE DEF u
<1>6. \A f \in Fields \ {"reply", "cursor", "pending", "causal", "lastCommandCursor"} : u[f] = s[f]
  BY <1>4, <1>5, FieldsAre
<1>7. u.cursor = s.cursor + 1
  BY <1>4, <1>5, FieldsAre
<1>8. Steady(s, u)
  BY <1>1, <1>6, <1>7, FieldsAre DEF Steady
<1>9. QED BY <1>8 DEF u, v

LEMMA MovesIdle ==
  ASSUME TurnInv, Moves
  PROVE  Idles
<1>1. CASE Asks
  <2>1. PICK s, kind, next : Alike(s) /\ Await(s, kind, next)
    BY <1>1 DEF Asks
  <2> DEFINE u == Ask([s EXCEPT !.reply = NoReply], kind)
  <2>2. sess' = u /\ u.ws = s.ws /\ u.generation = s.generation
    BY <2>1, AskPends DEF Await, Alike
  <2>3. Steady(s, u)
    BY <2>1, AskIdles DEF Alike
  <2> HIDE DEF u
  <2>4. QED BY <2>1, <2>2, <2>3 DEF Idles, Steady, Alike
<1>2. CASE Releases
  <2>1. PICK s : Alike(s) /\ sess' = [s EXCEPT !.busy = FALSE, !.reply = NoReply]
    BY <1>2 DEF Releases, Release
  <2>2. s = [f \in Fields |-> s[f]]
    BY <2>1 DEF Alike, SessionShape
  <2>3. \A f \in Fields \ {"busy", "reply"} : sess'[f] = s[f]
    BY <2>1, <2>2, FieldsAre
  <2>4. Steady(s, sess') /\ sess'.ws = s.ws /\ sess'.generation = s.generation
    BY <2>1, <2>3, FieldsAre DEF Steady, Alike
  <2>5. QED BY <2>1, <2>4 DEF Idles, Steady, Alike
<1>3. CASE GoesOn
  BY <1>3 DEF GoesOn, Alike, Idles
<1>4. QED BY <1>1, <1>2, <1>3 DEF Moves

LEMMA ServiceSteps ==
  ASSUME TurnInv, Dated, [ServiceNext]_serviceVars
  PROVE  /\ UNCHANGED scenario
         /\ (Idles /\ UNCHANGED history) \/ Detaches \/ Pairs \/ Accepts
<1>1. SessionShape(sess) /\ sess = [f \in Fields |-> sess[f]] /\ sess.cursor \in Nat
  BY DEF TurnInv, Shape, SessionShape
<1>2. ASSUME UNCHANGED sess
      PROVE  Idles
  BY <1>1, <1>2 DEF Idles, Steady
<1>3. CASE BridgeNext /\ UNCHANGED <<caller, calls, verdict>>
  <2>1. UNCHANGED scenario
    BY <1>3 DEF BridgeNext, Connect, Open, Ready, Execute, PageGone, RaiseError, StartRequest,
               FinishRequest, FailObserver, Receive, Closed, HelloTimeout, CommandTimeout, Remove, Quieten
  <2>2. Abandons \/ Quieten => Idles /\ UNCHANGED history
    <3>1. CASE Abandons
      <4>1. \A f \in Fields \ {"pending", "reply"} : sess'[f] = sess[f]
        BY <1>1, <3>1, FieldsAre DEF Abandons, Abandon
      <4>2. QED BY <1>1, <3>1, <4>1, FieldsAre DEF Idles, Steady, Abandons
    <3>2. CASE Quieten
      <4>1. \A f \in Fields \ {"quiet"} : sess'[f] = sess[f]
        BY <1>1, <3>2, FieldsAre DEF Quieten
      <4>2. QED BY <1>1, <3>2, <4>1, FieldsAre DEF Idles, Steady, Quieten
    <3>3. QED BY <3>1, <3>2
  <2>3. QED BY <1>2, <1>3, <2>1, <2>2, SessionSteps DEF Stays
<1>4. CASE Act \/ Assert \/ RunFlow
  <2>1. Idles
    BY <1>4, CallMoves, MovesIdle
  <2>2. QED BY <1>4, <2>1 DEF Act, Assert, RunFlow, Lock
<1>5. CASE CallerNext
  <2>1. Idles
    BY <1>5, CallerMoves, MovesIdle
  <2>2. UNCHANGED <<history, scenario>>
    BY <1>5 DEF CallerNext, Actor, StepAnswered, FreshAnswered, Round, Deadline, Expired, Goes
  <2>3. QED BY <2>1, <2>2
<1>6. CASE UNCHANGED serviceVars
  BY <1>2, <1>6 DEF serviceVars
<1>7. QED BY <1>3, <1>4, <1>5, <1>6 DEF ServiceNext

-----------------------------------------------------------------------------
(* The window. *)

RingInv == RingSound(sess.events, sess.cursor) /\ scenario \in Scenarios

\* A frame that was delivered is in the ring, or was evicted and noted.
Delivered(h, r) ==
  /\ h = [t |-> h.t, type |-> h.type] /\ h.t \in Nat /\ h.type \in Observations
  /\ h.t <= r.lastLoss \/ \E e \in LiveEvents(r) : e.t = h.t /\ e.type = h.type

\* As long as authority is not lost, the ring holds what was delivered and no more.
Matches(h, r) ==
  /\ \A x \in Range(h) : Delivered(x, r)
  /\ \A e \in LiveEvents(r) : e.type \in Observations => [t |-> e.t, type |-> e.type] \in Range(h)

WindowInv == IsList(history) /\ (~sess.captureLost => Matches(history, sess.events))

\* How much the byte and the age limits evict is at most what is live.
LEMMA PressedIsLive ==
  ASSUME RingInv, NEW pressed \in 0 .. Min({scenario.pressed, Live(sess.events)})
  PROVE  pressed \in 0 .. Live(sess.events)
<1> DEFINE a == scenario.pressed
           b == Live(sess.events)
<1>1. a \in Nat /\ b \in Nat
  <2>1. IsList(sess.events.events) /\ sess.events.head \in 0 .. Len(sess.events.events)
    BY DEF RingInv, RingSound, RingOrder
  <2>2. Len(sess.events.events) \in Nat
    BY <2>1, ListOf DEF IsList
  <2>3. QED BY <2>1, <2>2, BridgeAssumption DEF RingInv, Live
<1> HIDE DEF a, b
<1>2. \E x \in {a, b} : \A y \in {a, b} : x <= y
  <2>1. CASE a <= b
    BY <1>1, <2>1
  <2>2. CASE ~(a <= b)
    BY <1>1, <2>2
  <2>3. QED BY <2>1, <2>2
<1>3. Min({a, b}) \in {a, b} /\ \A y \in {a, b} : Min({a, b}) <= y
  BY <1>2 DEF Min
<1>4. Min({a, b}) \in Nat /\ Min({a, b}) <= b
  BY <1>1, <1>3
<1>5. pressed \in 0 .. Min({a, b})
  BY DEF a, b
<1>6. QED BY <1>1, <1>4, <1>5 DEF b

\* What is accepted, as one of the three things a frame can do.
AcceptsAs(c, m) ==
  /\ c \in Conns /\ sess.ws = c /\ up[c] # <<>> /\ m = Head(up[c]) /\ m.type \in FrameTypes /\ ~Refused(sess, m)
  /\ up' = [up EXCEPT ![c] = Tail(@)] /\ UNCHANGED <<sock, page, down>>
  /\ m.type \in Observations =>
       /\ LosesAuthority(sess, sess') \/ Records(sess, m, sess')
       /\ history' = Append(history, [t |-> sess'.cursor, type |-> m.type])
  /\ m.type \notin Observations => Marks(sess, m, sess') /\ UNCHANGED history
  /\ m.type # "result" => sess'.pending.id = sess.pending.id

LEMMA AcceptsIs ==
  ASSUME TurnInv, RingInv, Accepts
  PROVE  \E c, m : AcceptsAs(c, m)
<1>1. PICK c \in Conns : \E pressed \in 0 .. Min({scenario.pressed, Live(sess.events)}) :
        LET m == Head(up[c])
        IN  /\ sess.ws = c /\ up[c] # <<>> /\ m.type \in FrameTypes /\ ~Refused(sess, m)
            /\ sess' = Accept(sess, m, pressed)
            /\ history' = IF m.type \in Observations
                          THEN Append(history, [t |-> sess'.cursor, type |-> m.type]) ELSE history
            /\ up' = [up EXCEPT ![c] = Tail(@)] /\ UNCHANGED <<sock, page, down>>
  BY DEF Accepts
<1> DEFINE m == Head(up[c])
<1>2. PICK pressed \in 0 .. Min({scenario.pressed, Live(sess.events)}) : sess' = Accept(sess, m, pressed)
  BY <1>1
<1>3. SessionShape(sess) /\ RingSound(sess.events, sess.cursor) /\ pressed \in 0 .. Live(sess.events)
  BY PressedIsLive DEF TurnInv, Shape, RingInv
<1>4. m.type \in FrameTypes /\ ~Refused(sess, m)
  BY <1>1
<1> HIDE DEF m
<1>5. /\ m.type \in Observations => LosesAuthority(sess, sess') \/ Records(sess, m, sess')
      /\ m.type \notin Observations => Marks(sess, m, sess')
  BY <1>2, <1>3, <1>4, AcceptEffect
<1>8. ASSUME m.type # "result"
      PROVE  sess'.pending.id = sess.pending.id
  <2>1. m.type \in FrameTypes \ {"hello", "result"}
    BY <1>4, <1>8 DEF Refused
  <2>2. KeepsTurn(sess, sess')
    BY <1>2, <1>3, <1>4, <2>1, AcceptKeeps
  <2>3. QED BY <2>2 DEF KeepsTurn
<1>6. AcceptsAs(c, m)
  BY <1>1, <1>4, <1>5, <1>8 DEF AcceptsAs, m
<1>7. QED BY <1>6

LEMMA EmptyHolds == RingSound(EmptyRing, 0) /\ LiveEvents(EmptyRing) = {}
<1>1. /\ EmptyRing.events = <<>> /\ EmptyRing.head = 0 /\ EmptyRing.lastLoss = 0
      /\ IsRecord(EmptyRing, {"events", "head", "lastLoss"})
  BY DEF EmptyRing, IsRecord
<1>2. IsList(<<>>) /\ DOMAIN <<>> = {} /\ Len(<<>>) = 0
  BY EmptyList
<1>3. Live(EmptyRing) <= MaxEvents
  BY <1>1, <1>2, RingAssumption DEF Live
<1>4. Sorted(EmptyRing)
  BY <1>1, <1>2 DEF Sorted
<1>5. LiveEvents(EmptyRing) = {}
  BY <1>1, <1>2 DEF LiveEvents
<1>6. QED BY <1>1, <1>2, <1>3, <1>4, <1>5 DEF RingSound, RingOrder

\* The events in a step of a session that goes on.
LEMMA AddsKeepsRing ==
  ASSUME NEW m, AcceptsAs(sess.ws, m)
  PROVE  \E X : Adds(sess, sess', X)
BY DEF AcceptsAs, LosesAuthority, Records, Marks

LEMMA RingStep ==
  ASSUME TurnInv, Dated, RingInv, [ServiceNext]_serviceVars
  PROVE  RingInv'
<1>1. SessionShape(sess) /\ sess.cursor \in Nat /\ RingSound(sess.events, sess.cursor)
  BY DEF TurnInv, Shape, SessionShape, RingInv
<1>2. CASE Idles
  BY <1>1, <1>2, RingLater, ServiceSteps DEF Idles, Steady, RingInv
<1>3. CASE Detaches
  BY <1>1, <1>3, DetachesEnds, ServiceSteps DEF RingInv
<1>4. CASE Pairs
  <2>1. PICK c \in Conns : \E network : sess' = Pair(sess, c, network)
    BY <1>4 DEF Pairs
  <2>2. PICK network : sess' = Pair(sess, c, network)
    BY <2>1
  <2>3. Begins(sess, sess', c)
    BY <1>1, <2>2, PairEnds
  <2>4. sess'.events = EmptyRing /\ sess'.cursor \in Nat /\ 0 <= sess'.cursor
    BY <1>1, <2>3 DEF Begins
  <2>5. RingSound(sess'.events, sess'.cursor)
    BY <2>4, EmptyHolds, RingLater
  <2>6. QED BY <2>5, ServiceSteps DEF RingInv
<1>5. CASE Accepts
  <2>1. PICK c, m : AcceptsAs(c, m)
    BY <1>5, AcceptsIs
  <2>2. PICK X : Adds(sess, sess', X)
    BY <2>1, AddsKeepsRing DEF AcceptsAs
  <2>3. QED BY <2>2, ServiceSteps DEF Adds, RingInv
<1>6. QED BY <1>2, <1>3, <1>4, <1>5, ServiceSteps

LEMMA RingInit == ServiceInit => RingInv
<1> SUFFICES ASSUME ServiceInit
             PROVE  RingInv
  OBVIOUS
<1>1. sess = NewSession /\ scenario \in Scenarios
  BY DEF ServiceInit, BridgeInit
<1>2. NewSession.events = EmptyRing /\ NewSession.cursor = 0
  BY DEF NewSession
<1>3. QED BY <1>1, <1>2, EmptyHolds DEF RingInv

\* A ring that grows still matches what was delivered, and what is new in both.
LEMMA GrowsMatches ==
  ASSUME NEW h, NEW r, NEW q, NEW X, NEW k, NEW now \in Nat, NEW later \in Nat,
         Matches(h, r), RingSound(r, now), RingSound(q, later), Grows(r, q, X),
         Range(h) \subseteq Range(k), \A x \in Range(k) \ Range(h) : Delivered(x, q),
         \A e \in X : e.type \in Observations => [t |-> e.t, type |-> e.type] \in Range(k)
  PROVE  Matches(k, q)
<1>1. r.lastLoss \in Nat /\ q.lastLoss \in Nat /\ r.lastLoss <= q.lastLoss
  BY DEF RingSound, RingOrder, Grows
<1>2. ASSUME NEW x \in Range(h)
      PROVE  Delivered(x, q)
  <2>1. Delivered(x, r) /\ x.t \in Nat
    BY DEF Matches, Delivered
  <2>2. CASE x.t <= r.lastLoss
    BY <1>1, <2>1, <2>2 DEF Delivered
  <2>3. CASE \E e \in LiveEvents(r) : e.t = x.t /\ e.type = x.type
    <3>1. PICK e \in LiveEvents(r) : e.t = x.t /\ e.type = x.type
      BY <2>3
    <3>2. e \in LiveEvents(q) \/ e.t <= q.lastLoss
      BY <3>1 DEF Grows
    <3>3. QED BY <2>1, <3>1, <3>2 DEF Delivered
  <2>4. QED BY <2>1, <2>2, <2>3 DEF Delivered
<1>3. ASSUME NEW e \in LiveEvents(q), e.type \in Observations
      PROVE  [t |-> e.t, type |-> e.type] \in Range(k)
  <2>1. e \in LiveEvents(r) \/ e \in X
    BY DEF Grows
  <2>2. e \in LiveEvents(r) => [t |-> e.t, type |-> e.type] \in Range(h)
    BY <1>3 DEF Matches
  <2>3. QED BY <1>3, <2>1, <2>2
<1>4. QED BY <1>2, <1>3 DEF Matches

LEMMA AppendRange ==
  ASSUME NEW s, IsList(s), NEW x
  PROVE  Range(Append(s, x)) = Range(s) \cup {x}
<1> DEFINE S == Range(s) \cup {x}
           u == Append(s, x)
<1>1. s \in Seq(S) /\ x \in S
  <2>1. s \in Seq(Range(s)) /\ Range(s) \subseteq S
    BY DEF IsList
  <2>2. QED BY <2>1, SeqMonotonic
<1>2. Len(s) \in Nat /\ DOMAIN s = 1 .. Len(s)
  BY ListOf DEF IsList
<1> HIDE DEF S
<1>3. /\ u \in Seq(S) /\ DOMAIN u = 1 .. Len(s) + 1
      /\ \A i \in 1 .. Len(s) : u[i] = s[i]
      /\ u[Len(s) + 1] = x
  BY <1>1, <1>2, AppendProperties
<1> HIDE DEF u
<1>4. Range(u) = {u[i] : i \in 1 .. Len(s) + 1} /\ Range(s) = {s[i] : i \in 1 .. Len(s)}
  BY <1>2, <1>3 DEF Range
<1>5. \A i \in 1 .. Len(s) + 1 : i \in 1 .. Len(s) \/ i = Len(s) + 1
  BY <1>2
<1>6. /\ \A i \in 1 .. Len(s) : i \in 1 .. Len(s) + 1
      /\ Len(s) + 1 \in 1 .. Len(s) + 1
  BY <1>2
<1>7. QED BY <1>3, <1>4, <1>5, <1>6 DEF u

LEMMA WindowStep ==
  ASSUME TurnInv, Dated, RingInv, WindowInv, [ServiceNext]_serviceVars
  PROVE  WindowInv'
<1>1. /\ SessionShape(sess) /\ sess.cursor \in Nat /\ RingSound(sess.events, sess.cursor) /\ IsList(history)
      /\ TurnInv' /\ RingInv'
  BY TurnStep, RingStep DEF TurnInv, Shape, SessionShape, RingInv, WindowInv
<1>2. sess'.cursor \in Nat /\ RingSound(sess'.events, sess'.cursor)
  BY <1>1 DEF TurnInv, Shape, SessionShape, RingInv
<1>3. CASE Idles /\ UNCHANGED history
  BY <1>3 DEF Idles, Steady, WindowInv
<1>4. CASE Detaches
  BY <1>4, DetachesEnds DEF Detaches, WindowInv
<1>5. CASE Pairs
  <2>1. PICK c \in Conns : \E network : sess' = Pair(sess, c, network) /\ history' = <<>>
    BY <1>5 DEF Pairs
  <2>2. PICK network : sess' = Pair(sess, c, network) /\ history' = <<>>
    BY <2>1
  <2>3. Begins(sess, sess', c)
    BY <1>1, <2>2, PairEnds
  <2>4. sess'.events = EmptyRing
    BY <2>3 DEF Begins
  <2>5. IsList(<<>>) /\ Range(<<>>) = {}
    BY EmptyList DEF Range
  <2>6. QED BY <2>2, <2>4, <2>5, EmptyHolds DEF WindowInv, Matches
<1>6. CASE Accepts
  <2>1. PICK c, m : AcceptsAs(c, m)
    BY <1>6, AcceptsIs
  <2>2. CASE m.type \notin Observations
    <3>1. Marks(sess, m, sess') /\ history' = history
      BY <2>1, <2>2 DEF AcceptsAs
    <3>2. PICK X : Adds(sess, sess', X) /\ \A e \in X : e.type = m.type
      BY <3>1 DEF Marks
    <3>3. Matches(history, sess.events) => Matches(history', sess'.events)
      BY <1>1, <1>2, <2>2, <3>1, <3>2, GrowsMatches DEF Adds
    <3>4. QED BY <3>1, <3>3 DEF WindowInv, Marks
  <2>3. CASE m.type \in Observations
    <3> DEFINE x == [t |-> sess'.cursor, type |-> m.type]
    <3>1. history' = Append(history, x) /\ IsList(history') /\ Range(history') = Range(history) \cup {x}
      <4>1. history' = Append(history, x)
        BY <2>1, <2>3 DEF AcceptsAs
      <4> HIDE DEF x
      <4>2. IsList(Append(history, x)) /\ Range(Append(history, x)) = Range(history) \cup {x}
        BY <1>1, AppendList, AppendRange
      <4>3. QED BY <4>1, <4>2
    <3>2. CASE LosesAuthority(sess, sess')
      BY <3>1, <3>2 DEF LosesAuthority, WindowInv
    <3>3. CASE Records(sess, m, sess')
      <4>1. PICK e : Adds(sess, sess', {e}) /\ e = [t |-> sess'.cursor, type |-> m.type, act |-> e.act, rid |-> e.rid]
        BY <3>3 DEF Records
      <4>2. e.t = sess'.cursor /\ e.type = m.type
        BY <4>1
      <4>3. e \in LiveEvents(sess'.events) /\ Grows(sess.events, sess'.events, {e})
        BY <4>1 DEF Adds, Grows
      <4>4. Delivered(x, sess'.events)
        BY <1>2, <2>3, <4>2, <4>3 DEF Delivered
      <4>5. [t |-> e.t, type |-> e.type] = x
        BY <4>2
      <4> HIDE DEF x
      <4>6. Matches(history, sess.events) => Matches(history', sess'.events)
        BY <1>1, <1>2, <3>1, <4>3, <4>4, <4>5, GrowsMatches
      <4>7. QED BY <3>1, <3>3, <4>6 DEF WindowInv, Records
    <3>4. QED BY <2>1, <2>3, <3>2, <3>3 DEF AcceptsAs
  <2>4. QED BY <2>2, <2>3
<1>7. QED BY <1>3, <1>4, <1>5, <1>6, ServiceSteps

LEMMA WindowInit == ServiceInit => WindowInv
<1> SUFFICES ASSUME ServiceInit
             PROVE  WindowInv
  OBVIOUS
<1>1. sess = NewSession /\ history = <<>>
  BY DEF ServiceInit, BridgeInit
<1>2. NewSession.events = EmptyRing
  BY DEF NewSession
<1>3. IsList(<<>>) /\ Range(<<>>) = {}
  BY EmptyList DEF Range
<1>4. QED BY <1>1, <1>2, <1>3, EmptyHolds DEF WindowInv, Matches

LEMMA WindowIsComplete ==
  ASSUME TurnInv, RingInv, WindowInv
  PROVE  WindowComplete
<1> DEFINE r == sess.events
<1>1. RingSound(r, sess.cursor) /\ sess.cursor \in Nat /\ r.lastLoss \in Nat
  <2>1. sess.cursor \in Nat
    BY DEF TurnInv, Shape, SessionShape
  <2>2. RingSound(r, sess.cursor) /\ r.lastLoss \in 0 .. sess.cursor
    BY DEF RingInv, RingSound, RingOrder
  <2>3. QED BY <2>1, <2>2
<1>2. Live(r) <= MaxEvents /\ Sorted(r)
  BY <1>1 DEF RingSound, RingOrder
<1>3. ASSUME NEW since \in Times, Complete(sess, since)
      PROVE  {e \in Range(history) : e.t > since}
               = {[t |-> e.t, type |-> e.type] : e \in {o \in Observed(sess, since) : o.type \in Observations}}
  <2>1. since \in Nat
    BY <1>1 DEF Times
  <2>2. Matches(history, r)
    BY <1>3 DEF Complete, WindowInv
  <2>3. r.lastLoss <= since
    BY <1>1, <1>3, <2>1 DEF Complete, LostSince
  <2>4. Observed(sess, since) = {e \in LiveEvents(r) : e.t > since}
    BY <1>1, <2>1, ObservedIs
  <2>5. ASSUME NEW x \in Range(history), x.t > since
        PROVE  \E e \in {o \in Observed(sess, since) : o.type \in Observations} : x = [t |-> e.t, type |-> e.type]
    <3>1. Delivered(x, r)
      BY <2>2 DEF Matches
    <3>2. ~(x.t <= r.lastLoss)
      BY <1>1, <2>1, <2>3, <2>5, <3>1 DEF Delivered
    <3>3. PICK e \in LiveEvents(r) : e.t = x.t /\ e.type = x.type
      BY <3>1, <3>2 DEF Delivered
    <3>4. e \in Observed(sess, since) /\ e.type \in Observations
      BY <2>4, <2>5, <3>1, <3>3 DEF Delivered
    <3>5. x = [t |-> e.t, type |-> e.type]
      BY <3>1, <3>3 DEF Delivered
    <3>6. QED BY <3>4, <3>5
  <2>6. ASSUME NEW e \in Observed(sess, since), e.type \in Observations
        PROVE  [t |-> e.t, type |-> e.type] \in Range(history) /\ [t |-> e.t, type |-> e.type].t > since
    BY <2>2, <2>4, <2>6 DEF Matches
  <2>7. QED BY <2>5, <2>6
<1>4. QED BY <1>2, <1>3 DEF WindowComplete

\* Whatever the pages deliver and the ring evicts: the ring keeps to its limit and its
\* order, and a window that is reported complete holds exactly what was delivered in it.
THEOREM WindowCompleteHolds == ServiceSpec => []WindowComplete
<1>1. ServiceInit => TurnInv /\ Dated /\ RingInv /\ WindowInv
  BY TurnInit, DatedInit, RingInit, WindowInit
<1>2. /\ TurnInv /\ Dated /\ RingInv /\ WindowInv /\ [ServiceNext]_serviceVars
         => (TurnInv /\ Dated /\ RingInv /\ WindowInv)'
  BY TurnStep, DatedStep, RingStep, WindowStep
<1>3. TurnInv /\ RingInv /\ WindowInv => WindowComplete
  BY WindowIsComplete
<1>4. QED BY <1>1, <1>2, <1>3, PTL DEF ServiceSpec

-----------------------------------------------------------------------------
(* Requests: the page's own, and the frames about them. *)

Unique(S) == \A q, r \in S : q.rid = r.rid => q = r

\* The requests of a page, numbered as they start.
Numbered(S) ==
  /\ IsFiniteSet(S) /\ Unique(S)
  /\ \A r \in S : IsRecord(r, {"rid", "act", "done", "answered"}) /\ r.rid \in 1 .. Cardinality(S)

\* A frame about a request is true of a request of S.
Backed(S, m) ==
  /\ m.type = "start" => \E r \in S : r.rid = m.rid /\ r.act = m.act
  /\ m.type = "network" => \E r \in S : r.rid = m.rid /\ r.done

AllBacked(S, u) == \A i \in DOMAIN u : Backed(S, u[i])

\* The requests of S are in T, no less done.
Carries(S, T) == \A r \in S : \E q \in T : q.rid = r.rid /\ q.act = r.act /\ (r.done => q.done)

BooksOf(p, u) == Numbered(p.requests) /\ AllBacked(p.requests, u) /\ AllBacked(p.requests, p.early)

Books == \A c \in Conns : BooksOf(page[c], up[c])

Carried == \A c \in Conns : Carries(page[c].requests, page'[c].requests)

LEMMA CarriesItself ==
  ASSUME NEW S
  PROVE  Carries(S, S)
BY DEF Carries

LEMMA CarriesBacked ==
  ASSUME NEW S, NEW T, Carries(S, T), NEW u, AllBacked(S, u)
  PROVE  AllBacked(T, u)
BY DEF Carries, AllBacked, Backed

LEMMA ListsBacked ==
  ASSUME NEW S, NEW u, IsList(u), AllBacked(S, u)
  PROVE  /\ u # <<>> => AllBacked(S, Tail(u))
         /\ \A x : Backed(S, x) => AllBacked(S, Append(u, x))
         /\ \A t : IsList(t) /\ AllBacked(S, t) => AllBacked(S, u \o t)
         /\ AllBacked(S, <<>>)
<1>1. u # <<>> => AllBacked(S, Tail(u))
  BY TailList DEF AllBacked
<1>2. ASSUME NEW x, Backed(S, x)
      PROVE  AllBacked(S, Append(u, x))
  BY <1>2, AppendList DEF AllBacked
<1>3. ASSUME NEW t, IsList(t), AllBacked(S, t)
      PROVE  AllBacked(S, u \o t)
  <2> DEFINE v == u \o t
  <2>1. \A i \in DOMAIN v : \/ i \in DOMAIN u /\ v[i] = u[i]
                            \/ i - Len(u) \in DOMAIN t /\ v[i] = t[i - Len(u)]
    BY <1>3, ConcatList
  <2> HIDE DEF v
  <2>2. AllBacked(S, v)
    BY <1>3, <2>1 DEF AllBacked
  <2>3. QED BY <2>2 DEF v
<1>4. AllBacked(S, <<>>)
  BY EmptyList DEF AllBacked
<1>5. QED BY <1>1, <1>2, <1>3, <1>4

\* The next request of a page has the next number.
LEMMA RequestStarts ==
  ASSUME NEW S, Numbered(S), NEW r, IsRecord(r, {"rid", "act", "done", "answered"}), r.rid = Cardinality(S) + 1
  PROVE  Numbered(S \cup {r}) /\ Carries(S, S \cup {r})
<1>1. Cardinality(S) \in Nat /\ \A q \in S : q.rid \in 1 .. Cardinality(S)
  BY FS_CardinalityType DEF Numbered
<1>2. r \notin S
  BY <1>1
<1>3. IsFiniteSet(S \cup {r}) /\ Cardinality(S \cup {r}) = Cardinality(S) + 1
  BY <1>2, FS_AddElement DEF Numbered
<1>4. Unique(S \cup {r})
  BY <1>1 DEF Numbered, Unique
<1>5. \A q \in S \cup {r} : q.rid \in 1 .. Cardinality(S \cup {r})
  BY <1>1, <1>3
<1>6. QED BY <1>3, <1>4, <1>5 DEF Numbered, Carries

\* A request of a page is done.
LEMMA RequestEnds ==
  ASSUME NEW S, Numbered(S), NEW r \in S, NEW q, q = [r EXCEPT !.done = TRUE]
  PROVE  Numbered((S \ {r}) \cup {q}) /\ Carries(S, (S \ {r}) \cup {q}) /\ q.rid = r.rid /\ q.done
<1> DEFINE T == S \ {r}
           U == T \cup {q}
<1>1. /\ IsRecord(q, {"rid", "act", "done", "answered"})
      /\ q.rid = r.rid /\ q.act = r.act /\ q.done = TRUE
  BY DEF Numbered, IsRecord
<1>2. \A x \in T : x.rid # q.rid
  BY <1>1 DEF Numbered, Unique
<1>3. Cardinality(S) \in Nat /\ IsFiniteSet(T) /\ Cardinality(T) = Cardinality(S) - 1
  BY FS_CardinalityType, FS_RemoveElement DEF Numbered
<1>4. IsFiniteSet(U) /\ Cardinality(U) = Cardinality(S)
  <2>1. q \notin T
    BY <1>2
  <2> HIDE DEF T
  <2>2. IsFiniteSet(U) /\ Cardinality(U) = Cardinality(T) + 1
    BY <1>3, <2>1, FS_AddElement
  <2> HIDE DEF U
  <2>3. Cardinality(S) - 1 + 1 = Cardinality(S)
    BY <1>3
  <2>4. QED BY <1>3, <2>2, <2>3
<1>5. Unique(U)
  BY <1>2 DEF Numbered, Unique
<1>6. \A x \in U : IsRecord(x, {"rid", "act", "done", "answered"}) /\ x.rid \in 1 .. Cardinality(U)
  BY <1>1, <1>4 DEF Numbered
<1>7. Numbered(U)
  BY <1>4, <1>5, <1>6 DEF Numbered
<1>8. Carries(S, U)
  BY <1>1 DEF Carries
<1>9. QED BY <1>1, <1>7, <1>8

\* The requests of a page when it answers.
LEMMA AnswerNumbered ==
  ASSUME NEW S, Numbered(S)
  PROVE  Numbered(Answered(S)) /\ Carries(S, Answered(S))
<1> DEFINE f == [x \in S |-> [x EXCEPT !.answered = TRUE]]
           T == Answered(S)
<1>1. ASSUME NEW x \in S
      PROVE  /\ f[x] \in T /\ IsRecord(f[x], {"rid", "act", "done", "answered"})
             /\ f[x].rid = x.rid /\ f[x].act = x.act /\ f[x].done = x.done
  BY DEF Answered, Numbered, IsRecord
<1>2. \A y \in T : \E x \in S : y = f[x]
  BY DEF Answered
<1>3. f \in Surjection(S, T)
  BY <1>1, <1>2 DEF Surjection
<1> HIDE DEF f, T
<1>4. f \in Injection(S, T)
  <2>1. f \in [S -> T]
    BY <1>3 DEF Surjection
  <2>2. \A x, y \in S : f[x] = f[y] => x = y
    <3>1. TAKE x, y \in S
    <3>2. HAVE f[x] = f[y]
    <3>3. x.rid = y.rid
      BY <1>1, <3>2
    <3>4. QED BY <3>3 DEF Numbered, Unique
  <2>3. QED BY <2>1, <2>2 DEF Injection, IsInjective
<1>5. IsFiniteSet(T) /\ Cardinality(T) = Cardinality(S)
  BY <1>3, <1>4, FS_Surjection DEF Numbered
<1>6. Unique(T)
  <2>1. SUFFICES ASSUME NEW y \in T, NEW z \in T, y.rid = z.rid
                 PROVE  y = z
    BY DEF Unique
  <2>2. PICK v \in S : y = f[v]
    BY <1>2
  <2>3. PICK w \in S : z = f[w]
    BY <1>2
  <2>4. v.rid = w.rid
    BY <1>1, <2>1, <2>2, <2>3
  <2>5. QED BY <2>2, <2>3, <2>4 DEF Numbered, Unique
<1>7. \A y \in T : IsRecord(y, {"rid", "act", "done", "answered"}) /\ y.rid \in 1 .. Cardinality(T)
  <2> TAKE y \in T
  <2>1. PICK x \in S : y = f[x]
    BY <1>2
  <2>2. QED BY <1>1, <1>5, <2>1 DEF Numbered
<1>8. Numbered(T)
  BY <1>5, <1>6, <1>7 DEF Numbered
<1>9. Carries(S, T)
  BY <1>1 DEF Carries
<1>10. QED BY <1>8, <1>9 DEF T

\* A document writes its page and its frames.
LEMMA WriteBooks ==
  ASSUME TurnInv, Books, NEW c \in Conns, NEW p, NEW u,
         page' = [page EXCEPT ![c] = p], up' = [up EXCEPT ![c] = u],
         BooksOf(p, u), Carries(page[c].requests, p.requests)
  PROVE  Books' /\ Carried
<1>1. page = [e \in Conns |-> page[e]] /\ up = [e \in Conns |-> up[e]]
  BY DEF TurnInv, Shape
<1>2. page'[c] = p /\ up'[c] = u
  BY <1>1
<1>3. \A e \in Conns \ {c} : page'[e] = page[e] /\ up'[e] = up[e]
  BY <1>1
<1>4. Books'
  BY <1>2, <1>3 DEF Books
<1>5. Carried
  BY <1>2, <1>3, CarriesItself DEF Carried
<1>6. QED BY <1>4, <1>5

LEMMA EmitBooks ==
  ASSUME TurnInv, Books, NEW c \in Conns, NEW p, IsRecord(p, DOMAIN NewPage), p.early = page[c].early,
         Numbered(p.requests), Carries(page[c].requests, p.requests),
         NEW m, Backed(p.requests, m), Emit(c, p, m)
  PROVE  Books' /\ Carried
<1> DEFINE S == p.requests
<1>1. IsList(up[c]) /\ IsList(page[c].early)
  BY WhatHolds DEF WireShape
<1>2. AllBacked(S, up[c]) /\ AllBacked(S, page[c].early)
  BY CarriesBacked DEF Books, BooksOf
<1>3. AllBacked(S, Append(up[c], m)) /\ AllBacked(S, Append(page[c].early, m)) /\ AllBacked(S, <<>>)
  BY <1>1, <1>2, ListsBacked
<1>4. CASE p.st = "ready"
  <2>1. page' = [page EXCEPT ![c] = p] /\ up' = [up EXCEPT ![c] = Append(up[c], m)]
    BY <1>4 DEF Emit, TurnInv, Shape
  <2>2. BooksOf(p, Append(up[c], m))
    BY <1>2, <1>3 DEF BooksOf
  <2>3. QED BY <2>1, <2>2, WriteBooks
<1>5. CASE p.st # "ready"
  <2>1. /\ up' = [up EXCEPT ![c] = up[c]]
        /\ \E q \in {[p EXCEPT !.early = Append(p.early, m)], Leave(p)} : page' = [page EXCEPT ![c] = q]
    BY <1>5 DEF Emit, TurnInv, Shape
  <2>2. PICK q \in {[p EXCEPT !.early = Append(p.early, m)], Leave(p)} : page' = [page EXCEPT ![c] = q]
    BY <2>1
  <2>3. q.requests = S /\ q.early \in {Append(page[c].early, m), <<>>}
    BY <2>2 DEF IsRecord, NewPage, Leave
  <2>4. BooksOf(q, up[c])
    BY <1>2, <1>3, <2>3 DEF BooksOf
  <2>5. Carries(page[c].requests, q.requests)
    BY <2>3
  <2>6. QED BY <2>1, <2>2, <2>4, <2>5, WriteBooks
<1>6. QED BY <1>4, <1>5

LEMMA ObservationBooks ==
  ASSUME TurnInv, Books, NEW c \in Conns,
         RaiseError(c) \/ StartRequest(c) \/ FinishRequest(c) \/ FailObserver(c)
  PROVE  Books' /\ Carried
<1> DEFINE S == page[c].requests
<1>1. IsRecord(page[c], DOMAIN NewPage) /\ Numbered(S)
  BY WhatHolds DEF WireShape, Books, BooksOf
<1>2. ASSUME NEW f \in {"errors", "blind"}, NEW x, NEW m, m.type \notin {"start", "network"},
             Emit(c, [page[c] EXCEPT ![f] = x], m)
      PROVE  Books' /\ Carried
  <2> DEFINE p == [page[c] EXCEPT ![f] = x]
  <2>1. IsRecord(p, DOMAIN NewPage) /\ p.early = page[c].early /\ p.requests = S
    BY <1>1 DEF IsRecord, NewPage
  <2> HIDE DEF p
  <2>2. Backed(p.requests, m) /\ Carries(S, p.requests) /\ Numbered(p.requests)
    BY <1>1, <1>2, <2>1, CarriesItself DEF Backed
  <2>3. Emit(c, p, m)
    BY <1>2 DEF p
  <2>4. QED BY <2>1, <2>2, <2>3, EmitBooks
<1>3. ASSUME NEW T, NEW m, Numbered(T), Carries(S, T), Backed(T, m), Emit(c, [page[c] EXCEPT !["requests"] = T], m)
      PROVE  Books' /\ Carried
  <2> DEFINE p == [page[c] EXCEPT !["requests"] = T]
  <2>1. IsRecord(p, DOMAIN NewPage) /\ p.early = page[c].early /\ p.requests = T
    BY <1>1 DEF IsRecord, NewPage
  <2> HIDE DEF p
  <2>2. Emit(c, p, m)
    BY <1>3 DEF p
  <2>3. QED BY <1>3, <2>1, <2>2, EmitBooks
<1>4. CASE RaiseError(c)
  <2>1. PICK x, large : Emit(c, [page[c] EXCEPT !["errors"] = x], [type |-> "console", large |-> large])
    BY <1>4 DEF RaiseError
  <2> DEFINE m == [type |-> "console", large |-> large]
  <2>2. m.type \notin {"start", "network"}
    OBVIOUS
  <2> HIDE DEF m
  <2>3. Emit(c, [page[c] EXCEPT !["errors"] = x], m)
    BY <2>1 DEF m
  <2>4. QED BY <1>2, <2>2, <2>3
<1>5. CASE FailObserver(c)
  <2> DEFINE m == [type |-> "observer"]
  <2>1. Emit(c, [page[c] EXCEPT !["blind"] = TRUE], m)
    BY <1>5 DEF FailObserver
  <2>2. m.type \notin {"start", "network"}
    OBVIOUS
  <2> HIDE DEF m
  <2>3. QED BY <1>2, <2>1, <2>2
<1>6. CASE StartRequest(c)
  <2> DEFINE rid == Cardinality(S) + 1
             r == [rid |-> rid, act |-> page[c].actionId, done |-> FALSE, answered |-> FALSE]
             m == [type |-> "start", rid |-> rid, act |-> r.act]
             T == S \cup {r}
  <2>1. Emit(c, [page[c] EXCEPT !["requests"] = T], m)
    BY <1>6 DEF StartRequest
  <2>2. IsRecord(r, {"rid", "act", "done", "answered"}) /\ r.rid = Cardinality(S) + 1
    BY DEF IsRecord
  <2>3. Backed(T, m)
    BY DEF Backed
  <2>4. Numbered(T) /\ Carries(S, T)
    <3> HIDE DEF r, S
    <3>1. QED BY <1>1, <2>2, RequestStarts
  <2> HIDE DEF T, m
  <2>5. QED BY <1>3, <2>1, <2>3, <2>4
<1>7. CASE FinishRequest(c)
  <2>1. PICK r \in S :
          Emit(c, [page[c] EXCEPT !["requests"] = (S \ {r}) \cup {[r EXCEPT !.done = TRUE]}],
               [type |-> "network", rid |-> r.rid])
    BY <1>7 DEF FinishRequest
  <2> DEFINE q == [r EXCEPT !.done = TRUE]
             m == [type |-> "network", rid |-> r.rid]
             T == (S \ {r}) \cup {q}
  <2>2. Numbered(T) /\ Carries(S, T) /\ q.rid = r.rid /\ q.done
    <3> HIDE DEF S
    <3>1. QED BY <1>1, RequestEnds
  <2>3. Backed(T, m)
    BY <2>2 DEF Backed
  <2> HIDE DEF q
  <2>4. Emit(c, [page[c] EXCEPT !["requests"] = T], m)
    BY <2>1 DEF q
  <2> HIDE DEF T, m
  <2>5. QED BY <1>3, <2>2, <2>3, <2>4
<1>8. QED BY <1>4, <1>5, <1>6, <1>7

LEMMA DocumentBooks ==
  ASSUME TurnInv, Books, NEW c \in Conns, Connect(c) \/ Open(c) \/ Ready(c) \/ PageGone(c)
  PROVE  Books' /\ Carried
<1> DEFINE S == page[c].requests
<1>1. /\ IsRecord(page[c], DOMAIN NewPage) /\ IsList(up[c]) /\ IsList(page[c].early)
      /\ Numbered(S) /\ AllBacked(S, up[c]) /\ AllBacked(S, page[c].early)
  BY WhatHolds DEF WireShape, Books, BooksOf
<1>2. AllBacked(S, <<>>) /\ AllBacked(S, up[c] \o page[c].early)
  BY <1>1, ListsBacked
<1>3. ASSUME NEW p, NEW u, page' = [page EXCEPT ![c] = p], up' = [up EXCEPT ![c] = u], AllBacked(S, u),
             p.requests = S, p.early \in {page[c].early, <<>>}
      PROVE  Books' /\ Carried
  <2>1. BooksOf(p, u) /\ Carries(S, p.requests)
    BY <1>1, <1>2, <1>3, CarriesItself DEF BooksOf
  <2>2. QED BY <1>3, <2>1, WriteBooks
<1>4. CASE Connect(c) \/ PageGone(c)
  <2>1. PICK p \in {[page[c] EXCEPT !.st = "dialing"], Leave(page[c])} : page' = [page EXCEPT ![c] = p]
    BY <1>4 DEF Connect, PageGone, TurnInv, Shape
  <2>2. up' = [up EXCEPT ![c] = up[c]]
    BY <1>4 DEF Connect, PageGone, TurnInv, Shape
  <2>3. p.requests = S /\ p.early \in {page[c].early, <<>>}
    BY <1>1, <2>1 DEF IsRecord, NewPage, Leave
  <2>4. QED BY <1>1, <1>3, <2>1, <2>2, <2>3
<1>5. CASE Open(c)
  <2>1. PICK network \in BOOLEAN : up' = [up EXCEPT ![c] = <<[type |-> "hello", network |-> network]>>]
    BY <1>5 DEF Open
  <2> DEFINE p == [page[c] EXCEPT !.st = "open"]
             u == <<[type |-> "hello", network |-> network]>>
  <2>2. page' = [page EXCEPT ![c] = p] /\ up' = [up EXCEPT ![c] = u]
    BY <1>5, <2>1 DEF Open, TurnInv, Shape
  <2>3. AllBacked(S, u)
    BY SingleList DEF AllBacked, Backed
  <2>4. p.requests = S /\ p.early = page[c].early
    BY <1>1 DEF IsRecord, NewPage
  <2> HIDE DEF p, u
  <2>5. QED BY <1>3, <2>2, <2>3, <2>4
<1>6. CASE Ready(c)
  <2> DEFINE p == [page[c] EXCEPT !.st = "ready", !.early = <<>>]
  <2>1. page' = [page EXCEPT ![c] = p] /\ up' = [up EXCEPT ![c] = up[c] \o page[c].early]
    BY <1>6 DEF Ready, TurnInv, Shape
  <2>2. p.requests = S /\ p.early = <<>>
    BY <1>1 DEF IsRecord, NewPage
  <2> HIDE DEF p
  <2>3. QED BY <1>2, <1>3, <2>1, <2>2
<1>7. QED BY <1>4, <1>5, <1>6

\* The frames of a command say nothing about requests.
LEMMA FramesBacked ==
  ASSUME NEW S, NEW id, NEW kind, NEW before, NEW after, NEW ok
  PROVE  LET frames == ActFrames(id, kind, before, after, ok)
         IN  \A i \in DOMAIN frames : frames[i].type \in {"reading", "boundary", "result"}
<1> DEFINE boundary == IF kind \in Actions THEN <<[type |-> "boundary", id |-> id]>> ELSE <<>>
           first    == <<ReadingFrame(id, "before", before)>>
           last     == IF ok THEN <<ReadingFrame(id, "after", after)>> ELSE <<>>
           result   == <<[type |-> "result", id |-> id, ok |-> ok]>>
           Sound(s) == IsList(s) /\ \A i \in DOMAIN s : s[i].type \in {"reading", "boundary", "result"}
<1>1. Sound(boundary) /\ Sound(result)
  BY SingleList, EmptyList
<1>2. Sound(first) /\ Sound(last)
  BY SingleList, EmptyList DEF ReadingFrame
<1>3. ActFrames(id, kind, before, after, ok) =
        IF kind = "causal" THEN ((first \o boundary) \o last) \o result ELSE boundary \o result
  BY DEF ActFrames
<1> HIDE DEF boundary, first, last, result
<1>4. ASSUME NEW s, Sound(s), NEW t, Sound(t)
      PROVE  Sound(s \o t)
  <2> DEFINE v == s \o t
  <2>1. /\ IsList(v)
        /\ \A i \in DOMAIN v : \/ i \in DOMAIN s /\ v[i] = s[i]
                               \/ i - Len(s) \in DOMAIN t /\ v[i] = t[i - Len(s)]
    BY <1>4, ConcatList
  <2> HIDE DEF v
  <2>2. Sound(v)
    BY <1>4, <2>1
  <2>3. QED BY <2>2 DEF v
<1> DEFINE two   == first \o boundary
           three == two \o last
<1> HIDE DEF Sound
<1>5. Sound(two)
  BY <1>1, <1>2, <1>4
<1> HIDE DEF two
<1>6. Sound(three)
  BY <1>2, <1>4, <1>5
<1> HIDE DEF three
<1>7. Sound(three \o result) /\ Sound(boundary \o result)
  BY <1>1, <1>4, <1>6
<1>8. QED BY <1>3, <1>7 DEF two, three, Sound

Holds(t, type) == \E i \in DOMAIN t : t[i].type = type

LEMMA ConcatHolds ==
  ASSUME NEW s, IsList(s), NEW t, IsList(t), NEW type
  PROVE  Holds(s \o t, type) <=> Holds(s, type) \/ Holds(t, type)
<1> DEFINE v == s \o t
<1>1. \A i \in DOMAIN v : \/ i \in DOMAIN s /\ v[i] = s[i]
                          \/ i - Len(s) \in DOMAIN t /\ v[i] = t[i - Len(s)]
  BY ConcatList
<1>2. Holds(v, type) => Holds(s, type) \/ Holds(t, type)
  <2> HIDE DEF v
  <2>1. QED BY <1>1 DEF Holds
<1>3. /\ s \in Seq(Range(s)) /\ t \in Seq(Range(t)) /\ Len(s) \in Nat /\ Len(t) \in Nat
      /\ DOMAIN s = 1 .. Len(s) /\ DOMAIN t = 1 .. Len(t)
  BY ListOf DEF IsList
<1>4. /\ \A i \in 1 .. Len(s) : i \in DOMAIN v /\ v[i] = s[i]
      /\ \A i \in 1 .. Len(t) : Len(s) + i \in DOMAIN v /\ v[Len(s) + i] = t[i]
  <2> DEFINE S == Range(s) \cup Range(t)
  <2>1. s \in Seq(S) /\ t \in Seq(S)
    <3>1. Range(t) \subseteq S /\ Range(s) \subseteq S
      OBVIOUS
    <3> HIDE DEF S
    <3>2. QED BY <1>3, <3>1, SeqMonotonic
  <2> HIDE DEF S
  <2>2. QED BY <1>3, <2>1
<1> HIDE DEF v
<1>5. Holds(s, type) \/ Holds(t, type) => Holds(v, type)
  BY <1>3, <1>4 DEF Holds
<1>6. QED BY <1>2, <1>5 DEF v

\* The frames of a command end in its result, and those of an action have its boundary.
LEMMA FramesEnd ==
  ASSUME NEW id, NEW kind, NEW before, NEW after, NEW ok
  PROVE  /\ Holds(ActFrames(id, kind, before, after, ok), "result")
         /\ Holds(ActFrames(id, kind, before, after, ok), "boundary") <=> kind \in Actions
<1> DEFINE boundary == IF kind \in Actions THEN <<[type |-> "boundary", id |-> id]>> ELSE <<>>
           first    == <<ReadingFrame(id, "before", before)>>
           last     == IF ok THEN <<ReadingFrame(id, "after", after)>> ELSE <<>>
           result   == <<[type |-> "result", id |-> id, ok |-> ok]>>
<1>1. /\ IsList(boundary) /\ IsList(result) /\ Holds(result, "result") /\ ~Holds(result, "boundary")
      /\ Holds(boundary, "boundary") <=> kind \in Actions
  BY SingleList, EmptyList DEF Holds
<1>2. IsList(first) /\ IsList(last) /\ ~Holds(first, "boundary") /\ ~Holds(last, "boundary")
  BY SingleList, EmptyList DEF Holds, ReadingFrame
<1>3. ActFrames(id, kind, before, after, ok) =
        IF kind = "causal" THEN ((first \o boundary) \o last) \o result ELSE boundary \o result
  BY DEF ActFrames
<1> HIDE DEF boundary, first, last, result
<1> DEFINE two   == first \o boundary
           three == two \o last
<1>4. IsList(two) /\ (Holds(two, "boundary") <=> kind \in Actions)
  BY <1>1, <1>2, ConcatList, ConcatHolds
<1> HIDE DEF two
<1>5. IsList(three) /\ (Holds(three, "boundary") <=> kind \in Actions)
  BY <1>2, <1>4, ConcatList, ConcatHolds
<1> HIDE DEF three
<1>6. Holds(three \o result, "result") /\ (Holds(three \o result, "boundary") <=> kind \in Actions)
  BY <1>1, <1>5, ConcatHolds
<1>7. Holds(boundary \o result, "result") /\ (Holds(boundary \o result, "boundary") <=> kind \in Actions)
  BY <1>1, ConcatHolds
<1>8. QED BY <1>3, <1>6, <1>7 DEF two, three

\* The page of c answers the command m with frames t and is q from then on.
Answers(p, m, q, t) ==
  /\ q.st = p.st /\ q.early = p.early
  /\ q.requests = Answered(p.requests) /\ q.errors = Answered(p.errors)
  /\ q.actionId = IF m.kind \in Actions THEN m.id ELSE p.actionId
  /\ Holds(t, "result") /\ (Holds(t, "boundary") <=> m.kind \in Actions)

\* ... or it is gone after some of them.
Fades(p, q) == q.st = "gone" /\ q.early = <<>> /\ q.requests = p.requests /\ q.errors = p.errors

\* What the page of c does with a command: frames t are sent, what it captured stays,
\* and is answered if it lives on.
Executes(c, q, t) ==
  /\ page' = [page EXCEPT ![c] = q] /\ up' = [up EXCEPT ![c] = up[c] \o t]
  /\ IsList(t) /\ \A i \in DOMAIN t : t[i].type \in {"reading", "boundary", "result"}
  /\ Answers(page[c], Head(down[c]), q, t) \/ Fades(page[c], q)

LEMMA ExecuteIs ==
  ASSUME TurnInv, NEW c \in Conns, Execute(c)
  PROVE  \E q, t : Executes(c, q, t)
<1> DEFINE m == Head(down[c])
           Entry(before, after) == [id |-> m.id, changed |-> before # 0 /\ after \notin {0, before}]
           Acted(before, after) ==
             [page[c] EXCEPT !.actionId = IF m.kind \in Actions THEN m.id ELSE @,
                !.turns = IF m.kind = "causal" THEN @ \cup {Entry(before, after)} ELSE @]
           Answering(q) == [q EXCEPT !.errors = Answered(@), !.requests = Answered(@)]
<1>1. PICK before \in {Before, 0}, after \in Values \cup {0}, ok \in BOOLEAN :
        LET frames == ActFrames(m.id, m.kind, before, after, ok)
        IN  \/ /\ up' = [up EXCEPT ![c] = @ \o frames]
               /\ page' = [page EXCEPT ![c] = Answering(Acted(before, after))]
            \/ \E n \in 0 .. Len(frames) - 1 :
                 /\ up' = [up EXCEPT ![c] = @ \o SubSeq(frames, 1, n)]
                 /\ page' = [page EXCEPT ![c] = Leave(Acted(before, after))]
  BY DEF Execute
<1> DEFINE frames == ActFrames(m.id, m.kind, before, after, ok)
           acted == Acted(before, after)
<1>2. IsRecord(page[c], DOMAIN NewPage)
  BY WhatHolds DEF WireShape
<1>3. /\ IsRecord(acted, DOMAIN NewPage) /\ acted.requests = page[c].requests /\ acted.early = page[c].early
      /\ acted.st = page[c].st /\ acted.errors = page[c].errors
      /\ acted.actionId = IF m.kind \in Actions THEN m.id ELSE page[c].actionId
  BY <1>2 DEF IsRecord, NewPage
<1>4. IsList(frames) /\ \A i \in DOMAIN frames : frames[i].type \in {"reading", "boundary", "result"}
  BY FramesAnswer, FramesBacked
<1>8. Holds(frames, "result") /\ (Holds(frames, "boundary") <=> m.kind \in Actions)
  BY FramesEnd
<1> HIDE DEF m, frames, acted, Acted, Entry
<1>5. CASE up' = [up EXCEPT ![c] = @ \o frames] /\ page' = [page EXCEPT ![c] = Answering(acted)]
  <2>1. /\ Answering(acted).requests = Answered(page[c].requests) /\ Answering(acted).early = page[c].early
        /\ Answering(acted).errors = Answered(page[c].errors) /\ Answering(acted).st = page[c].st
        /\ Answering(acted).actionId = acted.actionId
    BY <1>3 DEF IsRecord, NewPage
  <2>2. page' = [page EXCEPT ![c] = Answering(acted)] /\ up' = [up EXCEPT ![c] = up[c] \o frames]
    BY <1>5 DEF TurnInv, Shape
  <2> HIDE DEF Answering
  <2>3. Answers(page[c], m, Answering(acted), frames)
    BY <1>3, <1>8, <2>1 DEF Answers
  <2>5. Executes(c, Answering(acted), frames)
    BY <1>4, <2>2, <2>3 DEF Executes, m
  <2>4. QED BY <2>5
<1>6. ASSUME NEW n \in 0 .. Len(frames) - 1,
             up' = [up EXCEPT ![c] = @ \o SubSeq(frames, 1, n)], page' = [page EXCEPT ![c] = Leave(acted)]
      PROVE  \E q, t : Executes(c, q, t)
  <2> DEFINE t == SubSeq(frames, 1, n)
  <2>1. Fades(page[c], Leave(acted))
    BY <1>3 DEF IsRecord, NewPage, Leave, Fades
  <2>2. page' = [page EXCEPT ![c] = Leave(acted)] /\ up' = [up EXCEPT ![c] = up[c] \o t]
    BY <1>6 DEF TurnInv, Shape
  <2>3. IsList(t) /\ \A i \in DOMAIN t : i \in DOMAIN frames /\ t[i] = frames[i]
    BY <1>4, <1>6, PrefixList
  <2> HIDE DEF t
  <2>4. \A i \in DOMAIN t : t[i].type \in {"reading", "boundary", "result"}
    BY <1>4, <2>3
  <2>5. Executes(c, Leave(acted), t)
    BY <2>1, <2>2, <2>3, <2>4 DEF Executes
  <2>6. QED BY <2>5
<1>7. QED BY <1>1, <1>5, <1>6 DEF frames, acted

LEMMA ExecuteBooks ==
  ASSUME TurnInv, Books, NEW c \in Conns, Execute(c)
  PROVE  Books' /\ Carried
<1> DEFINE S == page[c].requests
<1>1. PICK q, t : Executes(c, q, t)
  BY ExecuteIs
<1>2. /\ IsList(up[c]) /\ Numbered(S) /\ AllBacked(S, up[c]) /\ AllBacked(S, page[c].early)
  BY WhatHolds DEF WireShape, Books, BooksOf
<1>3. Numbered(q.requests) /\ Carries(S, q.requests) /\ q.early \in {page[c].early, <<>>}
  BY <1>1, <1>2, AnswerNumbered, CarriesItself DEF Executes, Answers, Fades
<1>4. AllBacked(q.requests, up[c]) /\ AllBacked(q.requests, page[c].early)
  BY <1>2, <1>3, CarriesBacked
<1>5. IsList(t) /\ AllBacked(q.requests, t)
  BY <1>1 DEF Executes, AllBacked, Backed
<1>6. AllBacked(q.requests, up[c] \o t) /\ AllBacked(q.requests, <<>>)
  BY <1>2, <1>4, <1>5, ListsBacked
<1>7. BooksOf(q, up[c] \o t)
  BY <1>3, <1>4, <1>6 DEF BooksOf
<1>8. page' = [page EXCEPT ![c] = q] /\ up' = [up EXCEPT ![c] = up[c] \o t]
  BY <1>1 DEF Executes
<1>9. QED BY <1>3, <1>7, <1>8, WriteBooks

\* The daemon takes frames off the wires, and the documents stay.
LEMMA DaemonBooks ==
  ASSUME TurnInv, Books, UNCHANGED page,
         \A c \in Conns : up'[c] \in {up[c], <<>>} \/ (up[c] # <<>> /\ up'[c] = Tail(up[c]))
  PROVE  Books' /\ Carried
<1>1. ASSUME NEW c \in Conns
      PROVE  BooksOf(page[c], up'[c]) /\ Carries(page[c].requests, page[c].requests)
  <2>1. IsList(up[c]) /\ AllBacked(page[c].requests, up[c])
    BY WhatHolds DEF WireShape, Books, BooksOf
  <2>2. AllBacked(page[c].requests, up'[c])
    BY <2>1, ListsBacked
  <2>3. QED BY <2>2, CarriesItself DEF Books, BooksOf
<1>2. QED BY <1>1 DEF Books, Carried

LEMMA StepBooks ==
  ASSUME TurnInv, Dated, Books, [ServiceNext]_serviceVars
  PROVE  Books' /\ Carried
<1>1. up = [c \in Conns |-> up[c]]
  BY DEF TurnInv, Shape
<1>2. ASSUME NEW c \in Conns, Receive(c) \/ Closed(c) \/ HelloTimeout(c)
      PROVE  Books' /\ Carried
  <2>1. /\ UNCHANGED page
        /\ \/ up' = up
           \/ up[c] # <<>> /\ up' = [up EXCEPT ![c] = Tail(up[c])]
           \/ up' = [up EXCEPT ![c] = <<>>]
    BY <1>1, <1>2 DEF Receive, Closed, HelloTimeout
  <2>2. QED BY <1>1, <2>1, DaemonBooks
<1>3. CASE UNCHANGED <<page, up>>
  BY <1>3, DaemonBooks
<1>4. CASE BridgeNext /\ UNCHANGED <<caller, calls, verdict>>
  <2>1. CommandTimeout \/ Remove \/ Quieten => UNCHANGED <<page, up>>
    BY DEF CommandTimeout, Remove, Quieten
  <2>2. QED BY <1>2, <1>3, <1>4, <2>1, ObservationBooks, DocumentBooks, ExecuteBooks DEF BridgeNext
<1>5. CASE Act \/ Assert \/ RunFlow
  BY <1>3, <1>5 DEF Act, Assert, RunFlow, Lock
<1>6. CASE CallerNext
  BY <1>3, <1>6, CallerMoves DEF Moves
<1>7. CASE UNCHANGED serviceVars
  BY <1>3, <1>7 DEF serviceVars
<1>8. QED BY <1>4, <1>5, <1>6, <1>7 DEF ServiceNext

LEMMA BooksInit == ServiceInit => Books
<1> SUFFICES ASSUME ServiceInit
             PROVE  Books
  OBVIOUS
<1>1. page = [c \in Conns |-> NewPage] /\ up = [c \in Conns |-> <<>>]
  BY DEF ServiceInit, BridgeInit
<1>2. NewPage.requests = {} /\ NewPage.early = <<>> /\ AllBacked({}, <<>>)
  BY EmptyList DEF NewPage, AllBacked
<1>3. Numbered({})
  BY FS_EmptySet DEF Numbered, Unique
<1>4. QED BY <1>1, <1>2, <1>3 DEF Books, BooksOf

-----------------------------------------------------------------------------
(* What the session has of a page's requests. *)

\* The pending requests and the network events of s are of requests of S.
Traced(s, S) ==
  /\ \A q \in s.requests : q = [rid |-> q.rid, act |-> q.act] /\ \E r \in S : r.rid = q.rid /\ r.act = q.act
  /\ \A e \in LiveEvents(s.events) :
       e.type = "network" => \E r \in S : r.rid = e.rid /\ r.act = e.act /\ r.done

SessionBooks == sess.ws # 0 => Traced(sess, page[sess.ws].requests)

\* A round that saw a response passed on a request of the document that is connected.
Promised ==
  caller.phase = "round" /\ caller.latest = "pass" /\ caller.generation = sess.generation /\ sess.ws # 0 =>
    \E r \in page[sess.ws].requests : r.done /\ caller.actionId \in {0, r.act}

LEMMA TracedCarries ==
  ASSUME NEW S, NEW T, Carries(S, T), NEW s, Traced(s, S)
  PROVE  Traced(s, T)
BY DEF Carries, Traced

LEMMA TracedLoses ==
  ASSUME NEW S, NEW s, Traced(s, S), NEW u, LosesAuthority(s, u)
  PROVE  Traced(u, S)
<1>1. PICK X : Adds(s, u, X) /\ \A e \in X : e.type = "loss"
  BY DEF LosesAuthority
<1>2. LiveEvents(u.events) \subseteq LiveEvents(s.events) \cup X
  BY <1>1 DEF Adds, Grows
<1>3. QED BY <1>1, <1>2 DEF Traced, LosesAuthority

LEMMA TracedMarks ==
  ASSUME NEW S, NEW s, Traced(s, S), NEW m, m.type # "network", NEW u, Marks(s, m, u)
  PROVE  Traced(u, S)
<1>1. PICK X : Adds(s, u, X) /\ \A e \in X : e.type = m.type
  BY DEF Marks
<1>2. LiveEvents(u.events) \subseteq LiveEvents(s.events) \cup X
  BY <1>1 DEF Adds, Grows
<1>3. QED BY <1>1, <1>2 DEF Traced, Marks

LEMMA TracedRecords ==
  ASSUME NEW S, Numbered(S), NEW s, Traced(s, S), NEW m, Backed(S, m), m.type \in Observations, NEW u, Records(s, m, u)
  PROVE  Traced(u, S)
<1>1. PICK e : /\ Adds(s, u, {e}) /\ e = [t |-> u.cursor, type |-> m.type, act |-> e.act, rid |-> e.rid]
               /\ m.type \in {"console", "observer"} => e.act = s.actionId /\ u.requests = s.requests
               /\ m.type = "start" =>
                    /\ m.act = s.actionId /\ e.act = m.act /\ e.rid = m.rid
                    /\ u.requests = s.requests \cup {[rid |-> m.rid, act |-> m.act]}
               /\ m.type = "network" =>
                    \E q \in s.requests : /\ q.rid = m.rid /\ e.act = q.act /\ e.rid = m.rid
                                          /\ u.requests = s.requests \ {q}
  BY DEF Records
<1>2. LiveEvents(u.events) \subseteq LiveEvents(s.events) \cup {e} /\ e.type = m.type
  BY <1>1 DEF Adds, Grows
<1>3. CASE m.type \in {"console", "observer"}
  BY <1>1, <1>2, <1>3 DEF Traced
<1>4. CASE m.type = "start"
  BY <1>1, <1>2, <1>4 DEF Traced, Backed
<1>5. CASE m.type = "network"
  <2>1. PICK q \in s.requests : /\ q.rid = m.rid /\ e.act = q.act /\ e.rid = m.rid
                                /\ u.requests = s.requests \ {q}
    BY <1>1, <1>5
  <2>2. PICK r \in S : r.rid = m.rid /\ r.done
    BY <1>5 DEF Backed
  <2>3. PICK p \in S : p.rid = q.rid /\ p.act = q.act
    BY DEF Traced
  <2>4. p = r
    BY <2>1, <2>2, <2>3 DEF Numbered, Unique
  <2>5. QED BY <1>2, <2>1, <2>2, <2>3, <2>4 DEF Traced
<1>6. QED BY <1>3, <1>4, <1>5 DEF Observations

LEMMA SessionBooksStep ==
  ASSUME TurnInv, Dated, RingInv, Books, SessionBooks, [ServiceNext]_serviceVars
  PROVE  SessionBooks'
<1>1. SessionShape(sess) /\ (sess.ws # 0 => sess.ws \in Conns)
  BY BridgeAssumption DEF TurnInv, Shape, SessionShape, Conns
<1>2. Carried
  BY StepBooks
<1>3. CASE Idles
  <2>1. sess'.ws = sess.ws /\ sess'.requests = sess.requests /\ sess'.events = sess.events
    BY <1>3 DEF Idles, Steady
  <2>2. ASSUME sess.ws # 0
        PROVE  Traced(sess, page'[sess.ws].requests)
    BY <1>1, <1>2, <2>2, TracedCarries DEF SessionBooks, Carried
  <2>3. QED BY <2>1, <2>2 DEF SessionBooks, Traced
<1>4. CASE Detaches
  BY <1>4, DetachesEnds DEF SessionBooks
<1>5. CASE Pairs
  <2>1. PICK c \in Conns : \E network : sess' = Pair(sess, c, network)
    BY <1>5 DEF Pairs
  <2>2. PICK network : sess' = Pair(sess, c, network)
    BY <2>1
  <2>3. Begins(sess, sess', c)
    BY <1>1, <2>2, PairEnds
  <2>4. sess'.requests = {} /\ LiveEvents(sess'.events) = {}
    BY <2>3, EmptyHolds DEF Begins
  <2>5. QED BY <2>4 DEF SessionBooks, Traced
<1>6. CASE Accepts
  <2>1. PICK c, m : AcceptsAs(c, m)
    BY <1>6, AcceptsIs
  <2>2. c \in Conns /\ c # 0 /\ sess.ws = c /\ UNCHANGED page
    BY <2>1 DEF AcceptsAs, Conns
  <2> DEFINE S == page[c].requests
  <2>3. Traced(sess, S) /\ Numbered(S) /\ AllBacked(S, up[c])
    BY <2>2 DEF SessionBooks, Books, BooksOf
  <2>4. Backed(S, m)
    <3>1. IsList(up[c]) /\ m = Head(up[c]) /\ up[c] # <<>>
      BY <2>1, <2>2, WhatHolds DEF WireShape, AcceptsAs
    <3>2. 1 \in DOMAIN up[c] /\ m = up[c][1]
      BY <3>1, TailList
    <3>3. QED BY <2>3, <3>2 DEF AllBacked
  <2>5. sess'.ws = c
    <3>1. \E X : Adds(sess, sess', X)
      BY <2>1, <2>2, AddsKeepsRing
    <3>2. QED BY <2>2, <3>1 DEF Adds
  <2> HIDE DEF S
  <2>6. Traced(sess', S)
    BY <2>1, <2>3, <2>4, TracedLoses, TracedMarks, TracedRecords DEF AcceptsAs, Observations
  <2>7. QED BY <2>2, <2>5, <2>6 DEF SessionBooks, S
<1>7. QED BY <1>3, <1>4, <1>5, <1>6, ServiceSteps

\* A round that sees a response of the interval has the request it answers.
LEMMA EvaluateSees ==
  ASSUME TurnInv, RingInv, SessionBooks, Undecided(caller), Current,
         Head(caller.steps) = "network", Evaluate = "pass"
  PROVE  \E r \in page[sess.ws].requests : r.done /\ caller.actionId \in {0, r.act}
<1>1. EvaluateNetwork = "pass"
  BY DEF Evaluate
<1>2. PICK e \in Seen("network") : TRUE
  BY <1>1 DEF EvaluateNetwork
<1>3. e \in Observed(sess, caller.since) /\ caller.actionId \in {0, e.act} /\ e.type = "network"
  BY <1>2 DEF Seen, Relevant
<1>4. e \in LiveEvents(sess.events)
  <2>1. sess.cursor \in Nat /\ caller.since \in Nat
    BY DEF TurnInv, Shape, SessionShape, Undecided
  <2>2. QED BY <1>3, <2>1, ObservedIs DEF RingInv
<1>5. sess.ws # 0
  BY DEF Current
<1>6. QED BY <1>3, <1>4, <1>5 DEF SessionBooks, Traced

LEMMA PromisedStep ==
  ASSUME TurnInv, Dated, RingInv, ReadInv, Books, SessionBooks, Promised, [ServiceNext]_serviceVars
  PROVE  Promised'
<1>1. SessionShape(sess) /\ sess.generation \in Nat /\ (sess.ws # 0 => sess.ws \in Conns)
  BY BridgeAssumption DEF TurnInv, Shape, SessionShape, Conns
<1>2. Carried
  BY StepBooks
<1>3. ASSUME caller' = caller, sess'.ws = sess.ws, sess'.generation = sess.generation
      PROVE  Promised'
  <2>1. SUFFICES ASSUME caller.phase = "round", caller.latest = "pass", caller.generation = sess.generation, sess.ws # 0
                 PROVE  \E r \in page'[sess.ws].requests : r.done /\ caller.actionId \in {0, r.act}
    BY <1>3 DEF Promised
  <2>2. PICK r \in page[sess.ws].requests : r.done /\ caller.actionId \in {0, r.act}
    BY <2>1 DEF Promised
  <2>3. PICK q \in page'[sess.ws].requests : q.act = r.act /\ q.done
    BY <1>1, <1>2, <2>1, <2>2 DEF Carried, Carries
  <2>4. QED BY <2>2, <2>3
<1>4. CASE BridgeNext /\ UNCHANGED <<caller, calls, verdict>>
  <2>1. CASE Idles
    BY <1>3, <1>4, <2>1 DEF Idles
  <2>2. CASE Detaches
    BY <2>2, DetachesEnds DEF Promised
  <2>3. CASE Pairs
    <3>1. PICK c \in Conns : \E network : sess' = Pair(sess, c, network)
      BY <2>3 DEF Pairs
    <3>2. PICK network : sess' = Pair(sess, c, network)
      BY <3>1
    <3>3. Begins(sess, sess', c)
      BY <1>1, <3>2, PairEnds
    <3>4. caller.phase = "round" => caller.generation \in 0 .. sess.generation
      BY DEF Dated
    <3>5. QED BY <1>1, <1>4, <3>3, <3>4 DEF Promised, Begins
  <2>4. CASE Accepts
    <3>1. PICK c, m : AcceptsAs(c, m)
      BY <2>4, AcceptsIs
    <3>2. \E X : Adds(sess, sess', X)
      BY <3>1, AddsKeepsRing DEF AcceptsAs
    <3>3. QED BY <1>3, <1>4, <3>2 DEF Adds
  <2>5. QED BY <2>1, <2>2, <2>3, <2>4, ServiceSteps
<1>5. CASE Moves
  <2>1. CASE Asks
    <3>1. caller'.phase \in Awaiting
      BY <2>1 DEF Asks, Await
    <3>2. QED BY <3>1 DEF Promised, Awaiting
  <2>2. CASE Releases
    BY <2>2 DEF Releases, Release, Promised, Free
  <2>3. CASE GoesOn
    <3>1. sess'.ws = sess.ws /\ sess'.generation = sess.generation /\ UNCHANGED page
      BY <1>5, <2>3 DEF GoesOn, Alike, Moves
    <3>2. /\ Undecided(caller) /\ Undecided(caller') /\ caller'.actionId = caller.actionId
          /\ caller'.generation = caller.generation
          /\ caller'.steps = caller.steps
          /\ \/ caller'.latest = caller.latest
             \/ caller.phase = "round" /\ Current /\ caller'.latest = Evaluate
      BY <2>3 DEF GoesOn, ReadInv, Late
    <3>3. CASE caller'.latest = caller.latest
      <4>1. caller.phase = "fresh" => caller.latest # "pass"
        BY DEF ReadInv, Late
      <4>2. QED BY <2>3, <3>1, <3>2, <3>3, <4>1 DEF Promised, GoesOn
    <3>4. CASE caller.phase = "round" /\ Current /\ caller'.latest = Evaluate
      <4>1. SUFFICES ASSUME Evaluate = "pass"
                     PROVE  Promised'
        BY <3>4 DEF Promised
      <4>2. caller'.latest = "pass"
        BY <3>4, <4>1
      <4>3. Head(caller'.steps) = "network"
        BY <3>2, <4>2 DEF Undecided
      <4>4. \E r \in page[sess.ws].requests : r.done /\ caller.actionId \in {0, r.act}
        BY <3>2, <3>4, <4>1, <4>3, EvaluateSees
      <4>5. QED BY <3>1, <3>2, <4>4 DEF Promised
    <3>5. QED BY <3>2, <3>3, <3>4
  <2>4. QED BY <1>5, <2>1, <2>2, <2>3 DEF Moves
<1>6. CASE Act \/ Assert \/ RunFlow
  BY <1>5, <1>6, CallMoves
<1>7. CASE CallerNext
  BY <1>5, <1>7, CallerMoves
<1>8. CASE UNCHANGED serviceVars
  BY <1>3, <1>8 DEF serviceVars
<1>9. QED BY <1>4, <1>6, <1>7, <1>8 DEF ServiceNext

LEMMA PromisedInit == ServiceInit => SessionBooks /\ Promised
BY DEF ServiceInit, BridgeInit, NewSession, SessionBooks, Promised

\* A verdict on the network is of a request its document started and finished.
LEMMA PassIsAttributed ==
  ASSUME TurnInv, RingInv, ReadInv, SessionBooks, Promised, [ServiceNext]_serviceVars, Passes("network")
  PROVE  \E r \in page[verdict'.conn].requests : r.done /\ verdict'.actionId \in {0, r.act}
<1>1. CallerNext /\ \E status : Finish(status)
  BY DEF Passes, ServiceNext, serviceVars, Act, Assert, RunFlow, Lock, CallerNext,
         Actor, StepAnswered, FreshAnswered, Round, Deadline, Expired
<1>2. /\ Head(caller.steps) = "network" /\ verdict'.conn = sess.ws /\ verdict'.actionId = caller.actionId
      /\ \A status : Finish(status) => status = "pass"
  BY <1>1 DEF Finish, Verdict, Passes
<1>3. CASE Round
  <2>1. Current /\ Evaluate = "pass"
    BY <1>2, <1>3 DEF Round, Passes
  <2>2. Undecided(caller)
    BY <1>3 DEF Round, ReadInv, Late
  <2>3. QED BY <1>2, <2>1, <2>2, EvaluateSees
<1>4. CASE Expired
  <2>1. Current /\ caller.latest = "pass" /\ caller.phase = "round"
    BY <1>2, <1>4 DEF Expired
  <2>2. QED BY <1>2, <2>1 DEF Promised, Current
<1>5. ~FreshAnswered /\ ~Actor /\ ~StepAnswered /\ ~Deadline
  BY <1>2 DEF FreshAnswered, Actor, StepAnswered, Deadline, Passes
<1>6. QED BY <1>1, <1>3, <1>4, <1>5 DEF CallerNext

\* A network outcome passes only on a request that the connected document started
\* under the action the check is about and finished, whatever responses arrive late.
THEOREM AttributedPassHolds == ServiceSpec => AttributedPass
<1> DEFINE Body == Passes("network") =>
                     \E r \in page[verdict'.conn].requests : r.done /\ verdict'.actionId \in {0, r.act}
           Inv  == TurnInv /\ Dated /\ RingInv /\ ReadInv /\ Books /\ SessionBooks /\ Promised
<1>1. ServiceInit => Inv
  BY TurnInit, DatedInit, RingInit, ReadInit, BooksInit, PromisedInit
<1>2. Inv /\ [ServiceNext]_serviceVars => Inv'
  BY TurnStep, DatedStep, RingStep, ReadStep, StepBooks, SessionBooksStep, PromisedStep
<1>3. Inv /\ [ServiceNext]_serviceVars => [Body]_serviceVars
  BY PassIsAttributed
<1>4. QED BY <1>1, <1>2, <1>3, PTL DEF ServiceSpec, AttributedPass

-----------------------------------------------------------------------------
(* Where the start of a request is until it is done. *)

StartsAt(u, i, r) == u[i].type = "start" /\ u[i].rid = r.rid /\ u[i].act = r.act

Starts(u, r) == \E i \in DOMAIN u : StartsAt(u, i, r)

\* ... and the answer of the page after it.
StartsFirst(u, r) == \E i, j \in DOMAIN u : i < j /\ StartsAt(u, i, r) /\ u[j].type = "result"

\* The session of connection c knows that r is pending, or that it may have missed it.
Pends(c, s, r) == s.ws = c /\ (s.captureLost \/ [rid |-> r.rid, act |-> r.act] \in s.requests)

\* A page that has not connected has captured nothing, and a ready one holds nothing back.
Blank(p) ==
  /\ p.st \in {"idle", "dialing"} => p.requests = {} /\ p.errors = {} /\ p.early = <<>> /\ p.actionId = 0
  /\ p.st = "ready" => p.early = <<>>

QuietOf(c, s, p, u) ==
  \A r \in p.requests : ~r.done =>
    /\ p.st # "gone" => Pends(c, s, r) \/ Starts(u, r) \/ Starts(p.early, r)
    /\ r.answered => Pends(c, s, r) \/ StartsFirst(u, r)

QuietInv ==
  \A c \in Conns : Blank(page[c]) /\ (sock[c].st = "open" => QuietOf(c, sess, page[c], up[c]))

Extends(u, v) == \A i \in DOMAIN u : i \in DOMAIN v /\ v[i] = u[i]

LEMMA ListsExtend ==
  ASSUME NEW u, IsList(u)
  PROVE  /\ \A x : Extends(u, Append(u, x)) /\ \E i \in DOMAIN Append(u, x) : Append(u, x)[i] = x
         /\ \A t : IsList(t) =>
              /\ Extends(u, u \o t)
              /\ \A i \in DOMAIN t : /\ Len(u) + i \in DOMAIN (u \o t) /\ (u \o t)[Len(u) + i] = t[i]
                                     /\ \A j \in DOMAIN u : j < Len(u) + i
         /\ u # <<>> => /\ \A i \in DOMAIN u \ {1} : i - 1 \in DOMAIN Tail(u) /\ Tail(u)[i - 1] = u[i]
                        /\ DOMAIN u \subseteq Nat \ {0} /\ 1 \in DOMAIN u /\ Head(u) = u[1]
<1>1. u \in Seq(Range(u)) /\ Len(u) \in Nat /\ DOMAIN u = 1 .. Len(u)
  BY ListOf DEF IsList
<1>2. ASSUME NEW x
      PROVE  Extends(u, Append(u, x)) /\ \E i \in DOMAIN Append(u, x) : Append(u, x)[i] = x
  <2> DEFINE S == Range(u) \cup {x}
             v == Append(u, x)
  <2>1. u \in Seq(S) /\ x \in S
    <3>1. Range(u) \subseteq S
      OBVIOUS
    <3>2. QED BY <1>1, <3>1, SeqMonotonic
  <2> HIDE DEF S
  <2>2. /\ DOMAIN v = 1 .. Len(u) + 1
        /\ \A i \in 1 .. Len(u) : v[i] = u[i]
        /\ v[Len(u) + 1] = x
    <3>1. v \in Seq(S) /\ Len(v) = Len(u) + 1
      BY <2>1, AppendProperties
    <3>2. DOMAIN v = 1 .. Len(v)
      BY <3>1, ListOf
    <3>3. QED BY <2>1, <3>1, <3>2, AppendProperties
  <2> HIDE DEF v
  <2>3. Extends(u, v)
    BY <1>1, <2>2 DEF Extends
  <2>4. Len(u) + 1 \in DOMAIN v
    BY <1>1, <2>2
  <2>5. QED BY <2>2, <2>3, <2>4 DEF v
<1>3. ASSUME NEW t, IsList(t)
      PROVE  /\ Extends(u, u \o t)
             /\ \A i \in DOMAIN t : /\ Len(u) + i \in DOMAIN (u \o t) /\ (u \o t)[Len(u) + i] = t[i]
                                    /\ \A j \in DOMAIN u : j < Len(u) + i
  <2> DEFINE S == Range(u) \cup Range(t)
             v == u \o t
  <2>1. u \in Seq(S) /\ t \in Seq(S)
    <3>1. t \in Seq(Range(t)) /\ Range(t) \subseteq S /\ Range(u) \subseteq S
      BY <1>3 DEF IsList
    <3> HIDE DEF S
    <3>2. QED BY <1>1, <3>1, SeqMonotonic
  <2>2. Len(t) \in Nat /\ DOMAIN t = 1 .. Len(t)
    BY <1>3, ListOf DEF IsList
  <2> HIDE DEF S
  <2>3. /\ DOMAIN v = 1 .. Len(u) + Len(t)
        /\ \A i \in 1 .. Len(u) : v[i] = u[i]
        /\ \A i \in 1 .. Len(t) : v[Len(u) + i] = t[i]
    BY <1>1, <2>1, <2>2
  <2> HIDE DEF v
  <2>4. Extends(u, v)
    BY <1>1, <2>2, <2>3 DEF Extends
  <2>5. ASSUME NEW i \in DOMAIN t
        PROVE  /\ Len(u) + i \in DOMAIN v /\ v[Len(u) + i] = t[i]
               /\ \A j \in DOMAIN u : j < Len(u) + i
    BY <1>1, <2>2, <2>3
  <2>6. QED BY <2>4, <2>5 DEF v
<1>4. ASSUME u # <<>>
      PROVE  /\ \A i \in DOMAIN u \ {1} : i - 1 \in DOMAIN Tail(u) /\ Tail(u)[i - 1] = u[i]
             /\ DOMAIN u \subseteq Nat \ {0} /\ 1 \in DOMAIN u /\ Head(u) = u[1]
  <2>1. /\ Tail(u) \in Seq(Range(u)) /\ Len(Tail(u)) = Len(u) - 1
        /\ \A i \in 1 .. Len(Tail(u)) : Tail(u)[i] = u[i + 1]
    BY <1>1, <1>4
  <2>2. DOMAIN Tail(u) = 1 .. Len(u) - 1
    BY <2>1, ListOf
  <2>3. ASSUME NEW i \in DOMAIN u \ {1}
        PROVE  i - 1 \in DOMAIN Tail(u) /\ Tail(u)[i - 1] = u[i]
    <3>1. i - 1 \in 1 .. Len(u) - 1 /\ (i - 1) + 1 = i
      BY <1>1
    <3>2. QED BY <2>1, <2>2, <3>1
  <2>4. QED BY <1>1, <1>4, <2>3, TailList
<1>5. QED BY <1>2, <1>3, <1>4

LEMMA ExtendsKeeps ==
  ASSUME NEW u, NEW v, Extends(u, v), NEW r
  PROVE  (Starts(u, r) => Starts(v, r)) /\ (StartsFirst(u, r) => StartsFirst(v, r))
BY DEF Extends, Starts, StartsFirst, StartsAt

LEMMA TailKeeps ==
  ASSUME NEW u, IsList(u), u # <<>>, NEW r, ~StartsAt(u, 1, r)
  PROVE  (Starts(u, r) => Starts(Tail(u), r)) /\ (StartsFirst(u, r) => StartsFirst(Tail(u), r))
<1>1. /\ \A i \in DOMAIN u \ {1} : i - 1 \in DOMAIN Tail(u) /\ Tail(u)[i - 1] = u[i]
      /\ DOMAIN u \subseteq Nat \ {0}
  BY ListsExtend
<1>2. Starts(u, r) => Starts(Tail(u), r)
  BY <1>1 DEF Starts, StartsAt
<1>3. ASSUME NEW i \in DOMAIN u, NEW j \in DOMAIN u, i < j, StartsAt(u, i, r), u[j].type = "result"
      PROVE  StartsFirst(Tail(u), r)
  <2>1. i # 1 /\ j # 1 /\ i \in Nat /\ j \in Nat
    BY <1>1, <1>3
  <2>2. i - 1 \in DOMAIN Tail(u) /\ j - 1 \in DOMAIN Tail(u) /\ i - 1 < j - 1
    BY <1>1, <1>3, <2>1
  <2>3. StartsAt(Tail(u), i - 1, r) /\ Tail(u)[j - 1].type = "result"
    BY <1>1, <1>3, <2>1 DEF StartsAt
  <2>4. QED BY <2>2, <2>3 DEF StartsFirst
<1>4. QED BY <1>2, <1>3 DEF StartsFirst

LEMMA ConcatKeeps ==
  ASSUME NEW u, IsList(u), NEW t, IsList(t), NEW r
  PROVE  /\ Starts(u, r) \/ Starts(t, r) => Starts(u \o t, r)
         /\ StartsFirst(u, r) => StartsFirst(u \o t, r)
<1>1. Extends(u, u \o t)
  BY ListsExtend
<1>2. ASSUME NEW i \in DOMAIN t, StartsAt(t, i, r)
      PROVE  Starts(u \o t, r)
  <2>1. Len(u) + i \in DOMAIN (u \o t) /\ (u \o t)[Len(u) + i] = t[i]
    BY ListsExtend
  <2>2. StartsAt(u \o t, Len(u) + i, r)
    BY <1>2, <2>1 DEF StartsAt
  <2>3. QED BY <2>1, <2>2 DEF Starts
<1>3. QED
  <2>1. /\ Starts(u, r) => Starts(u \o t, r)
        /\ StartsFirst(u, r) => StartsFirst(u \o t, r)
    BY <1>1, ExtendsKeeps
  <2>2. Starts(t, r) => Starts(u \o t, r)
    BY <1>2 DEF Starts
  <2>3. QED BY <2>1, <2>2

\* The page answers after what it sent.
LEMMA AnswerFollows ==
  ASSUME NEW u, IsList(u), NEW t, IsList(t), Holds(t, "result"), NEW r, Starts(u, r)
  PROVE  StartsFirst(u \o t, r)
<1>1. PICK i \in DOMAIN u : StartsAt(u, i, r)
  BY DEF Starts
<1>2. PICK j \in DOMAIN t : t[j].type = "result"
  BY DEF Holds
<1>3. /\ i \in DOMAIN (u \o t) /\ (u \o t)[i] = u[i]
      /\ Len(u) + j \in DOMAIN (u \o t) /\ (u \o t)[Len(u) + j] = t[j] /\ i < Len(u) + j
  BY ListsExtend DEF Extends
<1>4. StartsAt(u \o t, i, r) /\ (u \o t)[Len(u) + j].type = "result"
  BY <1>1, <1>2, <1>3 DEF StartsAt
<1>5. QED BY <1>3, <1>4 DEF StartsFirst

\* A document writes its page and its frames.
LEMMA WriteQuiet ==
  ASSUME TurnInv, QuietInv, UNCHANGED sess, NEW c \in Conns, NEW p, NEW u,
         page' = [page EXCEPT ![c] = p], up' = [up EXCEPT ![c] = u],
         \A e \in Conns \ {c} : sock'[e] = sock[e],
         Blank(p), sock'[c].st = "open" => QuietOf(c, sess, p, u)
  PROVE  QuietInv'
<1>1. page = [e \in Conns |-> page[e]] /\ up = [e \in Conns |-> up[e]]
  BY DEF TurnInv, Shape
<1>2. page'[c] = p /\ up'[c] = u
  BY <1>1
<1>3. \A e \in Conns \ {c} : page'[e] = page[e] /\ up'[e] = up[e]
  BY <1>1
<1>4. SUFFICES ASSUME NEW e \in Conns
               PROVE  Blank(page'[e]) /\ (sock'[e].st = "open" => QuietOf(e, sess, page'[e], up'[e]))
  BY DEF QuietInv
<1>5. CASE e = c
  BY <1>2, <1>5
<1>6. CASE e # c
  BY <1>3, <1>6 DEF QuietInv
<1>7. QED BY <1>5, <1>6

LEMMA EmitQuiet ==
  ASSUME TurnInv, QuietInv, UNCHANGED <<sess, sock>>, NEW c \in Conns, Watching(c),
         NEW p, IsRecord(p, DOMAIN NewPage), p.early = page[c].early, p.st = page[c].st, NEW m, Emit(c, p, m),
         \A r \in p.requests : ~r.done =>
           r \in page[c].requests \/ (~r.answered /\ m.type = "start" /\ m.rid = r.rid /\ m.act = r.act)
  PROVE  QuietInv'
<1>1. IsList(up[c]) /\ IsList(page[c].early) /\ page[c].st \in {"open", "ready"}
  BY WhatHolds DEF WireShape, Watching
<1> DEFINE Told(q, u) ==
             \A r \in p.requests : ~r.done =>
               /\ q.st # "gone" => Pends(c, sess, r) \/ Starts(u, r) \/ Starts(q.early, r)
               /\ r.answered => Pends(c, sess, r) \/ StartsFirst(u, r)
<1>2. \A u, x : Extends(u, u) /\ (IsList(u) => Extends(u, Append(u, x)))
  BY ListsExtend DEF Extends
<1>3. ASSUME NEW r \in p.requests, ~r.done, sock[c].st = "open", r \in page[c].requests
      PROVE  /\ Pends(c, sess, r) \/ Starts(up[c], r) \/ Starts(page[c].early, r)
             /\ r.answered => Pends(c, sess, r) \/ StartsFirst(up[c], r)
  BY <1>1, <1>3 DEF QuietInv, QuietOf
<1>4. ASSUME NEW u, IsList(u), NEW r, m.type = "start", m.rid = r.rid, m.act = r.act
      PROVE  Starts(Append(u, m), r)
  BY <1>4, ListsExtend DEF Starts, StartsAt
<1>5. CASE p.st = "ready"
  <2> DEFINE u == Append(up[c], m)
  <2>1. page' = [page EXCEPT ![c] = p] /\ up' = [up EXCEPT ![c] = u]
    BY <1>5 DEF Emit, TurnInv, Shape
  <2>2. Blank(p)
    BY <1>5 DEF Blank, QuietInv
  <2>3. ASSUME sock[c].st = "open"
        PROVE  QuietOf(c, sess, p, u)
    <3>1. SUFFICES ASSUME NEW r \in p.requests, ~r.done
                   PROVE  /\ Pends(c, sess, r) \/ Starts(u, r) \/ Starts(p.early, r)
                          /\ r.answered => Pends(c, sess, r) \/ StartsFirst(u, r)
      BY DEF QuietOf
    <3>2. CASE r \in page[c].requests
      BY <1>1, <1>2, <1>3, <2>3, <3>1, <3>2, ExtendsKeeps
    <3>3. CASE ~r.answered /\ m.type = "start" /\ m.rid = r.rid /\ m.act = r.act
      BY <1>1, <1>4, <3>3
    <3>4. QED BY <3>1, <3>2, <3>3
  <2> HIDE DEF u
  <2>4. QED BY <2>1, <2>2, <2>3, WriteQuiet
<1>6. CASE p.st # "ready"
  <2>1. PICK q \in {[p EXCEPT !.early = Append(p.early, m)], Leave(p)} :
          page' = [page EXCEPT ![c] = q] /\ up' = [up EXCEPT ![c] = up[c]]
    BY <1>6 DEF Emit, TurnInv, Shape
  <2>2. /\ q.requests = p.requests
        /\ q.st = "gone" \/ (q.st = "open" /\ q.early = Append(page[c].early, m))
    BY <1>1, <1>6, <2>1 DEF IsRecord, NewPage, Leave
  <2>3. Blank(q)
    BY <2>2 DEF Blank
  <2>4. ASSUME sock[c].st = "open"
        PROVE  QuietOf(c, sess, q, up[c])
    <3>1. SUFFICES ASSUME NEW r \in p.requests, ~r.done
                   PROVE  /\ q.st # "gone" => Pends(c, sess, r) \/ Starts(up[c], r) \/ Starts(q.early, r)
                          /\ r.answered => Pends(c, sess, r) \/ StartsFirst(up[c], r)
      BY <2>2 DEF QuietOf
    <3>2. CASE r \in page[c].requests
      <4>1. /\ Pends(c, sess, r) \/ Starts(up[c], r) \/ Starts(page[c].early, r)
            /\ r.answered => Pends(c, sess, r) \/ StartsFirst(up[c], r)
        BY <1>3, <2>4, <3>1, <3>2
      <4>2. Starts(page[c].early, r) => q.st = "gone" \/ Starts(q.early, r)
        <5>1. Extends(page[c].early, Append(page[c].early, m))
          BY <1>1, <1>2
        <5>2. Starts(page[c].early, r) => Starts(Append(page[c].early, m), r)
          BY <5>1, ExtendsKeeps
        <5>3. QED BY <2>2, <5>2
      <4>3. QED BY <4>1, <4>2
    <3>3. CASE ~r.answered /\ m.type = "start" /\ m.rid = r.rid /\ m.act = r.act
      BY <1>1, <1>4, <2>2, <3>3
    <3>4. QED BY <3>1, <3>2, <3>3
  <2>5. QED BY <2>1, <2>3, <2>4, WriteQuiet
<1>7. QED BY <1>5, <1>6

LEMMA ObservationQuiet ==
  ASSUME TurnInv, Books, QuietInv, NEW c \in Conns,
         RaiseError(c) \/ StartRequest(c) \/ FinishRequest(c) \/ FailObserver(c)
  PROVE  QuietInv'
<1> DEFINE S == page[c].requests
           Told(T, m) ==
             \A r \in T : ~r.done => r \in S \/ (~r.answered /\ m.type = "start" /\ m.rid = r.rid /\ m.act = r.act)
<1>1. IsRecord(page[c], DOMAIN NewPage)
  BY WhatHolds DEF WireShape
<1>2. Watching(c) /\ UNCHANGED <<sess, sock>>
  BY DEF RaiseError, StartRequest, FinishRequest, FailObserver
<1>3. ASSUME NEW f \in {"errors", "blind"}, NEW x, NEW m, Emit(c, [page[c] EXCEPT ![f] = x], m)
      PROVE  QuietInv'
  <2> DEFINE p == [page[c] EXCEPT ![f] = x]
  <2>1. IsRecord(p, DOMAIN NewPage) /\ p.early = page[c].early /\ p.st = page[c].st /\ p.requests = S
    BY <1>1 DEF IsRecord, NewPage
  <2> HIDE DEF p
  <2>2. Emit(c, p, m)
    BY <1>3 DEF p
  <2>3. QED BY <1>2, <2>1, <2>2, EmitQuiet
<1>4. ASSUME NEW T, NEW m, Emit(c, [page[c] EXCEPT !["requests"] = T], m), Told(T, m)
      PROVE  QuietInv'
  <2> DEFINE p == [page[c] EXCEPT !["requests"] = T]
  <2>1. IsRecord(p, DOMAIN NewPage) /\ p.early = page[c].early /\ p.st = page[c].st /\ p.requests = T
    BY <1>1 DEF IsRecord, NewPage
  <2> HIDE DEF p
  <2>2. Emit(c, p, m)
    BY <1>4 DEF p
  <2>3. QED BY <1>2, <1>4, <2>1, <2>2, EmitQuiet
<1> HIDE DEF Told
<1>5. CASE RaiseError(c)
  <2>1. PICK x, large : Emit(c, [page[c] EXCEPT !["errors"] = x], [type |-> "console", large |-> large])
    BY <1>5 DEF RaiseError
  <2>2. QED BY <1>3, <2>1
<1>6. CASE FailObserver(c)
  <2>1. Emit(c, [page[c] EXCEPT !["blind"] = TRUE], [type |-> "observer"])
    BY <1>6 DEF FailObserver
  <2>2. QED BY <1>3, <2>1
<1>7. CASE StartRequest(c)
  <2> DEFINE rid == Cardinality(S) + 1
             r == [rid |-> rid, act |-> page[c].actionId, done |-> FALSE, answered |-> FALSE]
             m == [type |-> "start", rid |-> rid, act |-> r.act]
             T == S \cup {r}
  <2>1. Emit(c, [page[c] EXCEPT !["requests"] = T], m)
    BY <1>7 DEF StartRequest
  <2>2. Told(T, m)
    BY DEF Told
  <2> HIDE DEF T, m
  <2>3. QED BY <1>4, <2>1, <2>2
<1>8. CASE FinishRequest(c)
  <2>1. PICK r \in S :
          Emit(c, [page[c] EXCEPT !["requests"] = (S \ {r}) \cup {[r EXCEPT !.done = TRUE]}],
               [type |-> "network", rid |-> r.rid])
    BY <1>8 DEF FinishRequest
  <2> DEFINE q == [r EXCEPT !.done = TRUE]
             m == [type |-> "network", rid |-> r.rid]
             T == (S \ {r}) \cup {q}
  <2>2. Numbered(S)
    BY DEF Books, BooksOf
  <2>3. Numbered(T) /\ Carries(S, T) /\ q.rid = r.rid /\ q.done
    <3> HIDE DEF S
    <3>1. QED BY <2>2, RequestEnds
  <2> HIDE DEF q
  <2>4. Told(T, m)
    BY <2>3 DEF Told
  <2>5. Emit(c, [page[c] EXCEPT !["requests"] = T], m)
    BY <2>1 DEF q
  <2> HIDE DEF T, m
  <2>6. QED BY <1>4, <2>4, <2>5
<1>9. QED BY <1>5, <1>6, <1>7, <1>8

LEMMA DocumentQuiet ==
  ASSUME TurnInv, QuietInv, NEW c \in Conns, Connect(c) \/ Open(c) \/ Ready(c) \/ PageGone(c)
  PROVE  QuietInv'
<1> DEFINE S == page[c].requests
<1>1. /\ IsRecord(page[c], DOMAIN NewPage) /\ IsList(up[c]) /\ IsList(page[c].early)
      /\ Blank(page[c]) /\ Wired(c, sess, sock[c], page[c], up[c], down[c])
  BY WhatHolds DEF WireShape, QuietInv
<1>2. sock = [e \in Conns |-> sock[e]] /\ UNCHANGED sess
  BY DEF TurnInv, Shape, Connect, Open, Ready, PageGone
<1>3. ASSUME NEW p, p.requests = {}, NEW u
      PROVE  QuietOf(c, sess, p, u)
  BY <1>3 DEF QuietOf
<1>4. CASE Connect(c)
  <2>1. PICK p \in {[page[c] EXCEPT !.st = "dialing"], Leave(page[c])} : page' = [page EXCEPT ![c] = p]
    BY <1>4 DEF Connect, TurnInv, Shape
  <2>2. up' = [up EXCEPT ![c] = up[c]] /\ \A e \in Conns \ {c} : sock'[e] = sock[e]
    BY <1>2, <1>4 DEF Connect, TurnInv, Shape
  <2>3. S = {} /\ page[c].errors = {} /\ page[c].early = <<>> /\ page[c].actionId = 0
    BY <1>1, <1>4 DEF Connect, Blank
  <2>4. p.requests = {} /\ p.errors = {} /\ p.early = <<>> /\ p.actionId = 0
    BY <1>1, <2>1, <2>3 DEF IsRecord, NewPage, Leave
  <2>5. Blank(p) /\ QuietOf(c, sess, p, up[c])
    BY <1>3, <2>4 DEF Blank
  <2>6. QED BY <1>2, <2>1, <2>2, <2>5, WriteQuiet
<1>5. CASE Open(c)
  <2>1. PICK network \in BOOLEAN : up' = [up EXCEPT ![c] = <<[type |-> "hello", network |-> network]>>]
    BY <1>5 DEF Open
  <2> DEFINE p == [page[c] EXCEPT !.st = "open"]
             u == <<[type |-> "hello", network |-> network]>>
  <2>2. page' = [page EXCEPT ![c] = p] /\ up' = [up EXCEPT ![c] = u] /\ UNCHANGED sock
    BY <1>5, <2>1 DEF Open, TurnInv, Shape
  <2>3. p.requests = {} /\ p.st = "open"
    BY <1>1, <1>5 DEF Open, Blank, IsRecord, NewPage
  <2>4. Blank(p) /\ QuietOf(c, sess, p, u)
    <3> HIDE DEF p, u
    <3>1. QED BY <1>3, <2>3 DEF Blank
  <2> HIDE DEF p, u
  <2>5. QED BY <1>2, <2>2, <2>4, WriteQuiet
<1>6. CASE Ready(c)
  <2> DEFINE p == [page[c] EXCEPT !.st = "ready", !.early = <<>>]
             u == up[c] \o page[c].early
  <2>1. page' = [page EXCEPT ![c] = p] /\ up' = [up EXCEPT ![c] = u] /\ UNCHANGED sock
    BY <1>6 DEF Ready, TurnInv, Shape
  <2>2. p.requests = S /\ p.early = <<>> /\ p.st = "ready" /\ page[c].st = "open"
    BY <1>1, <1>6 DEF Ready, IsRecord, NewPage
  <2> HIDE DEF p, u
  <2>4. ASSUME sock[c].st = "open"
        PROVE  QuietOf(c, sess, p, u)
    <3>1. SUFFICES ASSUME NEW r \in S, ~r.done
                   PROVE  /\ Pends(c, sess, r) \/ Starts(u, r)
                          /\ r.answered => Pends(c, sess, r) \/ StartsFirst(u, r)
      BY <2>2 DEF QuietOf
    <3>2. /\ Pends(c, sess, r) \/ Starts(up[c], r) \/ Starts(page[c].early, r)
          /\ r.answered => Pends(c, sess, r) \/ StartsFirst(up[c], r)
      BY <2>2, <2>4, <3>1 DEF QuietInv, QuietOf
    <3>3. /\ Starts(up[c], r) \/ Starts(page[c].early, r) => Starts(u, r)
          /\ StartsFirst(up[c], r) => StartsFirst(u, r)
      BY <1>1, ConcatKeeps DEF u
    <3>4. QED BY <3>2, <3>3
  <2>5. Blank(p)
    BY <2>2 DEF Blank
  <2>6. QED BY <1>2, <2>1, <2>4, <2>5, WriteQuiet
<1>7. CASE PageGone(c)
  <2> DEFINE p == Leave(page[c])
  <2>1. page' = [page EXCEPT ![c] = p] /\ up' = [up EXCEPT ![c] = up[c]] /\ UNCHANGED sock
    BY <1>7 DEF PageGone, TurnInv, Shape
  <2>2. p.requests = S /\ p.st = "gone"
    BY <1>1 DEF Leave, IsRecord, NewPage
  <2> HIDE DEF p
  <2>3. Blank(p)
    BY <2>2 DEF Blank
  <2>4. ASSUME sock[c].st = "open"
        PROVE  QuietOf(c, sess, p, up[c])
    BY <2>2, <2>4 DEF QuietInv, QuietOf
  <2>5. QED BY <1>2, <2>1, <2>3, <2>4, WriteQuiet
<1>8. QED BY <1>4, <1>5, <1>6, <1>7

LEMMA ExecuteQuiet ==
  ASSUME TurnInv, Books, QuietInv, NEW c \in Conns, Execute(c)
  PROVE  QuietInv'
<1> DEFINE S == page[c].requests
<1>1. PICK q, t : Executes(c, q, t)
  BY ExecuteIs
<1>2. /\ IsList(up[c]) /\ IsList(t) /\ Numbered(S) /\ page[c].st = "ready" /\ page[c].early = <<>>
      /\ UNCHANGED <<sess, sock>>
  BY <1>1, WhatHolds DEF WireShape, Books, BooksOf, Executes, Execute, QuietInv, Blank
<1> DEFINE u == up[c] \o t
<1>3. page' = [page EXCEPT ![c] = q] /\ up' = [up EXCEPT ![c] = u]
  BY <1>1 DEF Executes
<1>4. ASSUME NEW r
      PROVE  /\ Starts(up[c], r) => Starts(u, r)
             /\ StartsFirst(up[c], r) => StartsFirst(u, r)
  BY <1>2, ConcatKeeps
<1>5. ASSUME NEW r, Holds(t, "result"), Starts(up[c], r)
      PROVE  StartsFirst(u, r)
  BY <1>2, <1>5, AnswerFollows
<1>6. ASSUME NEW r
      PROVE  ~Starts(<<>>, r)
  BY EmptyList DEF Starts
<1> HIDE DEF u
<1>7. CASE Fades(page[c], q)
  <2>1. Blank(q)
    BY <1>7 DEF Fades, Blank
  <2>2. ASSUME sock[c].st = "open"
        PROVE  QuietOf(c, sess, q, u)
    BY <1>4, <1>7, <2>2 DEF Fades, QuietInv, QuietOf
  <2>3. QED BY <1>2, <1>3, <2>1, <2>2, WriteQuiet
<1>8. CASE Answers(page[c], Head(down[c]), q, t)
  <2>1. /\ q.st = "ready" /\ q.early = <<>> /\ q.requests = Answered(S) /\ Holds(t, "result")
    BY <1>2, <1>8 DEF Answers
  <2>2. Blank(q)
    BY <2>1 DEF Blank
  <2>3. ASSUME sock[c].st = "open", NEW r \in q.requests, ~r.done
        PROVE  (Pends(c, sess, r) \/ Starts(u, r)) /\ (Pends(c, sess, r) \/ StartsFirst(u, r))
    <3>1. PICK x \in S : r = [x EXCEPT !.answered = TRUE]
      BY <2>1, <2>3 DEF Answered
    <3>2. r.rid = x.rid /\ r.act = x.act /\ r.done = x.done
      BY <1>2, <3>1 DEF Numbered, IsRecord
    <3>3. Pends(c, sess, x) \/ Starts(up[c], x)
      BY <1>2, <1>6, <2>3, <3>2 DEF QuietInv, QuietOf
    <3>4. Pends(c, sess, r) \/ Starts(up[c], r)
      BY <3>2, <3>3 DEF Pends, Starts, StartsAt
    <3>5. QED BY <1>4, <1>5, <2>1, <3>4
  <2>4. sock[c].st = "open" => QuietOf(c, sess, q, u)
    BY <2>1, <2>3 DEF QuietOf
  <2>5. QED BY <1>2, <1>3, <2>2, <2>4, WriteQuiet
<1>9. QED BY <1>1, <1>7, <1>8 DEF Executes

-----------------------------------------------------------------------------
(* What a step does to the sockets. *)

Acts(c) ==
  \/ Connect(c) \/ Open(c) \/ Ready(c) \/ PageGone(c) \/ Execute(c)
  \/ RaiseError(c) \/ StartRequest(c) \/ FinishRequest(c) \/ FailObserver(c)

\* The socket of c is no longer open, and its session, if any, has ended or its command failed.
Cuts(c) ==
  /\ UNCHANGED page /\ sock'[c].st # "open"
  /\ \A e \in Conns \ {c} : sock'[e] = sock[e] /\ up'[e] = up[e]
  /\ IF sess.ws = c THEN sess'.ws = 0 \/ Abandons ELSE sess' = sess

\* The hello of c begins a generation.
Greets(c) ==
  /\ UNCHANGED page /\ \A e \in Conns : sock'[e].st = sock[e].st
  /\ up[c] # <<>> /\ Head(up[c]).type = "hello" /\ up' = [up EXCEPT ![c] = Tail(@)]
  /\ sess.ws = 0 /\ Begins(sess, sess', c)

Lasts ==
  /\ UNCHANGED <<page, up, sock>>
  /\ \/ Idles /\ (sess.pending = NoPending \/ sess'.pending = sess.pending)
     \/ sess.ws = 0 /\ sess'.ws = 0

LEMMA TerminateCuts ==
  ASSUME TurnInv, NEW c \in Conns, sock' = Terminate(c)
  PROVE  sock'[c].st # "open" /\ \A e \in Conns \ {c} : sock'[e] = sock[e]
<1>1. PICK k \in SockTypes : Terminate(c) = [sock EXCEPT ![c] = k] /\ k.st # "open"
  BY TerminateIs
<1>2. sock = [e \in Conns |-> sock[e]]
  BY DEF TurnInv, Shape
<1>3. QED BY <1>1, <1>2

LEMMA ReceiveSteps ==
  ASSUME TurnInv, RingInv, NEW c \in Conns, Receive(c)
  PROVE  Cuts(c) \/ Greets(c) \/ (sess.ws = c /\ \E m : AcceptsAs(c, m))
<1> DEFINE m == Head(up[c])
<1>1. /\ SessionShape(sess) /\ Wired(c, sess, sock[c], page[c], up[c], down[c])
      /\ up = [e \in Conns |-> up[e]] /\ sock = [e \in Conns |-> sock[e]] /\ 0 \notin Conns
  BY WhatHolds, BridgeAssumption DEF TurnInv, Shape, Conns
<1>2. up[c] # <<>> /\ up' = [up EXCEPT ![c] = Tail(@)] /\ UNCHANGED page /\ m.type \in FrameTypes
  BY HeadIs DEF Receive
<1>3. \A e \in Conns \ {c} : up'[e] = up[e]
  BY <1>1, <1>2
<1>4. CASE ~sock[c].authenticated
  <2>1. sess.ws # c /\ Hello(c, m)
    BY <1>1, <1>4 DEF Receive, Wired, Paired
  <2> HIDE DEF m
  <2>2. CASE m.type = "hello" /\ sess.ws = 0 /\ sess.live
    <3>1. /\ sess' = Pair(sess, c, m.network)
          /\ sock' = [sock EXCEPT ![c].authenticated = TRUE, ![c].generation = sess'.generation]
      BY <2>1, <2>2 DEF Hello
    <3>2. Begins(sess, sess', c)
      BY <1>1, <3>1, PairEnds
    <3>3. \A e \in Conns : sock'[e].st = sock[e].st
      <4>1. sock[c] \in SockTypes
        BY WhatHolds DEF SockTypes
      <4>2. sock' = [sock EXCEPT ![c] = [sock[c] EXCEPT !.authenticated = TRUE, !.generation = sess'.generation]]
        BY <1>1, <3>1
      <4>3. [sock[c] EXCEPT !.authenticated = TRUE, !.generation = sess'.generation].st = sock[c].st
        BY <4>1 DEF SockTypes
      <4>4. QED BY <1>1, <4>2, <4>3
    <3>4. QED BY <1>2, <2>2, <3>2, <3>3 DEF Greets, m
  <2>3. CASE ~(m.type = "hello" /\ sess.ws = 0 /\ sess.live)
    <3>1. sock' = Terminate(c) /\ UNCHANGED sess
      BY <2>1, <2>3 DEF Hello
    <3>2. QED BY <1>2, <1>3, <2>1, <3>1, TerminateCuts DEF Cuts
  <2>4. QED BY <2>2, <2>3
<1>5. CASE sock[c].authenticated
  <2>1. Frame(c, m)
    BY <1>5 DEF Receive
  <2> HIDE DEF m
  <2>2. CASE sess.ws = c /\ sock[c].generation = sess.generation /\ ~Refused(sess, m)
    <3>1. Accepts
      BY <1>2, <2>1, <2>2 DEF Frame, Accepts, m
    <3>2. PICK e, f : AcceptsAs(e, f)
      BY <3>1, AcceptsIs
    <3>3. e = c
      BY <2>2, <3>2 DEF AcceptsAs
    <3>4. QED BY <2>2, <3>2, <3>3
  <2>3. CASE ~(sess.ws = c /\ sock[c].generation = sess.generation /\ ~Refused(sess, m))
    <3>1. sess' = (IF sess.ws = c THEN Detach(sess) ELSE sess) /\ sock' = Terminate(c)
      BY <2>1, <2>3 DEF Frame
    <3>2. Detach(sess).ws = 0
      BY <1>1, DetachEnds
    <3>3. QED BY <1>2, <1>3, <3>1, <3>2, TerminateCuts DEF Cuts
  <2>4. QED BY <2>2, <2>3
<1>6. QED BY <1>4, <1>5

LEMMA SocketSteps ==
  ASSUME TurnInv, Dated, RingInv, [ServiceNext]_serviceVars
  PROVE  \/ \E c \in Conns : Acts(c) \/ Cuts(c) \/ Greets(c) \/ (sess.ws = c /\ \E m : AcceptsAs(c, m))
         \/ Lasts
<1>1. /\ SessionShape(sess) /\ 0 \notin Conns /\ (sess.ws # 0 => sess.ws \in Conns)
      /\ up = [e \in Conns |-> up[e]] /\ sock = [e \in Conns |-> sock[e]]
  BY BridgeAssumption DEF TurnInv, Shape, SessionShape, Conns
<1>2. ASSUME NEW c \in Conns, Closed(c)
      PROVE  Cuts(c)
  <2>1. /\ sock' = [sock EXCEPT ![c].st = "closed"] /\ up' = [up EXCEPT ![c] = <<>>] /\ UNCHANGED page
        /\ sess' = IF sess.ws = c THEN Detach(sess) ELSE sess
    BY <1>2 DEF Closed
  <2>2. sock[c] \in SockTypes
    BY WhatHolds DEF SockTypes
  <2>3. sock' = [sock EXCEPT ![c] = [sock[c] EXCEPT !.st = "closed"]] /\ [sock[c] EXCEPT !.st = "closed"].st = "closed"
    BY <1>1, <2>1, <2>2 DEF SockTypes
  <2>4. sock'[c].st # "open" /\ \A e \in Conns \ {c} : sock'[e] = sock[e] /\ up'[e] = up[e]
    BY <1>1, <2>1, <2>3
  <2>5. Detach(sess).ws = 0
    BY <1>1, DetachEnds
  <2>6. QED BY <2>1, <2>4, <2>5 DEF Cuts
<1>3. ASSUME NEW c \in Conns, HelloTimeout(c)
      PROVE  Cuts(c)
  <2>1. sess.ws # c
    BY <1>3, WhatHolds DEF HelloTimeout, Wired, Paired
  <2>2. QED BY <1>3, <2>1, TerminateCuts DEF HelloTimeout, Cuts
<1>4. CASE CommandTimeout
  <2>1. sess.ws \in Conns
    BY <1>1, <1>4 DEF CommandTimeout, TurnInv, Owned
  <2>2. Abandons
    BY <1>4 DEF CommandTimeout, Abandons
  <2>3. Cuts(sess.ws)
    BY <1>4, <2>1, <2>2, TerminateCuts DEF CommandTimeout, Cuts
  <2>4. QED BY <2>1, <2>3
<1>5. CASE Remove
  <2>1. sess'.ws = 0
    <3>1. Detaches
      BY <1>5 DEF Remove, Detaches
    <3>2. QED BY <3>1, DetachesEnds
  <2>2. CASE sess.ws = 0
    BY <1>5, <2>1, <2>2 DEF Remove, Lasts
  <2>3. CASE sess.ws # 0
    <3>1. Cuts(sess.ws)
      BY <1>1, <1>5, <2>1, <2>3, TerminateCuts DEF Remove, Cuts
    <3>2. QED BY <1>1, <2>3, <3>1
  <2>4. QED BY <2>2, <2>3
<1>6. CASE Quieten \/ UNCHANGED serviceVars
  <2>1. Idles /\ sess'.pending = sess.pending
    <3>1. \A f \in Fields \ {"quiet"} : sess'[f] = sess[f]
      BY <1>1, <1>6, FieldsAre DEF Quieten, serviceVars, SessionShape
    <3>2. QED BY <1>1, <3>1, FieldsAre DEF Idles, Steady, SessionShape
  <2>2. QED BY <1>6, <2>1 DEF Quieten, serviceVars, Lasts
<1>7. CASE Act \/ Assert \/ RunFlow \/ CallerNext
  <2>1. Moves
    BY <1>7, CallMoves, CallerMoves
  <2>2. QED BY <2>1, MovesIdle DEF Lasts, Moves, Alike
<1>8. CASE BridgeNext
  BY <1>2, <1>3, <1>4, <1>5, <1>6, <1>8, ReceiveSteps DEF BridgeNext, Acts
<1>9. QED BY <1>6, <1>7, <1>8 DEF ServiceNext

-----------------------------------------------------------------------------
(* Requests that are still open. *)

\* What was known of r is still known.
Keeping(c, r) ==
  /\ Pends(c, sess, r) => Pends(c, sess', r)
  /\ Starts(up[c], r) => Pends(c, sess', r) \/ Starts(up'[c], r)
  /\ StartsFirst(up[c], r) => Pends(c, sess', r) \/ StartsFirst(up'[c], r)

LEMMA DaemonQuiet ==
  ASSUME QuietInv, UNCHANGED page,
         \A c \in Conns : sock'[c].st = "open" =>
           sock[c].st = "open" /\ \A r \in page[c].requests : ~r.done => Keeping(c, r)
  PROVE  QuietInv'
<1>1. SUFFICES ASSUME NEW c \in Conns
               PROVE  Blank(page[c]) /\ (sock'[c].st = "open" => QuietOf(c, sess', page[c], up'[c]))
  BY DEF QuietInv
<1>2. ASSUME sock'[c].st = "open", NEW r \in page[c].requests, ~r.done
      PROVE  /\ page[c].st # "gone" => Pends(c, sess', r) \/ Starts(up'[c], r) \/ Starts(page[c].early, r)
             /\ r.answered => Pends(c, sess', r) \/ StartsFirst(up'[c], r)
  BY <1>2 DEF QuietInv, QuietOf, Keeping
<1>3. QED BY <1>2 DEF QuietInv, QuietOf

LEMMA AcceptQuiet ==
  ASSUME TurnInv, Books, SessionBooks, QuietInv, NEW c \in Conns, sess.ws = c, NEW m, AcceptsAs(c, m)
  PROVE  QuietInv'
<1> DEFINE S == page[c].requests
<1>1. /\ IsList(up[c]) /\ up[c] # <<>> /\ m = up[c][1] /\ 1 \in DOMAIN up[c] /\ UNCHANGED <<page, sock>>
      /\ up = [e \in Conns |-> up[e]] /\ up' = [up EXCEPT ![c] = Tail(@)]
      /\ Numbered(S) /\ AllBacked(S, up[c]) /\ c # 0
  <2>1. IsList(up[c]) /\ up[c] # <<>> /\ m = Head(up[c])
    BY WhatHolds DEF WireShape, AcceptsAs
  <2>2. m = up[c][1] /\ 1 \in DOMAIN up[c]
    BY <2>1, TailList
  <2>3. QED BY <2>1, <2>2, BridgeAssumption DEF AcceptsAs, TurnInv, Shape, Books, BooksOf, Conns
<1>2. sess'.ws = c
  <2>1. \E X : Adds(sess, sess', X)
    BY AddsKeepsRing
  <2>2. QED BY <2>1 DEF Adds
<1>3. up'[c] = Tail(up[c]) /\ \A e \in Conns \ {c} : up'[e] = up[e]
  BY <1>1
<1>4. ASSUME NEW r \in S, ~r.done
      PROVE  /\ Pends(c, sess, r) => Pends(c, sess', r)
             /\ StartsAt(up[c], 1, r) => Pends(c, sess', r)
  <2>1. CASE LosesAuthority(sess, sess')
    BY <1>2, <2>1 DEF LosesAuthority, Pends
  <2>2. CASE Marks(sess, m, sess') /\ m.type \notin Observations
    BY <1>1, <1>2, <2>2 DEF Marks, Pends, StartsAt, Observations
  <2>3. CASE Records(sess, m, sess') /\ m.type \in Observations
    <3>1. sess'.captureLost = sess.captureLost
      BY <2>3 DEF Records
    <3>2. CASE m.type = "start"
      <4>1. sess'.requests = sess.requests \cup {[rid |-> m.rid, act |-> m.act]}
        BY <2>3, <3>2 DEF Records
      <4>2. QED BY <1>1, <1>2, <3>1, <4>1 DEF Pends, StartsAt
    <3>3. CASE m.type = "network"
      <4>1. PICK q \in sess.requests : q.rid = m.rid /\ sess'.requests = sess.requests \ {q}
        BY <2>3, <3>3 DEF Records
      <4>2. Backed(S, m)
        BY <1>1 DEF AllBacked
      <4>3. PICK x \in S : x.rid = m.rid /\ x.done
        BY <3>3, <4>2 DEF Backed
      <4>4. r.rid # m.rid
        BY <1>1, <1>4, <4>3 DEF Numbered, Unique
      <4>5. [rid |-> r.rid, act |-> r.act] # q
        BY <4>1, <4>4
      <4>6. QED BY <1>1, <1>2, <3>1, <3>3, <4>1, <4>5 DEF Pends, StartsAt
    <3>4. CASE m.type \in {"console", "observer"}
      <4>1. sess'.requests = sess.requests
        BY <2>3, <3>4 DEF Records
      <4>2. QED BY <1>1, <1>2, <3>1, <3>4, <4>1 DEF Pends, StartsAt
    <3>5. QED BY <2>3, <3>2, <3>3, <3>4 DEF Observations
  <2>4. QED BY <2>1, <2>2, <2>3 DEF AcceptsAs
<1>5. ASSUME NEW r \in S, ~r.done
      PROVE  Keeping(c, r)
  <2>1. CASE StartsAt(up[c], 1, r)
    BY <1>4, <1>5, <2>1 DEF Keeping
  <2>2. CASE ~StartsAt(up[c], 1, r)
    <3>1. /\ Starts(up[c], r) => Starts(up'[c], r)
          /\ StartsFirst(up[c], r) => StartsFirst(up'[c], r)
      BY <1>1, <1>3, <2>2, TailKeeps
    <3>2. QED BY <1>4, <1>5, <3>1 DEF Keeping
  <2>3. QED BY <2>1, <2>2
<1>6. ASSUME NEW e \in Conns \ {c}, NEW r
      PROVE  Keeping(e, r)
  <2>1. ~Pends(e, sess, r) /\ up'[e] = up[e]
    BY <1>3 DEF Pends
  <2>2. QED BY <2>1 DEF Keeping
<1>7. QED BY <1>1, <1>5, <1>6, DaemonQuiet

LEMMA QuietStep ==
  ASSUME TurnInv, Dated, RingInv, Books, SessionBooks, QuietInv, [ServiceNext]_serviceVars
  PROVE  QuietInv'
<1>1. up = [e \in Conns |-> up[e]] /\ 0 \notin Conns
  BY BridgeAssumption DEF TurnInv, Shape, Conns
<1>2. ASSUME NEW c \in Conns, Acts(c)
      PROVE  QuietInv'
  BY <1>2, DocumentQuiet, ExecuteQuiet, ObservationQuiet DEF Acts
<1>3. ASSUME NEW c \in Conns, Cuts(c)
      PROVE  QuietInv'
  <2>1. ASSUME NEW e \in Conns \ {c}, NEW r
        PROVE  Keeping(e, r) /\ sock'[e] = sock[e]
    <3>1. up'[e] = up[e] /\ sock'[e] = sock[e] /\ (sess.ws = e => sess' = sess)
      BY <1>3 DEF Cuts
    <3>2. Pends(e, sess, r) => sess' = sess
      BY <3>1 DEF Pends
    <3>3. QED BY <3>1, <3>2 DEF Keeping
  <2>2. sock'[c].st # "open" /\ UNCHANGED page
    BY <1>3 DEF Cuts
  <2>3. QED BY <2>1, <2>2, DaemonQuiet
<1>4. ASSUME NEW c \in Conns, Greets(c)
      PROVE  QuietInv'
  <2>1. ASSUME NEW e \in Conns, NEW r
        PROVE  Keeping(e, r)
    <3>1. ~Pends(e, sess, r)
      BY <1>1, <1>4 DEF Greets, Pends
    <3>2. CASE e = c
      <4>1. IsList(up[c]) /\ up[c] # <<>> /\ Head(up[c]).type = "hello" /\ up'[c] = Tail(up[c])
        BY <1>1, <1>4, WhatHolds DEF WireShape, Greets
      <4>2. ~StartsAt(up[c], 1, r)
        BY <4>1, TailList DEF StartsAt
      <4>3. /\ Starts(up[c], r) => Starts(Tail(up[c]), r)
            /\ StartsFirst(up[c], r) => StartsFirst(Tail(up[c]), r)
        BY <4>1, <4>2, TailKeeps
      <4>4. QED BY <3>1, <3>2, <4>1, <4>3 DEF Keeping
    <3>3. CASE e # c
      <4>1. up'[e] = up[e]
        BY <1>1, <1>4, <3>3 DEF Greets
      <4>2. QED BY <3>1, <4>1 DEF Keeping
    <3>4. QED BY <3>2, <3>3
  <2>2. UNCHANGED page /\ \A e \in Conns : sock'[e].st = sock[e].st
    BY <1>4 DEF Greets
  <2>3. QED BY <2>1, <2>2, DaemonQuiet
<1>5. CASE Lasts
  <2>1. ASSUME NEW e \in Conns, NEW r
        PROVE  Keeping(e, r)
    <3>1. Pends(e, sess, r) => Pends(e, sess', r)
      BY <1>1, <1>5 DEF Lasts, Pends, Idles, Steady
    <3>2. QED BY <1>5, <3>1 DEF Lasts, Keeping
  <2>2. UNCHANGED <<page, sock>>
    BY <1>5 DEF Lasts
  <2>3. QED BY <2>1, <2>2, DaemonQuiet
<1>6. QED BY <1>2, <1>3, <1>4, <1>5, SocketSteps, AcceptQuiet

LEMMA QuietInit == ServiceInit => QuietInv
<1> SUFFICES ASSUME ServiceInit
             PROVE  QuietInv
  OBVIOUS
<1>1. \A c \in Conns : page[c] = NewPage /\ NewPage.st = "idle" /\ NewPage.requests = {}
                         /\ NewPage.errors = {} /\ NewPage.early = <<>> /\ NewPage.actionId = 0
  BY DEF ServiceInit, BridgeInit, NewPage
<1>2. QED BY <1>1 DEF QuietInv, QuietOf, Blank

-----------------------------------------------------------------------------
(* A check that has its fresh read still has the socket it came by. *)

Heeded == caller.phase = "round" \/ (caller.phase = "fresh" /\ sess.reply # NoReply /\ Fresh(sess.reply))

Reached == Heeded /\ caller.generation = sess.generation /\ sess.ws # 0 => sock[sess.ws].st = "open"

\* Only a pending command is answered.
LEMMA ReplyStays ==
  ASSUME TurnInv, BridgeNext
  PROVE  sess'.reply = sess.reply \/ sess.pending # NoPending
<1>1. SessionShape(sess)
  BY DEF TurnInv, Shape
<1>2. CASE Stays
  BY <1>2 DEF Stays
<1>3. CASE Detaches
  BY <1>3, DetachesEnds DEF Ends
<1>4. CASE Pairs
  <2>1. PICK c \in Conns : \E network : sess' = Pair(sess, c, network)
    BY <1>4 DEF Pairs
  <2>2. PICK network : sess' = Pair(sess, c, network)
    BY <2>1
  <2>3. Begins(sess, sess', c)
    BY <1>1, <2>2, PairEnds
  <2>4. QED BY <2>3 DEF Begins, Ends
<1>5. CASE Accepts
  <2>1. PICK c \in Conns : \E pressed \in 0 .. Min({scenario.pressed, Live(sess.events)}) :
          LET m == Head(up[c])
          IN  m.type \in FrameTypes /\ ~Refused(sess, m) /\ sess' = Accept(sess, m, pressed)
    BY <1>5 DEF Accepts
  <2> DEFINE m == Head(up[c])
  <2>2. PICK pressed : m.type \in FrameTypes /\ ~Refused(sess, m) /\ sess' = Accept(sess, m, pressed)
    BY <2>1
  <2> HIDE DEF m
  <2>3. CASE m.type = "result"
    BY <2>2, <2>3 DEF Refused
  <2>4. CASE m.type # "result"
    <3>1. m.type \in FrameTypes \ {"hello", "result"}
      BY <2>2, <2>4 DEF Refused
    <3>2. KeepsTurn(sess, sess')
      BY <1>1, <2>2, <3>1, AcceptKeeps
    <3>3. QED BY <3>2 DEF KeepsTurn
  <2>5. QED BY <2>3, <2>4
<1>6. CASE Abandons
  BY <1>6 DEF Abandons
<1>7. CASE Quieten
  BY <1>1, <1>7, FieldsAre DEF Quieten, SessionShape
<1>8. QED BY <1>2, <1>3, <1>4, <1>5, <1>6, <1>7, SessionSteps

LEMMA ReachedStep ==
  ASSUME TurnInv, Dated, RingInv, Reached, [ServiceNext]_serviceVars
  PROVE  Reached'
<1>1. /\ SessionShape(sess) /\ sess.generation \in Nat /\ 0 \notin Conns /\ (sess.ws # 0 => sess.ws \in Conns)
      /\ Owned
  BY BridgeAssumption DEF TurnInv, Shape, SessionShape, Conns
<1>2. ASSUME UNCHANGED caller, sess'.ws = sess.ws, sess'.generation = sess.generation, sock' = sock,
             sess'.reply = sess.reply \/ sess.pending # NoPending
      PROVE  Reached'
  BY <1>1, <1>2 DEF Reached, Heeded, Owned
<1>3. CASE BridgeNext /\ UNCHANGED <<caller, calls, verdict>>
  <2>1. ASSUME NEW c \in Conns, Acts(c)
        PROVE  Reached'
    <3>1. CASE Connect(c)
      <4>1. sock = [e \in Conns |-> sock[e]] /\ UNCHANGED sess /\ page[c].st = "idle"
            /\ (sock' = sock \/ sock' = [sock EXCEPT ![c].st = "open"])
        BY <3>1 DEF Connect, TurnInv, Shape
      <4>2. sess.ws # c
        BY <4>1, WhatHolds DEF Wired, Paired
      <4>3. sess.ws # 0 => sock'[sess.ws] = sock[sess.ws]
        BY <1>1, <4>1, <4>2
      <4>4. QED BY <1>3, <4>1, <4>3 DEF Reached, Heeded
    <3>2. CASE ~Connect(c)
      BY <1>2, <1>3, <2>1, <3>2 DEF Acts, Open, Ready, PageGone, Execute, RaiseError, StartRequest, FinishRequest, FailObserver
    <3>3. QED BY <3>1, <3>2
  <2>2. ASSUME NEW c \in Conns, Cuts(c)
        PROVE  Reached'
    <3>1. CASE sess.ws # c
      <4>1. sess' = sess /\ (sess.ws # 0 => sock'[sess.ws] = sock[sess.ws])
        BY <1>1, <2>2, <3>1 DEF Cuts
      <4>2. QED BY <1>3, <4>1 DEF Reached, Heeded
    <3>2. CASE sess.ws = c /\ sess'.ws = 0
      BY <3>2 DEF Reached
    <3>3. CASE sess.ws = c /\ Abandons
      <4>1. sess.pending # NoPending /\ sess'.reply = Failed(sess)
        BY <1>1, <3>3, FieldsAre DEF Abandons, Abandon, Failed, SessionShape
      <4>2. ~Fresh(sess'.reply) /\ caller.phase # "round"
        BY <1>1, <4>1 DEF Fresh, Failed, Owned, Awaiting
      <4>3. QED BY <1>3, <4>2 DEF Reached, Heeded
    <3>4. QED BY <2>2, <3>1, <3>2, <3>3 DEF Cuts
  <2>3. ASSUME NEW c \in Conns, Greets(c)
        PROVE  Reached'
    <3>1. Heeded' => caller.generation \in 0 .. sess.generation
      BY <1>3 DEF Heeded, Dated
    <3>2. sess'.generation = sess.generation + 1
      BY <2>3 DEF Greets, Begins
    <3>3. QED BY <1>1, <1>3, <3>1, <3>2 DEF Reached
  <2>4. ASSUME NEW m, AcceptsAs(sess.ws, m)
        PROVE  Reached'
    <3>1. sess'.ws = sess.ws /\ sess'.generation = sess.generation /\ UNCHANGED sock
      <4>1. \E X : Adds(sess, sess', X)
        BY <2>4, AddsKeepsRing
      <4>2. QED BY <2>4, <4>1 DEF Adds, AcceptsAs
    <3>2. sess'.reply = sess.reply \/ sess.pending # NoPending
      BY <1>3, ReplyStays
    <3>3. QED BY <1>2, <1>3, <3>1, <3>2
  <2>5. CASE Lasts
    <3>1. UNCHANGED sock
      BY <2>5 DEF Lasts
    <3>2. CASE sess'.ws = 0
      BY <3>2 DEF Reached
    <3>3. CASE Idles
      <4>1. sess'.reply = sess.reply \/ sess.pending # NoPending
        BY <1>3, ReplyStays
      <4>2. QED BY <1>2, <1>3, <3>1, <3>3, <4>1 DEF Idles
    <3>4. QED BY <2>5, <3>2, <3>3 DEF Lasts
  <2>6. QED BY <2>1, <2>2, <2>3, <2>4, <2>5, SocketSteps
<1>4. CASE Moves
  <2>1. CASE Asks
    <3>1. PICK s, kind, next : Alike(s) /\ next.phase \in Awaiting /\ Await(s, kind, next)
      BY <2>1 DEF Asks
    <3> DEFINE u == Ask([s EXCEPT !.reply = NoReply], kind)
    <3>2. u.reply = NoReply \/ ~Fresh(u.reply)
      BY <3>1, AskPends DEF Alike
    <3>3. sess' = u /\ caller' = next
      BY <3>1 DEF Await
    <3> HIDE DEF u
    <3>4. QED BY <3>1, <3>2, <3>3 DEF Reached, Heeded, Awaiting
  <2>2. CASE Releases
    BY <2>2 DEF Releases, Release, Reached, Heeded, Free
  <2>3. CASE GoesOn
    BY <1>4, <2>3 DEF GoesOn, Alike, Moves, Reached, Heeded
  <2>4. QED BY <1>4, <2>1, <2>2, <2>3 DEF Moves
<1>5. CASE Act \/ Assert \/ RunFlow \/ CallerNext
  BY <1>4, <1>5, CallMoves, CallerMoves
<1>6. CASE UNCHANGED serviceVars
  BY <1>2, <1>6 DEF serviceVars
<1>7. QED BY <1>3, <1>5, <1>6 DEF ServiceNext

LEMMA ReachedInit == ServiceInit => Reached
BY DEF ServiceInit, Reached, Heeded, Free

-----------------------------------------------------------------------------
(* What every pass has seen. *)

\* When a check passes, its window is complete, nothing is pending and the session
\* is still that of the check, on an open socket.
PassSeen ==
  /\ verdict'.conn = sess.ws /\ sess.ws \in Conns /\ sock[sess.ws].st = "open"
  /\ ~sess.captureLost /\ sess.requests = {} /\ sess.pending = NoPending
  /\ Complete(sess, caller.since) /\ caller.generation = sess.generation
  /\ verdict'.since = caller.since /\ verdict'.actionId = caller.actionId
  /\ verdict'.predicate = Head(caller.steps)
  /\ caller.phase = "round" /\ UNCHANGED page
  /\ Evaluate = "pass" \/ caller.latest = "pass"

LEMMA PassSees ==
  ASSUME TurnInv, Reached, ReadInv, [ServiceNext]_serviceVars, NEW p, Passes(p)
  PROVE  PassSeen
<1>1. CallerNext /\ \E status : Finish(status)
  BY DEF Passes, ServiceNext, serviceVars, Act, Assert, RunFlow, Lock, CallerNext,
         Actor, StepAnswered, FreshAnswered, Round, Deadline, Expired
<1>2. /\ verdict'.conn = sess.ws /\ verdict'.since = caller.since /\ verdict'.actionId = caller.actionId
      /\ verdict'.predicate = Head(caller.steps)
      /\ \A status : Finish(status) => status = "pass"
  BY <1>1 DEF Finish, Verdict, Passes
<1>3. ~FreshAnswered /\ ~Actor /\ ~StepAnswered /\ ~Deadline
  BY <1>2 DEF FreshAnswered, Actor, StepAnswered, Deadline, Passes
<1>4. Round \/ Expired
  BY <1>1, <1>3 DEF CallerNext
<1>5. /\ caller.phase = "round" /\ Current /\ Settled /\ UNCHANGED page
      /\ Evaluate = "pass" \/ (caller.latest = "pass" /\ Complete(sess, caller.since))
  <2>1. CASE Round
    BY <1>2, <2>1 DEF Round, Passes, Goes
  <2>2. CASE Expired
    BY <1>2, <2>2 DEF Expired, Goes
  <2>3. QED BY <1>4, <2>1, <2>2
<1>6. Complete(sess, caller.since)
  <2>1. EvaluateAbsent = "pass" => Complete(sess, caller.since)
    BY DEF EvaluateAbsent, Impaired
  <2>2. EvaluateNetwork = "pass" => Complete(sess, caller.since)
    BY DEF EvaluateNetwork, Impaired
  <2>3. EvaluateChanged = "pass" => Complete(sess, caller.since)
    BY DEF EvaluateChanged
  <2>4. QED BY <1>5, <2>1, <2>2, <2>3 DEF Evaluate
<1>7. sess.ws \in Conns /\ sock[sess.ws].st = "open" /\ caller.generation = sess.generation
  <2>1. sess.ws # 0 => sess.ws \in Conns
    BY BridgeAssumption DEF TurnInv, Shape, SessionShape, Conns
  <2>2. QED BY <1>5, <2>1 DEF Current, Reached, Heeded
<1>8. QED BY <1>2, <1>5, <1>6, <1>7 DEF PassSeen, Settled, Complete

LEMMA PassIsQuiet ==
  ASSUME TurnInv, QuietInv, Reached, ReadInv, [ServiceNext]_serviceVars, NEW p, Passes(p)
  PROVE  \A r \in page[verdict'.conn].requests : r.answered => r.done
<1> DEFINE c == sess.ws
<1>1. /\ verdict'.conn = c /\ c \in Conns /\ sock[c].st = "open"
      /\ ~sess.captureLost /\ sess.requests = {} /\ sess.pending = NoPending
  BY PassSees DEF PassSeen
<1>2. Plain(up[c])
  BY <1>1, WhatHolds DEF Wired, Ordered
<1>3. SUFFICES ASSUME NEW r \in page[c].requests, r.answered, ~r.done
               PROVE  FALSE
  BY <1>1
<1>4. Pends(c, sess, r) \/ StartsFirst(up[c], r)
  BY <1>1, <1>3 DEF QuietInv, QuietOf
<1>5. ~Pends(c, sess, r)
  BY <1>1 DEF Pends
<1>6. ~StartsFirst(up[c], r)
  BY <1>2 DEF StartsFirst, Plain, TurnTypes
<1>7. QED BY <1>4, <1>5, <1>6

\* No verdict passes while a request that the page had started before it answered is
\* still open, whatever became of the frames about it.
THEOREM QuietPassHolds == ServiceSpec => QuietPass
<1> DEFINE Body == \A p \in Predicates : Passes(p) =>
                     \A r \in page[verdict'.conn].requests : r.answered => r.done
           Inv  == /\ TurnInv /\ Dated /\ RingInv /\ ReadInv /\ Books /\ SessionBooks
                   /\ QuietInv /\ Reached
<1>1. ServiceInit => Inv
  BY TurnInit, DatedInit, RingInit, ReadInit, BooksInit, PromisedInit, QuietInit, ReachedInit
<1>2. Inv /\ [ServiceNext]_serviceVars => Inv'
  BY TurnStep, DatedStep, RingStep, ReadStep, StepBooks, SessionBooksStep, QuietStep, ReachedStep
<1>3. Inv /\ [ServiceNext]_serviceVars => [Body]_serviceVars
  BY PassIsQuiet
<1>4. QED BY <1>1, <1>2, <1>3, PTL DEF ServiceSpec, QuietPass

-----------------------------------------------------------------------------
(* Where a console error is until the session knows of it. *)

\* A boundary is on the wire u before the frame at i.
Bounds(u, i) == \E j \in DOMAIN u : j < i /\ u[j].type = "boundary"

\* The action of the frame at i, when a is the session's and id the command's.
Acting(a, id, u, i) == IF Bounds(u, i) THEN id ELSE a

LastAct(a, id, u) == IF Holds(u, "boundary") THEN id ELSE a

\* The frame at i is of an error under action x.
Raises(a, id, u, i, x) == u[i].type = "console" /\ Acting(a, id, u, i) = x

Raised(a, id, u, x) == \E i \in DOMAIN u : Raises(a, id, u, i, x)

\* ... with the answer of the page after it.
RaisedFirst(a, id, u, x) == \E i, j \in DOMAIN u : i < j /\ Raises(a, id, u, i, x) /\ u[j].type = "result"

\* Session s has the error in its ring, or has noted that it may have lost it.
Known(c, s, x) ==
  /\ s.ws = c
  /\ \/ s.captureLost
     \/ \E t \in 1 .. s.cursor :
          /\ t > s.generationCursor /\ t > x
          /\ \/ t <= s.events.lastLoss
             \/ \E e \in LiveEvents(s.events) : e.t = t /\ e.type = "console" /\ e.act = x

Own(c, s) == IF s.ws = c THEN s.actionId ELSE 0

AbsentOf(c, s, p, u) ==
  /\ p.st # "gone" => p.actionId = LastAct(Own(c, s), s.pending.id, u)
  /\ \A e \in p.errors :
       /\ p.st # "gone" =>
            \/ Known(c, s, e.act) \/ Raised(Own(c, s), s.pending.id, u, e.act)
            \/ e.act = p.actionId /\ Holds(p.early, "console")
       /\ e.answered => Known(c, s, e.act) \/ RaisedFirst(Own(c, s), s.pending.id, u, e.act)

AbsentInv == \A c \in Conns : sock[c].st = "open" => AbsentOf(c, sess, page[c], up[c])

\* What frames t after those of u say of an error, in v.
Follows(a, id, u, t, v) ==
  /\ LastAct(a, id, v) = IF Holds(t, "boundary") THEN id ELSE LastAct(a, id, u)
  /\ \A x : /\ Raised(a, id, u, x) => Raised(a, id, v, x)
            /\ RaisedFirst(a, id, u, x) => RaisedFirst(a, id, v, x)
            /\ Raised(a, id, u, x) /\ Holds(t, "result") => RaisedFirst(a, id, v, x)
            /\ x = LastAct(a, id, u) /\ Holds(t, "console") /\ ~Holds(t, "boundary") => Raised(a, id, v, x)

LEMMA ConcatRaises ==
  ASSUME NEW u, IsList(u), NEW t, IsList(t), NEW a, NEW id
  PROVE  Follows(a, id, u, t, u \o t)
<1> DEFINE v == u \o t
           n == Len(u)
<1>1. LastAct(a, id, v) = IF Holds(t, "boundary") THEN id ELSE LastAct(a, id, u)
  BY ConcatHolds DEF LastAct
<1>2. n \in Nat /\ DOMAIN u = 1 .. n /\ Len(t) \in Nat /\ DOMAIN t = 1 .. Len(t)
  BY ListOf DEF IsList
<1>3. /\ \A i \in DOMAIN u : i \in DOMAIN v /\ v[i] = u[i]
      /\ \A i \in DOMAIN t : n + i \in DOMAIN v /\ v[n + i] = t[i]
  BY ListsExtend DEF Extends
<1>4. \A i \in DOMAIN v : \/ i \in DOMAIN u /\ v[i] = u[i]
                          \/ i - n \in DOMAIN t /\ i > n /\ v[i] = t[i - n] /\ i \in Nat
  <2>1. \A i \in DOMAIN v : \/ i \in DOMAIN u /\ v[i] = u[i]
                            \/ i - n \in DOMAIN t /\ i > n /\ v[i] = t[i - n]
    BY ConcatList
  <2>2. DOMAIN v \subseteq Nat
    BY ConcatList, ListOf DEF IsList
  <2>3. QED BY <2>1, <2>2
<1> HIDE DEF v, n
<1>5. ASSUME NEW i \in DOMAIN u
      PROVE  Bounds(v, i) <=> Bounds(u, i)
  BY <1>2, <1>3, <1>4 DEF Bounds
<1>6. ASSUME NEW i \in DOMAIN t, ~Holds(t, "boundary")
      PROVE  Bounds(v, n + i) <=> Holds(u, "boundary")
  <2>1. ASSUME NEW j \in DOMAIN v, v[j].type = "boundary"
        PROVE  Holds(u, "boundary")
    BY <1>4, <1>6, <2>1 DEF Holds
  <2>2. ASSUME NEW j \in DOMAIN u, u[j].type = "boundary"
        PROVE  Bounds(v, n + i)
    <3>1. j < n + i /\ j \in DOMAIN v /\ v[j].type = "boundary"
      BY <1>2, <1>3, <2>2
    <3>2. QED BY <3>1 DEF Bounds
  <2>3. QED BY <2>1, <2>2 DEF Bounds, Holds
<1>7. ASSUME NEW x, NEW i \in DOMAIN u, Raises(a, id, u, i, x)
      PROVE  i \in DOMAIN v /\ Raises(a, id, v, i, x)
  BY <1>3, <1>5, <1>7 DEF Raises, Acting
<1>8. ASSUME NEW x
      PROVE  /\ Raised(a, id, u, x) => Raised(a, id, v, x)
             /\ RaisedFirst(a, id, u, x) => RaisedFirst(a, id, v, x)
  BY <1>3, <1>7 DEF Raised, RaisedFirst
<1>9. ASSUME NEW x, Raised(a, id, u, x), Holds(t, "result")
      PROVE  RaisedFirst(a, id, v, x)
  <2>1. PICK i \in DOMAIN u : Raises(a, id, u, i, x)
    BY <1>9 DEF Raised
  <2>2. PICK j \in DOMAIN t : t[j].type = "result"
    BY <1>9 DEF Holds
  <2>3. i < n + j
    BY <1>2
  <2>4. QED BY <1>3, <1>7, <2>1, <2>2, <2>3 DEF RaisedFirst
<1>10. ASSUME NEW x, x = LastAct(a, id, u), Holds(t, "console"), ~Holds(t, "boundary")
       PROVE  Raised(a, id, v, x)
  <2>1. PICK i \in DOMAIN t : t[i].type = "console"
    BY <1>10 DEF Holds
  <2>2. Acting(a, id, v, n + i) = x
    BY <1>6, <1>10 DEF Acting, LastAct
  <2>3. QED BY <1>3, <2>1, <2>2 DEF Raised, Raises
<1>11. QED BY <1>1, <1>8, <1>9, <1>10 DEF Follows, v

\* Without a boundary on the wire, the command is of no account.
LEMMA NoBoundary ==
  ASSUME NEW a, NEW id, NEW other, NEW u, ~Holds(u, "boundary")
  PROVE  /\ LastAct(a, id, u) = LastAct(a, other, u)
         /\ \A x : /\ Raised(a, id, u, x) => Raised(a, other, u, x)
                   /\ RaisedFirst(a, id, u, x) => RaisedFirst(a, other, u, x)
<1>1. \A i : ~Bounds(u, i)
  BY DEF Bounds, Holds
<1>2. QED BY <1>1 DEF LastAct, Raised, RaisedFirst, Raises, Acting

\* The head of u is taken off: with a boundary, its action is the session's from here on.
LEMMA TailRaises ==
  ASSUME NEW u, IsList(u), u # <<>>, NEW a, NEW id, NEW b, b = (IF u[1].type = "boundary" THEN id ELSE a)
  PROVE  /\ LastAct(b, id, Tail(u)) = LastAct(a, id, u)
         /\ \A x : ~(u[1].type = "console" /\ a = x) =>
              /\ Raised(a, id, u, x) => Raised(b, id, Tail(u), x)
              /\ RaisedFirst(a, id, u, x) => RaisedFirst(b, id, Tail(u), x)
<1> DEFINE v == Tail(u)
<1>1. /\ \A i \in DOMAIN u \ {1} : i - 1 \in DOMAIN v /\ v[i - 1] = u[i]
      /\ DOMAIN u \subseteq Nat \ {0} /\ 1 \in DOMAIN u
  BY ListsExtend
<1>2. /\ DOMAIN v \subseteq Nat
      /\ \A i \in DOMAIN v : i + 1 \in DOMAIN u \ {1} /\ v[i] = u[i + 1]
  <2>1. IsList(v) /\ \A i \in DOMAIN v : i + 1 \in DOMAIN u /\ v[i] = u[i + 1]
    BY TailList
  <2>2. DOMAIN v \subseteq Nat \ {0}
    BY <2>1, ListOf DEF IsList
  <2>3. QED BY <2>1, <2>2
<1> HIDE DEF v
<1>3. ASSUME NEW i \in DOMAIN u \ {1}
      PROVE  Acting(b, id, v, i - 1) = Acting(a, id, u, i)
  <2>1. i \in Nat /\ i > 1
    BY <1>1
  <2>2. Bounds(u, i) <=> u[1].type = "boundary" \/ Bounds(v, i - 1)
    <3>1. ASSUME NEW j \in DOMAIN u, j < i, u[j].type = "boundary"
          PROVE  u[1].type = "boundary" \/ Bounds(v, i - 1)
      <4>1. CASE j = 1
        BY <3>1, <4>1
      <4>2. CASE j # 1
        <5>1. j - 1 \in DOMAIN v /\ j - 1 < i - 1 /\ v[j - 1] = u[j]
          BY <1>1, <2>1, <3>1, <4>2
        <5>2. QED BY <3>1, <5>1 DEF Bounds
      <4>3. QED BY <4>1, <4>2
    <3>2. u[1].type = "boundary" => Bounds(u, i)
      BY <1>1, <2>1 DEF Bounds
    <3>3. ASSUME NEW j \in DOMAIN v, j < i - 1, v[j].type = "boundary"
          PROVE  Bounds(u, i)
      <4>1. j + 1 \in DOMAIN u /\ j + 1 < i /\ u[j + 1] = v[j]
        BY <1>2, <2>1, <3>3
      <4>2. QED BY <3>3, <4>1 DEF Bounds
    <3>4. QED BY <3>1, <3>2, <3>3 DEF Bounds
  <2>3. QED BY <2>2 DEF Acting
<1>4. LastAct(b, id, v) = LastAct(a, id, u)
  <2>1. Holds(u, "boundary") <=> u[1].type = "boundary" \/ Holds(v, "boundary")
    BY <1>1, <1>2 DEF Holds
  <2>2. QED BY <2>1 DEF LastAct
<1>5. ~Bounds(u, 1)
  BY <1>1 DEF Bounds
<1>6. ASSUME NEW x, ~(u[1].type = "console" /\ a = x), NEW i \in DOMAIN u, Raises(a, id, u, i, x)
      PROVE  i # 1 /\ i - 1 \in DOMAIN v /\ Raises(b, id, v, i - 1, x)
  <2>1. i # 1
    BY <1>5, <1>6 DEF Raises, Acting
  <2>2. QED BY <1>1, <1>3, <1>6, <2>1 DEF Raises
<1>7. ASSUME NEW x, ~(u[1].type = "console" /\ a = x)
      PROVE  /\ Raised(a, id, u, x) => Raised(b, id, v, x)
             /\ RaisedFirst(a, id, u, x) => RaisedFirst(b, id, v, x)
  <2>1. Raised(a, id, u, x) => Raised(b, id, v, x)
    BY <1>6, <1>7 DEF Raised
  <2>2. ASSUME NEW i \in DOMAIN u, NEW j \in DOMAIN u, i < j, Raises(a, id, u, i, x), u[j].type = "result"
        PROVE  RaisedFirst(b, id, v, x)
    <3>1. i # 1 /\ i - 1 \in DOMAIN v /\ Raises(b, id, v, i - 1, x)
      BY <1>6, <1>7, <2>2
    <3>2. j # 1 /\ j - 1 \in DOMAIN v /\ v[j - 1].type = "result" /\ i - 1 < j - 1
      <4>1. i \in Nat \ {0} /\ j \in Nat \ {0}
        BY <1>1
      <4>2. j # 1
        BY <2>2, <4>1
      <4>3. QED BY <1>1, <2>2, <4>1, <4>2
    <3>3. QED BY <3>1, <3>2 DEF RaisedFirst
  <2>3. QED BY <2>1, <2>2 DEF RaisedFirst
<1>8. QED BY <1>4, <1>7 DEF v

-----------------------------------------------------------------------------
(* The documents. *)

\* A wire that carries nothing of a command has no boundary and no result.
LEMMA PlainIsQuiet ==
  ASSUME NEW u, Plain(u)
  PROVE  ~Holds(u, "boundary") /\ \A a, id, x : ~RaisedFirst(a, id, u, x)
BY DEF Plain, Holds, RaisedFirst, TurnTypes

\* The wire of another socket than the session's, or without a command, is plain.
LEMMA WireIsPlain ==
  ASSUME TurnInv, NEW c \in Conns, sock[c].st = "open", sess.ws # c \/ sess.pending = NoPending
  PROVE  Plain(up[c])
<1>1. Wired(c, sess, sock[c], page[c], up[c], down[c])
  BY WhatHolds
<1>2. QED BY <1>1 DEF Wired, Paired, Ordered

LEMMA WriteAbsent ==
  ASSUME TurnInv, AbsentInv, UNCHANGED sess, NEW c \in Conns, NEW p, NEW u,
         page' = [page EXCEPT ![c] = p], up' = [up EXCEPT ![c] = u],
         \A e \in Conns \ {c} : sock'[e] = sock[e],
         sock'[c].st = "open" => AbsentOf(c, sess, p, u)
  PROVE  AbsentInv'
<1>1. page = [e \in Conns |-> page[e]] /\ up = [e \in Conns |-> up[e]]
  BY DEF TurnInv, Shape
<1>2. page'[c] = p /\ up'[c] = u
  BY <1>1
<1>3. \A e \in Conns \ {c} : page'[e] = page[e] /\ up'[e] = up[e]
  BY <1>1
<1>4. SUFFICES ASSUME NEW e \in Conns, sock'[e].st = "open"
               PROVE  AbsentOf(e, sess, page'[e], up'[e])
  BY DEF AbsentInv
<1>5. CASE e = c
  BY <1>2, <1>4, <1>5
<1>6. CASE e # c
  BY <1>3, <1>4, <1>6 DEF AbsentInv
<1>7. QED BY <1>5, <1>6

LEMMA EmitAbsent ==
  ASSUME TurnInv, QuietInv, AbsentInv, UNCHANGED <<sess, sock>>, NEW c \in Conns, Watching(c),
         NEW p, IsRecord(p, DOMAIN NewPage), p.early = page[c].early, p.st = page[c].st,
         p.actionId = page[c].actionId, NEW m, m.type \in Observations, Emit(c, p, m),
         \A e \in p.errors :
           e \in page[c].errors \/ (~e.answered /\ m.type = "console" /\ e.act = page[c].actionId)
  PROVE  AbsentInv'
<1> DEFINE a  == Own(c, sess)
           id == sess.pending.id
           t  == <<m>>
<1>1. IsList(up[c]) /\ IsList(page[c].early) /\ page[c].st \in {"open", "ready"}
  BY WhatHolds DEF WireShape, Watching
<1>2. /\ IsList(t) /\ ~Holds(t, "boundary") /\ (m.type = "console" => Holds(t, "console"))
      /\ \A u : IsList(u) => Append(u, m) = u \o t
  <2>1. IsList(t) /\ ~Holds(t, "boundary") /\ (m.type = "console" => Holds(t, "console"))
    BY SingleList DEF Holds, Observations
  <2>2. ASSUME NEW u, IsList(u)
        PROVE  Append(u, m) = u \o t
    <3> DEFINE S == Range(u) \cup {m}
    <3>1. u \in Seq(Range(u)) /\ Range(u) \subseteq S /\ m \in S
      BY <2>2 DEF IsList
    <3> HIDE DEF S
    <3>2. u \in Seq(S)
      BY <3>1, SeqMonotonic
    <3>3. QED BY <3>1, <3>2, AppendIsConcat
  <2>3. QED BY <2>1, <2>2
<1>3. ASSUME sock[c].st = "open"
      PROVE  /\ page[c].actionId = LastAct(a, id, up[c])
             /\ \A e \in page[c].errors :
                  /\ \/ Known(c, sess, e.act) \/ Raised(a, id, up[c], e.act)
                     \/ e.act = page[c].actionId /\ Holds(page[c].early, "console")
                  /\ e.answered => Known(c, sess, e.act) \/ RaisedFirst(a, id, up[c], e.act)
  BY <1>1, <1>3 DEF AbsentInv, AbsentOf
<1>4. CASE p.st = "ready"
  <2> DEFINE u == Append(up[c], m)
  <2>1. page' = [page EXCEPT ![c] = p] /\ up' = [up EXCEPT ![c] = u]
    BY <1>4 DEF Emit, TurnInv, Shape
  <2>2. u = up[c] \o t
    BY <1>1, <1>2
  <2>3. /\ LastAct(a, id, u) = LastAct(a, id, up[c])
        /\ \A x : /\ Raised(a, id, up[c], x) => Raised(a, id, u, x)
                  /\ RaisedFirst(a, id, up[c], x) => RaisedFirst(a, id, u, x)
                  /\ x = LastAct(a, id, up[c]) /\ Holds(t, "console") => Raised(a, id, u, x)
    <3> HIDE DEF u, t, a, id
    <3>1. Follows(a, id, up[c], t, u)
      BY <1>1, <1>2, <2>2, ConcatRaises
    <3>2. QED BY <1>2, <3>1 DEF Follows
  <2>4. ASSUME sock[c].st = "open", page[c].early = <<>>
        PROVE  AbsentOf(c, sess, p, u)
    <3> HIDE DEF u, a, id, t
    <3>1. ~Holds(page[c].early, "console")
      BY <2>4, EmptyList DEF Holds
    <3>2. p.actionId = LastAct(a, id, u)
      BY <1>3, <2>3, <2>4
    <3>3. ASSUME NEW e \in p.errors
          PROVE  /\ Known(c, sess, e.act) \/ Raised(a, id, u, e.act)
                 /\ e.answered => Known(c, sess, e.act) \/ RaisedFirst(a, id, u, e.act)
      <4>1. CASE e \in page[c].errors
        BY <1>3, <2>3, <2>4, <3>1, <4>1
      <4>2. CASE ~e.answered /\ m.type = "console" /\ e.act = page[c].actionId
        BY <1>2, <1>3, <2>3, <2>4, <4>2
      <4>3. QED BY <4>1, <4>2
    <3>4. QED BY <3>2, <3>3 DEF AbsentOf, a, id
  <2>5. page[c].early = <<>>
    BY <1>4 DEF QuietInv, Blank
  <2> HIDE DEF u
  <2>6. QED BY <2>1, <2>4, <2>5, WriteAbsent
<1>5. CASE p.st # "ready"
  <2>1. PICK q \in {[p EXCEPT !.early = Append(p.early, m)], Leave(p)} :
          page' = [page EXCEPT ![c] = q] /\ up' = [up EXCEPT ![c] = up[c]]
    BY <1>5 DEF Emit, TurnInv, Shape
  <2>2. /\ q.errors = p.errors /\ q.actionId = p.actionId
        /\ q.st = "gone" \/ (q.st = "open" /\ q.early = page[c].early \o t)
    BY <1>1, <1>2, <1>5, <2>1 DEF IsRecord, NewPage, Leave
  <2> HIDE DEF a, id, t
  <2>3. /\ Holds(page[c].early, "console") => Holds(page[c].early \o t, "console")
        /\ Holds(t, "console") => Holds(page[c].early \o t, "console")
    BY <1>1, <1>2, ConcatHolds
  <2>4. ASSUME sock[c].st = "open"
        PROVE  AbsentOf(c, sess, q, up[c])
    <3>1. ASSUME NEW e \in q.errors
          PROVE  /\ q.st # "gone" =>
                      \/ Known(c, sess, e.act) \/ Raised(a, id, up[c], e.act)
                      \/ e.act = q.actionId /\ Holds(q.early, "console")
                 /\ e.answered => Known(c, sess, e.act) \/ RaisedFirst(a, id, up[c], e.act)
      <4>1. CASE e \in page[c].errors
        BY <1>3, <2>2, <2>3, <2>4, <4>1
      <4>2. CASE ~e.answered /\ m.type = "console" /\ e.act = page[c].actionId
        BY <1>2, <2>2, <2>3, <4>2
      <4>3. QED BY <2>2, <3>1, <4>1, <4>2
    <3>2. q.actionId = LastAct(a, id, up[c])
      BY <1>3, <2>2, <2>4
    <3>3. QED BY <3>1, <3>2 DEF AbsentOf, a, id
  <2>5. QED BY <2>1, <2>4, WriteAbsent
<1>6. QED BY <1>4, <1>5

LEMMA ObservationAbsent ==
  ASSUME TurnInv, QuietInv, AbsentInv, NEW c \in Conns,
         RaiseError(c) \/ StartRequest(c) \/ FinishRequest(c) \/ FailObserver(c)
  PROVE  AbsentInv'
<1> DEFINE S == page[c].errors
           Told(T, m) == \A e \in T : e \in S \/ (~e.answered /\ m.type = "console" /\ e.act = page[c].actionId)
<1>1. IsRecord(page[c], DOMAIN NewPage) /\ Watching(c) /\ UNCHANGED <<sess, sock>>
  BY WhatHolds DEF WireShape, RaiseError, StartRequest, FinishRequest, FailObserver
<1>2. ASSUME NEW f \in {"requests", "blind"}, NEW x, NEW m, m.type \in Observations, Emit(c, [page[c] EXCEPT ![f] = x], m)
      PROVE  AbsentInv'
  <2> DEFINE p == [page[c] EXCEPT ![f] = x]
  <2>1. /\ IsRecord(p, DOMAIN NewPage) /\ p.early = page[c].early /\ p.st = page[c].st
        /\ p.actionId = page[c].actionId /\ p.errors = S
    BY <1>1 DEF IsRecord, NewPage
  <2> HIDE DEF p
  <2>2. Emit(c, p, m)
    BY <1>2 DEF p
  <2>3. QED BY <1>1, <1>2, <2>1, <2>2, EmitAbsent
<1>3. ASSUME NEW T, NEW m, m.type \in Observations, Emit(c, [page[c] EXCEPT !["errors"] = T], m), Told(T, m)
      PROVE  AbsentInv'
  <2> DEFINE p == [page[c] EXCEPT !["errors"] = T]
  <2>1. /\ IsRecord(p, DOMAIN NewPage) /\ p.early = page[c].early /\ p.st = page[c].st
        /\ p.actionId = page[c].actionId /\ p.errors = T
    BY <1>1 DEF IsRecord, NewPage
  <2> HIDE DEF p
  <2>2. Emit(c, p, m)
    BY <1>3 DEF p
  <2>3. QED BY <1>1, <1>3, <2>1, <2>2, EmitAbsent
<1> HIDE DEF Told
<1>4. CASE RaiseError(c)
  <2> DEFINE e == [n |-> Cardinality(S) + 1, act |-> page[c].actionId, answered |-> FALSE]
             T == S \cup {e}
  <2>1. PICK large : Emit(c, [page[c] EXCEPT !["errors"] = T], [type |-> "console", large |-> large])
    BY <1>4 DEF RaiseError
  <2> DEFINE m == [type |-> "console", large |-> large]
  <2>2. m.type \in Observations /\ Told(T, m)
    BY DEF Told, Observations
  <2> HIDE DEF T, m
  <2>3. Emit(c, [page[c] EXCEPT !["errors"] = T], m)
    BY <2>1 DEF m
  <2>4. QED BY <1>3, <2>2, <2>3
<1>5. CASE FailObserver(c)
  <2> DEFINE m == [type |-> "observer"]
  <2>1. Emit(c, [page[c] EXCEPT !["blind"] = TRUE], m) /\ m.type \in Observations
    BY <1>5 DEF FailObserver, Observations
  <2> HIDE DEF m
  <2>2. QED BY <1>2, <2>1
<1>6. CASE StartRequest(c)
  <2>1. PICK x, rid, act : Emit(c, [page[c] EXCEPT !["requests"] = x], [type |-> "start", rid |-> rid, act |-> act])
    BY <1>6 DEF StartRequest
  <2> DEFINE m == [type |-> "start", rid |-> rid, act |-> act]
  <2>2. m.type \in Observations
    BY DEF Observations
  <2> HIDE DEF m
  <2>3. Emit(c, [page[c] EXCEPT !["requests"] = x], m)
    BY <2>1 DEF m
  <2>4. QED BY <1>2, <2>2, <2>3
<1>7. CASE FinishRequest(c)
  <2>1. PICK x, rid : Emit(c, [page[c] EXCEPT !["requests"] = x], [type |-> "network", rid |-> rid])
    BY <1>7 DEF FinishRequest
  <2> DEFINE m == [type |-> "network", rid |-> rid]
  <2>2. m.type \in Observations
    BY DEF Observations
  <2> HIDE DEF m
  <2>3. Emit(c, [page[c] EXCEPT !["requests"] = x], m)
    BY <2>1 DEF m
  <2>4. QED BY <1>2, <2>2, <2>3
<1>8. QED BY <1>4, <1>5, <1>6, <1>7

LEMMA DocumentAbsent ==
  ASSUME TurnInv, QuietInv, AbsentInv, NEW c \in Conns, Connect(c) \/ Open(c) \/ Ready(c) \/ PageGone(c)
  PROVE  AbsentInv'
<1>1. /\ IsRecord(page[c], DOMAIN NewPage) /\ IsList(up[c]) /\ IsList(page[c].early)
      /\ \A i \in DOMAIN page[c].early : page[c].early[i].type \in Observations
      /\ Blank(page[c]) /\ Wired(c, sess, sock[c], page[c], up[c], down[c])
  BY WhatHolds DEF WireShape, QuietInv
<1>2. sock = [e \in Conns |-> sock[e]] /\ UNCHANGED sess
  BY DEF TurnInv, Shape, Connect, Open, Ready, PageGone
<1>3. ASSUME NEW p, p.errors = {}, p.actionId = 0, NEW u, ~Holds(u, "boundary"), sess.ws # c
      PROVE  AbsentOf(c, sess, p, u)
  BY <1>3 DEF AbsentOf, Own, LastAct
<1>4. page[c].st \in {"idle", "dialing"} => up[c] = <<>> /\ sess.ws # c
  BY <1>1 DEF Wired, Paired
<1>5. ~Holds(<<>>, "boundary")
  BY EmptyList DEF Holds
<1>6. CASE Connect(c)
  <2>1. PICK p \in {[page[c] EXCEPT !.st = "dialing"], Leave(page[c])} : page' = [page EXCEPT ![c] = p]
    BY <1>6 DEF Connect, TurnInv, Shape
  <2>2. up' = [up EXCEPT ![c] = up[c]] /\ \A e \in Conns \ {c} : sock'[e] = sock[e]
    BY <1>2, <1>6 DEF Connect, TurnInv, Shape
  <2>3. page[c].st = "idle" /\ page[c].errors = {} /\ page[c].actionId = 0
    BY <1>1, <1>6 DEF Connect, Blank
  <2>4. p.errors = {} /\ p.actionId = 0
    BY <1>1, <2>1, <2>3 DEF IsRecord, NewPage, Leave
  <2>5. AbsentOf(c, sess, p, up[c])
    BY <1>3, <1>4, <1>5, <2>3, <2>4
  <2>6. QED BY <1>2, <2>1, <2>2, <2>5, WriteAbsent
<1>7. CASE Open(c)
  <2>1. PICK network \in BOOLEAN : up' = [up EXCEPT ![c] = <<[type |-> "hello", network |-> network]>>]
    BY <1>7 DEF Open
  <2> DEFINE p == [page[c] EXCEPT !.st = "open"]
             u == <<[type |-> "hello", network |-> network]>>
  <2>2. page' = [page EXCEPT ![c] = p] /\ up' = [up EXCEPT ![c] = u] /\ UNCHANGED sock
    BY <1>7, <2>1 DEF Open, TurnInv, Shape
  <2>3. p.errors = {} /\ p.actionId = 0 /\ page[c].st = "dialing"
    BY <1>1, <1>7 DEF Open, Blank, IsRecord, NewPage
  <2>4. ~Holds(u, "boundary")
    BY SingleList DEF Holds
  <2> HIDE DEF p, u
  <2>5. AbsentOf(c, sess, p, u)
    BY <1>3, <1>4, <2>3, <2>4
  <2>6. QED BY <1>2, <2>2, <2>5, WriteAbsent
<1>8. CASE Ready(c)
  <2> DEFINE t == page[c].early
             p == [page[c] EXCEPT !.st = "ready", !.early = <<>>]
             u == up[c] \o t
             a == Own(c, sess)
             id == sess.pending.id
  <2>1. page' = [page EXCEPT ![c] = p] /\ up' = [up EXCEPT ![c] = u] /\ UNCHANGED sock
    BY <1>8 DEF Ready, TurnInv, Shape
  <2>2. p.errors = page[c].errors /\ p.actionId = page[c].actionId /\ page[c].st = "open"
    BY <1>1, <1>8 DEF Ready, IsRecord, NewPage
  <2>3. ~Holds(t, "boundary")
    BY <1>1 DEF Holds, Observations
  <2> HIDE DEF p, u, a, id, t
  <2>4. Follows(a, id, up[c], t, u)
    BY <1>1, ConcatRaises DEF u, t
  <2>5. ASSUME sock[c].st = "open"
        PROVE  AbsentOf(c, sess, p, u)
    <3>1. page[c].actionId = LastAct(a, id, up[c])
      BY <2>2, <2>5 DEF AbsentInv, AbsentOf, a, id
    <3>2. ASSUME NEW e \in page[c].errors
          PROVE  /\ Known(c, sess, e.act) \/ Raised(a, id, u, e.act)
                 /\ e.answered => Known(c, sess, e.act) \/ RaisedFirst(a, id, u, e.act)
      <4>1. /\ \/ Known(c, sess, e.act) \/ Raised(a, id, up[c], e.act)
               \/ e.act = page[c].actionId /\ Holds(t, "console")
            /\ e.answered => Known(c, sess, e.act) \/ RaisedFirst(a, id, up[c], e.act)
        BY <2>2, <2>5, <3>2 DEF AbsentInv, AbsentOf, a, id, t
      <4>2. QED BY <2>3, <2>4, <3>1, <4>1 DEF Follows
    <3>3. p.actionId = LastAct(a, id, u)
      BY <2>2, <2>3, <2>4, <3>1 DEF Follows
    <3>4. QED BY <2>2, <3>2, <3>3 DEF AbsentOf, a, id
  <2>6. QED BY <1>2, <2>1, <2>5, WriteAbsent
<1>9. CASE PageGone(c)
  <2> DEFINE p == Leave(page[c])
  <2>1. page' = [page EXCEPT ![c] = p] /\ up' = [up EXCEPT ![c] = up[c]] /\ UNCHANGED sock
    BY <1>9 DEF PageGone, TurnInv, Shape
  <2>2. p.errors = page[c].errors /\ p.st = "gone"
    BY <1>1 DEF Leave, IsRecord, NewPage
  <2> HIDE DEF p
  <2>3. ASSUME sock[c].st = "open"
        PROVE  AbsentOf(c, sess, p, up[c])
    BY <2>2, <2>3 DEF AbsentInv, AbsentOf
  <2>4. QED BY <1>2, <2>1, <2>3, WriteAbsent
<1>10. QED BY <1>6, <1>7, <1>8, <1>9

\* The page is ready only once the session is paired with its socket, and what it
\* answers is the pending command.
LEMMA ExecuteOwn ==
  ASSUME TurnInv, NEW c \in Conns, Execute(c), sock[c].st = "open"
  PROVE  Head(down[c]).id = sess.pending.id
<1>1. /\ page[c].st = "ready" /\ down[c] # <<>> /\ IsList(down[c])
      /\ Wired(c, sess, sock[c], page[c], up[c], down[c])
  BY WhatHolds DEF Execute, WireShape
<1>2. Head(down[c]) = down[c][1] /\ 1 \in DOMAIN down[c]
  BY <1>1, TailList
<1>3. Ordered(sess, page[c], up[c], down[c])
  BY <1>1 DEF Wired, Paired
<1>4. down[c][1].type = "command"
  BY <1>1, <1>2, <1>3 DEF Ordered
<1>5. down[c][1].id = sess.pending.id
  BY <1>2, <1>3, <1>4 DEF Ordered, Plain, OneCommand, TurnTypes
<1>6. QED BY <1>2, <1>5

LEMMA ExecuteAbsent ==
  ASSUME TurnInv, Books, QuietInv, AbsentInv, NEW c \in Conns, Execute(c)
  PROVE  AbsentInv'
<1> DEFINE S == page[c].errors
           a == Own(c, sess)
           id == sess.pending.id
<1>1. PICK q, t : Executes(c, q, t)
  BY ExecuteIs
<1>2. /\ IsList(up[c]) /\ IsList(t) /\ page[c].st = "ready" /\ page[c].early = <<>>
      /\ UNCHANGED <<sess, sock>>
  BY <1>1, WhatHolds DEF WireShape, Executes, Execute, QuietInv, Blank
<1> DEFINE u == up[c] \o t
<1>3. page' = [page EXCEPT ![c] = q] /\ up' = [up EXCEPT ![c] = u]
  BY <1>1 DEF Executes
<1>4. ~Holds(page[c].early, "console")
  BY <1>2, EmptyList DEF Holds
<1> HIDE DEF u, a, id, S
<1>5. Follows(a, id, up[c], t, u)
  BY <1>2, ConcatRaises DEF u
<1>6. CASE Fades(page[c], q)
  <2>1. ASSUME sock[c].st = "open"
        PROVE  AbsentOf(c, sess, q, u)
    BY <1>2, <1>5, <1>6, <2>1 DEF Fades, AbsentInv, AbsentOf, Follows, a, id
  <2>2. QED BY <1>2, <1>3, <2>1, WriteAbsent
<1>7. CASE Answers(page[c], Head(down[c]), q, t)
  <2>1. /\ q.st = "ready" /\ q.early = <<>> /\ q.errors = Answered(S) /\ Holds(t, "result")
    BY <1>2, <1>7 DEF Answers, S
  <2>2. ASSUME sock[c].st = "open"
        PROVE  q.actionId = LastAct(a, id, u)
    <3>1. Head(down[c]).id = id
      BY <2>2, ExecuteOwn DEF id
    <3>2. page[c].actionId = LastAct(a, id, up[c])
      BY <1>2, <2>2 DEF AbsentInv, AbsentOf, a, id
    <3>3. QED BY <1>5, <1>7, <3>1, <3>2 DEF Answers, Follows
  <2>3. ASSUME sock[c].st = "open", NEW e \in q.errors
        PROVE  /\ Known(c, sess, e.act) \/ Raised(a, id, u, e.act)
               /\ Known(c, sess, e.act) \/ RaisedFirst(a, id, u, e.act)
    <3>1. PICK x \in S : e = [x EXCEPT !.answered = TRUE]
      BY <2>1, <2>3 DEF Answered
    <3>2. e.act = x.act
      BY <3>1
    <3>3. Known(c, sess, x.act) \/ Raised(a, id, up[c], x.act)
      BY <1>2, <1>4, <2>3 DEF AbsentInv, AbsentOf, a, id, S
    <3>4. QED BY <1>5, <2>1, <3>2, <3>3 DEF Follows
  <2>4. sock[c].st = "open" => AbsentOf(c, sess, q, u)
    BY <2>1, <2>2, <2>3 DEF AbsentOf, a, id
  <2>5. QED BY <1>2, <1>3, <2>4, WriteAbsent
<1>8. QED BY <1>1, <1>6, <1>7 DEF Executes

-----------------------------------------------------------------------------
(* The daemon. *)

\* What was known of the errors of c is still known, or still under way.
Telling(c) ==
  /\ LastAct(Own(c, sess'), sess'.pending.id, up'[c]) = LastAct(Own(c, sess), sess.pending.id, up[c])
  /\ \A x :
       /\ Known(c, sess, x) => Known(c, sess', x)
       /\ Raised(Own(c, sess), sess.pending.id, up[c], x) =>
            Known(c, sess', x) \/ Raised(Own(c, sess'), sess'.pending.id, up'[c], x)
       /\ RaisedFirst(Own(c, sess), sess.pending.id, up[c], x) =>
            Known(c, sess', x) \/ RaisedFirst(Own(c, sess'), sess'.pending.id, up'[c], x)

LEMMA DaemonAbsent ==
  ASSUME AbsentInv, UNCHANGED page,
         \A c \in Conns : sock'[c].st = "open" => sock[c].st = "open" /\ Telling(c)
  PROVE  AbsentInv'
<1>1. SUFFICES ASSUME NEW c \in Conns, sock'[c].st = "open"
               PROVE  AbsentOf(c, sess', page[c], up'[c])
  BY DEF AbsentInv
<1>2. Telling(c) /\ AbsentOf(c, sess, page[c], up[c])
  BY <1>1 DEF AbsentInv
<1>3. QED BY <1>2 DEF AbsentOf, Telling

\* What is known stays known while the session goes on in its generation.
LEMMA KnownGrows ==
  ASSUME NEW s, SessionShape(s), RingSound(s.events, s.cursor), NEW u, NEW X, Adds(s, u, X),
         u.captureLost = s.captureLost \/ u.captureLost = TRUE, NEW c, NEW x, Known(c, s, x)
  PROVE  Known(c, u, x)
<1>1. u.ws = c /\ u.generationCursor = s.generationCursor
  BY DEF Known, Adds
<1>2. CASE s.captureLost
  BY <1>1, <1>2 DEF Known
<1>3. CASE ~s.captureLost
  <2>1. PICK t \in 1 .. s.cursor :
          /\ t > s.generationCursor /\ t > x
          /\ \/ t <= s.events.lastLoss
             \/ \E e \in LiveEvents(s.events) : e.t = t /\ e.type = "console" /\ e.act = x
    BY <1>3 DEF Known
  <2>2. /\ s.cursor \in Nat /\ u.cursor \in Nat /\ s.cursor <= u.cursor
        /\ s.events.lastLoss \in Nat /\ u.events.lastLoss \in Nat /\ s.events.lastLoss <= u.events.lastLoss
    BY DEF SessionShape, Adds, Grows, RingSound, RingOrder
  <2>3. t \in 1 .. u.cursor
    BY <2>2
  <2>4. \/ t <= u.events.lastLoss
        \/ \E e \in LiveEvents(u.events) : e.t = t /\ e.type = "console" /\ e.act = x
    <3>1. CASE t <= s.events.lastLoss
      BY <2>2, <3>1
    <3>2. CASE \E e \in LiveEvents(s.events) : e.t = t /\ e.type = "console" /\ e.act = x
      BY <3>2 DEF Adds, Grows
    <3>3. QED BY <2>1, <3>1, <3>2
  <2>5. QED BY <1>1, <2>1, <2>3, <2>4 DEF Known
<1>4. QED BY <1>2, <1>3

\* A socket that is open, of another session or of none, has nothing the session acts on.
LEMMA Elsewhere ==
  ASSUME TurnInv, NEW c \in Conns, sock[c].st = "open", sess.ws # c, sess'.ws # c, up'[c] = up[c]
  PROVE  Telling(c)
<1> DEFINE u == up[c]
<1>1. Own(c, sess) = 0 /\ Own(c, sess') = 0 /\ \A x : ~Known(c, sess, x)
  BY DEF Own, Known
<1>2. ~Holds(u, "boundary")
  BY WireIsPlain, PlainIsQuiet
<1> HIDE DEF u
<1>3. /\ LastAct(0, sess.pending.id, u) = LastAct(0, sess'.pending.id, u)
      /\ \A x : /\ Raised(0, sess.pending.id, u, x) => Raised(0, sess'.pending.id, u, x)
                /\ RaisedFirst(0, sess.pending.id, u, x) => RaisedFirst(0, sess'.pending.id, u, x)
  BY <1>2, NoBoundary
<1>4. QED BY <1>1, <1>3 DEF Telling, u

LEMMA AcceptTells ==
  ASSUME TurnInv, RingInv, NEW c \in Conns, sess.ws = c, sock[c].st = "open", NEW m, AcceptsAs(c, m)
  PROVE  Telling(c)
<1> DEFINE u == up[c]
           v == Tail(u)
           a == sess.actionId
           id == sess.pending.id
           b == IF m.type = "boundary" THEN id ELSE a
<1>1. /\ IsList(u) /\ u # <<>> /\ m = u[1] /\ 1 \in DOMAIN u /\ up'[c] = v
      /\ SessionShape(sess) /\ RingSound(sess.events, sess.cursor)
      /\ Wired(c, sess, sock[c], page[c], up[c], down[c])
  <2>1. IsList(u) /\ u # <<>> /\ m = Head(u) /\ up' = [up EXCEPT ![c] = v]
    BY WhatHolds DEF WireShape, AcceptsAs
  <2>2. m = u[1] /\ 1 \in DOMAIN u
    BY <2>1, TailList
  <2>3. QED BY <2>1, <2>2, WhatHolds DEF TurnInv, Shape, RingInv
<1>2. PICK X : Adds(sess, sess', X)
  BY AddsKeepsRing
<1>3. sess'.ws = c /\ sess'.actionId = b /\ (sess'.captureLost = sess.captureLost \/ sess'.captureLost = TRUE)
  <2>1. sess'.ws = c
    BY <1>2 DEF Adds
  <2>2. CASE m.type \in Observations
    BY <2>1, <2>2 DEF AcceptsAs, LosesAuthority, Records, Observations
  <2>3. CASE m.type \notin Observations
    <3>1. Marks(sess, m, sess')
      BY <2>3 DEF AcceptsAs
    <3>2. m.type = "boundary" => m.id = id
      BY DEF AcceptsAs, Refused, Boundary
    <3>3. QED BY <2>1, <3>1, <3>2 DEF Marks
  <2>4. QED BY <2>2, <2>3
<1>4. ASSUME m.type = "result"
      PROVE  ~Holds(v, "boundary")
  <2>1. sess.pending # NoPending
    BY <1>4 DEF AcceptsAs, Refused
  <2>2. OneAnswer(u, id)
    BY <1>1, <2>1 DEF Wired, Ordered
  <2>3. \A i \in DOMAIN v : i + 1 \in DOMAIN u /\ v[i] = u[i + 1] /\ 1 < i + 1
    <3>1. IsList(v) /\ \A i \in DOMAIN v : i + 1 \in DOMAIN u /\ v[i] = u[i + 1]
      BY <1>1, TailList
    <3>2. DOMAIN v \subseteq Nat \ {0}
      BY <3>1, ListOf DEF IsList
    <3>3. QED BY <3>1, <3>2
  <2> HIDE DEF u, v, id
  <2>4. QED BY <1>1, <1>4, <2>2, <2>3 DEF OneAnswer, Holds, TurnTypes
<1>5. Known(c, sess', a) \/ m.type # "console"
  <2>1. CASE m.type = "console" /\ LosesAuthority(sess, sess')
    BY <1>3, <2>1 DEF LosesAuthority, Known
  <2>2. CASE m.type = "console" /\ Records(sess, m, sess')
    <3>1. PICK e : Adds(sess, sess', {e}) /\ e = [t |-> sess'.cursor, type |-> m.type, act |-> e.act, rid |-> e.rid]
                    /\ e.act = a
      BY <2>2 DEF Records
    <3>2. e.t = sess'.cursor /\ e.type = "console" /\ e.act = a
      BY <2>2, <3>1
    <3>3. e \in LiveEvents(sess'.events) /\ sess'.cursor \in Nat /\ sess.cursor < e.t
          /\ sess'.generationCursor = sess.generationCursor
      BY <3>1 DEF Adds, Grows
    <3>4. sess.cursor \in Nat /\ a \in 0 .. sess.cursor /\ sess.generationCursor \in 0 .. sess.cursor
      BY <1>1 DEF SessionShape
    <3> DEFINE t == sess'.cursor
    <3>5. t \in 1 .. sess'.cursor /\ t > sess'.generationCursor /\ t > a
      BY <3>2, <3>3, <3>4
    <3> HIDE DEF t, a
    <3>6. e \in LiveEvents(sess'.events) /\ e.t = t /\ e.type = "console" /\ e.act = a
      BY <3>2, <3>3 DEF t
    <3>7. QED BY <1>3, <3>5, <3>6 DEF Known
  <2>3. m.type = "console" => LosesAuthority(sess, sess') \/ Records(sess, m, sess')
    BY DEF AcceptsAs, Observations
  <2>4. QED BY <2>1, <2>2, <2>3
<1>6. ASSUME NEW x, Known(c, sess, x)
      PROVE  Known(c, sess', x)
  BY <1>1, <1>2, <1>3, <1>6, KnownGrows
<1> DEFINE other == sess'.pending.id
<1>7. m.type # "result" => other = id
  BY DEF AcceptsAs
<1> HIDE DEF u, v, a, b, id, other
<1>8. /\ LastAct(b, id, v) = LastAct(a, id, u)
      /\ \A x : ~(u[1].type = "console" /\ a = x) =>
           /\ Raised(a, id, u, x) => Raised(b, id, v, x)
           /\ RaisedFirst(a, id, u, x) => RaisedFirst(b, id, v, x)
  <2>1. b = IF u[1].type = "boundary" THEN id ELSE a
    BY <1>1 DEF b
  <2>2. QED BY <1>1, <2>1, TailRaises DEF v
<1>9. /\ LastAct(b, id, v) = LastAct(b, other, v)
      /\ \A x : /\ Raised(b, id, v, x) => Raised(b, other, v, x)
                /\ RaisedFirst(b, id, v, x) => RaisedFirst(b, other, v, x)
  <2>1. CASE m.type = "result"
    BY <1>4, <2>1, NoBoundary
  <2>2. CASE m.type # "result"
    BY <1>7, <2>2
  <2>3. QED BY <2>1, <2>2
<1>10. LastAct(b, other, v) = LastAct(a, id, u)
  BY <1>8, <1>9
<1>11. ASSUME NEW x
       PROVE  /\ Raised(a, id, u, x) => Known(c, sess', x) \/ Raised(b, other, v, x)
              /\ RaisedFirst(a, id, u, x) => Known(c, sess', x) \/ RaisedFirst(b, other, v, x)
  <2>1. CASE u[1].type = "console" /\ a = x
    BY <1>1, <1>5, <2>1
  <2>2. CASE ~(u[1].type = "console" /\ a = x)
    BY <1>8, <1>9, <2>2
  <2>3. QED BY <2>1, <2>2
<1>12. Own(c, sess) = a /\ Own(c, sess') = b
  BY <1>3 DEF Own, a
<1>13. QED BY <1>1, <1>6, <1>10, <1>11, <1>12 DEF Telling, u, v, id, other

\* The hello of c begins with no action, as its document has.
LEMMA GreetTells ==
  ASSUME TurnInv, NEW c \in Conns, sock[c].st = "open", Greets(c)
  PROVE  Telling(c)
<1> DEFINE u == up[c]
           id == sess.pending.id
           other == sess'.pending.id
<1>1. /\ IsList(u) /\ u # <<>> /\ u[1].type = "hello" /\ up'[c] = Tail(u) /\ sess.ws # c
  <2>1. IsList(u) /\ u # <<>> /\ Head(u).type = "hello" /\ up' = [up EXCEPT ![c] = Tail(u)] /\ sess.ws # c
    BY WhatHolds, BridgeAssumption DEF WireShape, Greets, Conns
  <2>2. Head(u) = u[1]
    BY <2>1, TailList
  <2>3. QED BY <2>1, <2>2 DEF TurnInv, Shape
<1>2. Own(c, sess) = 0 /\ Own(c, sess') = 0 /\ \A x : ~Known(c, sess, x)
  BY <1>1 DEF Own, Known, Greets, Begins
<1>3. ~Holds(Tail(u), "boundary")
  <2>1. ~Holds(u, "boundary")
    BY <1>1, WireIsPlain, PlainIsQuiet
  <2>2. QED BY <1>1, <2>1, TailList DEF Holds
<1> HIDE DEF u, id, other
<1>4. /\ LastAct(0, id, Tail(u)) = LastAct(0, id, u)
      /\ \A x : /\ Raised(0, id, u, x) => Raised(0, id, Tail(u), x)
                /\ RaisedFirst(0, id, u, x) => RaisedFirst(0, id, Tail(u), x)
  <2>1. 0 = IF u[1].type = "boundary" THEN id ELSE 0
    BY <1>1
  <2>2. QED BY <1>1, <2>1, TailRaises
<1>5. /\ LastAct(0, id, Tail(u)) = LastAct(0, other, Tail(u))
      /\ \A x : /\ Raised(0, id, Tail(u), x) => Raised(0, other, Tail(u), x)
                /\ RaisedFirst(0, id, Tail(u), x) => RaisedFirst(0, other, Tail(u), x)
  BY <1>3, NoBoundary
<1>6. QED BY <1>1, <1>2, <1>4, <1>5 DEF Telling, u, id, other

LEMMA IdleTells ==
  ASSUME TurnInv, RingInv, NEW c \in Conns, sock[c].st = "open", Lasts
  PROVE  Telling(c)
<1>1. up'[c] = up[c] /\ SessionShape(sess) /\ c # 0
  BY BridgeAssumption DEF Lasts, TurnInv, Shape, Conns
<1>2. CASE sess.ws # c
  BY <1>1, <1>2, Elsewhere DEF Lasts, Idles
<1>3. CASE sess.ws = c
  <2> DEFINE u == up[c]
             a == sess.actionId
             id == sess.pending.id
             other == sess'.pending.id
  <2>1. Idles /\ (sess.pending = NoPending \/ sess'.pending = sess.pending)
    BY <1>1, <1>3 DEF Lasts
  <2>2. Own(c, sess) = a /\ Own(c, sess') = a
    BY <1>3, <2>1 DEF Own, Idles, Steady
  <2>3. ASSUME NEW x, Known(c, sess, x)
        PROVE  Known(c, sess', x)
    <3>1. Adds(sess, sess', {})
      <4>1. RingSound(sess.events, sess.cursor) /\ RingSound(sess'.events, sess'.cursor)
        BY <2>1, RingLater DEF RingInv, Idles, Steady
      <4>2. Grows(sess.events, sess'.events, {})
        BY <2>1, <4>1, NothingAdded DEF Idles, Steady
      <4>3. QED BY <2>1, <4>1, <4>2 DEF Adds, Idles, Steady
    <3>2. QED BY <1>1, <2>1, <2>3, <3>1, KnownGrows DEF RingInv, Idles, Steady
  <2>4. sess.pending = NoPending => ~Holds(u, "boundary")
    BY WireIsPlain, PlainIsQuiet
  <2>5. sess.pending # NoPending => other = id
    BY <2>1
  <2> HIDE DEF u, a, id, other
  <2>6. /\ LastAct(a, id, u) = LastAct(a, other, u)
        /\ \A x : /\ Raised(a, id, u, x) => Raised(a, other, u, x)
                  /\ RaisedFirst(a, id, u, x) => RaisedFirst(a, other, u, x)
    <3>1. CASE sess.pending = NoPending
      BY <2>4, <3>1, NoBoundary
    <3>2. CASE sess.pending # NoPending
      BY <2>5, <3>2
    <3>3. QED BY <3>1, <3>2
  <2>7. QED BY <1>1, <2>2, <2>3, <2>6 DEF Telling, u, id, other
<1>4. QED BY <1>2, <1>3

LEMMA AbsentStep ==
  ASSUME TurnInv, Dated, RingInv, Books, QuietInv, AbsentInv, [ServiceNext]_serviceVars
  PROVE  AbsentInv'
<1>1. up = [e \in Conns |-> up[e]] /\ 0 \notin Conns
  BY BridgeAssumption DEF TurnInv, Shape, Conns
<1>2. ASSUME NEW c \in Conns, Acts(c)
      PROVE  AbsentInv'
  BY <1>2, DocumentAbsent, ExecuteAbsent, ObservationAbsent DEF Acts
<1>3. ASSUME NEW c \in Conns, Cuts(c)
      PROVE  AbsentInv'
  <2>1. ASSUME NEW e \in Conns, sock'[e].st = "open"
        PROVE  sock[e].st = "open" /\ Telling(e)
    <3>1. e # c /\ up'[e] = up[e] /\ sock[e].st = "open"
      BY <1>3, <2>1 DEF Cuts
    <3>2. CASE sess' = sess
      BY <3>1, <3>2 DEF Telling
    <3>3. CASE sess' # sess
      <4>1. sess.ws = c /\ sess'.ws # e
        <5>1. sess.ws = c /\ (sess'.ws = 0 \/ Abandons)
          BY <1>3, <3>3 DEF Cuts
        <5>2. Abandons => sess'.ws = sess.ws
          BY FieldsAre DEF Abandons, Abandon, TurnInv, Shape, SessionShape
        <5>3. QED BY <1>1, <3>1, <5>1, <5>2
      <4>2. QED BY <3>1, <4>1, Elsewhere
    <3>4. QED BY <3>1, <3>2, <3>3
  <2>2. UNCHANGED page
    BY <1>3 DEF Cuts
  <2>3. QED BY <2>1, <2>2, DaemonAbsent
<1>4. ASSUME NEW c \in Conns, Greets(c)
      PROVE  AbsentInv'
  <2>1. ASSUME NEW e \in Conns, sock'[e].st = "open"
        PROVE  sock[e].st = "open" /\ Telling(e)
    <3>1. sock[e].st = "open"
      BY <1>4, <2>1 DEF Greets
    <3>2. CASE e = c
      BY <1>4, <3>1, <3>2, GreetTells
    <3>3. CASE e # c
      <4>1. up'[e] = up[e] /\ sess.ws # e /\ sess'.ws # e
        BY <1>1, <1>4, <3>3 DEF Greets, Begins
      <4>2. QED BY <3>1, <4>1, Elsewhere
    <3>4. QED BY <3>1, <3>2, <3>3
  <2>2. UNCHANGED page
    BY <1>4 DEF Greets
  <2>3. QED BY <2>1, <2>2, DaemonAbsent
<1>5. ASSUME NEW c \in Conns, sess.ws = c, NEW m, AcceptsAs(c, m)
      PROVE  AbsentInv'
  <2>1. UNCHANGED <<page, sock>> /\ up' = [up EXCEPT ![c] = Tail(@)] /\ sess'.ws = c
    <3>1. \E X : Adds(sess, sess', X)
      BY <1>5, AddsKeepsRing
    <3>2. QED BY <1>5, <3>1 DEF AcceptsAs, Adds
  <2>2. ASSUME NEW e \in Conns, sock[e].st = "open"
        PROVE  Telling(e)
    <3>1. CASE e = c
      BY <1>5, <2>2, <3>1, AcceptTells
    <3>2. CASE e # c
      <4>1. up'[e] = up[e]
        BY <1>1, <2>1, <3>2
      <4>2. QED BY <1>5, <2>1, <2>2, <3>2, <4>1, Elsewhere
    <3>3. QED BY <3>1, <3>2
  <2>3. QED BY <2>1, <2>2, DaemonAbsent
<1>6. CASE Lasts
  <2>1. UNCHANGED <<page, sock>>
    BY <1>6 DEF Lasts
  <2>2. QED BY <1>6, <2>1, IdleTells, DaemonAbsent
<1>7. QED BY <1>2, <1>3, <1>4, <1>5, <1>6, SocketSteps

LEMMA AbsentInit == ServiceInit => AbsentInv
<1> SUFFICES ASSUME ServiceInit
             PROVE  AbsentInv
  OBVIOUS
<1>1. \A c \in Conns : sock[c].st = "none"
  BY DEF ServiceInit, BridgeInit, NewSock
<1>2. QED BY <1>1 DEF AbsentInv

\* A check for errors that passes saw none in its window, and that window is all
\* that the answered document had raised in it.
LEMMA PassIsAbsent ==
  ASSUME TurnInv, RingInv, AbsentInv, Reached, ReadInv, [ServiceNext]_serviceVars, Passes("absent")
  PROVE  \A e \in Within(page[verdict'.conn].errors) : ~e.answered
<1> DEFINE c == sess.ws
<1>1. PassSeen /\ verdict'.predicate = "absent"
  BY PassSees DEF Passes
<1>2. /\ verdict'.conn = c /\ c \in Conns /\ sock[c].st = "open" /\ Head(caller.steps) = "absent"
      /\ ~sess.captureLost /\ sess.pending = NoPending
      /\ verdict'.since = caller.since /\ verdict'.actionId = caller.actionId
      /\ caller.phase = "round" /\ (Evaluate = "pass" \/ caller.latest = "pass")
  BY <1>1 DEF PassSeen
<1>3. /\ caller.since \in Nat /\ caller.actionId \in Nat /\ caller.latest # "pass"
  BY <1>2 DEF ReadInv, Late, Undecided
<1>4. ~Impaired /\ Seen("console") = {}
  BY <1>2, <1>3 DEF Evaluate, EvaluateAbsent
<1>5. ~LostSince(sess.events, caller.since + 1)
  BY <1>4 DEF Impaired, Complete
<1>6. SUFFICES ASSUME NEW e \in Within(page[c].errors), e.answered
               PROVE  FALSE
  BY <1>2
<1>7. /\ e \in page[c].errors /\ caller.actionId \in {0, e.act}
      /\ caller.since <= Max({caller.actionId, sess.generationCursor})
  BY <1>2, <1>6 DEF Within
<1>8. Known(c, sess, e.act)
  <2>1. Known(c, sess, e.act) \/ RaisedFirst(Own(c, sess), sess.pending.id, up[c], e.act)
    BY <1>2, <1>6, <1>7 DEF AbsentInv, AbsentOf
  <2>2. ~RaisedFirst(Own(c, sess), sess.pending.id, up[c], e.act)
    BY <1>2, WireIsPlain, PlainIsQuiet
  <2>3. QED BY <2>1, <2>2
<1>9. PICK t \in 1 .. sess.cursor :
        /\ t > sess.generationCursor /\ t > e.act
        /\ \/ t <= sess.events.lastLoss
           \/ \E o \in LiveEvents(sess.events) : o.t = t /\ o.type = "console" /\ o.act = e.act
  BY <1>2, <1>8 DEF Known
<1>10. sess.cursor \in Nat /\ sess.generationCursor \in Nat /\ RingSound(sess.events, sess.cursor)
       /\ sess.events.lastLoss \in Nat
  <2>1. sess.cursor \in Nat /\ sess.generationCursor \in Nat
    BY DEF TurnInv, Shape, SessionShape
  <2>2. RingSound(sess.events, sess.cursor)
    BY DEF RingInv
  <2>3. QED BY <2>1, <2>2 DEF RingSound, RingOrder
<1>11. t > caller.since
  <2> DEFINE k == caller.actionId
             g == sess.generationCursor
  <2>1. \E x \in {k, g} : \A y \in {k, g} : x >= y
    <3>1. CASE k <= g
      BY <1>3, <1>10, <3>1
    <3>2. CASE ~(k <= g)
      BY <1>3, <1>10, <3>2
    <3>3. QED BY <3>1, <3>2
  <2>2. Max({k, g}) \in {k, g}
    BY <2>1 DEF Max
  <2>3. t > k
    <3>1. CASE k = 0
      BY <1>9, <1>10, <3>1
    <3>2. CASE k = e.act
      BY <1>9, <3>2
    <3>3. QED BY <1>7, <3>1, <3>2
  <2>4. QED BY <1>3, <1>7, <1>9, <1>10, <2>2, <2>3
<1>12. ~(t <= sess.events.lastLoss)
  BY <1>3, <1>5, <1>10, <1>11 DEF LostSince
<1>13. PICK o \in LiveEvents(sess.events) : o.t = t /\ o.type = "console" /\ o.act = e.act
  BY <1>9, <1>12
<1>14. o \in Observed(sess, caller.since)
  <2>1. Observed(sess, caller.since) = {x \in LiveEvents(sess.events) : x.t > caller.since}
    BY <1>3, <1>10, ObservedIs
  <2>2. QED BY <1>11, <1>13, <2>1
<1>15. o \in Seen("console")
  BY <1>7, <1>13, <1>14 DEF Seen, Relevant
<1>16. QED BY <1>4, <1>15

\* A check for no console error passes only if the page had raised none in its window
\* when it answered: a queued, unsent, lost, evicted or oversized error, or one of
\* another document, never becomes a false pass.
THEOREM AbsencePassHolds == ServiceSpec => AbsencePass
<1> DEFINE Body == Passes("absent") => \A e \in Within(page[verdict'.conn].errors) : ~e.answered
           Inv  == /\ TurnInv /\ Dated /\ RingInv /\ ReadInv /\ Books /\ SessionBooks
                   /\ QuietInv /\ Reached /\ AbsentInv
<1>1. ServiceInit => Inv
  BY TurnInit, DatedInit, RingInit, ReadInit, BooksInit, PromisedInit, QuietInit, ReachedInit, AbsentInit
<1>2. Inv /\ [ServiceNext]_serviceVars => Inv'
  BY TurnStep, DatedStep, RingStep, ReadStep, StepBooks, SessionBooksStep, QuietStep, ReachedStep, AbsentStep
<1>3. Inv /\ [ServiceNext]_serviceVars => [Body]_serviceVars
  BY PassIsAbsent
<1>4. QED BY <1>1, <1>2, <1>3, PTL DEF ServiceSpec, AbsencePass
=============================================================================
