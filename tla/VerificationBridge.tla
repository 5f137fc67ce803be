-------------------------- MODULE VerificationBridge --------------------------
(***************************************************************************)
(* One paired application session of verification/bridge.ts, the browser   *)
(* runtimes (browser/index.ts) that connect to it and the wires between.   *)
(* A connection c is one WebSocket with the document that opened it; up[c] *)
(* and down[c] are its two FIFO directions.  Command ids are the cursors   *)
(* at which the commands were issued, which are as unique as the UUIDs.    *)
(* tick() is max(Date.now(), cursor + 1): only its order is kept.          *)
(* Left out: several sessions, credentials, source provenance, semantic    *)
(* references and trees, response bodies, performance, redaction.          *)
(***************************************************************************)
EXTENDS EventRing

CONSTANTS
  NConns,     \* connections the application opens, in this order
  MaxEarly,   \* earlyEvents a page keeps before the daemon is ready (100)
  Values,     \* what a causal reading of the application can return
  Scenarios   \* the bounds explored: per document its console errors, which may be
              \* large, its requests, whether its network observer may fail; events
              \* the byte and age limits evict at a push; connections; whether the
              \* session is removed; the calls made

ASSUME BridgeAssumption ==
  /\ NConns \in Nat \ {0} /\ MaxEarly \in Nat /\ 0 \notin Values
  /\ \A bounds \in Scenarios : bounds.pressed \in Nat

VARIABLES
  sess,     \* the VerificationSession, with its promise in reply
  sock,     \* connection -> the daemon's end of the socket
  page,     \* connection -> the runtime in its document
  up,       \* connection -> frames on the way to the daemon
  down,     \* connection -> frames on the way to the page
  history,  \* what the pages delivered in this generation (read by properties only)
  scenario  \* the bounds of this behaviour, chosen at the start

Conns == 1 .. NConns
NoTurn == [id |-> 0]
NoPending == [id |-> 0]
NoReply == [id |-> 0]
NoReading == [t |-> 0]
Actions == {"click", "causal"}

-----------------------------------------------------------------------------
(* The daemon's session as a value: every handler is a function of it. *)

Tick(s) == [s EXCEPT !.cursor = @ + 1]

\* append(): stamp, push, and activity ends the quiet interval.
AppendEvent(s, e, pressed) ==
  [Tick(s) EXCEPT !.events = Push(@, [e EXCEPT !.t = s.cursor + 1], pressed), !.quiet = FALSE]

\* append() of an event that is too large once it is sanitized.
AppendOversized(s) == [Tick(s) EXCEPT !.lossCursor = s.cursor + 1, !.captureLost = TRUE]

Event(type, act, rid) == [t |-> 0, type |-> type, act |-> act, rid |-> rid]

\* loss(): authority is lost for the generation, and the loss is itself an event.
Loss(s, pressed) ==
  AppendEvent([Tick(s) EXCEPT !.captureLost = TRUE, !.lossCursor = s.cursor + 1],
              Event("loss", 0, 0), pressed)

\* invalidate(): a new generation; whoever awaits a command learns that it failed.
Invalidate(s) ==
  [s EXCEPT !.generation = @ + 1, !.network = FALSE, !.requests = {}, !.actionId = 0,
            !.causal = NoTurn, !.pending = NoPending,
            !.reply = IF s.pending = NoPending THEN @
                      ELSE [id |-> s.pending.id, ok |-> FALSE, unavailable |-> FALSE]]

\* The end of the paired socket, by its close event or an invalid message.
Detach(s) == Invalidate([s EXCEPT !.ws = 0])

\* hello: the session belongs to connection c from here on.
Pair(s, c, network) ==
  LET u == Tick(Invalidate(s))
  IN  [u EXCEPT !.ws = c, !.events = EmptyRing, !.generationCursor = u.cursor,
                !.lossCursor = u.cursor, !.captureLost = FALSE,
                !.lastCommandCursor = u.cursor, !.network = network, !.quiet = FALSE]

\* observe().complete for the window after since.
Complete(s, since) ==
  /\ ~s.captureLost
  /\ since >= s.lossCursor
  /\ since >= s.generationCursor
  /\ ~LostSince(s.events, since + 1)
  /\ s.ws # 0

\* observe().events: their order is that of their stamps.
Observed(s, since) == {e \in Range(Since(s.events, since)) : e.t > since}

-----------------------------------------------------------------------------
(* Frames of an authenticated page. *)

Reading(s, m) ==
  LET p == s.pending
  IN  /\ p # NoPending /\ p.kind = "causal" /\ p.id = m.id
      /\ IF m.phase = "before" THEN p.before = NoReading /\ ~p.boundary
                               ELSE p.after = NoReading /\ p.boundary /\ p.before # NoReading

Boundary(s, m) ==
  LET p == s.pending
  IN  /\ p # NoPending /\ p.id = m.id /\ p.kind \in Actions /\ ~p.boundary
      /\ p.kind = "causal" => p.before # NoReading

\* captureDispatch(): the readings bracket the boundary, before the result.
Bracketed(p) ==
  /\ p.boundary /\ p.before # NoReading /\ p.after # NoReading
  /\ p.before.t < p.actionCursor /\ p.actionCursor < p.after.t

\* The frames that throw, beside those of a stale socket.
Refused(s, m) ==
  \/ m.type = "hello"
  \/ m.type = "reading" /\ ~Reading(s, m)
  \/ m.type = "boundary" /\ ~Boundary(s, m)
  \/ m.type = "start" /\ \E r \in s.requests : r.rid = m.rid
  \/ /\ m.type = "result"
     /\ \/ s.pending = NoPending \/ m.id # s.pending.id
        \/ s.pending.kind = "causal" /\ m.ok /\ ~Bracketed(s.pending)

\* The owned turn of a causal result, and whether it may be attributed.
Turn(s) ==
  LET p == s.pending
  IN  [id |-> p.id, generation |-> s.generation, actionCursor |-> p.actionCursor,
       before |-> p.before, after |-> p.after,
       attributed |-> Complete(s, p.id) /\ p.before.value # 0 /\ p.after.value # 0]

\* A result: the causal turn is captured while the command is still owned,
\* then the promise resolves; an action without a boundary has failed.
ResultOf(s, m, pressed) ==
  LET p == s.pending
      causal == p.kind = "causal" /\ m.ok
      u == IF causal THEN AppendEvent(s, Event("result", p.id, 0), pressed) ELSE s
      acknowledged == p.kind \in Actions => p.boundary
  IN  [u EXCEPT !.pending = NoPending,
                !.causal = IF causal THEN Turn(u) ELSE @,
                !.reply = [id |-> p.id, ok |-> m.ok /\ acknowledged,
                           unavailable |-> acknowledged /\ ~m.ok]]

\* acceptEvent(), for one frame that does not throw.
Accept(s, m, pressed) ==
  CASE m.type = "reading" ->
         LET u == AppendEvent(s, Event("reading", m.id, 0), pressed)
             r == [t |-> u.cursor, value |-> m.value]
         IN  IF m.phase = "before" THEN [u EXCEPT !.pending.before = r]
                                   ELSE [u EXCEPT !.pending.after = r]
    [] m.type = "boundary" ->
         LET u == AppendEvent([s EXCEPT !.actionId = m.id], Event("boundary", m.id, 0), pressed)
         IN  [u EXCEPT !.pending.boundary = TRUE, !.pending.actionCursor = u.cursor]
    [] m.type = "start" ->
         IF m.act # s.actionId THEN Loss(s, pressed)
         ELSE AppendEvent([s EXCEPT !.requests = @ \cup {[rid |-> m.rid, act |-> m.act]}],
                          Event("start", m.act, m.rid), pressed)
    [] m.type = "network" ->
         IF \A r \in s.requests : r.rid # m.rid THEN Loss(s, pressed)
         ELSE LET r == CHOOSE q \in s.requests : q.rid = m.rid
              IN  AppendEvent([s EXCEPT !.requests = @ \ {r}], Event("network", r.act, m.rid), pressed)
    [] m.type = "observer" ->
         AppendEvent([s EXCEPT !.network = FALSE], Event("observer", s.actionId, 0), pressed)
    [] m.type = "console" ->
         IF m.large THEN AppendOversized(s)
         ELSE AppendEvent(s, Event("console", s.actionId, 0), pressed)
    [] m.type = "result" -> ResultOf(s, m, pressed)

-----------------------------------------------------------------------------
(* The runtime in a document. *)

NewPage == [st |-> "idle", actionId |-> 0, early |-> <<>>, errors |-> {}, requests |-> {},
            turns |-> {}, blind |-> FALSE]

NewSock == [st |-> "none", authenticated |-> FALSE, generation |-> 0]

NewSession ==
  [live |-> TRUE, ws |-> 0, generation |-> 0, network |-> FALSE, cursor |-> 0,
   events |-> EmptyRing, lossCursor |-> 0, captureLost |-> FALSE, generationCursor |-> 0,
   lastCommandCursor |-> 0, requests |-> {}, actionId |-> 0, causal |-> NoTurn,
   pending |-> NoPending, reply |-> NoReply, busy |-> FALSE, quiet |-> FALSE]

\* Mutant of Terminate: a timed-out or refused socket stays open.
Unterminated(c) == sock

\* ws.terminate() and ws.close(): the close event comes later.
Terminate(c) == [sock EXCEPT ![c].st = IF @ = "open" THEN "closing" ELSE @]

\* disconnect(): the runtime closes its socket; what it sent may still arrive.
Leave(p) == [p EXCEPT !.st = "gone", !.early = <<>>]

\* A document opens a socket and handleUpgrade() takes it, one paired socket per
\* session, or refuses it.
Connect(c) ==
  /\ page[c].st = "idle" /\ c <= scenario.conns /\ (c > 1 => page[c - 1].st # "idle")
  /\ IF sess.live /\ sess.ws = 0
     THEN /\ sock' = [sock EXCEPT ![c].st = "open"]
          /\ page' = [page EXCEPT ![c].st = "dialing"]
     ELSE page' = [page EXCEPT ![c] = Leave(@)] /\ UNCHANGED sock
  /\ UNCHANGED <<sess, up, down, history, scenario>>

\* onOpen(): the observers are installed, each or not, before the hello.
Open(c) ==
  /\ page[c].st = "dialing"
  /\ \E network \in BOOLEAN : up' = [up EXCEPT ![c] = <<[type |-> "hello", network |-> network]>>]
  /\ page' = [page EXCEPT ![c].st = "open"]
  /\ UNCHANGED <<sess, sock, down, history, scenario>>

\* emit(): before ready a frame waits, and a full wait ends the runtime.
Emit(c, p, m) ==
  IF p.st = "ready" THEN page' = [page EXCEPT ![c] = p] /\ up' = [up EXCEPT ![c] = Append(@, m)]
  ELSE /\ UNCHANGED up
       /\ page' = [page EXCEPT ![c] = IF Len(p.early) < MaxEarly
                                      THEN [p EXCEPT !.early = Append(@, m)] ELSE Leave(p)]

Watching(c) == page[c].st \in {"open", "ready"}

\* A console error.
RaiseError(c) ==
  /\ Watching(c) /\ Cardinality(page[c].errors) < scenario.errors
  /\ LET e == [n |-> Cardinality(page[c].errors) + 1, act |-> page[c].actionId, answered |-> FALSE]
     IN  \E large \in scenario.large :
           Emit(c, [page[c] EXCEPT !.errors = @ \cup {e}], [type |-> "console", large |-> large])
  /\ UNCHANGED <<sess, sock, down, history, scenario>>

StartRequest(c) ==
  /\ Watching(c) /\ Cardinality(page[c].requests) < scenario.requests
  /\ LET rid == Cardinality(page[c].requests) + 1
         r == [rid |-> rid, act |-> page[c].actionId, done |-> FALSE, answered |-> FALSE]
     IN  Emit(c, [page[c] EXCEPT !.requests = @ \cup {r}],
              [type |-> "start", rid |-> rid, act |-> r.act])
  /\ UNCHANGED <<sess, sock, down, history, scenario>>

FinishRequest(c) ==
  /\ Watching(c)
  /\ \E r \in page[c].requests :
       /\ ~r.done
       /\ Emit(c, [page[c] EXCEPT !.requests = (@ \ {r}) \cup {[r EXCEPT !.done = TRUE]}],
                [type |-> "network", rid |-> r.rid])
  /\ UNCHANGED <<sess, sock, down, history, scenario>>

\* observerFailure("network"), once per document.
FailObserver(c) ==
  /\ Watching(c) /\ ~page[c].blind /\ scenario.blinds
  /\ Emit(c, [page[c] EXCEPT !.blind = TRUE], [type |-> "observer"])
  /\ UNCHANGED <<sess, sock, down, history, scenario>>

\* onMessage("ready"): what waited goes out before any answer.
Ready(c) ==
  /\ page[c].st = "open" /\ down[c] # <<>>
  /\ down' = [down EXCEPT ![c] = Tail(@)]
  /\ up' = [up EXCEPT ![c] = @ \o page[c].early]
  /\ page' = [page EXCEPT ![c].st = "ready", ![c].early = <<>>]
  /\ UNCHANGED <<sess, sock, history, scenario>>

\* What a reading before a click returns; the click may leave another of Values.
Before == CHOOSE v \in Values : TRUE

\* The frames act() sends for one command; value 0 is a reading that was not available.
ReadingFrame(id, phase, value) == [type |-> "reading", id |-> id, phase |-> phase, value |-> value]

ActFrames(id, kind, before, after, ok) ==
  LET boundary == IF kind \in Actions THEN <<[type |-> "boundary", id |-> id]>> ELSE <<>>
      result == <<[type |-> "result", id |-> id, ok |-> ok]>>
  IN  IF kind = "causal"
      THEN <<ReadingFrame(id, "before", before)>> \o boundary
           \o (IF ok THEN <<ReadingFrame(id, "after", after)>> ELSE <<>>) \o result
      ELSE boundary \o result

\* What the page had captured when it answered.
Answered(S) == {[x EXCEPT !.answered = TRUE] : x \in S}

\* act() is synchronous: its frames leave together, or the page is gone (it
\* navigated, or a frame was too large) after some of them.
Execute(c) ==
  /\ page[c].st = "ready" /\ down[c] # <<>>
  /\ \E before \in {Before, 0}, after \in Values \cup {0}, ok \in BOOLEAN :
       LET m == Head(down[c])
           frames == ActFrames(m.id, m.kind, before, after, ok)
           acted == [page[c] EXCEPT !.actionId = IF m.kind \in Actions THEN m.id ELSE @,
                       !.turns = IF m.kind = "causal" THEN @ \cup {[id |-> m.id, changed |-> before # 0 /\ after \notin {0, before}]} ELSE @]
       IN  \/ /\ up' = [up EXCEPT ![c] = @ \o frames]
              /\ page' = [page EXCEPT ![c] = [acted EXCEPT !.errors = Answered(@), !.requests = Answered(@)]]
           \/ \E n \in 0 .. Len(frames) - 1 :
                /\ up' = [up EXCEPT ![c] = @ \o SubSeq(frames, 1, n)]
                /\ page' = [page EXCEPT ![c] = Leave(acted)]
  /\ down' = [down EXCEPT ![c] = Tail(@)]
  /\ UNCHANGED <<sess, sock, history, scenario>>

\* pagehide, disconnect(), the handshake timer, a full send buffer, or the close
\* of a socket the daemon ended.
PageGone(c) ==
  /\ page[c].st \notin {"idle", "gone"}
  /\ page' = [page EXCEPT ![c] = Leave(@)]
  /\ down' = [down EXCEPT ![c] = <<>>]
  /\ UNCHANGED <<sess, sock, up, history, scenario>>

-----------------------------------------------------------------------------
(* The daemon's end of a socket. *)

Observations == {"console", "start", "network", "observer"}

Hello(c, m) ==
  IF m.type = "hello" /\ sess.ws = 0 /\ sess.live
  THEN /\ sess' = Pair(sess, c, m.network)
       /\ sock' = [sock EXCEPT ![c].authenticated = TRUE, ![c].generation = sess'.generation]
       /\ down' = [down EXCEPT ![c] = Append(@, [type |-> "ready"])]
       /\ history' = <<>>
  ELSE sock' = Terminate(c) /\ UNCHANGED <<sess, down, history>>

\* ws.on("message"): a frame of a stale socket or one that throws ends the
\* socket, and the session too when it is the session's own.
Frame(c, m) ==
  IF sess.ws = c /\ sock[c].generation = sess.generation /\ ~Refused(sess, m)
  THEN /\ \E pressed \in 0 .. Min({scenario.pressed, Live(sess.events)}) : sess' = Accept(sess, m, pressed)
       /\ history' = IF m.type \in Observations
                     THEN Append(history, [t |-> sess'.cursor, type |-> m.type]) ELSE history
       /\ UNCHANGED <<sock, down>>
  ELSE /\ sess' = IF sess.ws = c THEN Detach(sess) ELSE sess
       /\ sock' = Terminate(c)
       /\ UNCHANGED <<down, history>>

Receive(c) ==
  /\ up[c] # <<>> /\ sock[c].st \in {"open", "closing"}
  /\ IF sock[c].authenticated THEN Frame(c, Head(up[c])) ELSE Hello(c, Head(up[c]))
  /\ up' = [up EXCEPT ![c] = Tail(@)]
  /\ UNCHANGED <<page, scenario>>

\* ws.on("close"): what had not been read by then is lost.
Closed(c) ==
  /\ sock[c].st = "closing" \/ (sock[c].st = "open" /\ page[c].st = "gone")
  /\ sock' = [sock EXCEPT ![c].st = "closed"]
  /\ up' = [up EXCEPT ![c] = <<>>]
  /\ down' = [down EXCEPT ![c] = <<>>]
  /\ sess' = IF sess.ws = c THEN Detach(sess) ELSE sess
  /\ UNCHANGED <<page, history, scenario>>

HelloTimeout(c) ==
  /\ sock[c].st = "open" /\ ~sock[c].authenticated
  /\ sock' = Terminate(c)
  /\ UNCHANGED <<sess, page, up, down, history, scenario>>

\* Mutant of Abandon: the promise is forgotten with its command.
AbandonSilently(s) == [s EXCEPT !.pending = NoPending]

\* The command timer: a late action may still run, so its socket goes with it.
Abandon(s) ==
  [s EXCEPT !.pending = NoPending,
            !.reply = [id |-> s.pending.id, ok |-> FALSE, unavailable |-> FALSE]]

CommandTimeout ==
  /\ sess.pending # NoPending
  /\ sess' = Abandon(sess)
  /\ sock' = Terminate(sess.ws)
  /\ UNCHANGED <<page, up, down, history, scenario>>

\* remove(): the user, the credential's expiry, or the daemon's close.
Remove ==
  /\ sess.live /\ scenario.removed
  /\ sess' = [Detach(sess) EXCEPT !.live = FALSE]
  /\ sock' = IF sess.ws # 0 THEN Terminate(sess.ws) ELSE sock
  /\ UNCHANGED <<page, up, down, history, scenario>>

\* QUIET_MS pass without activity.
Quieten ==
  /\ sess.busy /\ ~sess.quiet
  /\ sess' = [sess EXCEPT !.quiet = TRUE]
  /\ UNCHANGED <<sock, page, up, down, history, scenario>>

\* command(): its session and its frame.  A disconnected application answers at once.
Reachable(s) == s.ws # 0 /\ sock[s.ws].st = "open"

Ask(s, kind) ==
  LET u == Tick(s)
  IN  IF ~Reachable(s) THEN [u EXCEPT !.reply = [id |-> u.cursor, ok |-> FALSE, unavailable |-> FALSE]]
      ELSE [u EXCEPT !.pending = [id |-> u.cursor, kind |-> kind, boundary |-> FALSE,
                                  actionCursor |-> 0, before |-> NoReading, after |-> NoReading],
                     !.causal = IF kind \in Actions THEN NoTurn ELSE @,
                     !.lastCommandCursor = IF kind \in Actions THEN u.cursor ELSE @]

\* The frame that goes with the new session, when there is a new command in it.
Sent(s, u, kind) ==
  IF u.pending = NoPending THEN down
  ELSE [down EXCEPT ![s.ws] = Append(@, [type |-> "command", id |-> u.pending.id, kind |-> kind])]

BridgeInit ==
  /\ sess = NewSession
  /\ sock = [c \in Conns |-> NewSock]
  /\ page = [c \in Conns |-> NewPage]
  /\ up = [c \in Conns |-> <<>>]
  /\ down = [c \in Conns |-> <<>>]
  /\ history = <<>>
  /\ scenario \in Scenarios

BridgeNext ==
  \/ \E c \in Conns :
       \/ Connect(c) \/ Open(c) \/ Ready(c) \/ Execute(c) \/ PageGone(c)
       \/ RaiseError(c) \/ StartRequest(c) \/ FinishRequest(c) \/ FailObserver(c)
       \/ Receive(c) \/ Closed(c) \/ HelloTimeout(c)
  \/ CommandTimeout \/ Remove \/ Quieten
=============================================================================
