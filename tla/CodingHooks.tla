------------------------------ MODULE CodingHooks ------------------------------
(***************************************************************************)
(* The coding hooks around their store: the callbacks a coding agent runs  *)
(* (client.ts, context-client.ts), the controller that serves them         *)
(* (service.ts), Clear and the owner's life (server.ts, owner.ts), on a    *)
(* POSIX host with the Claude platform.                                    *)
(* A callback is one process per hook event: a request is a step to be     *)
(* given a place and one to be served, and either side may give up.        *)
(* The management requests (mgr) are in HookManagement.                    *)
(***************************************************************************)
EXTENDS HookStore, SequencesExt, FiniteSets

CONSTANTS
  Callbacks,     \* hook events
  Managers,      \* management requests the daemon takes at a time (2)
  ActiveLimit,   \* SERVICE_LIMITS.active
  QueueLimit,    \* SERVICE_LIMITS.queued
  Scenarios      \* installations at the start, and the operations explored with
                 \* how often each may happen

ASSUME LimitAssumption == ActiveLimit \in Nat \ {0} /\ QueueLimit \in Nat

\* What a hook event says of the tool, and what a line of the transcript says of it.
Events == {"none", "pending", "success", "failure", "interrupted"}
Outcomes == {"success", "failure", "unknown"}
Want == [mode : Modes, roots : SUBSET Roots]

\* The rows of a scenario have credentials of their own.
ASSUME ScenarioAssumption ==
  \A s \in Scenarios :
    /\ s.rows \in [Installs -> Row]
    /\ \A i \in Installs : s.rows[i] # NoRow => s.rows[i].generation = i /\ s.rows[i].token = i
    /\ s.sessions \subseteq Roots /\ s.events \subseteq Events /\ s.wants \subseteq Want
    /\ s.outcomes \subseteq Outcomes /\ s.bodies \subseteq BOOLEAN
    /\ {"sessions", "events", "wants", "outcomes", "bodies", "stopped"} \subseteq DOMAIN s /\ s.stopped \in BOOLEAN

VARIABLES
  file,        \* installation -> its private capability file
  lock,        \* installation -> its .lock file exists
  ctl,         \* the controllers of this process; the last one is hookController
  cb,          \* callback -> its process and its request
  mgr,         \* manager -> the management request it runs, or Idle
  clears,      \* Clear requests under way: the controller and the managers each waits for
  clearing,    \* clearingHooks
  transcript,  \* root -> the transcript file: [inc, lines]
  scenario     \* what may still happen in this behaviour

vars == <<store, file, lock, ctl, cb, mgr, clears, clearing, transcript, scenario>>

NoFile == [state |-> "missing"]
DisabledFile == [state |-> "disabled"]
Idle == [op |-> "idle"]
NewController == [closed |-> FALSE, paused |-> FALSE, line |-> <<>>]
Cur == Len(ctl)
Quiet == [pc |-> "idle"]
Over == [pc |-> "over"]
Alive(c) == cb[c].pc \notin {"idle", "over"}

May(what) == scenario[what] > 0
Spend(what) == May(what) /\ scenario' = [scenario EXCEPT ![what] = @ - 1]

-----------------------------------------------------------------------------
(* What an operation takes away.  old marks a credential that was in the     *)
(* private file, or on its way there, when it was revoked; only the          *)
(* properties read it.                                                       *)

FilesRevoked(S) ==
  [i \in Installs |-> IF i \in S /\ file[i].state = "active" THEN [file[i] EXCEPT !.old = TRUE] ELSE file[i]]
CallbacksRevoked(S) ==
  [c \in Callbacks |-> IF Alive(c) /\ cb[c].inst \in S THEN [cb[c] EXCEPT !.cap.old = TRUE] ELSE cb[c]]
ManagersRevoked(S) ==
  [m \in Managers |-> IF mgr[m] = Idle THEN Idle ELSE [mgr[m] EXCEPT !.revoked = @ \cup S]]

-----------------------------------------------------------------------------
(* The controller. *)

At(n, place) == {c \in Callbacks : Alive(c) /\ cb[c].at = n /\ cb[c].place = place}
Pending(n) == At(n, "active") \cup At(n, "queued")
Accepts(n) == ~ctl[n].closed /\ ~ctl[n].paused

\* release(): the work leaves its controller and the next one in line runs; next is
\* what becomes of the callback.
Release(c, next) ==
  LET n    == cb[c].at
      line == RemoveFirst(ctl[n].line, c)
      runs == cb[c].place = "active" /\ Accepts(n) /\ line # <<>>
  IN  /\ ctl' = [ctl EXCEPT ![n].line = IF runs THEN Tail(line) ELSE line]
      /\ cb' = [d \in Callbacks |->
                  IF d = c THEN next
                  ELSE IF runs /\ d = Head(line) THEN [cb[d] EXCEPT !.place = "active"] ELSE cb[d]]

\* What pause() and close() do to the work of controller n: what waits is refused
\* at once, what runs is aborted and ends later.
Aborted(n, callbacks) ==
  [c \in Callbacks |->
     IF c \in At(n, "queued") THEN Over
     ELSE IF c \in At(n, "active") THEN [callbacks[c] EXCEPT !.aborted = TRUE] ELSE callbacks[c]]
Closed(n) == [ctl EXCEPT ![n].closed = TRUE, ![n].line = <<>>]
Paused(n) == [ctl EXCEPT ![n].paused = TRUE, ![n].line = <<>>]

-----------------------------------------------------------------------------
(* A callback. *)

Capability(f) == [token |-> f.token, generation |-> f.generation, owner |-> f.owner, old |-> f.old]
Sends(callback, pc) == [callback EXCEPT !.pc = pc, !.place = "sent", !.at = 0, !.aborted = FALSE]
Thinks(callback, pc) == [callback EXCEPT !.pc = pc, !.place = "none", !.at = 0]

Begin(c) ==
  /\ cb[c] = Quiet /\ Spend("hooks")
  /\ \E i \in Installs, k \in scenario.sessions, event \in scenario.events :
       /\ file[i].state = "active"
       /\ cb' = [cb EXCEPT ![c] =
            [pc |-> "transport", inst |-> i, root |-> k, event |-> event, cap |-> Capability(file[i]), reply |-> 0,
             at |-> 0, place |-> "sent", aborted |-> FALSE, alive |-> TRUE]]
  /\ UNCHANGED <<store, file, lock, ctl, mgr, clears, clearing, transcript>>

\* handle(): refused, run or queued.
Handle(c) ==
  /\ Alive(c) /\ cb[c].place = "sent"
  /\ LET full   == Cardinality(At(Cur, "active")) >= ActiveLimit
         admits == /\ Cur > 0 /\ Accepts(Cur) /\ ~(full /\ Len(ctl[Cur].line) >= QueueLimit)
                   /\ \E i \in Installs : Authentic(i, cb[c].cap.token)
     IN  IF ~admits THEN cb' = [cb EXCEPT ![c] = Over] /\ UNCHANGED ctl
         ELSE IF full
         THEN /\ cb' = [cb EXCEPT ![c].place = "queued", ![c].at = Cur]
              /\ ctl' = [ctl EXCEPT ![Cur].line = Append(@, c)]
         ELSE cb' = [cb EXCEPT ![c].place = "active", ![c].at = Cur] /\ UNCHANGED ctl
  /\ UNCHANGED <<store, file, lock, mgr, clears, clearing, transcript, scenario>>

\* The work ends without a result: an abort, a deadline, a broken body, a busy
\* database, or whatever its handler refuses.
Refuse(c) ==
  /\ Alive(c) /\ cb[c].place \in {"active", "queued"}
  /\ Release(c, Over)
  /\ UNCHANGED <<store, file, lock, mgr, clears, clearing, transcript, scenario>>

\* The client's own deadline; a body that has arrived may still be served.
GiveUp(c) ==
  /\ Alive(c) /\ cb[c].alive
  /\ cb' = [cb EXCEPT ![c] = IF cb[c].place \in {"active", "queued"} THEN [@ EXCEPT !.alive = FALSE] ELSE Over]
  /\ UNCHANGED <<store, file, lock, ctl, mgr, clears, clearing, transcript, scenario>>

\* The request is served now, by the installation i that its token authenticates.
Serves(c, i, pcs) ==
  /\ cb[c].pc \in pcs /\ cb[c].place = "active" /\ ~cb[c].aborted
  /\ Authentic(i, cb[c].cap.token)
  /\ UNCHANGED <<file, lock, mgr, clears, clearing, transcript, scenario>>

\* The callback goes on with the answer, when its client still waits for it.
Answered(c, next) == Release(c, IF cb[c].alive THEN next ELSE Over)

Transport(c) ==
  \E i \in Installs :
    /\ Serves(c, i, {"transport"})
    /\ cb[c].cap.owner = owner.generation /\ cb[c].cap.generation = row[i].generation
    /\ Answered(c, Thinks([cb[c] EXCEPT !.reply = row[i].version], "reread"))
    /\ UNCHANGED store

\* Each protocol reads the private file again before it admits.
Reread(c) ==
  /\ cb[c].pc = "reread"
  /\ cb' = [cb EXCEPT ![c] =
       IF file[@.inst].state # "active" THEN Over
       ELSE Sends([@ EXCEPT !.cap = Capability(file[cb[c].inst])], IF @.reply = 2 THEN "admit2" ELSE "admit1")]
  /\ UNCHANGED <<store, file, lock, ctl, mgr, clears, clearing, transcript, scenario>>

\* The root is in the catalog; the reply carries the authority of this moment and
\* where the transcript is to be read from.
Admission(c) ==
  \E i \in Installs :
    LET k == cb[c].root
        via == Dispatch(k, row[i].version)
    IN  /\ Serves(c, i, {"admit1", "admit2"})
        /\ k \in row[i].roots /\ via # "refused"
        /\ IF cb[c].pc = "admit1" THEN via = "v1" ELSE via = "v2" => row[i].version = 2
        /\ session' = [session EXCEPT ![k] = Admitted(k, via)]
        /\ UNCHANGED <<owner, row, tool, fresh>>
        /\ Answered(c, Thinks([cb[c] EXCEPT !.reply =
             [via |-> via, mode |-> row[i].mode, generation |-> row[i].generation, owner |-> owner.generation,
              inc |-> session'[k].inc, cursor |-> session'[k].cursor, revision |-> session'[k].revision]], "acquire"))

\* What the client makes of its hook event and of the lines past the cursor: the
\* transcript is the source once it speaks, and two outcomes are a conflict, unless
\* a result between them or after them did not say how it ended.
Observed(event, lines, cursor, body) ==
  LET news  == (cursor + 1) .. Len(lines)
      since == {n \in news : \A m \in news : m >= n => lines[m] # "unknown"}
      told  == {lines[n] : n \in since} \cup (IF since = news THEN {event} \ {"pending", "none"} ELSE {})
  IN  IF news = {} /\ event = "none" THEN NoEntity
      ELSE [phase  |-> IF told = {} THEN IF news = {} THEN "pending" ELSE "unknown"
                       ELSE IF Cardinality(told) > 1 THEN "conflict" ELSE CHOOSE p \in told : TRUE,
            source |-> IF news = {} THEN "hook" ELSE "transcript",
            offset |-> IF news = {} THEN 0 ELSE Len(lines),
            body   |-> body]

\* The transcript is the one the admission knows, and as long as it was at least.
Readable(t, a) == a.inc \in {0, t.inc} /\ Len(t.lines) >= a.cursor

\* The client checks the reply against its credential, reads the transcript from
\* the cursor to its end, normalizes and sends.  Under full capture the body of the
\* observation is there unless it is beyond a limit.
Acquire(c) ==
  /\ cb[c].pc = "acquire"
  /\ LET a == cb[c].reply
         t == transcript[cb[c].root]
     IN  \E body \in IF a.mode = "full" THEN scenario.bodies ELSE {FALSE} : cb' = [cb EXCEPT ![c] =
           IF a.owner # @.cap.owner \/ a.generation # @.cap.generation \/ ~Readable(t, a) THEN Over
           ELSE Sends([@ EXCEPT !.reply = [via |-> a.via, generation |-> a.generation, owner |-> a.owner, revision |-> a.revision,
                         batch |-> [inc |-> t.inc, cursor |-> Len(t.lines),
                                    observed |-> Observed(cb[c].event, t.lines, a.cursor, body)]]], "publish")]
  /\ UNCHANGED <<store, file, lock, ctl, mgr, clears, clearing, transcript, scenario>>

\* Mutant of Publication: only the token is compared.
PublicationByToken(c) ==
  \E i \in Installs :
    LET k == cb[c].root
        a == cb[c].reply
    IN  /\ Serves(c, i, {"publish"})
        /\ k \in row[i].roots
        /\ IF a.via = "v2" THEN row[i].version = 2 /\ session[k].kind = "v2" /\ session[k].revision = a.revision
           ELSE session[k].kind # "v2"
        /\ Publish(k, a.batch, row[i].mode)
        /\ Answered(c, Over)

\* publish(): the authority is that of the admission, and v2 compares the revision.
Publication(c) ==
  \E i \in Installs :
    LET k == cb[c].root
        a == cb[c].reply
    IN  /\ Serves(c, i, {"publish"})
        /\ a.owner = owner.generation /\ a.generation = row[i].generation
        /\ k \in row[i].roots
        /\ IF a.via = "v2" THEN row[i].version = 2 /\ session[k].kind = "v2" /\ session[k].revision = a.revision
           ELSE session[k].kind # "v2"
        /\ Publish(k, a.batch, row[i].mode)
        /\ Answered(c, Over)

\* The agent writes on, or starts its transcript anew.
Write(k) ==
  /\ \/ /\ Spend("lines")
        /\ \E outcome \in scenario.outcomes : transcript' = [transcript EXCEPT ![k].lines = Append(@, outcome)]
     \/ Spend("rewrites") /\ transcript' = [transcript EXCEPT ![k] = [inc |-> @.inc + 1, lines |-> <<>>]]
  /\ UNCHANGED <<store, file, lock, ctl, cb, mgr, clears, clearing>>

-----------------------------------------------------------------------------
(* Clear, deletion of the run, and the owner's life. *)

\* POST /api/clear rotates the owner and closes the controller before it waits.
ClearStart ==
  /\ Cur > 0 /\ owner.active /\ Spend("clears")
  /\ RotateOwner /\ UNCHANGED <<row, session, tool>>
  /\ clearing' = TRUE
  /\ ctl' = Closed(Cur)
  /\ cb' = Aborted(Cur, CallbacksRevoked(Installs))
  /\ file' = FilesRevoked(Installs) /\ mgr' = ManagersRevoked(Installs)
  /\ clears' = clears \cup {[ctl |-> Cur, managers |-> {m \in Managers : mgr[m] # Idle}]}
  /\ UNCHANGED <<lock, transcript>>

ClearFinish ==
  \E w \in clears :
    /\ w.managers = {} /\ Pending(w.ctl) = {}
    /\ ClearAll
    /\ ctl' = Append(ctl, NewController)
    /\ clears' = clears \ {w} /\ clearing' = FALSE
    /\ cb' = CallbacksRevoked(Installs) /\ file' = FilesRevoked(Installs) /\ mgr' = ManagersRevoked(Installs)
    /\ UNCHANGED <<lock, transcript, scenario>>

\* Another part of the daemon fails its share of the Clear: clearingHooks stays.
ClearFails ==
  \E w \in clears :
    /\ Spend("failures")
    /\ clears' = clears \ {w}
    /\ UNCHANGED <<store, file, lock, ctl, cb, mgr, clearing, transcript>>

DeleteCaptured(k) ==
  /\ Cur > 0 /\ Spend("deletions")
  /\ DeleteRun(k)
  /\ UNCHANGED <<file, lock, ctl, cb, mgr, clears, clearing, transcript>>

\* closeServer(): the owner is rotated and revoked before anything is awaited.
Shutdown ==
  /\ Cur > 0 /\ owner.active /\ Spend("stops")
  /\ owner' = [active |-> FALSE, generation |-> fresh + 1] /\ fresh' = fresh + 1
  /\ ctl' = Closed(Cur)
  /\ cb' = Aborted(Cur, CallbacksRevoked(Installs))
  /\ file' = FilesRevoked(Installs) /\ mgr' = ManagersRevoked(Installs)
  /\ UNCHANGED <<row, session, tool, lock, clears, clearing, transcript>>

\* The process is gone, after a shutdown or by a crash: requests with it, locks not.
Gone ==
  /\ Cur > 0
  /\ \/ /\ ~owner.active /\ \A m \in Managers : mgr[m] = Idle
        /\ \A n \in 1 .. Cur : Pending(n) = {}
        /\ scenario' = [scenario EXCEPT !.stopped = TRUE]
     \/ May("crashes") /\ scenario' = [scenario EXCEPT !.stopped = TRUE, !.crashes = @ - 1]
  /\ owner' = [owner EXCEPT !.active = FALSE]
  /\ ctl' = <<>> /\ clears' = {} /\ clearing' = FALSE
  /\ mgr' = [m \in Managers |-> Idle]
  /\ cb' = [c \in Callbacks |-> IF Alive(c) /\ cb[c].place # "none" THEN Over ELSE cb[c]]
  /\ UNCHANGED <<row, session, tool, fresh, file, lock, transcript>>

\* startCodingHookOwner(): beginOwner() draws a new generation.
Boot ==
  /\ Cur = 0 /\ Spend("boots")
  /\ owner' = [active |-> TRUE, generation |-> fresh + 1] /\ fresh' = fresh + 1
  /\ ctl' = <<NewController>>
  /\ file' = FilesRevoked(Installs) /\ cb' = CallbacksRevoked(Installs)
  /\ UNCHANGED <<row, session, tool, lock, mgr, clears, clearing, transcript>>

CallbackNext ==
  \/ \E c \in Callbacks : Begin(c) \/ Handle(c) \/ Refuse(c) \/ GiveUp(c) \/ Transport(c) \/ Reread(c)
                            \/ Admission(c) \/ Acquire(c) \/ Publication(c)
  \/ \E k \in scenario.sessions : Write(k) \/ DeleteCaptured(k)
  \/ ClearStart \/ ClearFinish \/ ClearFails \/ Shutdown \/ Gone \/ Boot
===============================================================================
