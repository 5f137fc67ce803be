-------------------------- MODULE VerificationService --------------------------
(***************************************************************************)
(* verification/service.ts over one session of VerificationBridge: the     *)
(* lock, act, assert, runFlow and the check loop.  Awaiting is a phase of  *)
(* the caller that holds the lock; frames are handled in between.  A call  *)
(* that finds the session busy is refused and changes nothing.             *)
(* Predicates: "absent" (no console error), "network" (a matching response *)
(* of the interval) and "changed" (a relative reading); none of them reads *)
(* in the loop, so a check asks the page once before it starts.            *)
(***************************************************************************)
EXTENDS VerificationBridge

VARIABLES
  caller,   \* who holds the lock and what it awaits
  calls,    \* calls made so far
  verdict   \* the last verdict of a check and what it was about

serviceVars == <<sess, sock, page, up, down, history, scenario, caller, calls, verdict>>

Predicates == {"absent", "network", "changed"}

Free == [phase |-> "free"]

NoVerdict == [status |-> "none"]

\* A step of a flow clicks, and takes its readings in the click when it needs them.
Command(predicate) == IF predicate = "changed" THEN "causal" ELSE "click"

\* The end of lock().
Release(s) == sess' = [s EXCEPT !.busy = FALSE, !.reply = NoReply] /\ caller' = Free

\* bridge.command(), with what its caller does next.
Await(s, kind, next) ==
  LET u == Ask([s EXCEPT !.reply = NoReply], kind)
  IN  sess' = u /\ down' = Sent(s, u, kind) /\ caller' = next

\* The synchronous part of check(), up to its fresh read.
BeginCheck(s, steps, since, generation) ==
  Await([s EXCEPT !.quiet = FALSE], "read",
        [phase |-> "fresh", steps |-> steps, since |-> since, generation |-> generation,
         actionId |-> s.actionId, late |-> FALSE, latest |-> "inconclusive"])

\* A step of runFlow(): only in the document the flow began in.
BeginStep(s, steps, generation) ==
  IF s.generation # generation \/ s.ws = 0
  THEN Release(Tick(s)) /\ UNCHANGED down
  ELSE Await(Tick(s), Command(Head(steps)),
             [phase |-> "step", steps |-> steps, generation |-> generation])

-----------------------------------------------------------------------------
(* Calls of the session. *)

\* The next call of the scenario, once the session is free.
Lock(start) ==
  /\ sess.live /\ ~sess.busy /\ calls < Len(scenario.calls)
  /\ calls' = calls + 1
  /\ start
  /\ UNCHANGED <<sock, page, up, history, scenario, verdict>>

Call == scenario.calls[calls + 1]

Locked == [sess EXCEPT !.busy = TRUE]

Act == Lock(Call.call = "act" /\ Await(Locked, Call.kind, [phase |-> "act"]))

Assert ==
  Lock(/\ Call.call = "assert"
       /\ \E since \in {sess.lastCommandCursor, sess.cursor} :
            BeginCheck(Locked, <<Call.predicate>>, since, sess.generation))

RunFlow == Lock(Call.call = "flow" /\ BeginStep(Locked, Call.steps, sess.generation))

-----------------------------------------------------------------------------
(* The caller goes on. *)

Goes == UNCHANGED <<sock, page, up, history, scenario, calls>>

Actor ==
  /\ caller.phase = "act" /\ sess.reply # NoReply
  /\ Release(sess)
  /\ Goes /\ UNCHANGED <<down, verdict>>

\* An action that failed ends the flow; otherwise its cursor opens the window.
StepAnswered ==
  /\ caller.phase = "step" /\ sess.reply # NoReply
  /\ IF sess.reply.ok THEN BeginCheck(sess, caller.steps, sess.reply.id, caller.generation)
                      ELSE Release(sess) /\ UNCHANGED down
  /\ Goes /\ UNCHANGED verdict

Verdict(status) ==
  [status |-> status, predicate |-> Head(caller.steps), since |-> caller.since,
   actionId |-> caller.actionId, generation |-> caller.generation, conn |-> sess.ws,
   through |-> sess.cursor]

\* finish(), and the next step of a flow after a pass.
Finish(status) ==
  /\ verdict' = Verdict(status)
  /\ IF status = "pass" /\ Len(caller.steps) > 1
     THEN BeginStep(sess, Tail(caller.steps), caller.generation)
     ELSE Release(sess) /\ UNCHANGED down

\* Mutant of Fresh: the check goes on without its read.
FreshAnyway(reply) == TRUE

\* The page answered, or said that it cannot: either shows it is alive and has
\* flushed what it captured before.
Fresh(reply) == reply.ok \/ reply.unavailable

FreshAnswered ==
  /\ caller.phase = "fresh" /\ sess.reply # NoReply
  /\ IF Fresh(sess.reply)
     THEN /\ sess' = [sess EXCEPT !.reply = NoReply]
          /\ caller' = [caller EXCEPT !.phase = "round"]
          /\ UNCHANGED <<down, verdict>>
     ELSE Finish("inconclusive")
  /\ Goes

\* Mutant of Settled: pending requests are forgotten.
SettledEarly == sess.network /\ sess.pending = NoPending /\ sess.quiet

\* Settled: the network was covered, nothing is pending, and it has been quiet.
Settled == sess.network /\ sess.pending = NoPending /\ sess.requests = {} /\ sess.quiet

\* Mutant of Relevant: any event of the window.
Unattributed == Observed(sess, caller.since)

\* relevantEvents(): the events of the action the check is about, once there is one.
Relevant == {e \in Observed(sess, caller.since) : caller.actionId \in {0, e.act}}

Seen(type) == {e \in Relevant : e.type = type}

\* The loss or the failure of an observer the predicate depends on.
Impaired ==
  \/ ~Complete(sess, caller.since)
  \/ \E e \in Observed(sess, caller.since) :
       e.type = "loss" \/ (e.type = "observer" /\ Head(caller.steps) = "network")

EvaluateAbsent ==
  IF Impaired THEN "inconclusive"
  ELSE IF Seen("console") # {} THEN "fail"
  ELSE IF Settled THEN "pass" ELSE "inconclusive"

\* Only a request that started in this interval can complete in it.
EvaluateNetwork ==
  LET started == {e.rid : e \in Seen("start")}
  IN  IF ~sess.network \/ Impaired THEN "inconclusive"
      ELSE IF \E e \in Seen("network") : e.rid \in started THEN "pass"
      ELSE IF Settled THEN "fail" ELSE "inconclusive"

\* Mutant of Matching: the last turn, whatever it was.
MatchingAny == sess.causal # NoTurn

\* matchingDispatch(): the turn of exactly this window, document and action.
Matching ==
  LET t == sess.causal
  IN  /\ t # NoTurn /\ t.id = caller.since /\ t.generation = caller.generation
      /\ t.generation = sess.generation /\ t.id = sess.actionId

EvaluateChanged ==
  LET t == sess.causal
  IN  IF ~sess.network \/ ~Complete(sess, caller.since) \/ ~Matching THEN "inconclusive"
      ELSE IF ~t.attributed \/ ~Settled THEN "inconclusive"
      ELSE IF t.before.value # t.after.value THEN "pass" ELSE "fail"

Evaluate ==
  CASE Head(caller.steps) = "absent" -> EvaluateAbsent
    [] Head(caller.steps) = "network" -> EvaluateNetwork
    [] OTHER -> EvaluateChanged

Current == sess.ws # 0 /\ sess.generation = caller.generation

\* One round of the loop before the deadline.  A round that decides nothing is
\* slept over and comes again.
Round ==
  /\ caller.phase = "round" /\ ~caller.late
  /\ IF ~Current THEN Finish("inconclusive")
     ELSE IF (Evaluate = "pass" \/ Head(caller.steps) = "changed") /\ Settled THEN Finish(Evaluate)
     ELSE caller' = [caller EXCEPT !.latest = Evaluate] /\ UNCHANGED <<sess, down, verdict>>
  /\ Goes

Deadline ==
  /\ caller.phase = "round" /\ ~caller.late
  /\ caller' = [caller EXCEPT !.late = TRUE]
  /\ Goes /\ UNCHANGED <<sess, down, verdict>>

\* After the loop: the last round's verdict, if the interval ended complete and quiet.
Expired ==
  /\ caller.phase = "round" /\ caller.late
  /\ Finish(IF Current /\ Complete(sess, caller.since) /\ Settled THEN caller.latest ELSE "inconclusive")
  /\ Goes

ServiceInit == BridgeInit /\ caller = Free /\ calls = 0 /\ verdict = NoVerdict

CallerNext == Actor \/ StepAnswered \/ FreshAnswered \/ Round \/ Deadline \/ Expired

ServiceNext ==
  \/ BridgeNext /\ UNCHANGED <<caller, calls, verdict>>
  \/ Act \/ Assert \/ RunFlow \/ CallerNext

\* Timers fire and promises are resumed; pages, people and sockets promise nothing.
ServiceFairness ==
  /\ WF_serviceVars(CommandTimeout /\ UNCHANGED <<caller, calls, verdict>>)
  /\ WF_serviceVars(Actor) /\ WF_serviceVars(StepAnswered) /\ WF_serviceVars(FreshAnswered)
  /\ WF_serviceVars(Deadline) /\ WF_serviceVars(Expired)

ServiceSpec == ServiceInit /\ [][ServiceNext]_serviceVars /\ ServiceFairness

-----------------------------------------------------------------------------
(* Properties. *)

Times == 0 .. sess.cursor

\* A command has one owner, who holds the lock and awaits it on the socket it
\* went out on, and a timed-out or replaced command is never still ahead of the
\* page or of the daemon on an open paired socket: bridge.ts terminates a socket
\* rather than allow an ambiguous next action (command's timer).
OneTurn ==
  /\ sess.busy <=> caller # Free
  /\ sess.pending # NoPending =>
       /\ caller.phase \in {"act", "step", "fresh"} /\ sess.reply = NoReply
       /\ sess.ws # 0 /\ sock[sess.ws].st = "open"
       /\ sock[sess.ws].generation = sess.generation
  /\ caller.phase \in {"act", "step", "fresh"} => (sess.pending = NoPending) # (sess.reply = NoReply)
  /\ sess.ws # 0 /\ sock[sess.ws].st = "open" =>
       \A m \in Range(down[sess.ws]) \cup Range(up[sess.ws]) :
         m.type \in {"command", "result", "boundary", "reading"} => m.id = sess.pending.id

\* An observation window that is reported complete holds every observation the
\* pages delivered in it, in their order, and no other (observe, loss, append, the
\* eviction and the binary search of the ring), although the ring keeps to its limit.
WindowComplete ==
  /\ Live(sess.events) <= MaxEvents
  /\ Sorted(sess.events)
  /\ \A since \in Times :
       Complete(sess, since) =>
         {e \in Range(history) : e.t > since}
           = {[t |-> e.t, type |-> e.type] : e \in {o \in Observed(sess, since) : o.type \in Observations}}

\* A check step that passes: its predicate, window and page before the step.
Passes(predicate) == verdict' # verdict /\ verdict'.status = "pass" /\ verdict'.predicate = predicate

\* What the page captured of the verdict's action, or at all when there was none,
\* for a window that opened no later than that action or the connection.
Within(S) ==
  {x \in S : /\ verdict'.actionId \in {0, x.act}
             /\ verdict'.since <= Max({verdict'.actionId, sess.generationCursor})}

\* "No console error" passes only if the page had raised none in the window when
\* it answered the check's read: queued, unsent, lost, evicted, oversized or
\* another document's errors never become a false pass.
AbsencePass ==
  [][Passes("absent") => \A e \in Within(page[verdict'.conn].errors) : ~e.answered]_serviceVars

\* A network outcome passes only on a request this document started under the
\* action the check is about, and finished: "a previous action's delayed response
\* cannot satisfy a newer one" (verification/README.md).
AttributedPass ==
  [][Passes("network") =>
       \E r \in page[verdict'.conn].requests :
         r.done /\ verdict'.actionId \in {0, r.act}]_serviceVars

\* No verdict passes while a request the page had started before it answered is
\* still open, whatever happened to the frames about it.
QuietPass ==
  [][\A p \in Predicates : Passes(p) =>
       \A r \in page[verdict'.conn].requests : r.answered => r.done]_serviceVars

\* A relative change passes only if the document still connected read two different
\* values, both available, around exactly the click the check is about.
CausalPass ==
  [][Passes("changed") =>
       \E t \in page[verdict'.conn].turns : t.id = verdict'.since /\ t.changed]_serviceVars

\* Whoever takes the session's lock gives it back, whatever the pages do.
LockReleased == sess.busy ~> ~sess.busy
=============================================================================
