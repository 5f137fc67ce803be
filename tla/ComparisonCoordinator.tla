------------------------- MODULE ComparisonCoordinator -------------------------
(***************************************************************************)
(* The daemons that run model comparisons over one ComparisonLedger.       *)
(*                                                                         *)
(* A daemon is a single-threaded event loop: HTTP handlers, the 25 ms      *)
(* timer and the continuations of provider requests run one at a time,     *)
(* each to its end.  `turn' says what the loop is in the middle of, so     *)
(* that the transactions of one handler are separate steps which only      *)
(* other processes can come between.  What a daemon keeps in memory        *)
(* (pending entries, dispatch slots, scheduled operations, the timer) dies *)
(* with it; the ledger and the requests providers received do not.         *)
(***************************************************************************)
EXTENDS ComparisonLedger, SequencesExt

CONSTANTS
    Daemons,        \* processes that may open this database
    PendingLimit,   \* COMPARISON_LIMITS.queued * COMPARISON_LIMITS.targets
    MaxDisturbances \* model bound: changes around the ledger in force at one time

ASSUME PendingAssumption == PendingLimit \in Nat /\ MaxDisturbances \in Nat

\* A position is an index into the request's array of targets.
ASSUME PositionAssumption == Positions \subseteq Nat

VARIABLES
    port,        \* the daemon whose kernel port excludes the others, or None
    phase,       \* down, acquired (before recovery), up, closing
    birth,       \* the birth of the daemon's lease
    pending,     \* entries waiting for a slot
    slots,       \* entries dispatched: request in flight, or done
    scheduled,   \* operations already enqueued by this process
    timer,       \* the poll timer is armed
    turn,        \* what the event loop is in the middle of
    sent         \* requests each attempt made to its provider

memory == <<pending, slots, scheduled, timer, turn>>
process == <<port, phase, birth, memory>>
allVars == <<vars, process, sent>>

Entry == [attempt : Attempts,
          fence : [promptGeneration : Nat, evidenceGeneration : Nat,
                   comparisonGeneration : Nat, owner : Nat]]

Slot == [entry : Entry, state : {"sent", "done"}, aborted : BOOLEAN]

Idle == [at |-> "idle"]

Turn ==
    {Idle} \cup {[at |-> "pump"]}
      \cup [at : {"retire"}, todo : SUBSET Ops]
      \cup [at : {"failed"}, entry : Entry, status : {"failed", "timeout", "cancelled"},
            forced : BOOLEAN]
      \cup [at : {"terminate"}, op : Ops, then : {"idle", "pump"}]

CoordinatorTypeOK ==
    /\ TypeOK
    /\ port \in Daemons \cup {None}
    /\ phase \in [Daemons -> {"down", "acquired", "up", "closing"}]
    /\ birth \in [Daemons -> 0 .. MaxOwners]
    /\ pending \in [Daemons -> Seq(Entry)]
    /\ slots \in [Daemons -> SUBSET Slot]
    /\ scheduled \in [Daemons -> SUBSET Ops]
    /\ timer \in [Daemons -> BOOLEAN]
    /\ turn \in [Daemons -> Turn]
    /\ sent \in [Attempts -> Nat]

(***************************************************************************)
(* Reads.                                                                  *)
(***************************************************************************)
Op(e) == e.attempt[1]

\* The lease this daemon took is the one that holds authority.
HasAuthority(d) == owner # 0 /\ owner = birth[d]

\* Mutant of CanPublish: the fence the entry was admitted under is not compared.
CanPublishUnfenced(d, e) ==
    /\ HasAuthority(d)
    /\ ~head[Op(e)].tombstone
    /\ Authorized(head[Op(e)].scope, "edit")

\* capture("edit") succeeds and get(entry.id, entry.fence) shows live content.
CanPublish(d, e) ==
    /\ HasAuthority(d)
    /\ ~head[Op(e)].tombstone
    /\ Authorized(head[Op(e)].scope, "edit")
    /\ e.fence = Current(head[Op(e)].scope)

Ready(d) == phase[d] = "up" /\ turn[d] = Idle

Entries(d) == ToSet(pending[d]) \cup {t.entry : t \in slots[d]}

\* The numbers of a finite set in ascending order.
Ascending(S) ==
    CHOOSE f \in [1 .. Cardinality(S) -> S] :
        \A i, j \in 1 .. Cardinality(S) : i < j => f[i] < f[j]

\* What a filter leaves of a queue: the entries of other operations, in their order.
Without(queue, S) ==
    LET kept == Ascending({i \in DOMAIN queue : Op(queue[i]) \notin S})
    IN  [k \in DOMAIN kept |-> queue[kept[k]]]

\* The entries of a receipt's queued attempts in the order of its targets.
EntriesOf(o, s) ==
    LET queued == Ascending({p \in Positions : row'[<<o, p>>].status = "queued"})
    IN  [k \in DOMAIN queued |-> [attempt |-> <<o, queued[k]>>, fence |-> Current(s)]]

Aborted(set, S) ==
    {IF Op(t.entry) \in S THEN [t EXCEPT !.aborted = TRUE] ELSE t : t \in set}

Resume(d, at) == turn' = [turn EXCEPT ![d] = [at |-> at]]

\* The slot is free once its dispatch settles, and the settling arms the timer.
Freed(d, t) ==
    /\ slots' = [slots EXCEPT ![d] = @ \ {t}]
    /\ timer' = [timer EXCEPT ![d] = @ \/ phase[d] # "closing"]

(***************************************************************************)
(* Lease, recovery, shutdown and crash.                                    *)
(***************************************************************************)
Acquire(d) ==
    /\ phase[d] = "down"
    /\ port = None
    /\ AcquireOwner
    /\ port' = d
    /\ phase' = [phase EXCEPT ![d] = "acquired"]
    /\ birth' = [birth EXCEPT ![d] = births']
    /\ UNCHANGED <<memory, sent>>

Recover(d) ==
    /\ phase[d] = "acquired"
    /\ HasAuthority(d)
    /\ RecoverPending
    /\ phase' = [phase EXCEPT ![d] = "up"]
    /\ UNCHANGED <<port, birth, memory, sent>>

\* The process is gone: its memory with it, its port free, its lease inactive.
Forget(d) ==
    /\ phase' = [phase EXCEPT ![d] = "down"]
    /\ pending' = [pending EXCEPT ![d] = <<>>]
    /\ slots' = [slots EXCEPT ![d] = {}]
    /\ scheduled' = [scheduled EXCEPT ![d] = {}]
    /\ timer' = [timer EXCEPT ![d] = FALSE]
    /\ turn' = [turn EXCEPT ![d] = Idle]
    /\ port' = IF port = d THEN None ELSE port
    /\ UNCHANGED <<birth, sent>>

Crash(d) ==
    /\ phase[d] # "down"
    /\ IF HasAuthority(d) THEN LoseOwner ELSE UNCHANGED vars
    /\ Forget(d)

\* The listener failed, or the database file was replaced under it.
LoseLease(d) ==
    /\ HasAuthority(d)
    /\ LoseOwner
    /\ port' \in {port, None}
    /\ UNCHANGED <<phase, birth, memory, sent>>

Close(d) ==
    /\ Ready(d)
    /\ IF HasAuthority(d) THEN LoseOwner ELSE UNCHANGED vars
    /\ phase' = [phase EXCEPT ![d] = "closing"]
    /\ timer' = [timer EXCEPT ![d] = FALSE]
    /\ pending' = [pending EXCEPT ![d] = <<>>]
    /\ slots' = [slots EXCEPT ![d] = Aborted(@, Ops)]
    /\ UNCHANGED <<port, birth, scheduled, turn, sent>>

\* The lease is released only after every dispatch really settled.
Drained(d) ==
    /\ phase[d] = "closing"
    /\ slots[d] = {}
    /\ Forget(d)
    /\ UNCHANGED vars

(***************************************************************************)
(* HTTP handlers.                                                          *)
(***************************************************************************)
\* Mutant of Enqueue: does not remember what it scheduled.
EnqueueAgain(d, o, s) ==
    IF \/ head'[o].tombstone \/ EntriesOf(o, s) = <<>>
       \/ Len(pending[d]) + Len(EntriesOf(o, s)) > PendingLimit
    THEN UNCHANGED memory
    ELSE /\ pending' = [pending EXCEPT ![d] = @ \o EntriesOf(o, s)]
         /\ Resume(d, "pump")
         /\ UNCHANGED <<slots, scheduled, timer>>

\* enqueue, on the receipt of the submit that just committed (row', head').
\* When the entries do not fit it throws, with the receipt already stored.
Enqueue(d, o, s) ==
    IF \/ head'[o].tombstone \/ o \in scheduled[d] \/ EntriesOf(o, s) = <<>>
       \/ Len(pending[d]) + Len(EntriesOf(o, s)) > PendingLimit
    THEN UNCHANGED memory
    ELSE /\ scheduled' = [scheduled EXCEPT ![d] = @ \cup {o}]
         /\ pending' = [pending EXCEPT ![d] = @ \o EntriesOf(o, s)]
         /\ Resume(d, "pump")
         /\ UNCHANGED <<slots, timer>>

SubmitRequest(d, o, s, r) ==
    /\ Ready(d) /\ HasAuthority(d)
    /\ Submit(o, s, r)
    /\ Enqueue(d, o, s)
    /\ UNCHANGED <<port, phase, birth, sent>>

\* The same key and request again: the stored receipt, enqueued if it was not.
RetryRequest(d, o, s, r) ==
    /\ Ready(d) /\ HasAuthority(d)
    /\ Authorized(s, "edit")
    /\ head[o] # None
    /\ head[o].scope = s /\ head[o].request = r
    /\ UNCHANGED vars
    /\ Enqueue(d, o, s)
    /\ UNCHANGED <<port, phase, birth, sent>>

\* Mutant of Abandon: the whole queue goes.
AbandonEverything(d, S) ==
    /\ slots' = [slots EXCEPT ![d] = Aborted(@, S)]
    /\ pending' = [pending EXCEPT ![d] = <<>>]
    /\ UNCHANGED <<scheduled, timer, turn, port, phase, birth, sent>>

\* What cancel and clear do to the entries of the operations they ended.
Abandon(d, S) ==
    /\ slots' = [slots EXCEPT ![d] = Aborted(@, S)]
    /\ pending' = [pending EXCEPT ![d] = Without(@, S)]
    /\ UNCHANGED <<scheduled, timer, turn, port, phase, birth, sent>>

CancelRequest(d, o) ==
    /\ Ready(d) /\ HasAuthority(d)
    /\ Cancel(o)
    /\ Abandon(d, {o})

ClearRequest(d, s) ==
    /\ Ready(d) /\ HasAuthority(d)
    /\ Clear(s)
    /\ Abandon(d, {o \in Stored : head[o].scope = s})

(***************************************************************************)
(* pump: moves pending entries into free slots.  Dispatch runs an entry's  *)
(* start, and the call of the provider, within the same turn.              *)
(***************************************************************************)
CanDispatch(d) ==
    /\ turn[d] = [at |-> "pump"]
    /\ pending[d] # <<>>
    /\ Cardinality(slots[d]) < ActiveLimit

\* The slot the first pending entry takes.
Filled(d, state) == [entry |-> Head(pending[d]), state |-> state, aborted |-> FALSE]

\* The first pending entry leaves the queue for a slot.
Dispatch(d, state) ==
    /\ pending' = [pending EXCEPT ![d] = Tail(@)]
    /\ slots' = [slots EXCEPT ![d] = @ \cup {Filled(d, state)}]
    /\ UNCHANGED <<scheduled, timer, port, phase, birth>>

\* Authority, fence and tombstone: what start's transaction throws for.
StartThrows(d, e) == ~CanPublish(d, e)

PumpStarts(d) ==
    LET e == Head(pending[d])
    IN  /\ CanDispatch(d)
        /\ ~StartThrows(d, e)
        /\ Start(e.attempt)
        /\ sent' = [sent EXCEPT ![e.attempt] = @ + 1]
        /\ Dispatch(d, "sent")
        /\ UNCHANGED turn

PumpRefused(d) ==
    LET e == Head(pending[d])
    IN  /\ CanDispatch(d)
        /\ ~StartThrows(d, e)
        /\ StartRefused(e.attempt)
        /\ Dispatch(d, "done")
        /\ UNCHANGED <<turn, sent>>

\* start returned null: no longer queued, or the table shows no free slot.
PumpSkips(d) ==
    LET e == Head(pending[d])
    IN  /\ CanDispatch(d)
        /\ ~StartThrows(d, e)
        /\ \/ row[e.attempt].status # "queued"
           \/ StartRefusal(e.attempt) = "none" /\ SlotsTaken
        /\ Dispatch(d, "done")
        /\ UNCHANGED <<vars, turn, sent>>

PumpThrows(d) ==
    LET e == Head(pending[d])
    IN  /\ CanDispatch(d)
        /\ StartThrows(d, e)
        /\ Dispatch(d, "done")
        /\ turn' = [turn EXCEPT ![d] = [at |-> "terminate", op |-> Op(e), then |-> "pump"]]
        /\ UNCHANGED <<vars, sent>>

\* The loop ends, the promises of done entries settle, the timer is armed.
PumpEnds(d) ==
    /\ turn[d] = [at |-> "pump"]
    /\ ~CanDispatch(d)
    /\ timer' = [timer EXCEPT ![d] = @ \/ slots[d] # {} \/ pending[d] # <<>>]
    /\ slots' = [slots EXCEPT ![d] = {t \in @ : t.state = "sent"}]
    /\ Resume(d, "idle")
    /\ UNCHANGED <<vars, pending, scheduled, port, phase, birth, sent>>

(***************************************************************************)
(* The continuation of a provider request.                                 *)
(***************************************************************************)
InFlight(d, t) ==
    /\ turn[d] = Idle
    /\ phase[d] \in {"up", "closing"}
    /\ t \in slots[d]
    /\ t.state = "sent"

\* Closing or without authority nothing may be published: recovery will settle it.
SettleFenced(d, t) ==
    /\ InFlight(d, t)
    /\ phase[d] = "closing" \/ ~HasAuthority(d)
    /\ Freed(d, t)
    /\ UNCHANGED <<vars, pending, scheduled, turn, port, phase, birth, sent>>

SettleCompleted(d, t, usage, room) ==
    /\ InFlight(d, t) /\ phase[d] = "up"
    /\ CanPublish(d, t.entry)
    /\ FinishCompleted(t.entry.attempt, usage, room)
    /\ Freed(d, t)
    /\ UNCHANGED <<pending, scheduled, turn, port, phase, birth, sent>>

\* Mutant of SettleRefused: nobody looks at what finish threw.
SettleRefusedQuietly(d, t) ==
    /\ InFlight(d, t) /\ phase[d] = "up" /\ HasAuthority(d)
    /\ ~CanPublish(d, t.entry) \/ row[t.entry.attempt].status # "running"
    /\ Freed(d, t)
    /\ UNCHANGED <<vars, pending, scheduled, turn, port, phase, birth, sent>>

\* finish threw: the fence moved, the content went, or the attempt is over.
SettleRefused(d, t) ==
    /\ InFlight(d, t) /\ phase[d] = "up" /\ HasAuthority(d)
    /\ ~CanPublish(d, t.entry) \/ row[t.entry.attempt].status # "running"
    /\ turn' = [turn EXCEPT ![d] =
          [at |-> "failed", entry |-> t.entry, status |-> "failed",
           forced |-> ~CanPublish(d, t.entry)]]
    /\ Freed(d, t)
    /\ UNCHANGED <<vars, pending, scheduled, port, phase, birth, sent>>

\* The provider refused, the deadline aborted the request, or somebody did.
SettleFailed(d, t, status) ==
    /\ InFlight(d, t) /\ phase[d] = "up" /\ HasAuthority(d)
    /\ status = "cancelled" => t.aborted
    /\ turn' = [turn EXCEPT ![d] = [at |-> "failed", entry |-> t.entry,
                                    status |-> status, forced |-> FALSE]]
    /\ Freed(d, t)
    /\ UNCHANGED <<vars, pending, scheduled, port, phase, birth, sent>>

FailurePublished(d, room) ==
    /\ turn[d].at = "failed"
    /\ ~turn[d].forced
    /\ CanPublish(d, turn[d].entry)
    /\ FinishFailed(turn[d].entry.attempt, turn[d].status, room)
    /\ Resume(d, "idle")
    /\ UNCHANGED <<pending, slots, scheduled, timer, port, phase, birth, sent>>

FailureTerminates(d) ==
    /\ turn[d].at = "failed"
    /\ \/ turn[d].forced
       \/ ~CanPublish(d, turn[d].entry)
       \/ row[turn[d].entry.attempt].status # "running"
    /\ turn' = [turn EXCEPT ![d] =
          [at |-> "terminate", op |-> Op(turn[d].entry), then |-> "idle"]]
    /\ UNCHANGED <<vars, pending, slots, scheduled, timer, port, phase, birth, sent>>

\* terminatePending, which throws into an empty catch without the lease.
TerminateEntry(d) ==
    /\ turn[d].at = "terminate"
    /\ IF HasAuthority(d) THEN TerminatePending(turn[d].op) ELSE UNCHANGED vars
    /\ Resume(d, turn[d].then)
    /\ UNCHANGED <<pending, slots, scheduled, timer, port, phase, birth, sent>>

(***************************************************************************)
(* The timer: retireInvalidated, then pump.                                *)
(***************************************************************************)
Retiring(todo) == IF todo = {} THEN [at |-> "pump"] ELSE [at |-> "retire", todo |-> todo]

Poll(d) ==
    /\ Ready(d)
    /\ timer[d]
    /\ timer' = [timer EXCEPT ![d] = FALSE]
    /\ turn' = [turn EXCEPT ![d] = Retiring({Op(e) : e \in Entries(d)})]
    /\ UNCHANGED <<vars, pending, slots, scheduled, port, phase, birth, sent>>

RetireKeeps(d, o) ==
    /\ turn[d].at = "retire" /\ o \in turn[d].todo
    /\ \A e \in Entries(d) : Op(e) = o => CanPublish(d, e)
    /\ turn' = [turn EXCEPT ![d] = Retiring(turn[d].todo \ {o})]
    /\ UNCHANGED <<vars, pending, slots, scheduled, timer, port, phase, birth, sent>>

RetireEnds(d, o) ==
    /\ turn[d].at = "retire" /\ o \in turn[d].todo
    /\ \E e \in Entries(d) : Op(e) = o /\ ~CanPublish(d, e)
    /\ IF HasAuthority(d) THEN TerminatePending(o) ELSE UNCHANGED vars
    /\ turn' = [turn EXCEPT ![d] = Retiring(turn[d].todo \ {o})]
    /\ slots' = [slots EXCEPT ![d] = Aborted(@, {o})]
    /\ pending' = [pending EXCEPT ![d] = Without(@, {o})]
    /\ UNCHANGED <<scheduled, timer, port, phase, birth, sent>>

(***************************************************************************)
(* Specification.                                                          *)
(***************************************************************************)
CoordinatorInit ==
    /\ Init
    /\ port = None
    /\ phase = [d \in Daemons |-> "down"]
    /\ birth = [d \in Daemons |-> 0]
    /\ pending = [d \in Daemons |-> <<>>]
    /\ slots = [d \in Daemons |-> {}]
    /\ scheduled = [d \in Daemons |-> {}]
    /\ timer = [d \in Daemons |-> FALSE]
    /\ turn = [d \in Daemons |-> Idle]
    /\ sent = [a \in Attempts |-> 0]

Distance(s) ==
    scope[s].promptGeneration + scope[s].evidenceGeneration - 2
      + Cardinality({x \in {"scope"} : ~scope[s].active})
      + Cardinality({x \in {"role"} : scope[s].role # "admin"})
      + Cardinality(Prompts \ scope[s].prompts)

\* How far the database is from the one it started with.
Disturbances ==
    Cardinality(expired) + MapThenSumSet(Distance, Scopes)

\* The rest of the product changes prompts, evidence, scopes, roles and time.
Surroundings ==
    /\ \/ \E o \in Ops : DeadlinePasses(o)
       \/ \E s \in Scopes :
             \/ \E p \in Prompts : DeletePrompt(s, p)
             \/ ClearPrompts(s) \/ PurgeEvidence(s) \/ DestroyScope(s)
             \/ \E role \in MemberRoles : SetRole(s, role)
    /\ Disturbances' <= MaxDisturbances
    /\ UNCHANGED <<process, sent>>

Lifecycle(d) ==
    Acquire(d) \/ Recover(d) \/ Crash(d) \/ LoseLease(d) \/ Close(d) \/ Drained(d)

Handler(d) ==
    \/ \E o \in Ops, s \in Scopes, r \in Requests :
          SubmitRequest(d, o, s, r) \/ RetryRequest(d, o, s, r)
    \/ \E o \in Ops : CancelRequest(d, o)
    \/ \E s \in Scopes : ClearRequest(d, s)

\* The rest of a turn that has begun: nothing else runs in the daemon before it.
Turning(d) ==
    \/ PumpStarts(d) \/ PumpRefused(d) \/ PumpSkips(d) \/ PumpThrows(d) \/ PumpEnds(d)
    \/ \E room \in {"kept", "purged"} : FailurePublished(d, room)
    \/ FailureTerminates(d) \/ TerminateEntry(d)
    \/ \E o \in Ops : RetireKeeps(d, o) \/ RetireEnds(d, o)

Settle(d, t) ==
    \/ SettleFenced(d, t) \/ SettleRefused(d, t)
    \/ \E usage \in Usages, room \in Room : SettleCompleted(d, t, usage, room)
    \/ \E status \in {"failed", "timeout", "cancelled"} : SettleFailed(d, t, status)

CoordinatorNext ==
    \/ \E d \in Daemons : Lifecycle(d) \/ Handler(d) \/ Turning(d) \/ Poll(d)
    \/ \E d \in Daemons : \E t \in slots[d] : Settle(d, t)
    \/ Surroundings

CoordinatorSpec == CoordinatorInit /\ [][CoordinatorNext]_allVars

\* Fairness startup and the event loop give: recovery runs, a begun turn ends,
\* an armed timer fires, and every provider request settles, if only because its
\* deadline aborts it.  Its continuation waits for the turns of others, so it is
\* enabled time and again rather than for ever, and gets its turn because the
\* loop is first come first served: strong fairness.
SettlesAttempt(d, a) == \E t \in slots[d] : t.entry.attempt = a /\ Settle(d, t)

Fairness ==
    \A d \in Daemons :
        /\ WF_allVars(Recover(d))
        /\ WF_allVars(Turning(d))
        /\ WF_allVars(Poll(d))
        /\ \A a \in Attempts : SF_allVars(SettlesAttempt(d, a))

FairSpec == CoordinatorSpec /\ Fairness

(***************************************************************************)
(* Correctness.                                                            *)
(***************************************************************************)

\* Money leaves only once per attempt and never before the ledger says so:
\* over crashes, restarts, retries of the same key, a second daemon and late
\* callbacks, a provider sees at most one request for an attempt, and the
\* attempt's charge was on disk before it.
SentOnceAndCharged ==
    \A a \in Attempts :
        /\ sent[a] <= 1
        /\ sent[a] = 1 => row[a].status # "queued" /\ row[a].accounting # "not_started"
        /\ row[a].accounting # "not_started" => sent[a] = 1

\* A running row always has somebody to end it: a request in flight, or the
\* turn that is recording its failure, in the daemon that has authority, or
\* else a recovery still to come.  So start never finds the slots taken by
\* rows nobody is working on.
RunningIsOwned ==
    \A d \in Daemons : phase[d] = "up" /\ HasAuthority(d) =>
        \A a \in WithStatus("running") :
            \/ \E t \in slots[d] : t.entry.attempt = a /\ t.state = "sent"
            \/ turn[d].at = "failed" /\ turn[d].entry.attempt = a
            \/ turn[d].at = "terminate" /\ turn[d].op = a[1]

\* An answer is published only under the authority its operation was admitted
\* with: same generations, content still there, the member still an editor.
PublishedUnderAuthority ==
    [][\A a \in Attempts :
          row'[a].status = "completed" /\ row[a].status # "completed" =>
              /\ Admissible(a[1])
              /\ ~head[a[1]].tombstone
              /\ Can(scope[head[a[1]].scope].role, "edit")]_allVars

\* Memory and tables are well formed, the pending queue is bounded, and nothing is
\* in it twice.
QueueSound ==
    CoordinatorTypeOK /\ \A d \in Daemons :
        /\ Len(pending[d]) <= PendingLimit
        /\ Cardinality(slots[d]) <= ActiveLimit
        /\ \A i, j \in 1 .. Len(pending[d]) :
              pending[d][i].attempt = pending[d][j].attempt => i = j

\* Whatever a daemon accepted into its queue is settled as long as it runs with
\* authority: no entry is forgotten when others are cancelled or retired.
EntriesSettle ==
    \A d \in Daemons, a \in Attempts :
        (\E e \in Entries(d) : e.attempt = a)
            ~> (row[a].status \in Terminal \/ phase[d] # "up" \/ ~HasAuthority(d))

\* docs/model-comparisons.md gives every attempt "a thirty second deadline
\* starting at admission": past it, a daemon that keeps running ends it.
DeadlineEnds ==
    \A a \in Attempts :
        (row[a].status \in Live /\ a[1] \in expired)
            ~> (row[a].status \in Terminal \/ owner = 0)
=============================================================================
