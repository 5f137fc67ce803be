------------------------------ MODULE EvidenceImport ------------------------------
(***************************************************************************)
(* The import service of a Team service: EvidenceImportService over        *)
(* EvidenceStore, with TeamEvidence's recovery at both ends of the         *)
(* process.  An entry is one HTTP receipt (an upload or a reparse) from    *)
(* its arrival to the release of its slot.  One action is one turn of the  *)
(* event loop, or a part of one that no other part can come before: the    *)
(* loop of #pump is one action for each entry it looks at, and while it is *)
(* on (`pumping') nothing else runs in the process, which owns the         *)
(* database.                                                               *)
(*                                                                         *)
(* The supervisor's worker is an answer or a failure that comes at any     *)
(* time; frames, digests and inventories are left out.                     *)
(***************************************************************************)
EXTENDS EvidenceStore, Sequences, SequencesExt

CONSTANTS
    Entries,    \* names of receipts, reused when one is over
    Sweepers,   \* requests that clear a scope or delete a run
    RoleChanges \* roles members may be given while the service runs

ASSUME ImportAssumption == RoleChanges \subseteq Roles /\ None \notin Attachments

VARIABLES
    entry,      \* Entries -> receipt in progress
    line,       \* entries in the order they arrived, as the Set iterates them
    pumping,    \* the loop of #pump is on
    blocked,    \* scopes, and attachments of scopes, that admit nothing
    sweep,      \* Sweepers -> clear or run deletion in progress, or Idle
    process     \* "up", "closing" (shutdown has begun) or "down"

service == <<entry, line, pumping, blocked, sweep, process>>

vars == <<store, service>>

(***************************************************************************)
(* Types.                                                                  *)
(***************************************************************************)
Stages == {"free",       \* no receipt
           "header",     \* upload whose frame header has not arrived
           "waiting",    \* admitted, its `ready' is set
           "granted",    \* `ready' resolved, the sources come next
           "working",    \* captured and submitted to the supervisor
           "unwinding"}  \* rejected, the catch clause comes next

Receipt == [stage : Stages, kind : {"upload", "reparse"}, owner : Actors \cup {None},
            scope : Scopes \cup {None}, draft : Request \cup {None},
            job : Jobs \cup {None}, reused : BOOLEAN, active : BOOLEAN,
            aborted : BOOLEAN]

Free == [stage |-> "free", kind |-> "upload", owner |-> None, scope |-> None,
         draft |-> None, job |-> None, reused |-> FALSE, active |-> FALSE,
         aborted |-> FALSE]

Idle == [kind |-> "none", stage |-> "idle", actor |-> None, scope |-> None,
         attachment |-> None, awaits |-> {}, thrown |-> FALSE]

Sweep == [kind : {"none", "clear", "run"}, stage : {"idle", "draining", "unlinking"},
          actor : Actors \cup {None}, scope : Scopes \cup {None},
          attachment : Attachments \cup {None}, awaits : SUBSET Entries,
          thrown : BOOLEAN]

Busy == {e \in Entries : entry[e].stage # "free"}

Active == {e \in Entries : entry[e].active}

ImportTypeOK ==
    /\ StoreTypeOK
    /\ entry \in [Entries -> Receipt]
    /\ line \in Seq(Entries)
    /\ pumping \in BOOLEAN
    /\ blocked \in SUBSET ((Scopes \X {None}) \cup (Scopes \X Attachments))
    /\ sweep \in [Sweepers -> Sweep]
    /\ process \in {"up", "closing", "down"}

(***************************************************************************)
(* Parts of a turn.                                                        *)
(***************************************************************************)
Turn == ~pumping /\ process # "down"

Open == Turn /\ process = "up"

\* Mutant of Drained: the receipts are aborted but not awaited.
DrainedAtOnce(w) == Turn /\ sweep[w].stage = "draining"

Drained(w) == Turn /\ sweep[w].stage = "draining" /\ sweep[w].awaits = {}

OwnsJob(e) == entry[e].job # None /\ ~entry[e].reused

\* #failure: the entries' own jobs fail under the authority of a, unless fail throws.
Failing(E, a) ==
    Ended({entry[e].job : e \in {f \in E : OwnsJob(f) /\ Failable(a, entry[f].job)}},
          "failed")

\* Mutant of Stopped: an abort that nobody listens to.
StoppedSilently(rec) ==
    IF rec.stage = "free" THEN rec ELSE [rec EXCEPT !.aborted = TRUE]

\* Aborting an upload that is being read, or an entry that waits, rejects it.  A
\* submitted worker is killed and rejects later; a reparse just granted goes on.
Stopped(rec) ==
    IF \/ rec.stage \in {"header", "waiting"}
       \/ rec.stage = "granted" /\ rec.kind = "upload"
    THEN [rec EXCEPT !.stage = "unwinding", !.aborted = TRUE]
    ELSE IF rec.stage = "free" THEN rec ELSE [rec EXCEPT !.aborted = TRUE]

Stopping(E) == [e \in Entries |-> IF e \in E THEN Stopped(entry[e]) ELSE entry[e]]

\* #release: the slot is given back, whoever awaits the entry goes on, and #pump
\* looks at the line.
Release(e) ==
    /\ entry' = [entry EXCEPT ![e] = Free]
    /\ line' = RemoveFirst(line, e)
    /\ sweep' = [w \in Sweepers |-> [sweep[w] EXCEPT !.awaits = @ \ {e}]]
    /\ pumping' = TRUE
    /\ UNCHANGED <<blocked, process>>

\* #current
Current(e) ==
    /\ ~entry[e].aborted
    /\ CanJob(entry[e].owner, "normalized_read", entry[e].job)
    /\ job[entry[e].job].status = "running"

(***************************************************************************)
(* Uploads and reparses arrive.                                            *)
(***************************************************************************)
\* A request is a callback of its own: every clear whose receipts are over has
\* gone on before it.
Enters(e, a, s) ==
    /\ Open
    /\ ~\E w \in Sweepers : Drained(w)
    /\ entry[e].stage = "free"
    /\ Can(a, "import")
    /\ <<s, None>> \notin blocked
    /\ Cardinality(Busy) < ActiveLimit + QueueLimit

Arrive(e, a, s) ==
    /\ Enters(e, a, s)
    /\ entry' = [entry EXCEPT ![e] =
          [Free EXCEPT !.stage = "header", !.owner = a, !.scope = s]]
    /\ line' = Append(line, e)
    /\ UNCHANGED <<store, pumping, blocked, sweep, process>>

\* A new operation, or the one already stored for the key.
Receives(a, j, s, k, r, reused) ==
    IF reused THEN Reuses(a, j, s, k, r) /\ UNCHANGED store ELSE Admit(a, j, s, k, r)

AdmitUpload(e, j, k, r, reused) ==
    LET s == entry[e].scope
    IN /\ Turn
       /\ entry[e].stage = "header"
       /\ <<s, r.attachment>> \notin blocked
       /\ Receives(entry[e].owner, j, s, k, r, reused)
       /\ entry' = [entry EXCEPT ![e].stage = "waiting", ![e].draft = r,
                                 ![e].job = j, ![e].reused = reused]
       /\ pumping' = TRUE
       /\ UNCHANGED <<line, blocked, sweep, process>>

\* The frame is malformed, its client is gone, or admission is refused.
Malformed(e) ==
    /\ Turn
    /\ \/ entry[e].stage = "header"
       \/ entry[e].stage = "granted" /\ entry[e].kind = "upload"
    /\ entry' = [entry EXCEPT ![e].stage = "unwinding"]
    /\ UNCHANGED <<store, line, pumping, blocked, sweep, process>>

\* A reparse names the revision it reads and takes its attachment from it.  One
\* that is refused or that joins a stored operation is over in the same turn.
Reparse(e, a, i, j, k, report) ==
    LET s == job[i].scope
        r == [report |-> report, attachment |-> job[i].request.attachment,
              target |-> [set |-> SetOf(i), revision |-> Base(i) + 1]]
    IN /\ job[i] # None /\ job[i].status = "completed"
       /\ Enters(e, a, s)
       /\ Admit(a, j, s, k, r)
       /\ entry' = [entry EXCEPT ![e] =
             [Free EXCEPT !.stage = "waiting", !.kind = "reparse", !.owner = a,
                          !.scope = s, !.draft = r, !.job = j]]
       /\ line' = Append(line, e)
       /\ pumping' = TRUE
       /\ UNCHANGED <<blocked, sweep, process>>

(***************************************************************************)
(* #pump.                                                                  *)
(***************************************************************************)
\* The first entry in line whose `ready' is set.
Candidate(e) ==
    \E n \in DOMAIN line :
        /\ line[n] = e /\ entry[e].stage = "waiting"
        /\ \A m \in 1 .. n - 1 : entry[line[m]].stage # "waiting"

\* Mutant of Slots: joined operations do not count.
SlotsOfJobs == Cardinality({e \in Active : ~entry[e].reused}) < ActiveLimit

Slots == Cardinality(Active) < ActiveLimit

PumpGrants(e) ==
    /\ pumping /\ process = "up" /\ Slots
    /\ Candidate(e)
    /\ IF entry[e].reused THEN UNCHANGED store
       ELSE Start(entry[e].owner, entry[e].job)
    /\ entry' = [entry EXCEPT ![e].stage = "granted", ![e].active = TRUE]
    /\ UNCHANGED <<line, pumping, blocked, sweep, process>>

PumpRefuses(e) ==
    /\ pumping /\ process = "up" /\ Slots
    /\ Candidate(e)
    /\ ~entry[e].reused
    /\ ~Startable(entry[e].owner, entry[e].job)
    /\ IF StartedLate(entry[e].owner, entry[e].job)
       THEN StartLate(entry[e].owner, entry[e].job) ELSE UNCHANGED store
    /\ entry' = [entry EXCEPT ![e].stage = "unwinding"]
    /\ UNCHANGED <<line, pumping, blocked, sweep, process>>

PumpEnds ==
    /\ pumping
    /\ process # "up" \/ ~Slots \/ ~\E e \in Entries : Candidate(e)
    /\ pumping' = FALSE
    /\ UNCHANGED <<store, entry, line, blocked, sweep, process>>

(***************************************************************************)
(* Sources and workers.                                                    *)
(***************************************************************************)
\* All sources of an upload have arrived.  A joined operation needs no worker; an
\* upload whose job its owner may no longer read loses its worker again at once.
CaptureUpload(e) ==
    /\ Turn
    /\ entry[e].stage = "granted" /\ entry[e].kind = "upload"
    /\ IF entry[e].reused \/ ~CanJob(entry[e].owner, "normalized_read", entry[e].job)
       THEN Release(e)
       ELSE /\ entry' = [entry EXCEPT ![e].stage = "working"]
            /\ UNCHANGED <<line, pumping, blocked, sweep, process>>
    /\ UNCHANGED store

\* Mutant of Readable: the bytes were read when the reparse was requested.
ReadableOnce(e) == entry[e].draft # None

\* The raw bytes of the revision a reparse names are still there.
Readable(e) ==
    \E i \in Jobs :
        /\ IsRevision(i, entry[e].scope, entry[e].draft.target.set,
                      entry[e].draft.target.revision)
        /\ CanJob(entry[e].owner, "import", i)
        /\ job[i].blob > 0

CaptureReparse(e) ==
    /\ Turn
    /\ entry[e].stage = "granted" /\ entry[e].kind = "reparse"
    /\ IF process = "up" /\ Readable(e)
       THEN /\ entry' = [entry EXCEPT ![e].stage = "working"]
            /\ UNCHANGED <<store, line, pumping, blocked, sweep, process>>
       ELSE /\ job' = Failing({e}, entry[e].owner)
            /\ Release(e) /\ OnlyJobs

\* Mutant of Unwind: the slot is released, the job is not failed.
UnwindSilently(e) ==
    /\ Turn
    /\ entry[e].stage = "unwinding"
    /\ Release(e) /\ UNCHANGED store

\* The catch clauses of receive and reparse.
Unwind(e) ==
    /\ Turn
    /\ entry[e].stage = "unwinding"
    /\ job' = Failing({e}, entry[e].owner)
    /\ Release(e) /\ OnlyJobs

\* The worker's result reaches #complete, which publishes it.
WorkerAnswers(e) ==
    /\ Turn
    /\ entry[e].stage = "working" /\ Current(e)
    /\ \/ Publish(entry[e].owner, entry[e].job)
       \/ PublishRefused(entry[e].owner, entry[e].job)
    /\ Release(e)

\* The worker failed, was killed, or its result is not current; or publication
\* threw.
WorkerFails(e) ==
    /\ Turn
    /\ entry[e].stage = "working"
    /\ job' = Failing({e}, entry[e].owner)
    /\ Release(e) /\ OnlyJobs

\* The timer of the entry: upload_timeout or import_timeout.
Timer(e) ==
    /\ Turn
    /\ entry[e].stage \in {"header", "waiting", "granted", "working"}
    /\ ~entry[e].aborted
    /\ job' = Failing({e}, entry[e].owner)
    /\ entry' = Stopping({e})
    /\ OnlyJobs /\ UNCHANGED <<line, pumping, blocked, sweep, process>>

(***************************************************************************)
(* Cancellation and removal.                                               *)
(***************************************************************************)
Cancel(a, j) ==
    /\ Open
    /\ CanJob(a, "import", j)
    /\ job' = Ended({j}, "cancelled")
    /\ entry' = Stopping({e \in Busy : entry[e].job = j})
    /\ <<job, entry>>' # <<job, entry>>
    /\ OnlyJobs /\ UNCHANGED <<line, pumping, blocked, sweep, process>>

RemoveRetained(a, i, kind) ==
    /\ Open
    /\ RemovePayloads(a, i, kind)
    /\ entry' = Stopping({e \in Busy : /\ entry[e].draft # None
                                       /\ entry[e].scope = job[i].scope
                                       /\ entry[e].draft.target # None
                                       /\ entry[e].draft.target.set = SetOf(i)})
    /\ UNCHANGED <<line, pumping, blocked, sweep, process>>

\* #invalidate: the entries' jobs fail under the caller's authority; a fail that
\* throws is reported when they are over.
Invalidate(w, kind, a, s, x, E) ==
    /\ job' = Failing(E, a)
    /\ entry' = Stopping(E)
    /\ blocked' = blocked \cup {<<s, x>>}
    /\ sweep' = [sweep EXCEPT ![w] =
          [kind |-> kind, stage |-> "draining", actor |-> a, scope |-> s,
           attachment |-> x, awaits |-> E,
           thrown |-> \E e \in E : OwnsJob(e) /\ ~CanJob(a, "import", entry[e].job)]]
    /\ OnlyJobs /\ UNCHANGED <<line, pumping, process>>

BeginClear(w, a, s) ==
    /\ Open
    /\ sweep[w] = Idle
    /\ Can(a, "delete")
    /\ Invalidate(w, "clear", a, s, None, {e \in Busy : entry[e].scope = s})

\* Deleting a run begins with the imports that attach to it.
BeginDeletion(w, a, s, x) ==
    /\ Open
    /\ sweep[w] = Idle
    /\ Can(a, "delete") /\ <<s, x>> \in anchor
    /\ Invalidate(w, "run", a, s, x,
          {e \in Busy : /\ entry[e].scope = s
                        /\ entry[e].draft # None
                        /\ entry[e].draft.attachment = x})

Unblocked(w) == blocked' = blocked \ {<<sweep[w].scope, sweep[w].attachment>>}

EndClear(w) ==
    LET a == sweep[w].actor
        s == sweep[w].scope
    IN /\ Drained(w) /\ sweep[w].kind = "clear"
       /\ IF ~sweep[w].thrown /\ Can(a, "delete") /\ generation[s] < MaxGeneration
          THEN PurgeScope(a, s) ELSE UNCHANGED store
       /\ Unblocked(w)
       /\ sweep' = [sweep EXCEPT ![w] = Idle]
       /\ UNCHANGED <<entry, line, pumping, process>>

EndInvalidation(w) ==
    /\ Drained(w) /\ sweep[w].kind = "run"
    /\ Unblocked(w)
    /\ sweep' = [sweep EXCEPT ![w] =
          IF @.thrown THEN Idle ELSE [@ EXCEPT !.stage = "unlinking"]]
    /\ UNCHANGED <<store, entry, line, pumping, process>>

\* The run is deleted, unless an import found its way in meanwhile.
Unlink(w) ==
    LET a == sweep[w].actor
        s == sweep[w].scope
        x == sweep[w].attachment
    IN /\ Turn
       /\ sweep[w].stage = "unlinking"
       /\ IF Deletable(a, s, x) THEN DeleteRun(a, s, x) ELSE UNCHANGED store
       /\ sweep' = [sweep EXCEPT ![w] = Idle]
       /\ UNCHANGED <<entry, line, pumping, blocked, process>>

(***************************************************************************)
(* The process.                                                            *)
(***************************************************************************)
\* TeamEvidence.close: the rows first, then every receipt.
Shutdown ==
    /\ Open
    /\ process' = "closing"
    /\ job' = Ended(Jobs, "failed")
    /\ entry' = Stopping(Busy)
    /\ OnlyJobs /\ UNCHANGED <<line, pumping, blocked, sweep>>

Gone ==
    /\ entry' = [e \in Entries |-> Free]
    /\ line' = <<>>
    /\ pumping' = FALSE
    /\ blocked' = {}
    /\ sweep' = [w \in Sweepers |-> Idle]
    /\ process' = "down"
    /\ UNCHANGED store

Exit == Turn /\ process = "closing" /\ Busy = {} /\ Gone

Crash == process # "down" /\ Gone

\* The constructor of TeamEvidence ends whatever the last process left.
Restart ==
    /\ process = "down"
    /\ process' = "up"
    /\ job' = Ended(Jobs, "failed")
    /\ OnlyJobs /\ UNCHANGED <<entry, line, pumping, blocked, sweep>>

Around ==
    /\ ~pumping
    /\ \/ \E j \in Jobs : Lapse(j)
       \/ \E a \in Actors, r \in RoleChanges : SetRole(a, r)
    /\ UNCHANGED service

(***************************************************************************)
(* Specification.                                                          *)
(***************************************************************************)
Init ==
    /\ StoreInit
    /\ entry = [e \in Entries |-> Free]
    /\ line = <<>>
    /\ pumping = FALSE
    /\ blocked = {}
    /\ sweep = [w \in Sweepers |-> Idle]
    /\ process = "up"

Arrivals ==
    \/ \E e \in Entries, a \in Actors, s \in Scopes : Arrive(e, a, s)
    \/ \E e \in Entries, j \in Jobs, k \in Keys, r \in Request, reused \in BOOLEAN :
          AdmitUpload(e, j, k, r, reused)
    \/ \E e \in Entries, a \in Actors, i, j \in Jobs, k \in Keys, report \in Reports :
          Reparse(e, a, i, j, k, report)

Pump == PumpEnds \/ \E e \in Entries : PumpGrants(e) \/ PumpRefuses(e)

WorkerEnds(e) == WorkerAnswers(e) \/ WorkerFails(e)

Receiving(e) ==
    \/ Malformed(e) \/ CaptureUpload(e) \/ CaptureReparse(e) \/ Unwind(e)
    \/ WorkerEnds(e) \/ Timer(e)

Requested ==
    \/ \E a \in Actors, j \in Jobs : Cancel(a, j)
    \/ \E a \in Actors, j \in Jobs, kind \in {"raw_removed", "normalized_removed"} :
          RemoveRetained(a, j, kind)
    \/ \E w \in Sweepers, a \in Actors, s \in Scopes :
          \/ BeginClear(w, a, s)
          \/ \E x \in Attachments : BeginDeletion(w, a, s, x)

Sweeping(w) == EndClear(w) \/ EndInvalidation(w) \/ Unlink(w)

Next ==
    \/ Arrivals \/ Pump \/ Requested
    \/ \E e \in Entries : Receiving(e)
    \/ \E w \in Sweepers : Sweeping(w)
    \/ Shutdown \/ Exit \/ Crash \/ Restart \/ Around

Spec == Init /\ [][Next]_vars

\* The event loop runs every callback that is due: the rest of a pump, the timer
\* of a receipt, the end of a worker (killed after MAX_SOURCE_MS at the latest)
\* and the continuation of a rejected or drained promise.
Fairness ==
    /\ WF_vars(Pump)
    /\ \A e \in Entries : /\ SF_vars(Timer(e)) /\ SF_vars(WorkerEnds(e))
                          /\ SF_vars(Unwind(e)) /\ SF_vars(CaptureReparse(e))
    /\ \A w \in Sweepers : SF_vars(Sweeping(w))

FairSpec == Spec /\ Fairness

(***************************************************************************)
(* Correctness.                                                            *)
(***************************************************************************)

\* Slots in memory and in the table agree: never more active receipts, workers
\* or running jobs than MAX_ACTIVE, and a running job's receipt is active; #entries
\* has every receipt that is neither released nor reaped, once.
SlotsAgree ==
    /\ ToSet(line) = Busy /\ Len(line) = Cardinality(Busy)
    /\ Cardinality(Active) <= ActiveLimit
    /\ Cardinality(WithStatus("running")) <= ActiveLimit
    /\ \A e \in Entries : entry[e].stage = "working" => entry[e].active
    /\ \A e \in Entries : OwnsJob(e) /\ job[entry[e].job] # None =>
          (job[entry[e].job].status = "running" => entry[e].active)

\* While the service is up and members keep their roles, an operation that holds
\* a reservation has a receipt in progress that will release it.
ReservationsOwned ==
    process = "up" =>
        \A j \in Jobs : Pending(j) =>
            \E e \in Entries : OwnsJob(e) /\ entry[e].job = j

\* A reparse publishes only while the raw bytes it read are still retained.
RetainedWhenReparsed ==
    [][\A e \in Entries :
          entry[e].kind = "reparse" /\ OwnsJob(e) /\ job[entry[e].job] # None
          /\ job[entry[e].job].status = "running" /\ job'[entry[e].job] # None
          /\ job'[entry[e].job].status = "completed"
              => \E i \in Jobs : /\ IsRevision(i, entry[e].scope,
                                       entry[e].draft.target.set,
                                       entry[e].draft.target.revision)
                                 /\ job[i].blob > 0]_vars

\* A scope is cleared only when no receipt of it is left that could still
\* publish: its entries were awaited, and nothing was admitted meanwhile.
ClearedWhenQuiet ==
    [][\A s \in Scopes : generation'[s] # generation[s] =>
          ~\E e \in Busy : entry[e].scope = s]_vars

\* "Abort, malformed bytes and timeout release the reservation": while the
\* service stays up, every admitted operation ends.
ReservationsEnd ==
    \A j \in Jobs : Pending(j) ~> (~Pending(j) \/ process # "up")

\* Every receipt ends and gives its slot back, and every clear or run deletion
\* that waits for receipts goes on.
ReceiptsEnd ==
    /\ \A e \in Entries : []<>(entry[e].stage = "free")
    /\ \A w \in Sweepers : []<>(sweep[w].stage = "idle")
=============================================================================
