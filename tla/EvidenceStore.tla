------------------------------ MODULE EvidenceStore ------------------------------
(***************************************************************************)
(* The durable half of external evidence in a Team service: the tables of  *)
(* evaluations/evidence-store.ts and the transactions of EvidenceStore.  A *)
(* job is one import operation; a completed job owns the set revision it   *)
(* published, so `job' stands for the jobs, sets, artifacts, blobs and     *)
(* payloads together.  A set is named by the job that published its first  *)
(* revision.  Every action is one immediate transaction that commits.      *)
(*                                                                         *)
(* The publication token of a job changes exactly when the job ends        *)
(* without publishing and job ids never repeat, so holding the token of a  *)
(* stored, pending job is the same as that job being pending, and the      *)
(* token is left out.  Request digests are the requests themselves.        *)
(* Inventories and the finding tables are left out.                        *)
(***************************************************************************)
EXTENDS Integers, FiniteSets

CONSTANTS
    Jobs,             \* job ids, random and never reused
    Scopes,           \* one scope per Team project
    Keys,             \* operation keys
    Attachments,      \* runs reports are attached to
    Actors,           \* members with a session
    Reports,          \* report bytes with their retention
    Retains,          \* Reports -> raw bytes kept, 0 for normalized_only
    RawLimit,         \* maxRawBytes
    NormalizedLimit,  \* maxNormalizedBytes
    RevisionLimit,    \* maxRevisions
    MaxNormalized,    \* MAX_NORMALIZED_BYTES
    ActiveLimit,      \* MAX_ACTIVE
    QueueLimit,       \* MAX_QUEUED
    MaxGeneration,    \* Number.MAX_SAFE_INTEGER, where clearing refuses
    InitialRole,      \* Actors -> role at the start
    None              \* no stored job, no target

ASSUME EvidenceAssumption ==
    /\ IsFiniteSet(Jobs)
    /\ Retains \in [Reports -> Nat]
    /\ RawLimit \in Nat /\ NormalizedLimit \in Nat /\ RevisionLimit \in Nat
    /\ MaxNormalized \in Nat \ {0}
    /\ ActiveLimit \in Nat /\ QueueLimit \in Nat /\ MaxGeneration \in Nat
    /\ None \notin Jobs

VARIABLES
    job,         \* Jobs -> stored job with what it published, or None
    used,        \* job ids handed out
    generation,  \* Scopes -> generation of the scope
    anchor,      \* the attachments that exist, as <<scope, attachment>>
    role         \* Actors -> current role in the service

store == <<job, used, generation, anchor, role>>

(***************************************************************************)
(* Types.                                                                  *)
(***************************************************************************)
Roles == {"none", "viewer", "editor", "admin"}

ASSUME RoleAssumption == InitialRole \in [Actors -> Roles]

Statuses == {"queued", "running", "completed", "cancelled", "failed"}

Target == [set : Jobs, revision : 1 .. RevisionLimit]

Request == [report : Reports, attachment : Attachments, target : Target \cup {None}]

JobRecord == [scope : Scopes, generation : Nat, key : Keys, request : Request,
              status : Statuses, late : BOOLEAN,
              reservedRaw : 0 .. RawLimit, reservedNormalized : 0 .. MaxNormalized,
              blob : 0 .. RawLimit, payload : 0 .. MaxNormalized,
              revisionData : 0 .. MaxNormalized]

ASSUME NoneJobAssumption == None \notin JobRecord /\ None \notin Target

StoreTypeOK ==
    /\ job \in [Jobs -> JobRecord \cup {None}]
    /\ used \in SUBSET Jobs
    /\ \A j \in Jobs : job[j] # None => j \in used
    /\ generation \in [Scopes -> Nat]
    /\ anchor \in SUBSET (Scopes \X Attachments)
    /\ role \in [Actors -> Roles]

(***************************************************************************)
(* Reads.                                                                  *)
(***************************************************************************)
Access == [none |-> {}, viewer |-> {"normalized_read"},
           editor |-> {"normalized_read", "import"},
           admin |-> {"normalized_read", "import", "delete"}]

Can(a, capability) == capability \in Access[role[a]]

CanOn(a, capability, s, x) == Can(a, capability) /\ <<s, x>> \in anchor

CanJob(a, capability, j) ==
    job[j] # None /\ CanOn(a, capability, job[j].scope, job[j].request.attachment)

JobsIn(s) == {j \in Jobs : job[j] # None /\ job[j].scope = s}

Pending(j) == job[j] # None /\ job[j].status \in {"queued", "running"}

WithStatus(status) == {j \in Jobs : job[j] # None /\ job[j].status = status}

Published(s) == JobsIn(s) \cap WithStatus("completed")

SetOf(j) == IF job[j].request.target = None THEN j ELSE job[j].request.target.set

Base(j) == IF job[j].request.target = None THEN 0 ELSE job[j].request.target.revision

\* The published job that made this revision of this set.
IsRevision(j, s, set, revision) ==
    j \in Published(s) /\ SetOf(j) = set /\ Base(j) + 1 = revision

IsLatest(j, s, set) ==
    /\ j \in Published(s) /\ SetOf(j) = set
    /\ \A i \in Published(s) : SetOf(i) = set => Base(i) <= Base(j)

\* Sums of bytes, as the number of bytes held.
HeldRaw(s) ==
    Cardinality({u \in Jobs \X (1 .. RawLimit) :
        /\ u[1] \in JobsIn(s)
        /\ u[2] <= job[u[1]].reservedRaw + job[u[1]].blob})

HeldNormalized(s) ==
    Cardinality({u \in Jobs \X (1 .. MaxNormalized) :
        /\ u[1] \in JobsIn(s)
        /\ u[2] <= job[u[1]].reservedNormalized + job[u[1]].payload
                     + job[u[1]].revisionData})

(***************************************************************************)
(* Admission.                                                              *)
(***************************************************************************)
\* The job already stored for this key in this generation of the scope.
IsExisting(j, s, k) ==
    j \in JobsIn(s) /\ job[j].key = k /\ job[j].generation = generation[s]

TargetCurrent(s, r) ==
    r.target # None =>
        \E j \in Jobs : /\ IsLatest(j, s, r.target.set)
                        /\ Base(j) + 1 = r.target.revision
                        /\ job[j].request.attachment = r.attachment

\* Mutant of HasRoom: only bytes already stored count, not reservations.
HasRoomIgnoringReservations(s, r) ==
    /\ Cardinality(WithStatus("queued")) < QueueLimit
    /\ Cardinality({u \in Jobs \X (1 .. RawLimit) :
          u[1] \in JobsIn(s) /\ u[2] <= job[u[1]].blob}) + Retains[r.report] <= RawLimit
    /\ HeldNormalized(s) + MaxNormalized <= NormalizedLimit

HasRoom(s, r) ==
    /\ Cardinality(WithStatus("queued")) < QueueLimit
    /\ Cardinality(Published(s)) + Cardinality({j \in JobsIn(s) : Pending(j)})
          < RevisionLimit
    /\ Cardinality(JobsIn(s)) < RevisionLimit
    /\ HeldRaw(s) + Retains[r.report] <= RawLimit
    /\ HeldNormalized(s) + MaxNormalized <= NormalizedLimit

Admissible(a, s, k, r) ==
    /\ CanOn(a, "import", s, r.attachment)
    /\ ~\E j \in Jobs : IsExisting(j, s, k)
    /\ TargetCurrent(s, r)
    /\ HasRoom(s, r)

Admitted(s, k, r) ==
    [scope |-> s, generation |-> generation[s], key |-> k, request |-> r,
     status |-> "queued", late |-> FALSE,
     reservedRaw |-> Retains[r.report], reservedNormalized |-> MaxNormalized,
     blob |-> 0, payload |-> 0, revisionData |-> 0]

Admit(a, j, s, k, r) ==
    /\ j \notin used
    /\ Admissible(a, s, k, r)
    /\ job' = [job EXCEPT ![j] = Admitted(s, k, r)]
    /\ used' = used \cup {j}
    /\ UNCHANGED <<generation, anchor, role>>

\* A retry of a stored operation with the same bytes and configuration.
Reuses(a, j, s, k, r) ==
    CanOn(a, "import", s, r.attachment) /\ IsExisting(j, s, k) /\ job[j].request = r

(***************************************************************************)
(* The life of a job.                                                      *)
(***************************************************************************)
\* Mutant of Ended: what was reserved stays reserved.
EndedHolding(J, status) ==
    [j \in Jobs |->
        IF j \in J /\ Pending(j) THEN [job[j] EXCEPT !.status = status] ELSE job[j]]

\* The jobs that have not ended end without publishing and release what they
\* reserved.
Ended(J, status) ==
    [j \in Jobs |->
        IF j \in J /\ Pending(j)
        THEN [job[j] EXCEPT !.status = status, !.reservedRaw = 0,
                            !.reservedNormalized = 0]
        ELSE job[j]]

OnlyJobs == UNCHANGED <<used, generation, anchor, role>>

Owned(a, j) ==
    CanJob(a, "import", j) /\ job[j].generation = generation[job[j].scope]

Startable(a, j) ==
    /\ Owned(a, j)
    /\ job[j].status = "queued"
    /\ ~job[j].late
    /\ Cardinality(WithStatus("running")) < ActiveLimit

Started(j) == [job EXCEPT ![j].status = "running"]

Start(a, j) == Startable(a, j) /\ job' = Started(j) /\ OnlyJobs

StartedLate(a, j) == Owned(a, j) /\ job[j].status = "queued" /\ job[j].late

StartLate(a, j) == StartedLate(a, j) /\ job' = Ended({j}, "failed") /\ OnlyJobs

CancelJob(a, j) ==
    /\ CanJob(a, "import", j)
    /\ Pending(j)
    /\ job' = Ended({j}, "cancelled")
    /\ OnlyJobs

\* fail throws without current authority and returns false for a job that ended.
Failable(a, j) == Owned(a, j) /\ Pending(j)

FailJob(a, j) == Failable(a, j) /\ job' = Ended({j}, "failed") /\ OnlyJobs

Recover(S) ==
    /\ \E j \in Jobs : Pending(j) /\ job[j].scope \in S
    /\ job' = Ended({j \in Jobs : job[j] # None /\ job[j].scope \in S}, "failed")
    /\ OnlyJobs

TargetUnchanged(j) ==
    job[j].request.target # None =>
        \E i \in Jobs : /\ IsLatest(i, job[j].scope, SetOf(j))
                        /\ Base(i) + 1 = Base(j)

Publishing(a, j) == Owned(a, j) /\ job[j].status = "running"

PublishRefused(a, j) ==
    /\ Publishing(a, j)
    /\ job[j].late \/ ~TargetUnchanged(j)
    /\ job' = Ended({j}, "failed")
    /\ OnlyJobs

\* Publication keeps the raw bytes that were reserved for it, at most the
\* normalized bytes that were, and releases the rest.
Publish(a, j) ==
    /\ Publishing(a, j)
    /\ ~job[j].late /\ TargetUnchanged(j)
    /\ \E data, payload \in 0 .. MaxNormalized :
          /\ data > 0 /\ data + payload <= MaxNormalized
          /\ job' = [job EXCEPT
                ![j].status = "completed", ![j].reservedRaw = 0,
                ![j].reservedNormalized = 0, ![j].blob = Retains[job[j].request.report],
                ![j].payload = payload, ![j].revisionData = data]
    /\ OnlyJobs

(***************************************************************************)
(* Removal.                                                                *)
(***************************************************************************)
\* Mutant of Withdrawn: jobs open on the set go on.
WithdrawnOnly(i, kind) ==
    [j \in Jobs |->
        IF j # i THEN job[j]
        ELSE IF kind = "raw_removed" THEN [job[j] EXCEPT !.blob = 0]
        ELSE [job[j] EXCEPT !.payload = 0]]

Withdrawn(i, kind) ==
    LET ended == Ended({j \in JobsIn(job[i].scope) :
                          /\ job[j].request.target # None
                          /\ SetOf(j) = SetOf(i)}, "failed")
    IN [j \in Jobs |->
          IF j # i THEN ended[j]
          ELSE IF kind = "raw_removed" THEN [job[j] EXCEPT !.blob = 0]
          ELSE [job[j] EXCEPT !.payload = 0]]

\* The revision is named by the job that published it.
RemovePayloads(a, i, kind) ==
    /\ CanJob(a, "delete", i)
    /\ job[i].status = "completed"
    /\ job' = Withdrawn(i, kind)
    /\ OnlyJobs

Purged(s) == [j \in Jobs |-> IF j \in JobsIn(s) THEN None ELSE job[j]]

PurgeScope(a, s) ==
    /\ Can(a, "delete")
    /\ generation[s] < MaxGeneration
    /\ generation' = [generation EXCEPT ![s] = @ + 1]
    /\ job' = Purged(s)
    /\ UNCHANGED <<used, anchor, role>>

(***************************************************************************)
(* What happens around the store: time, members, runs.                     *)
(***************************************************************************)
\* The job's deadline, admission plus MAX_IMPORT_MS, passes.
Lapse(j) ==
    /\ Pending(j) /\ ~job[j].late
    /\ job' = [job EXCEPT ![j].late = TRUE]
    /\ OnlyJobs

\* A session ends or a member's role changes.
SetRole(a, r) ==
    /\ role[a] # r
    /\ role' = [role EXCEPT ![a] = r]
    /\ UNCHANGED <<job, used, generation, anchor>>

\* Mutant of Deletable: imports are only looked at when the deletion begins.
DeletableUnchecked(a, s, x) == Can(a, "delete") /\ <<s, x>> \in anchor

Deletable(a, s, x) ==
    /\ Can(a, "delete") /\ <<s, x>> \in anchor
    /\ \A j \in JobsIn(s) : Pending(j) => job[j].request.attachment # x

\* deleteRun: in one transaction, unless a report is being attached to the run.
DeleteRun(a, s, x) ==
    /\ Deletable(a, s, x)
    /\ anchor' = anchor \ {<<s, x>>}
    /\ UNCHANGED <<job, used, generation, role>>

(***************************************************************************)
(* Specification.                                                          *)
(***************************************************************************)
StoreInit ==
    /\ job = [j \in Jobs |-> None]
    /\ used = {}
    /\ generation = [s \in Scopes |-> 1]
    /\ anchor = Scopes \X Attachments
    /\ role = InitialRole

JobStep(a, j) ==
    \/ \E s \in Scopes, k \in Keys, r \in Request : Admit(a, j, s, k, r)
    \/ Start(a, j) \/ StartLate(a, j)
    \/ CancelJob(a, j) \/ FailJob(a, j)
    \/ Publish(a, j) \/ PublishRefused(a, j)
    \/ \E kind \in {"raw_removed", "normalized_removed"} : RemovePayloads(a, j, kind)

StoreNext ==
    \/ \E a \in Actors, j \in Jobs : JobStep(a, j)
    \/ \E a \in Actors, s \in Scopes : PurgeScope(a, s)
    \/ \E a \in Actors, s \in Scopes, x \in Attachments : DeleteRun(a, s, x)
    \/ \E a \in Actors, r \in Roles : SetRole(a, r)
    \/ \E j \in Jobs : Lapse(j)
    \/ Recover(Scopes)

StoreSpec == StoreInit /\ [][StoreNext]_store

(***************************************************************************)
(* Correctness.                                                            *)
(***************************************************************************)

\* The stored and the reserved bytes of a scope never exceed its quotas: a
\* publication always fits where its admission made room, whatever is admitted,
\* retained, removed, cancelled or recovered in between.  Queued and running jobs
\* stay within the number TeamEvidence accepts when it starts and closes, so a
\* restart never refuses its own database.
QuotaHeld ==
    /\ \A s \in Scopes : HeldRaw(s) <= RawLimit /\ HeldNormalized(s) <= NormalizedLimit
    /\ Cardinality(WithStatus("running")) <= ActiveLimit
    /\ Cardinality(WithStatus("queued")) <= QueueLimit

\* Only an operation that has not ended holds a reservation, and holds all of
\* it; only a published one holds bytes.
ReservedWhilePending ==
    \A j \in Jobs : job[j] # None =>
        IF Pending(j)
        THEN /\ job[j].reservedRaw = Retains[job[j].request.report]
             /\ job[j].reservedNormalized = MaxNormalized
             /\ job[j].blob = 0 /\ job[j].payload = 0 /\ job[j].revisionData = 0
        ELSE /\ job[j].reservedRaw = 0 /\ job[j].reservedNormalized = 0
             /\ job[j].status # "completed" => job[j].blob + job[j].payload
                                                 + job[j].revisionData = 0

\* No report is being attached to a run that is gone.
AnchoredWork ==
    \A j \in Jobs : Pending(j) =>
        <<job[j].scope, job[j].request.attachment>> \in anchor

\* The store keeps the promise of EvidenceHistory: operations decided at most
\* once, revisions in one line, no publication across a removal or a clear.
PartsOf(j) == {part \in {"raw", "normalized"} :
                  IF part = "raw" THEN job[j].blob > 0 ELSE job[j].payload > 0}

OperationOf(j) ==
    IF job[j] = None THEN None
    ELSE [scope |-> job[j].scope, epoch |-> job[j].generation, key |-> job[j].key,
          series |-> SetOf(j), base |-> Base(j),
          state |-> IF Pending(j) THEN "open"
                    ELSE IF job[j].status = "completed" THEN "kept" ELSE "closed",
          parts |-> PartsOf(j)]

OperationRecord == [scope : Scopes, epoch : Nat, key : Keys, series : Jobs, base : Nat,
                    state : {"open", "kept", "closed"},
                    parts : SUBSET {"raw", "normalized"}]

ASSUME NoneOperationAssumption == None \notin OperationRecord

History == INSTANCE EvidenceHistory
    WITH Operations <- Jobs, epoch <- generation,
         operation <- [j \in Jobs |-> OperationOf(j)]

HistoryKept == History!Spec
=============================================================================
