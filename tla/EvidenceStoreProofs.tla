--------------------------- MODULE EvidenceStoreProofs ---------------------------
(***************************************************************************)
(* What holds of the evidence store for every number of jobs, scopes, keys *)
(* and members, every report and every limit.  The step lemmas are stated  *)
(* for StoreMoves, which allows any set of unfinished jobs to be closed at *)
(* once, so that they serve the import service too.                        *)
(***************************************************************************)
EXTENDS EvidenceStore, FiniteSetTheorems, TLAPS

(***************************************************************************)
(* Steps.                                                                  *)
(***************************************************************************)
Closings ==
    /\ \E J \in SUBSET Jobs, status \in {"cancelled", "failed"} :
          job' = Ended(J, status)
    /\ OnlyJobs

Admissions ==
    \E a \in Actors, j \in Jobs, s \in Scopes, k \in Keys, r \in Request :
        Admit(a, j, s, k, r)

Removals ==
    \E a \in Actors, i \in Jobs, kind \in {"raw_removed", "normalized_removed"} :
        RemovePayloads(a, i, kind)

RoleMoves ==
    /\ \E a \in Actors, r \in Roles : role' = [role EXCEPT ![a] = r]
    /\ UNCHANGED <<job, used, generation, anchor>>

\* Whatever a transaction does but starting and publishing a job.
StoreQuiet ==
    \/ Admissions
    \/ Closings
    \/ Removals
    \/ \E a \in Actors, s \in Scopes : PurgeScope(a, s)
    \/ \E a \in Actors, s \in Scopes, x \in Attachments : DeleteRun(a, s, x)
    \/ \E j \in Jobs : Lapse(j)
    \/ RoleMoves
    \/ UNCHANGED store

StoreRests == StoreQuiet \/ \E a \in Actors, j \in Jobs : Publish(a, j)

StoreMoves == StoreRests \/ \E a \in Actors, j \in Jobs : Start(a, j)

LEMMA ActionMoves == [StoreNext]_store => StoreMoves
<1>1. SUFFICES ASSUME StoreNext PROVE StoreMoves
  BY DEF StoreMoves, StoreRests, StoreQuiet
<1>2. ASSUME NEW a \in Actors, NEW j \in Jobs,
             StartLate(a, j) \/ CancelJob(a, j) \/ FailJob(a, j) \/ PublishRefused(a, j)
      PROVE  Closings
  <2>1. job' = Ended({j}, "failed") \/ job' = Ended({j}, "cancelled")
    BY <1>2 DEF StartLate, CancelJob, FailJob, PublishRefused
  <2>2. {j} \in SUBSET Jobs
    OBVIOUS
  <2>3. OnlyJobs
    BY <1>2 DEF StartLate, CancelJob, FailJob, PublishRefused
  <2>4. QED BY <2>1, <2>2, <2>3 DEF Closings
<1>3. ASSUME Recover(Scopes) PROVE Closings
  <2>1. {j \in Jobs : job[j] # None /\ job[j].scope \in Scopes} \in SUBSET Jobs
    OBVIOUS
  <2>2. QED BY <1>3, <2>1 DEF Recover, Closings
<1>4. ASSUME NEW a \in Actors, NEW r \in Roles, SetRole(a, r) PROVE RoleMoves
  BY <1>4 DEF SetRole, RoleMoves
<1>5. ASSUME NEW a \in Actors, NEW j \in Jobs, JobStep(a, j) PROVE StoreMoves
  BY <1>2, <1>5 DEF JobStep, StoreMoves, StoreRests, StoreQuiet, Admissions, Removals
<1>6. QED BY <1>1, <1>3, <1>4, <1>5 DEF StoreNext, StoreMoves, StoreRests, StoreQuiet

(***************************************************************************)
(* What a step may do to one stored job: r before, q after.                *)
(***************************************************************************)
Waits(r) == r.status \in {"queued", "running"}

Continues(r, q) ==
    /\ Waits(r)
    /\ \E status \in {"queued", "running"}, late \in BOOLEAN :
          q = [r EXCEPT !.status = status, !.late = late]

ClosedFrom(r, q) ==
    /\ Waits(r)
    /\ \E status \in {"cancelled", "failed"} :
          q = [r EXCEPT !.status = status, !.reservedRaw = 0, !.reservedNormalized = 0]

PublishedFrom(r, q) ==
    /\ Waits(r)
    /\ \E data, payload \in 0 .. MaxNormalized :
          /\ data + payload <= MaxNormalized
          /\ q = [r EXCEPT !.status = "completed", !.reservedRaw = 0,
                           !.reservedNormalized = 0, !.blob = Retains[r.request.report],
                           !.payload = payload, !.revisionData = data]

WithheldFrom(r, q) ==
    /\ r.status = "completed"
    /\ q = [r EXCEPT !.blob = 0] \/ q = [r EXCEPT !.payload = 0]

Follows(r, q) ==
    \/ q = r \/ Continues(r, q) \/ ClosedFrom(r, q)
    \/ PublishedFrom(r, q) \/ WithheldFrom(r, q)

\* The bytes a job is charged with.
Raw(r) == r.reservedRaw + r.blob

Normalized(r) == r.reservedNormalized + r.payload + r.revisionData

\* What ReservedWhilePending says of one job.
Honest(r) ==
    IF Waits(r)
    THEN /\ r.reservedRaw = Retains[r.request.report]
         /\ r.reservedNormalized = MaxNormalized
         /\ r.blob = 0 /\ r.payload = 0 /\ r.revisionData = 0
    ELSE /\ r.reservedRaw = 0 /\ r.reservedNormalized = 0
         /\ r.status # "completed" => r.blob + r.payload + r.revisionData = 0

LEMMA FollowsKeeps ==
    ASSUME NEW r \in JobRecord, NEW q, Honest(r), Follows(r, q)
    PROVE  /\ q \in JobRecord /\ Honest(q)
           /\ q.scope = r.scope /\ q.generation = r.generation
           /\ q.key = r.key /\ q.request = r.request
           /\ Raw(q) <= Raw(r) /\ Normalized(q) <= Normalized(r)
<1>1. /\ Retains[r.request.report] \in Nat
      /\ MaxNormalized \in Nat /\ RawLimit \in Nat
  BY EvidenceAssumption DEF JobRecord, Request
<1> DEFINE Same == /\ q.scope = r.scope /\ q.generation = r.generation
                   /\ q.key = r.key /\ q.request = r.request
<1>2. CASE q = r
  BY <1>1, <1>2 DEF JobRecord, Raw, Normalized
<1>3. CASE Continues(r, q)
  <2>1. PICK status \in {"queued", "running"}, late \in BOOLEAN :
            q = [r EXCEPT !.status = status, !.late = late]
    BY <1>3 DEF Continues
  <2>2. Waits(r) /\ status \in Statuses
    BY <1>3 DEF Continues, Statuses
  <2>3. q \in JobRecord
    BY <2>1, <2>2 DEF JobRecord
  <2>4. /\ Same /\ q.status = status
        /\ q.reservedRaw = r.reservedRaw /\ q.reservedNormalized = r.reservedNormalized
        /\ q.blob = r.blob /\ q.payload = r.payload /\ q.revisionData = r.revisionData
    BY <2>1 DEF JobRecord
  <2>5. QED BY <1>1, <2>2, <2>3, <2>4 DEF Honest, Waits, Raw, Normalized, JobRecord
<1>4. CASE ClosedFrom(r, q)
  <2>1. PICK status \in {"cancelled", "failed"} :
            q = [r EXCEPT !.status = status, !.reservedRaw = 0, !.reservedNormalized = 0]
    BY <1>4 DEF ClosedFrom
  <2>2. Waits(r) /\ status \in Statuses
    BY <1>4 DEF ClosedFrom, Statuses
  <2>3. 0 \in 0 .. RawLimit /\ 0 \in 0 .. MaxNormalized
    BY <1>1
  <2>4. q \in JobRecord
    BY <2>1, <2>2, <2>3 DEF JobRecord
  <2>5. /\ Same /\ q.status = status
        /\ q.reservedRaw = 0 /\ q.reservedNormalized = 0
        /\ q.blob = r.blob /\ q.payload = r.payload /\ q.revisionData = r.revisionData
    BY <2>1 DEF JobRecord
  <2>6. QED BY <1>1, <2>2, <2>4, <2>5 DEF Honest, Waits, Raw, Normalized, JobRecord
<1>5. CASE PublishedFrom(r, q)
  <2>1. PICK data \in 0 .. MaxNormalized, payload \in 0 .. MaxNormalized :
            /\ data + payload <= MaxNormalized
            /\ q = [r EXCEPT !.status = "completed", !.reservedRaw = 0,
                             !.reservedNormalized = 0,
                             !.blob = Retains[r.request.report],
                             !.payload = payload, !.revisionData = data]
    BY <1>5 DEF PublishedFrom
  <2>2. Waits(r) /\ "completed" \in Statuses
    BY <1>5 DEF PublishedFrom, Statuses
  <2>3. /\ 0 \in 0 .. RawLimit /\ 0 \in 0 .. MaxNormalized
        /\ Retains[r.request.report] = r.reservedRaw
        /\ Retains[r.request.report] \in 0 .. RawLimit
    BY <1>1, <2>2 DEF JobRecord, Honest
  <2>4. q \in JobRecord
    BY <2>1, <2>2, <2>3 DEF JobRecord
  <2>5. /\ Same /\ q.status = "completed"
        /\ q.reservedRaw = 0 /\ q.reservedNormalized = 0
        /\ q.blob = r.reservedRaw /\ q.payload = payload /\ q.revisionData = data
    BY <2>1, <2>3 DEF JobRecord
  <2>6. QED BY <1>1, <2>1, <2>2, <2>4, <2>5 DEF Honest, Waits, Raw, Normalized, JobRecord
<1>6. CASE WithheldFrom(r, q)
  BY <1>1, <1>6 DEF WithheldFrom, JobRecord, Honest, Waits, Raw, Normalized
<1>7. QED BY <1>2, <1>3, <1>4, <1>5, <1>6 DEF Follows

(***************************************************************************)
(* Every step but an admission and a clear moves each stored job by itself. *)
(***************************************************************************)
EachFollows ==
    /\ job' = [j \in Jobs |-> job'[j]]
    /\ \A j \in Jobs : IF job[j] = None THEN job'[j] = None ELSE Follows(job[j], job'[j])
    /\ UNCHANGED <<used, generation>>

LEMMA EndedFollows ==
    ASSUME NEW J, NEW status \in {"cancelled", "failed"}, NEW j \in Jobs, job[j] # None
    PROVE  Ended(J, status)[j] = job[j] \/ ClosedFrom(job[j], Ended(J, status)[j])
BY DEF Ended, Pending, ClosedFrom, Waits

LEMMA EndedAbsent ==
    ASSUME NEW J, NEW status, NEW j \in Jobs, job[j] = None
    PROVE  Ended(J, status)[j] = None
BY DEF Ended, Pending

LEMMA ClosingsFollow ==
    ASSUME Closings
    PROVE  EachFollows
<1>1. PICK J \in SUBSET Jobs, status \in {"cancelled", "failed"} : job' = Ended(J, status)
  BY DEF Closings
<1>2. Ended(J, status) = [j \in Jobs |-> Ended(J, status)[j]]
  BY DEF Ended
<1>3. QED BY <1>1, <1>2, EndedFollows, EndedAbsent
         DEF EachFollows, Follows, Closings, OnlyJobs

LEMMA StartFollows ==
    ASSUME StoreTypeOK, NEW a, NEW j \in Jobs, Start(a, j)
    PROVE  EachFollows
<1>1. job[j] # None /\ Waits(job[j]) /\ job[j] \in JobRecord
  BY DEF Start, Startable, Owned, CanJob, Waits, StoreTypeOK
<1>2. job'[j] = [job[j] EXCEPT !.status = "running"]
  BY DEF Start, Started, StoreTypeOK
<1>3. job'[j] = [job[j] EXCEPT !.status = "running", !.late = job[j].late]
      /\ job[j].late \in BOOLEAN
  BY <1>1, <1>2 DEF JobRecord
<1>4. Continues(job[j], job'[j])
  BY <1>1, <1>3 DEF Continues
<1>5. QED BY <1>1, <1>4 DEF Start, Started, OnlyJobs, EachFollows, Follows, StoreTypeOK

LEMMA LapseFollows ==
    ASSUME StoreTypeOK, NEW j \in Jobs, Lapse(j)
    PROVE  EachFollows
<1>1. job[j] # None /\ Waits(job[j]) /\ job[j] \in JobRecord
  BY DEF Lapse, Pending, Waits, StoreTypeOK
<1>2. job'[j] = [job[j] EXCEPT !.late = TRUE]
  BY DEF Lapse, StoreTypeOK
<1>3. job'[j] = [job[j] EXCEPT !.status = job[j].status, !.late = TRUE]
  BY <1>1, <1>2 DEF JobRecord
<1>4. Continues(job[j], job'[j])
  BY <1>1, <1>3 DEF Continues, Waits
<1>5. QED BY <1>1, <1>4 DEF Lapse, OnlyJobs, EachFollows, Follows, StoreTypeOK

LEMMA PublishFollows ==
    ASSUME StoreTypeOK, NEW a, NEW j \in Jobs, Publish(a, j)
    PROVE  EachFollows /\ PublishedFrom(job[j], job'[j])
<1>1. job[j] # None /\ Waits(job[j]) /\ job[j] \in JobRecord
  BY DEF Publish, Publishing, Owned, CanJob, Waits, StoreTypeOK
<1>2. PICK data \in 0 .. MaxNormalized, payload \in 0 .. MaxNormalized :
          /\ data + payload <= MaxNormalized
          /\ job' = [job EXCEPT
                ![j].status = "completed", ![j].reservedRaw = 0,
                ![j].reservedNormalized = 0, ![j].blob = Retains[job[j].request.report],
                ![j].payload = payload, ![j].revisionData = data]
  BY DEF Publish
<1>3. job'[j] = [job[j] EXCEPT !.status = "completed", !.reservedRaw = 0,
                    !.reservedNormalized = 0,
                    !.blob = Retains[job[j].request.report],
                    !.payload = payload, !.revisionData = data]
  BY <1>2 DEF StoreTypeOK
<1>4. PublishedFrom(job[j], job'[j])
  BY <1>1, <1>2, <1>3 DEF PublishedFrom
<1>5. /\ job' = [i \in Jobs |-> job'[i]]
      /\ \A i \in Jobs : i # j => job'[i] = job[i]
  BY <1>2 DEF StoreTypeOK
<1>6. UNCHANGED <<used, generation>>
  BY DEF Publish, OnlyJobs
<1>7. QED BY <1>1, <1>4, <1>5, <1>6 DEF EachFollows, Follows

LEMMA RemovalFollows ==
    ASSUME StoreTypeOK, NEW a, NEW i \in Jobs, NEW kind \in {"raw_removed", "normalized_removed"},
           RemovePayloads(a, i, kind)
    PROVE  EachFollows
<1> DEFINE Open == {j \in JobsIn(job[i].scope) :
                       job[j].request.target # None /\ SetOf(j) = SetOf(i)}
<1>1. job[i] # None /\ job[i].status = "completed"
  BY DEF RemovePayloads, CanJob
<1>2. \A j \in Jobs : job'[j] =
        IF j # i THEN Ended(Open, "failed")[j]
        ELSE IF kind = "raw_removed" THEN [job[j] EXCEPT !.blob = 0]
        ELSE [job[j] EXCEPT !.payload = 0]
  BY DEF RemovePayloads, Withdrawn
<1>3. job' = [j \in Jobs |-> job'[j]]
  BY DEF RemovePayloads, Withdrawn
<1>4. WithheldFrom(job[i], job'[i])
  BY <1>1, <1>2 DEF WithheldFrom
<1> HIDE DEF Open
<1>5. ASSUME NEW j \in Jobs, j # i
      PROVE  IF job[j] = None THEN job'[j] = None ELSE Follows(job[j], job'[j])
  <2>1. job'[j] = Ended(Open, "failed")[j]
    BY <1>2, <1>5
  <2>2. QED BY <2>1, EndedFollows, EndedAbsent DEF Follows
<1>6. QED BY <1>1, <1>3, <1>4, <1>5 DEF EachFollows, Follows, RemovePayloads, OnlyJobs

LEMMA JobsMove ==
    ASSUME StoreTypeOK, StoreMoves
    PROVE  \/ Admissions
           \/ \E a \in Actors, s \in Scopes : PurgeScope(a, s)
           \/ EachFollows
<1>1. ASSUME UNCHANGED <<job, used, generation>>
      PROVE  EachFollows
  BY <1>1 DEF EachFollows, Follows, StoreTypeOK
<1>2. CASE Removals
  BY <1>2, RemovalFollows DEF Removals
<1>3. CASE \E a \in Actors, s \in Scopes, x \in Attachments : DeleteRun(a, s, x)
  BY <1>1, <1>3 DEF DeleteRun
<1>4. CASE RoleMoves \/ UNCHANGED store
  BY <1>1, <1>4 DEF RoleMoves, store
<1>5. QED
  BY <1>2, <1>3, <1>4, ClosingsFollow, StartFollows, PublishFollows, LapseFollows
     DEF StoreMoves, StoreRests, StoreQuiet

(***************************************************************************)
(* Types and reservations.                                                 *)
(***************************************************************************)
LEMMA ReservedHonest ==
    ReservedWhilePending <=> \A j \in Jobs : job[j] # None => Honest(job[j])
BY DEF ReservedWhilePending, Honest, Pending, Waits

\* The bytes held are finite sets of units, so their sizes compare as the sets do.
RawUnits == Jobs \X (1 .. RawLimit)

NormalizedUnits == Jobs \X (1 .. MaxNormalized)

RawHeld(s) == {u \in RawUnits : u[1] \in JobsIn(s) /\ u[2] <= Raw(job[u[1]])}

NormalizedHeld(s) ==
    {u \in NormalizedUnits : u[1] \in JobsIn(s) /\ u[2] <= Normalized(job[u[1]])}

LEMMA UnitsFinite ==
    /\ \A S \in SUBSET RawUnits : IsFiniteSet(S) /\ Cardinality(S) \in Nat
    /\ \A S \in SUBSET NormalizedUnits : IsFiniteSet(S) /\ Cardinality(S) \in Nat
    /\ \A S \in SUBSET Jobs : IsFiniteSet(S) /\ Cardinality(S) \in Nat
<1>1. IsFiniteSet(1 .. RawLimit) /\ IsFiniteSet(1 .. MaxNormalized)
  BY EvidenceAssumption, FS_Interval
<1>2. IsFiniteSet(RawUnits) /\ IsFiniteSet(NormalizedUnits)
  BY <1>1, EvidenceAssumption, FS_Product DEF RawUnits, NormalizedUnits
<1>3. QED BY <1>2, EvidenceAssumption, FS_Subset, FS_CardinalityType

LEMMA HeldUnits ==
    ASSUME NEW s
    PROVE  /\ HeldRaw(s) = Cardinality(RawHeld(s)) /\ HeldRaw(s) \in Nat
           /\ HeldNormalized(s) = Cardinality(NormalizedHeld(s))
           /\ HeldNormalized(s) \in Nat
<1>1. RawHeld(s) \in SUBSET RawUnits /\ NormalizedHeld(s) \in SUBSET NormalizedUnits
  BY DEF RawHeld, NormalizedHeld
<1>2. HeldRaw(s) = Cardinality(RawHeld(s))
  BY DEF HeldRaw, RawHeld, RawUnits, Raw
<1>3. HeldNormalized(s) = Cardinality(NormalizedHeld(s))
  BY DEF HeldNormalized, NormalizedHeld, NormalizedUnits, Normalized
<1>4. QED BY <1>1, <1>2, <1>3, UnitsFinite

LEMMA AdmittedType ==
    ASSUME StoreTypeOK, NEW s \in Scopes, NEW k \in Keys, NEW r \in Request, HasRoom(s, r)
    PROVE  /\ Admitted(s, k, r) \in JobRecord
           /\ Honest(Admitted(s, k, r))
           /\ Retains[r.report] \in 0 .. RawLimit
<1>1. Retains[r.report] \in Nat /\ MaxNormalized \in Nat /\ RawLimit \in Nat
  BY EvidenceAssumption DEF Request
<1>2. Retains[r.report] \in 0 .. RawLimit
  BY <1>1, HeldUnits DEF HasRoom
<1>3. 0 \in 0 .. RawLimit /\ 0 \in 0 .. MaxNormalized /\ MaxNormalized \in 0 .. MaxNormalized
  BY <1>1
<1>4. generation[s] \in Nat
  BY DEF StoreTypeOK
<1>5. Admitted(s, k, r) \in JobRecord
  BY <1>2, <1>3, <1>4 DEF Admitted, JobRecord, Statuses
<1>6. Honest(Admitted(s, k, r))
  BY DEF Admitted, Honest, Waits
<1>7. QED BY <1>2, <1>5, <1>6

SoundStore == StoreTypeOK /\ ReservedWhilePending

LEMMA StoreInitSound == StoreInit => SoundStore
<1>1. SUFFICES ASSUME StoreInit PROVE SoundStore
  OBVIOUS
<1>2. StoreTypeOK
  BY <1>1, RoleAssumption DEF StoreInit, StoreTypeOK
<1>3. QED BY <1>1, <1>2 DEF StoreInit, SoundStore, ReservedWhilePending

LEMMA AroundSound ==
    ASSUME StoreTypeOK, StoreMoves
    PROVE  /\ anchor' \in SUBSET (Scopes \X Attachments)
           /\ role' \in [Actors -> Roles]
<1>1. anchor \in SUBSET (Scopes \X Attachments) /\ role \in [Actors -> Roles]
  BY DEF StoreTypeOK
<1>2. CASE Admissions
  BY <1>1, <1>2 DEF Admissions, Admit
<1>3. CASE Removals
  BY <1>1, <1>3 DEF Removals, RemovePayloads, OnlyJobs
<1>4. CASE Closings \/ \E a \in Actors, j \in Jobs : Start(a, j) \/ Publish(a, j)
  BY <1>1, <1>4 DEF Closings, Start, Publish, OnlyJobs
<1>5. CASE \/ \E a \in Actors, s \in Scopes : PurgeScope(a, s)
           \/ \E a \in Actors, s \in Scopes, x \in Attachments : DeleteRun(a, s, x)
  BY <1>1, <1>5 DEF PurgeScope, DeleteRun
<1>6. CASE (\E j \in Jobs : Lapse(j)) \/ RoleMoves \/ UNCHANGED store
  BY <1>1, <1>6 DEF Lapse, OnlyJobs, RoleMoves, store
<1>7. QED BY <1>2, <1>3, <1>4, <1>5, <1>6 DEF StoreMoves, StoreRests, StoreQuiet

LEMMA AdmitSound ==
    ASSUME SoundStore, NEW a, NEW j \in Jobs, NEW s \in Scopes, NEW k \in Keys,
           NEW r \in Request, Admit(a, j, s, k, r)
    PROVE  /\ job[j] = None /\ job'[j] = Admitted(s, k, r)
           /\ \A i \in Jobs : i # j => job'[i] = job[i]
           /\ job' \in [Jobs -> JobRecord \cup {None}]
           /\ \A i \in Jobs : job'[i] # None => i \in used' /\ Honest(job'[i])
           /\ used' \in SUBSET Jobs /\ generation' = generation
<1>1. Admitted(s, k, r) \in JobRecord /\ Honest(Admitted(s, k, r))
  BY AdmittedType DEF SoundStore, Admit, Admissible
<1>2. \A i \in Jobs : job[i] # None => Honest(job[i])
  BY ReservedHonest DEF SoundStore
<1>3. QED BY <1>1, <1>2 DEF Admit, SoundStore, StoreTypeOK

LEMMA PurgeSound ==
    ASSUME SoundStore, NEW a, NEW s \in Scopes, PurgeScope(a, s)
    PROVE  /\ \A i \in Jobs : job'[i] = IF i \in JobsIn(s) THEN None ELSE job[i]
           /\ job' \in [Jobs -> JobRecord \cup {None}]
           /\ \A i \in Jobs : job'[i] # None => i \in used' /\ Honest(job'[i])
           /\ used' \in SUBSET Jobs /\ generation' \in [Scopes -> Nat]
<1>1. \A i \in Jobs : job[i] # None => Honest(job[i])
  BY ReservedHonest DEF SoundStore
<1>2. \A i \in Jobs : job'[i] = IF i \in JobsIn(s) THEN None ELSE job[i]
  BY DEF PurgeScope, Purged
<1>3. job' \in [Jobs -> JobRecord \cup {None}]
  BY DEF PurgeScope, Purged, SoundStore, StoreTypeOK
<1>4. generation' \in [Scopes -> Nat] /\ used' = used
  BY DEF PurgeScope, SoundStore, StoreTypeOK
<1>5. QED BY <1>1, <1>2, <1>3, <1>4 DEF SoundStore, StoreTypeOK

LEMMA FollowsSound ==
    ASSUME SoundStore, EachFollows
    PROVE  /\ \A j \in Jobs : job[j] # None =>
                  /\ job'[j] \in JobRecord /\ job'[j] # None /\ Honest(job'[j])
                  /\ job'[j].scope = job[j].scope
                  /\ job'[j].generation = job[j].generation
                  /\ job'[j].key = job[j].key /\ job'[j].request = job[j].request
                  /\ Raw(job'[j]) <= Raw(job[j])
                  /\ Normalized(job'[j]) <= Normalized(job[j])
           /\ \A j \in Jobs : job[j] = None => job'[j] = None
           /\ job' \in [Jobs -> JobRecord \cup {None}]
           /\ \A i \in Jobs : job'[i] # None => i \in used' /\ Honest(job'[i])
           /\ used' \in SUBSET Jobs /\ generation' \in [Scopes -> Nat]
<1>1. \A j \in Jobs : job[j] # None => job[j] \in JobRecord /\ Honest(job[j])
  BY ReservedHonest DEF SoundStore, StoreTypeOK
<1>2. ASSUME NEW j \in Jobs, job[j] # None
      PROVE  /\ job'[j] \in JobRecord /\ job'[j] # None /\ Honest(job'[j])
             /\ job'[j].scope = job[j].scope
             /\ job'[j].generation = job[j].generation
             /\ job'[j].key = job[j].key /\ job'[j].request = job[j].request
             /\ Raw(job'[j]) <= Raw(job[j])
             /\ Normalized(job'[j]) <= Normalized(job[j])
  <2>1. Follows(job[j], job'[j])
    BY <1>2 DEF EachFollows
  <2>2. QED BY <1>1, <1>2, <2>1, FollowsKeeps, NoneJobAssumption
<1>3. \A j \in Jobs : job[j] = None => job'[j] = None
  BY DEF EachFollows
<1>4. \A j \in Jobs : job'[j] \in JobRecord \cup {None}
  BY <1>2, <1>3
<1>5. job' \in [Jobs -> JobRecord \cup {None}]
  BY <1>4 DEF EachFollows
<1>6. /\ \A i \in Jobs : job'[i] # None => i \in used' /\ Honest(job'[i])
      /\ used' \in SUBSET Jobs /\ generation' \in [Scopes -> Nat]
  BY <1>2, <1>3 DEF EachFollows, SoundStore, StoreTypeOK
<1>7. QED BY <1>2, <1>3, <1>5, <1>6

LEMMA SoundStep ==
    ASSUME SoundStore, StoreMoves
    PROVE  SoundStore'
<1>1. /\ job' \in [Jobs -> JobRecord \cup {None}]
      /\ \A i \in Jobs : job'[i] # None => i \in used' /\ Honest(job'[i])
      /\ used' \in SUBSET Jobs /\ generation' \in [Scopes -> Nat]
  <2>1. CASE Admissions
    BY <2>1, AdmitSound DEF Admissions, SoundStore, StoreTypeOK
  <2>2. CASE \E a \in Actors, s \in Scopes : PurgeScope(a, s)
    BY <2>2, PurgeSound
  <2>3. CASE EachFollows
    BY <2>3, FollowsSound
  <2>4. QED BY <2>1, <2>2, <2>3, JobsMove DEF SoundStore
<1>2. StoreTypeOK'
  BY <1>1, AroundSound DEF SoundStore, StoreTypeOK
<1>3. ReservedWhilePending'
  <2>1. (\A j \in Jobs : job[j] # None => Honest(job[j]))'
    BY <1>1
  <2>2. QED BY <2>1 DEF ReservedWhilePending, Honest, Pending, Waits
<1>4. QED BY <1>2, <1>3 DEF SoundStore

\* Every stored operation keeps the shape of its row, its bytes stay under the
\* quotas of their columns, and job ids are used once.
THEOREM StoreTypeCorrect == StoreSpec => []StoreTypeOK
<1>1. StoreInit => SoundStore
  BY StoreInitSound
<1>2. SoundStore /\ [StoreNext]_store => SoundStore'
  BY ActionMoves, SoundStep
<1>3. SoundStore => StoreTypeOK
  BY DEF SoundStore
<1>4. QED BY <1>1, <1>2, <1>3, PTL DEF StoreSpec

\* An import holds its whole reservation from admission to its end and nothing
\* after it, over every retry, cancellation, expiry, publication and recovery.
THEOREM ReservationsHold == StoreSpec => []ReservedWhilePending
<1>1. StoreInit => SoundStore
  BY StoreInitSound
<1>2. SoundStore /\ [StoreNext]_store => SoundStore'
  BY ActionMoves, SoundStep
<1>3. SoundStore => ReservedWhilePending
  BY DEF SoundStore
<1>4. QED BY <1>1, <1>2, <1>3, PTL DEF StoreSpec

(***************************************************************************)
(* Quotas.                                                                 *)
(***************************************************************************)
LEMMA HeldShrinks ==
    ASSUME SoundStore, NEW s \in Scopes,
           EachFollows \/ \E a \in Actors, t \in Scopes : PurgeScope(a, t)
    PROVE  HeldRaw(s)' <= HeldRaw(s) /\ HeldNormalized(s)' <= HeldNormalized(s)
<1>1. ASSUME NEW j \in Jobs, j \in JobsIn(s)'
      PROVE  /\ j \in JobsIn(s)
             /\ Raw(job'[j]) <= Raw(job[j]) /\ Normalized(job'[j]) <= Normalized(job[j])
             /\ job[j] \in JobRecord /\ job'[j] \in JobRecord
  <2>1. job'[j] # None /\ job'[j].scope = s
    BY <1>1 DEF JobsIn
  <2>2. CASE EachFollows
    BY <2>1, <2>2, FollowsSound DEF JobsIn, SoundStore, StoreTypeOK
  <2>3. CASE \E a \in Actors, t \in Scopes : PurgeScope(a, t)
    <3>1. job'[j] = job[j]
      BY <2>1, <2>3, PurgeSound
    <3>2. job[j] \in JobRecord
      BY <2>1, <3>1 DEF SoundStore, StoreTypeOK
    <3>3. QED
      BY <2>1, <3>1, <3>2, EvidenceAssumption DEF JobsIn, Raw, Normalized, JobRecord
  <2>4. QED BY <2>2, <2>3
<1>2. \A r \in JobRecord : Raw(r) \in Int /\ Normalized(r) \in Int
  BY EvidenceAssumption DEF JobRecord, Raw, Normalized
<1>3. /\ \A u \in RawUnits : u[1] \in Jobs /\ u[2] \in Int
      /\ \A u \in NormalizedUnits : u[1] \in Jobs /\ u[2] \in Int
  BY DEF RawUnits, NormalizedUnits
<1>4. RawHeld(s)' \subseteq RawHeld(s)
  <2>1. SUFFICES ASSUME NEW u \in RawUnits, u[1] \in JobsIn(s)', u[2] <= Raw(job'[u[1]])
                 PROVE  u[1] \in JobsIn(s) /\ u[2] <= Raw(job[u[1]])
    BY DEF RawHeld, RawUnits
  <2>2. QED BY <1>1, <1>2, <1>3, <2>1
<1>5. NormalizedHeld(s)' \subseteq NormalizedHeld(s)
  <2>1. SUFFICES ASSUME NEW u \in NormalizedUnits, u[1] \in JobsIn(s)',
                        u[2] <= Normalized(job'[u[1]])
                 PROVE  u[1] \in JobsIn(s) /\ u[2] <= Normalized(job[u[1]])
    BY DEF NormalizedHeld, NormalizedUnits
  <2>2. QED BY <1>1, <1>2, <1>3, <2>1
<1>6. RawHeld(s) \in SUBSET RawUnits /\ NormalizedHeld(s) \in SUBSET NormalizedUnits
  BY DEF RawHeld, NormalizedHeld
<1>7. /\ Cardinality(RawHeld(s)') <= Cardinality(RawHeld(s))
      /\ Cardinality(NormalizedHeld(s)') <= Cardinality(NormalizedHeld(s))
  BY <1>4, <1>5, <1>6, UnitsFinite, FS_Subset
<1>8. /\ HeldRaw(s)' = Cardinality(RawHeld(s)')
      /\ HeldNormalized(s)' = Cardinality(NormalizedHeld(s)')
  BY DEF HeldRaw, RawHeld, RawUnits, Raw, HeldNormalized, NormalizedHeld,
         NormalizedUnits, Normalized
<1>9. QED BY <1>7, <1>8, HeldUnits

\* One job's units on top of what is held take the room that was asked for.
LEMMA GrownBy ==
    ASSUME NEW S, NEW T, NEW j, NEW n \in Nat, IsFiniteSet(S),
           T \subseteq S \cup ({j} \X (1 .. n))
    PROVE  Cardinality(T) <= Cardinality(S) + n
<1> DEFINE New == {j} \X (1 .. n)
<1>1. IsFiniteSet({j}) /\ Cardinality({j}) = 1
  BY FS_Singleton
<1>2. IsFiniteSet(New) /\ Cardinality(New) = n
  <2>1. 1 \in Int /\ n \in Int
    OBVIOUS
  <2>2. IsFiniteSet(1 .. n)
    BY <2>1, FS_Interval
  <2>3. Cardinality(1 .. n) = IF 1 > n THEN 0 ELSE n - 1 + 1
    BY <2>1, FS_Interval
  <2>4. Cardinality(1 .. n) = n
    BY <2>1, <2>3
  <2>5. IsFiniteSet(New) /\ Cardinality(New) = Cardinality({j}) * Cardinality(1 .. n)
    BY <1>1, <2>2, FS_Product
  <2>6. QED BY <1>1, <2>4, <2>5
<1> HIDE DEF New
<1>3. /\ IsFiniteSet(S \cup New)
      /\ Cardinality(S \cup New) = Cardinality(S) + Cardinality(New)
                                     - Cardinality(S \cap New)
  BY <1>2, FS_Union
<1>4. Cardinality(S \cap New) \in Nat
  BY <1>2, FS_Intersection, FS_CardinalityType
<1>5. Cardinality(T) <= Cardinality(S \cup New)
  BY <1>3, FS_Subset DEF New
<1>6. /\ IsFiniteSet(T) /\ Cardinality(T) \in Nat /\ Cardinality(S) \in Nat
      /\ Cardinality(S \cup New) \in Nat
  BY <1>3, FS_Subset, FS_CardinalityType DEF New
<1>7. QED BY <1>2, <1>3, <1>4, <1>5, <1>6

LEMMA AdmitQuota ==
    ASSUME SoundStore, QuotaHeld, NEW a, NEW j \in Jobs, NEW s \in Scopes,
           NEW k \in Keys, NEW r \in Request, Admit(a, j, s, k, r), NEW t \in Scopes
    PROVE  HeldRaw(t)' <= RawLimit /\ HeldNormalized(t)' <= NormalizedLimit
<1> DEFINE new == Admitted(s, k, r)
<1>1. /\ job[j] = None /\ job'[j] = new
      /\ \A i \in Jobs : i # j => job'[i] = job[i]
  BY AdmitSound
<1>2. /\ new.scope = s /\ Raw(new) = Retains[r.report] /\ Normalized(new) = MaxNormalized
      /\ Retains[r.report] \in Nat /\ MaxNormalized \in Nat /\ new # None
  <2>1. Retains[r.report] \in Nat /\ MaxNormalized \in Nat
    BY EvidenceAssumption DEF Request
  <2>2. new \in JobRecord
    BY AdmittedType DEF SoundStore, Admit, Admissible
  <2>3. new.scope = s /\ Raw(new) = Retains[r.report] /\ Normalized(new) = MaxNormalized
    BY <2>1 DEF Admitted, Raw, Normalized
  <2>4. new # None
    BY <2>2, NoneJobAssumption
  <2>5. QED BY <2>1, <2>3, <2>4
<1>3. /\ HeldRaw(t)' = Cardinality(RawHeld(t)')
      /\ HeldNormalized(t)' = Cardinality(NormalizedHeld(t)')
  BY DEF HeldRaw, RawHeld, RawUnits, Raw, HeldNormalized, NormalizedHeld,
         NormalizedUnits, Normalized
<1>4. /\ RawHeld(t) \in SUBSET RawUnits /\ NormalizedHeld(t) \in SUBSET NormalizedUnits
      /\ IsFiniteSet(RawHeld(t)) /\ IsFiniteSet(NormalizedHeld(t))
  BY UnitsFinite DEF RawHeld, NormalizedHeld
<1> HIDE DEF new
<1>5. CASE t # s
  <2>1. RawHeld(t)' = RawHeld(t) /\ NormalizedHeld(t)' = NormalizedHeld(t)
    <3>1. JobsIn(t)' = JobsIn(t) /\ \A i \in JobsIn(t) : job'[i] = job[i]
      BY <1>1, <1>2, <1>5 DEF JobsIn
    <3>2. QED BY <3>1 DEF RawHeld, NormalizedHeld, RawUnits, NormalizedUnits
  <2>2. QED BY <1>3, <2>1, HeldUnits DEF QuotaHeld
<1>6. CASE t = s
  <2>1. JobsIn(s)' = JobsIn(s) \cup {j} /\ \A i \in JobsIn(s) : job'[i] = job[i]
    BY <1>1, <1>2 DEF JobsIn
  <2>2. RawHeld(s)' \subseteq RawHeld(s) \cup ({j} \X (1 .. Retains[r.report]))
    <3>1. SUFFICES ASSUME NEW i \in Jobs, NEW n \in 1 .. RawLimit,
                          i \in JobsIn(s)', n <= Raw(job'[i])
                   PROVE  \/ i \in JobsIn(s) /\ n <= Raw(job[i])
                          \/ i = j /\ n \in 1 .. Retains[r.report]
      BY DEF RawHeld, RawUnits
    <3>2. QED BY <1>1, <1>2, <2>1, <3>1, EvidenceAssumption
  <2>3. NormalizedHeld(s)' \subseteq NormalizedHeld(s) \cup ({j} \X (1 .. MaxNormalized))
    <3>1. SUFFICES ASSUME NEW i \in Jobs, NEW n \in 1 .. MaxNormalized,
                          i \in JobsIn(s)', n <= Normalized(job'[i])
                   PROVE  \/ i \in JobsIn(s) /\ n <= Normalized(job[i])
                          \/ i = j /\ n \in 1 .. MaxNormalized
      BY DEF NormalizedHeld, NormalizedUnits
    <3>2. QED BY <1>1, <1>2, <2>1, <3>1, EvidenceAssumption
  <2>4. /\ Cardinality(RawHeld(s)') <= Cardinality(RawHeld(s)) + Retains[r.report]
        /\ Cardinality(NormalizedHeld(s)') <= Cardinality(NormalizedHeld(s)) + MaxNormalized
    BY <1>2, <1>4, <1>6, <2>2, <2>3, GrownBy
  <2>5. /\ HeldRaw(s) + Retains[r.report] <= RawLimit
        /\ HeldNormalized(s) + MaxNormalized <= NormalizedLimit
    BY DEF Admit, Admissible, HasRoom
  <2>6. HeldRaw(s)' <= RawLimit /\ HeldNormalized(s)' <= NormalizedLimit
    <3>1. RawHeld(s)' \in SUBSET RawUnits /\ NormalizedHeld(s)' \in SUBSET NormalizedUnits
      BY DEF RawHeld, NormalizedHeld, RawUnits, NormalizedUnits
    <3>2. Cardinality(RawHeld(s)') \in Nat /\ Cardinality(NormalizedHeld(s)') \in Nat
      BY <3>1, UnitsFinite
    <3>3. QED BY <1>2, <1>3, <1>6, <2>4, <2>5, <3>2, HeldUnits, EvidenceAssumption
  <2>7. QED BY <1>6, <2>6
<1>7. QED BY <1>5, <1>6

\* Nothing but a start makes a job run, and nothing but an admission queues one.
LEMMA OverIsOver ==
    ASSUME NEW r, NEW q, r \in JobRecord,
           ClosedFrom(r, q) \/ PublishedFrom(r, q) \/ WithheldFrom(r, q)
    PROVE  q.status \notin {"queued", "running"}
<1>1. CASE ClosedFrom(r, q)
  BY <1>1 DEF ClosedFrom, JobRecord
<1>2. CASE PublishedFrom(r, q)
  BY <1>2 DEF PublishedFrom, JobRecord
<1>3. CASE WithheldFrom(r, q)
  BY <1>3 DEF WithheldFrom, JobRecord
<1>4. QED BY <1>1, <1>2, <1>3

NoneBegins ==
    \A j \in Jobs : job'[j] # None /\ job'[j].status \in {"queued", "running"} =>
        job[j] # None /\ job[j].status = job'[j].status

LEMMA EndingsBegin ==
    ASSUME StoreTypeOK,
           \A j \in Jobs : IF job[j] = None THEN job'[j] = None
                           ELSE \/ job'[j] = job[j]
                                \/ ClosedFrom(job[j], job'[j])
                                \/ PublishedFrom(job[j], job'[j])
                                \/ WithheldFrom(job[j], job'[j])
    PROVE  NoneBegins
<1>1. \A j \in Jobs : job[j] # None => job[j] \in JobRecord
  BY DEF StoreTypeOK
<1>2. QED BY <1>1, OverIsOver DEF NoneBegins

LEMMA RestBegins ==
    ASSUME SoundStore, StoreRests
    PROVE  Admissions \/ NoneBegins
<1>1. CASE Closings
  <2>1. PICK J \in SUBSET Jobs, status \in {"cancelled", "failed"} : job' = Ended(J, status)
    BY <1>1 DEF Closings
  <2>2. QED BY <2>1, EndedFollows, EndedAbsent, EndingsBegin DEF SoundStore
<1>2. ASSUME NEW a \in Actors, NEW j \in Jobs, Publish(a, j)
      PROVE  NoneBegins
  <2>1. PublishedFrom(job[j], job'[j]) /\ job[j] # None
    BY <1>2, PublishFollows DEF SoundStore, Publish, Publishing, Owned, CanJob
  <2>2. \A i \in Jobs : i # j => job'[i] = job[i]
    BY <1>2 DEF Publish, SoundStore, StoreTypeOK
  <2>3. QED BY <2>1, <2>2, EndingsBegin DEF SoundStore
<1>3. ASSUME NEW a \in Actors, NEW i \in Jobs,
             NEW kind \in {"raw_removed", "normalized_removed"},
             RemovePayloads(a, i, kind)
      PROVE  NoneBegins
  <2> DEFINE Open == {j \in JobsIn(job[i].scope) :
                         job[j].request.target # None /\ SetOf(j) = SetOf(i)}
  <2>1. \A j \in Jobs : job'[j] =
          IF j # i THEN Ended(Open, "failed")[j]
          ELSE IF kind = "raw_removed" THEN [job[j] EXCEPT !.blob = 0]
          ELSE [job[j] EXCEPT !.payload = 0]
    BY <1>3 DEF RemovePayloads, Withdrawn
  <2>2. job[i] # None /\ WithheldFrom(job[i], job'[i])
    BY <1>3, <2>1 DEF RemovePayloads, CanJob, WithheldFrom
  <2> HIDE DEF Open
  <2>3. ASSUME NEW j \in Jobs
        PROVE  IF job[j] = None THEN job'[j] = None
               ELSE \/ job'[j] = job[j]
                    \/ ClosedFrom(job[j], job'[j])
                    \/ WithheldFrom(job[j], job'[j])
    <3>1. CASE j = i
      BY <2>2, <3>1
    <3>2. CASE j # i
      <4>1. job'[j] = Ended(Open, "failed")[j]
        BY <2>1, <3>2
      <4>2. QED BY <4>1, EndedFollows, EndedAbsent
    <3>3. QED BY <3>1, <3>2
  <2>4. QED BY <2>3, EndingsBegin DEF SoundStore
<1>4. ASSUME NEW a \in Actors, NEW s \in Scopes, PurgeScope(a, s)
      PROVE  NoneBegins
  BY <1>4, PurgeSound DEF NoneBegins
<1>5. ASSUME NEW j \in Jobs, Lapse(j)
      PROVE  NoneBegins
  <2>1. job[j] # None /\ job[j] \in JobRecord
    BY <1>5 DEF Lapse, Pending, SoundStore, StoreTypeOK
  <2>2. job'[j] = [job[j] EXCEPT !.late = TRUE] /\ \A i \in Jobs : i # j => job'[i] = job[i]
    BY <1>5 DEF Lapse, SoundStore, StoreTypeOK
  <2>3. job'[j].status = job[j].status
    BY <2>1, <2>2 DEF JobRecord
  <2>4. QED BY <2>1, <2>2, <2>3 DEF NoneBegins
<1>6. CASE \/ \E a \in Actors, s \in Scopes, x \in Attachments : DeleteRun(a, s, x)
           \/ RoleMoves \/ UNCHANGED store
  <2>1. UNCHANGED job
    BY <1>6 DEF DeleteRun, RoleMoves, store
  <2>2. QED BY <2>1 DEF NoneBegins
<1>7. QED BY <1>1, <1>2, <1>3, <1>4, <1>5, <1>6 DEF StoreRests, StoreQuiet, Removals

LEMMA StatusMoves ==
    ASSUME SoundStore, StoreMoves
    PROVE  \/ Admissions
           \/ \E a \in Actors, j \in Jobs : Start(a, j)
           \/ NoneBegins
BY RestBegins DEF StoreMoves

LEMMA CountsStep ==
    ASSUME SoundStore, QuotaHeld, StoreMoves
    PROVE  /\ Cardinality(WithStatus("running"))' <= ActiveLimit
           /\ Cardinality(WithStatus("queued"))' <= QueueLimit
<1> DEFINE Running == WithStatus("running")
           Queued == WithStatus("queued")
<1>1. /\ Running \in SUBSET Jobs /\ Running' \in SUBSET Jobs
      /\ Queued \in SUBSET Jobs /\ Queued' \in SUBSET Jobs
  BY DEF WithStatus
<1>2. /\ IsFiniteSet(Running) /\ IsFiniteSet(Running')
      /\ IsFiniteSet(Queued) /\ IsFiniteSet(Queued')
      /\ Cardinality(Running) \in Nat /\ Cardinality(Running') \in Nat
      /\ Cardinality(Queued) \in Nat /\ Cardinality(Queued') \in Nat
  BY <1>1, UnitsFinite
<1>3. /\ Cardinality(Running) <= ActiveLimit /\ Cardinality(Queued) <= QueueLimit
      /\ ActiveLimit \in Nat /\ QueueLimit \in Nat
  BY EvidenceAssumption DEF QuotaHeld
<1>4. CASE NoneBegins
  <2>1. Running' \subseteq Running /\ Queued' \subseteq Queued
    BY <1>4 DEF NoneBegins, WithStatus
  <2> HIDE DEF Running, Queued
  <2>2. Cardinality(Running') <= Cardinality(Running) /\ Cardinality(Queued') <= Cardinality(Queued)
    BY <1>2, <2>1, FS_Subset
  <2>3. QED BY <1>2, <1>3, <2>2 DEF Running, Queued
<1>5. ASSUME NEW a \in Actors, NEW j \in Jobs, Start(a, j)
      PROVE  Cardinality(Running') <= ActiveLimit /\ Cardinality(Queued') <= QueueLimit
  <2>1. /\ job[j] # None /\ job[j] \in JobRecord /\ job[j].status = "queued"
        /\ job'[j] = [job[j] EXCEPT !.status = "running"]
        /\ \A i \in Jobs : i # j => job'[i] = job[i]
        /\ Cardinality(Running) < ActiveLimit
    BY <1>5 DEF Start, Startable, Started, Owned, CanJob, SoundStore, StoreTypeOK
  <2>2. job'[j].status = "running"
    BY <2>1 DEF JobRecord
  <2>3. Running' \subseteq Running \cup {j} /\ Queued' \subseteq Queued
    BY <2>1, <2>2 DEF WithStatus
  <2>4. j \notin Running
    BY <2>1 DEF WithStatus
  <2> HIDE DEF Running, Queued
  <2>5. /\ IsFiniteSet(Running \cup {j})
        /\ Cardinality(Running \cup {j}) = Cardinality(Running) + 1
    BY <1>2, <2>4, FS_AddElement
  <2>6. /\ Cardinality(Running') <= Cardinality(Running \cup {j})
        /\ Cardinality(Queued') <= Cardinality(Queued)
    BY <1>2, <2>3, <2>5, FS_Subset
  <2>7. QED BY <1>2, <1>3, <2>1, <2>5, <2>6
<1>6. ASSUME NEW a \in Actors, NEW j \in Jobs, NEW s \in Scopes, NEW k \in Keys,
             NEW r \in Request, Admit(a, j, s, k, r)
      PROVE  Cardinality(Running') <= ActiveLimit /\ Cardinality(Queued') <= QueueLimit
  <2>1. /\ job[j] = None /\ job'[j] = Admitted(s, k, r)
        /\ \A i \in Jobs : i # j => job'[i] = job[i]
    BY <1>6, AdmitSound
  <2>2. job'[j].status = "queued" /\ Cardinality(Queued) < QueueLimit
    BY <1>6, <2>1 DEF Admitted, Admit, Admissible, HasRoom
  <2>3. Running' \subseteq Running /\ Queued' \subseteq Queued \cup {j}
    BY <2>1, <2>2 DEF WithStatus
  <2>4. j \notin Queued
    BY <2>1 DEF WithStatus
  <2> HIDE DEF Running, Queued
  <2>5. /\ IsFiniteSet(Queued \cup {j})
        /\ Cardinality(Queued \cup {j}) = Cardinality(Queued) + 1
    BY <1>2, <2>4, FS_AddElement
  <2>6. /\ Cardinality(Running') <= Cardinality(Running)
        /\ Cardinality(Queued') <= Cardinality(Queued \cup {j})
    BY <1>2, <2>3, <2>5, FS_Subset
  <2>7. QED BY <1>2, <1>3, <2>2, <2>5, <2>6
<1>7. QED BY <1>4, <1>5, <1>6, StatusMoves DEF Admissions

LEMMA QuotaStep ==
    ASSUME SoundStore, QuotaHeld, StoreMoves
    PROVE  QuotaHeld'
<1>1. ASSUME NEW s \in Scopes
      PROVE  HeldRaw(s)' <= RawLimit /\ HeldNormalized(s)' <= NormalizedLimit
  <2>1. CASE Admissions
    BY <2>1, AdmitQuota DEF Admissions
  <2>2. CASE EachFollows \/ \E a \in Actors, t \in Scopes : PurgeScope(a, t)
    <3>1. HeldRaw(s)' <= HeldRaw(s) /\ HeldNormalized(s)' <= HeldNormalized(s)
      BY <2>2, HeldShrinks
    <3>2. /\ HeldRaw(s) <= RawLimit /\ HeldNormalized(s) <= NormalizedLimit
          /\ RawLimit \in Nat /\ NormalizedLimit \in Nat
      BY EvidenceAssumption DEF QuotaHeld
    <3>3. /\ HeldRaw(s) \in Nat /\ HeldNormalized(s) \in Nat
          /\ HeldRaw(s)' \in Nat /\ HeldNormalized(s)' \in Nat
      <4>1. HeldRaw(s)' = Cardinality(RawHeld(s)')
            /\ HeldNormalized(s)' = Cardinality(NormalizedHeld(s)')
        BY DEF HeldRaw, RawHeld, RawUnits, Raw, HeldNormalized, NormalizedHeld,
               NormalizedUnits, Normalized
      <4>2. RawHeld(s)' \in SUBSET RawUnits /\ NormalizedHeld(s)' \in SUBSET NormalizedUnits
        BY DEF RawHeld, NormalizedHeld, RawUnits, NormalizedUnits
      <4>3. QED BY <4>1, <4>2, UnitsFinite, HeldUnits
    <3>4. QED BY <3>1, <3>2, <3>3
  <2>3. QED BY <2>1, <2>2, JobsMove DEF SoundStore
<1>2. QED BY <1>1, CountsStep DEF QuotaHeld

LEMMA QuotaInit ==
    ASSUME StoreInit
    PROVE  QuotaHeld
<1>1. \A j \in Jobs : job[j] = None
  BY DEF StoreInit
<1>2. \A s : RawHeld(s) = {} /\ NormalizedHeld(s) = {}
  BY <1>1 DEF RawHeld, NormalizedHeld, JobsIn
<1>3. \A status : WithStatus(status) = {}
  BY <1>1 DEF WithStatus
<1>4. Cardinality({}) = 0
  BY FS_EmptySet
<1>5. \A s : HeldRaw(s) = 0 /\ HeldNormalized(s) = 0
  BY <1>2, <1>4, HeldUnits
<1>6. QED BY <1>3, <1>4, <1>5, EvidenceAssumption DEF QuotaHeld

\* Whatever is admitted, published, removed or recovered, and in which order, the
\* bytes stored and reserved stay within the quotas of the scope, and the jobs
\* that run or wait within what the service accepts.
THEOREM QuotasHold == StoreSpec => []QuotaHeld
<1>1. StoreInit => SoundStore /\ QuotaHeld
  BY StoreInitSound, QuotaInit
<1>2. (SoundStore /\ QuotaHeld) /\ [StoreNext]_store => (SoundStore /\ QuotaHeld)'
  BY ActionMoves, SoundStep, QuotaStep
<1>3. QED BY <1>1, <1>2, PTL DEF StoreSpec

(***************************************************************************)
(* Anchors.                                                                *)
(***************************************************************************)
LEMMA AnchoredStep ==
    ASSUME SoundStore, AnchoredWork, StoreMoves
    PROVE  AnchoredWork'
<1>1. SUFFICES ASSUME NEW j \in Jobs, Pending(j)'
               PROVE  <<job'[j].scope, job'[j].request.attachment>> \in anchor'
  BY DEF AnchoredWork
<1>2. job'[j] # None /\ Waits(job'[j])
  BY <1>1 DEF Pending, Waits
<1>3. CASE Admissions
  <2>1. PICK a \in Actors, i \in Jobs, s \in Scopes, k \in Keys, r \in Request :
            Admit(a, i, s, k, r)
    BY <1>3 DEF Admissions
  <2>2. /\ anchor' = anchor /\ <<s, r.attachment>> \in anchor
        /\ job'[i] = Admitted(s, k, r) /\ \A m \in Jobs : m # i => job'[m] = job[m]
    BY <2>1, AdmitSound DEF Admit, Admissible, CanOn
  <2>3. QED BY <1>2, <2>2 DEF AnchoredWork, Pending, Waits, Admitted
<1>4. CASE ~Admissions
  <2>1. /\ job[j] # None /\ job[j].scope = job'[j].scope
        /\ job[j].request = job'[j].request
    <3>1. CASE EachFollows
      BY <1>2, <3>1, FollowsSound
    <3>2. CASE \E a \in Actors, s \in Scopes : PurgeScope(a, s)
      BY <1>2, <3>2, PurgeSound
    <3>3. QED BY <1>4, <3>1, <3>2, JobsMove DEF SoundStore
  <2>2. Pending(j)
    <3>1. CASE \E a \in Actors, i \in Jobs : Start(a, i)
      BY <1>2, <2>1, <3>1 DEF Start, Startable, Started, Pending, Waits, SoundStore, StoreTypeOK
    <3>2. CASE NoneBegins
      BY <1>2, <2>1, <3>2 DEF NoneBegins, Pending, Waits
    <3>3. QED BY <1>4, <3>1, <3>2, StatusMoves
  <2>3. <<job[j].scope, job[j].request.attachment>> \in anchor
    BY <2>2 DEF AnchoredWork
  <2>4. CASE \E a \in Actors, s \in Scopes, x \in Attachments : DeleteRun(a, s, x)
    <3>1. PICK a \in Actors, s \in Scopes, x \in Attachments : DeleteRun(a, s, x)
      BY <2>4
    <3>2. /\ anchor' = anchor \ {<<s, x>>}
          /\ job[j].scope = s => job[j].request.attachment # x
      BY <2>1, <2>2, <3>1 DEF DeleteRun, Deletable, JobsIn
    <3>3. QED BY <2>1, <2>3, <3>2
  <2>5. CASE ~ \E a \in Actors, s \in Scopes, x \in Attachments : DeleteRun(a, s, x)
    <3>1. anchor' = anchor
      BY <1>4, <2>5 DEF StoreMoves, StoreRests, StoreQuiet, Closings, Start, Publish,
         Removals, RemovePayloads,
         PurgeScope, Lapse, RoleMoves, OnlyJobs, store
    <3>2. QED BY <2>1, <2>3, <3>1
  <2>6. QED BY <2>4, <2>5
<1>5. QED BY <1>3, <1>4

\* No import is under way for a run that was deleted: deletion looks at the jobs
\* in its own transaction and admission at the run in its own.
THEOREM AnchorsHold == StoreSpec => []AnchoredWork
<1>1. StoreInit => SoundStore /\ AnchoredWork
  BY StoreInitSound DEF StoreInit, AnchoredWork, Pending
<1>2. (SoundStore /\ AnchoredWork) /\ [StoreNext]_store => (SoundStore /\ AnchoredWork)'
  BY ActionMoves, SoundStep, AnchoredStep
<1>3. QED BY <1>1, <1>2, PTL DEF StoreSpec

(***************************************************************************)
(* Revisions.  Every stored job belongs to the present epoch of its scope, *)
(* and the set it adds to was begun by a published job of the same scope.  *)
(***************************************************************************)
Rooted(j) ==
    /\ job[j].generation = generation[job[j].scope]
    /\ job[j].request.target # None =>
          LET root == job[j].request.target.set
          IN /\ job[root] # None
             /\ job[root].scope = job[j].scope
             /\ job[root].status = "completed"
             /\ job[root].request.target = None

SetsRooted == \A j \in Jobs : job[j] # None => Rooted(j)

HistoryInv == SoundStore /\ SetsRooted

LEMMA TargetSet ==
    ASSUME StoreTypeOK, NEW j \in Jobs, job[j] # None, job[j].request.target # None
    PROVE  /\ job[j].request.target.set \in Jobs
           /\ job[j].request.target.revision \in 1 .. RevisionLimit
BY DEF StoreTypeOK, JobRecord, Request, Target

LEMMA CompletedStays ==
    ASSUME SoundStore, EachFollows, NEW j \in Jobs, job[j] # None,
           job[j].status = "completed"
    PROVE  job'[j].status = "completed"
<1>1. job[j] \in JobRecord /\ Follows(job[j], job'[j])
  BY DEF SoundStore, StoreTypeOK, EachFollows
<1>2. QED
  BY <1>1 DEF Follows, Continues, ClosedFrom, PublishedFrom, WithheldFrom, Waits, JobRecord

LEMMA AdmitRooted ==
    ASSUME HistoryInv, NEW a, NEW j \in Jobs, NEW s \in Scopes, NEW k \in Keys,
           NEW r \in Request, Admit(a, j, s, k, r)
    PROVE  SetsRooted'
<1>1. /\ job[j] = None /\ job'[j] = Admitted(s, k, r)
      /\ \A i \in Jobs : i # j => job'[i] = job[i]
      /\ generation' = generation
  BY AdmitSound DEF HistoryInv
<1>2. ASSUME NEW i \in Jobs, i # j, job[i] # None
      PROVE  Rooted(i)'
  <2>1. Rooted(i) /\ job'[i] = job[i]
    BY <1>1, <1>2 DEF HistoryInv, SetsRooted
  <2>2. CASE job[i].request.target = None
    BY <1>1, <2>1, <2>2 DEF Rooted
  <2>3. CASE job[i].request.target # None
    <3>1. job[i].request.target.set \in Jobs
      BY <1>2, <2>3, TargetSet DEF HistoryInv, SoundStore
    <3>2. job'[job[i].request.target.set] = job[job[i].request.target.set]
      BY <1>1, <2>1, <2>3, <3>1 DEF Rooted
    <3>3. QED BY <1>1, <2>1, <3>2 DEF Rooted
  <2>4. QED BY <2>2, <2>3
<1>3. Rooted(j)'
  <2>1. job'[j].generation = generation[s] /\ job'[j].scope = s /\ job'[j].request = r
    BY <1>1 DEF Admitted
  <2>2. CASE r.target = None
    BY <1>1, <2>1, <2>2 DEF Rooted
  <2>3. CASE r.target # None
    <3>1. PICK m \in Jobs : IsLatest(m, s, r.target.set)
      BY <2>3 DEF Admit, Admissible, TargetCurrent
    <3>2. /\ job[m] # None /\ job[m].scope = s /\ job[m].status = "completed"
          /\ SetOf(m) = r.target.set
      BY <3>1 DEF IsLatest, Published, JobsIn, WithStatus
    <3>3. Rooted(m)
      BY <3>2 DEF HistoryInv, SetsRooted
    <3>4. /\ r.target.set \in Jobs /\ job[r.target.set] # None
          /\ job[r.target.set].scope = s /\ job[r.target.set].status = "completed"
          /\ job[r.target.set].request.target = None
      <4>1. CASE job[m].request.target = None
        BY <3>2, <4>1 DEF SetOf
      <4>2. CASE job[m].request.target # None
        BY <3>2, <3>3, <4>2, TargetSet DEF SetOf, Rooted, HistoryInv, SoundStore
      <4>3. QED BY <4>1, <4>2
    <3>5. job'[r.target.set] = job[r.target.set]
      BY <1>1, <3>4
    <3>6. QED BY <1>1, <2>1, <3>4, <3>5 DEF Rooted
  <2>4. QED BY <2>2, <2>3
<1>4. QED BY <1>1, <1>2, <1>3 DEF SetsRooted

LEMMA PurgeRooted ==
    ASSUME HistoryInv, NEW a, NEW s \in Scopes, PurgeScope(a, s)
    PROVE  SetsRooted'
<1>1. \A i \in Jobs : job'[i] = IF i \in JobsIn(s) THEN None ELSE job[i]
  BY PurgeSound DEF HistoryInv
<1>2. SUFFICES ASSUME NEW j \in Jobs, job'[j] # None
               PROVE  Rooted(j)'
  BY DEF SetsRooted
<1>3. job'[j] = job[j] /\ job[j].scope # s /\ Rooted(j)
  BY <1>1, <1>2 DEF JobsIn, HistoryInv, SetsRooted
<1>4. generation'[job[j].scope] = generation[job[j].scope]
  BY <1>3 DEF PurgeScope, HistoryInv, SoundStore, StoreTypeOK
<1>5. CASE job[j].request.target = None
  BY <1>3, <1>4, <1>5 DEF Rooted
<1>6. CASE job[j].request.target # None
  <2>1. job[j].request.target.set \in Jobs
    BY <1>2, <1>3, <1>6, TargetSet DEF HistoryInv, SoundStore
  <2>2. job'[job[j].request.target.set] = job[job[j].request.target.set]
    BY <1>1, <1>3, <1>6, <2>1 DEF Rooted, JobsIn
  <2>3. QED BY <1>3, <1>4, <2>2 DEF Rooted
<1>7. QED BY <1>5, <1>6

LEMMA FollowsRooted ==
    ASSUME HistoryInv, EachFollows
    PROVE  SetsRooted'
<1>1. SUFFICES ASSUME NEW j \in Jobs, job'[j] # None
               PROVE  Rooted(j)'
  BY DEF SetsRooted
<1>2. /\ job[j] # None /\ generation' = generation
      /\ job'[j].scope = job[j].scope /\ job'[j].generation = job[j].generation
      /\ job'[j].request = job[j].request
  BY <1>1, FollowsSound DEF HistoryInv, EachFollows
<1>3. Rooted(j)
  BY <1>2 DEF HistoryInv, SetsRooted
<1>4. CASE job[j].request.target = None
  BY <1>2, <1>3, <1>4 DEF Rooted
<1>5. CASE job[j].request.target # None
  <2> DEFINE root == job[j].request.target.set
  <2>1. root \in Jobs
    BY <1>2, <1>5, TargetSet DEF HistoryInv, SoundStore
  <2>2. /\ job[root] # None /\ job[root].scope = job[j].scope
        /\ job[root].status = "completed" /\ job[root].request.target = None
    BY <1>3, <1>5 DEF Rooted
  <2>3. /\ job'[root] # None /\ job'[root].scope = job[root].scope
        /\ job'[root].request = job[root].request /\ job'[root].status = "completed"
    BY <2>1, <2>2, FollowsSound, CompletedStays DEF HistoryInv
  <2>4. QED BY <1>2, <1>3, <2>2, <2>3 DEF Rooted
<1>6. QED BY <1>4, <1>5

LEMMA HistoryInvStep ==
    ASSUME HistoryInv, StoreMoves
    PROVE  HistoryInv'
<1>1. SoundStore'
  BY SoundStep DEF HistoryInv
<1>2. SetsRooted'
  BY JobsMove, AdmitRooted, PurgeRooted, FollowsRooted
     DEF Admissions, HistoryInv, SoundStore
<1>3. QED BY <1>1, <1>2 DEF HistoryInv

LEMMA HistoryInvInit ==
    ASSUME StoreInit
    PROVE  HistoryInv
BY StoreInitSound DEF HistoryInv, SetsRooted, StoreInit

(***************************************************************************)
(* The store implements EvidenceHistory, whose operations are the jobs.    *)
(***************************************************************************)
Recorded == [j \in Jobs |-> OperationOf(j)]

LEMMA OperationFields ==
    ASSUME NEW n \in Jobs
    PROVE  /\ Recorded[n] = OperationOf(n)
           /\ Recorded'[n] = OperationOf(n)'
BY DEF Recorded

LEMMA OperationKnown ==
    SoundStore => \A n \in Jobs : (OperationOf(n) # None) <=> (job[n] # None)
<1>1. SUFFICES ASSUME SoundStore, NEW n \in Jobs
               PROVE  (OperationOf(n) # None) <=> (job[n] # None)
  OBVIOUS
<1>2. CASE job[n] = None
  BY <1>2 DEF OperationOf
<1>3. CASE job[n] # None
  <2>1. job[n] \in JobRecord
    BY <1>1, <1>3 DEF SoundStore, StoreTypeOK
  <2>2. SetOf(n) \in Jobs /\ Base(n) \in Nat
    <3>1. CASE job[n].request.target = None
      BY <3>1 DEF SetOf, Base
    <3>2. CASE job[n].request.target # None
      BY <1>1, <1>3, <3>2, TargetSet, EvidenceAssumption DEF SetOf, Base, SoundStore
    <3>3. QED BY <3>1, <3>2
  <2>3. PartsOf(n) \in SUBSET {"raw", "normalized"}
    BY DEF PartsOf
  <2>4. OperationOf(n) \in OperationRecord
    BY <1>3, <2>1, <2>2, <2>3 DEF OperationOf, OperationRecord, JobRecord
  <2>5. QED BY <1>3, <2>4, NoneOperationAssumption
<1>4. QED BY <1>2, <1>3

LEMMA OperationKnownAfter ==
    SoundStore' => \A n \in Jobs : (OperationOf(n)' # None) <=> (job'[n] # None)
<1>1. SoundStore' => (\A n \in Jobs : (OperationOf(n) # None) <=> (job[n] # None))'
  BY OperationKnown, PTL
<1>2. QED BY <1>1

SameOperation(r, q) ==
    /\ q.scope = r.scope /\ q.generation = r.generation
    /\ q.key = r.key /\ q.request = r.request

LEMMA OperationStays ==
    ASSUME NEW n \in Jobs, job[n] # None, job'[n] # None, SameOperation(job[n], job'[n])
    PROVE  OperationOf(n)' = [OperationOf(n) EXCEPT
               !.state = IF job'[n].status \in {"queued", "running"} THEN "open"
                         ELSE IF job'[n].status = "completed" THEN "kept" ELSE "closed",
               !.parts = PartsOf(n)']
<1>1. /\ SetOf(n)' = SetOf(n) /\ Base(n)' = Base(n)
      /\ job'[n].scope = job[n].scope /\ job'[n].generation = job[n].generation
      /\ job'[n].key = job[n].key
  BY DEF SetOf, Base, SameOperation
<1>2. PICK after : after = IF job'[n].status \in {"queued", "running"} THEN "open"
                           ELSE IF job'[n].status = "completed" THEN "kept" ELSE "closed"
  OBVIOUS
<1>3. PICK before : before = IF Pending(n) THEN "open"
                             ELSE IF job[n].status = "completed" THEN "kept" ELSE "closed"
  OBVIOUS
<1>4. OperationOf(n)' =
        [scope |-> job[n].scope, epoch |-> job[n].generation, key |-> job[n].key,
         series |-> SetOf(n), base |-> Base(n), state |-> after, parts |-> PartsOf(n)']
  BY <1>1, <1>2 DEF OperationOf, Pending
<1>5. OperationOf(n) =
        [scope |-> job[n].scope, epoch |-> job[n].generation, key |-> job[n].key,
         series |-> SetOf(n), base |-> Base(n), state |-> before, parts |-> PartsOf(n)]
  BY <1>3 DEF OperationOf
<1>6. PICK q : q = [OperationOf(n) EXCEPT !.state = after]
  OBVIOUS
<1>7. q = [scope |-> job[n].scope, epoch |-> job[n].generation, key |-> job[n].key,
           series |-> SetOf(n), base |-> Base(n), state |-> after, parts |-> PartsOf(n)]
  BY <1>5, <1>6
<1>8. OperationOf(n)' = [q EXCEPT !.parts = PartsOf(n)']
  BY <1>4, <1>7
<1>9. OperationOf(n)' = [OperationOf(n) EXCEPT !.state = after, !.parts = PartsOf(n)']
  BY <1>6, <1>8
<1>10. QED BY <1>2, <1>9

LEMMA StateOf ==
    ASSUME SoundStore, NEW n \in Jobs
    PROVE  /\ History!Known(n) <=> job[n] # None
           /\ History!Open(n) <=> job[n] # None /\ Waits(job[n])
           /\ History!Kept(n) <=> job[n] # None /\ job[n].status = "completed"
<1>1. History!Known(n) <=> job[n] # None
  BY OperationKnown DEF History!Known
<1>2. job[n] # None =>
        OperationOf(n).state = IF Waits(job[n]) THEN "open"
                               ELSE IF job[n].status = "completed" THEN "kept" ELSE "closed"
  BY DEF OperationOf, Pending, Waits
<1>3. QED BY <1>1, <1>2 DEF History!Open, History!Kept, Waits

LEMMA ClosedCloses ==
    ASSUME SoundStore, NEW n \in Jobs, job[n] # None, ClosedFrom(job[n], job'[n])
    PROVE  History!Closes(n)
<1>1. job[n] \in JobRecord
  BY DEF SoundStore, StoreTypeOK
<1>2. /\ SameOperation(job[n], job'[n]) /\ job'[n] \in JobRecord
      /\ job'[n].status \in {"cancelled", "failed"}
      /\ job'[n].blob = job[n].blob /\ job'[n].payload = job[n].payload
  <2>1. Follows(job[n], job'[n]) /\ Honest(job[n])
    BY ReservedHonest DEF Follows, SoundStore
  <2>2. QED BY <1>1, <2>1, FollowsKeeps DEF ClosedFrom, SameOperation, JobRecord
<1>3. job'[n] # None /\ Waits(job[n])
  BY <1>2, NoneJobAssumption DEF ClosedFrom
<1>4. PartsOf(n)' = PartsOf(n)
  BY <1>2 DEF PartsOf
<1>5. OperationOf(n)' = [OperationOf(n) EXCEPT !.state = "closed", !.parts = PartsOf(n)]
  BY <1>2, <1>3, <1>4, OperationStays
<1>6. OperationOf(n).parts = PartsOf(n)
  BY DEF OperationOf
<1>7. History!Open(n)
  BY <1>3, StateOf
<1>8. QED BY <1>5, <1>6, <1>7 DEF History!Closes, History!Stays

LEMMA SameStays ==
    ASSUME NEW n \in Jobs, job'[n] = job[n]
    PROVE  OperationOf(n)' = OperationOf(n)
BY DEF OperationOf, SetOf, Base, Pending, PartsOf

LEMMA ContinuedStays ==
    ASSUME SoundStore, NEW n \in Jobs, job[n] # None, Continues(job[n], job'[n])
    PROVE  OperationOf(n)' = OperationOf(n)
<1>1. job[n] \in JobRecord /\ Waits(job[n])
  BY DEF SoundStore, StoreTypeOK, Continues
<1>2. /\ SameOperation(job[n], job'[n]) /\ job'[n] \in JobRecord /\ job'[n] # None
      /\ Waits(job'[n]) /\ job'[n].blob = job[n].blob /\ job'[n].payload = job[n].payload
  <2>1. Follows(job[n], job'[n]) /\ Honest(job[n])
    BY ReservedHonest DEF Follows, SoundStore
  <2>2. job'[n] \in JobRecord /\ job'[n] # None /\ SameOperation(job[n], job'[n])
    BY <1>1, <2>1, FollowsKeeps, NoneJobAssumption DEF SameOperation
  <2>3. QED BY <1>1, <2>2 DEF Continues, JobRecord, Waits
<1>3. SetOf(n)' = SetOf(n) /\ Base(n)' = Base(n) /\ PartsOf(n)' = PartsOf(n)
  BY <1>2 DEF SetOf, Base, PartsOf, SameOperation
<1>4. QED BY <1>1, <1>2, <1>3 DEF OperationOf, Pending, Waits, SameOperation

LEMMA AbsentStays ==
    ASSUME NEW n \in Jobs, job[n] = None, job'[n] = None
    PROVE  OperationOf(n)' = OperationOf(n)
BY SameStays

LEMMA EndedMoves ==
    ASSUME SoundStore, NEW J, NEW status \in {"cancelled", "failed"}, NEW n \in Jobs,
           job'[n] = Ended(J, status)[n]
    PROVE  History!Moves(n)
<1>1. CASE job'[n] = job[n]
  BY <1>1, SameStays DEF History!Moves
<1>2. CASE job[n] # None /\ ClosedFrom(job[n], job'[n])
  BY <1>2, ClosedCloses DEF History!Moves
<1>3. QED BY <1>1, <1>2, EndedFollows, EndedAbsent

(***************************************************************************)
(* Admission: the key is new in its epoch.                                 *)
(***************************************************************************)
LEMMA AdmitAdmits ==
    ASSUME HistoryInv, NEW a \in Actors, NEW j \in Jobs, NEW s \in Scopes, NEW k \in Keys,
           NEW r \in Request, Admit(a, j, s, k, r), NEW n \in Jobs
    PROVE  History!Moves(n)
<1>1. /\ job[j] = None /\ job'[j] = Admitted(s, k, r)
      /\ \A i \in Jobs : i # j => job'[i] = job[i]
      /\ SoundStore
  BY AdmitSound DEF HistoryInv
<1>2. CASE n # j
  BY <1>1, <1>2, SameStays DEF History!Moves
<1>3. CASE n = j
  <2>1. job'[j] # None
    BY <1>1, AdmittedType, NoneJobAssumption DEF Admit, Admissible, SoundStore
  <2>2. /\ OperationOf(j)'.state = "open" /\ OperationOf(j)'.scope = s
        /\ OperationOf(j)'.epoch = generation[s] /\ OperationOf(j)'.key = k
    BY <1>1, <2>1 DEF OperationOf, Pending, Admitted
  <2>3. OperationOf(j)' # None
    <3>1. SoundStore'
      BY <1>1, SoundStep DEF StoreMoves, StoreRests, StoreQuiet, Admissions
    <3>2. QED BY <2>1, <3>1, OperationKnownAfter
  <2>4. ASSUME NEW m \in Jobs \ {j}, job[m] # None
        PROVE  <<OperationOf(m).scope, OperationOf(m).epoch, OperationOf(m).key>>
                 # <<s, generation[s], k>>
    <3>1. ~IsExisting(m, s, k)
      BY DEF Admit, Admissible
    <3>2. QED BY <2>4, <3>1 DEF IsExisting, JobsIn, OperationOf
  <2>5. ~History!Known(j) /\ \A m \in Jobs : History!Known(m) <=> job[m] # None
    BY <1>1, StateOf
  <2>6. History!Admits(j)
    BY <2>2, <2>3, <2>4, <2>5 DEF History!Admits
  <2>7. QED BY <1>3, <2>6 DEF History!Moves
<1>4. QED BY <1>2, <1>3

(***************************************************************************)
(* Publication: the next revision of the line its set has.                 *)
(***************************************************************************)
LEMMA SameScope ==
    ASSUME HistoryInv, NEW i \in Jobs, NEW j \in Jobs, job[i] # None, job[j] # None,
           SetOf(i) = SetOf(j)
    PROVE  job[i].scope = job[j].scope
<1>1. Rooted(i) /\ Rooted(j)
  BY DEF HistoryInv, SetsRooted
<1>2. \A m \in {i, j} : job[SetOf(m)].scope = job[m].scope
  BY <1>1 DEF SetOf, Rooted
<1>3. QED BY <1>2

LEMMA PublishAppends ==
    ASSUME HistoryInv, NEW a, NEW j \in Jobs, Publish(a, j), NEW n \in Jobs
    PROVE  History!Moves(n)
<1>1. /\ SoundStore /\ job[j] # None /\ job[j] \in JobRecord /\ Waits(job[j])
      /\ \A i \in Jobs : i # j => job'[i] = job[i]
      /\ PublishedFrom(job[j], job'[j])
  BY PublishFollows DEF HistoryInv, SoundStore, StoreTypeOK, Publish, Publishing, Owned,
     CanJob, Waits
<1>2. CASE n # j
  BY <1>1, <1>2, SameStays DEF History!Moves
<1>3. CASE n = j
  <2>1. Rooted(j)
    BY <1>1 DEF HistoryInv, SetsRooted
  <2>2. \E parts \in SUBSET {"raw", "normalized"} : History!Stays(j, "kept", parts)
    <3>1. /\ SameOperation(job[j], job'[j]) /\ job'[j] \in JobRecord /\ job'[j] # None
          /\ job'[j].status = "completed"
      <4>1. Follows(job[j], job'[j]) /\ Honest(job[j])
        BY <1>1, ReservedHonest DEF Follows, SoundStore
      <4>2. job'[j] \in JobRecord /\ job'[j] # None /\ SameOperation(job[j], job'[j])
        BY <1>1, <4>1, FollowsKeeps, NoneJobAssumption DEF SameOperation
      <4>3. QED BY <1>1, <4>2 DEF PublishedFrom, JobRecord
    <3>2. OperationOf(j)' = [OperationOf(j) EXCEPT !.state = "kept", !.parts = PartsOf(j)']
      BY <1>1, <3>1, OperationStays
    <3>3. PartsOf(j)' \in SUBSET {"raw", "normalized"}
      BY DEF PartsOf
    <3>4. QED BY <3>2, <3>3 DEF History!Stays
  <2>3. OperationOf(j).epoch = generation[OperationOf(j).scope]
    BY <1>1, <2>1 DEF OperationOf, Rooted
  <2>4. /\ OperationOf(j).series = SetOf(j) /\ OperationOf(j).base = Base(j)
        /\ \A m \in Jobs : job[m] # None =>
              OperationOf(m).series = SetOf(m) /\ OperationOf(m).base = Base(m)
    BY <1>1 DEF OperationOf
  <2>5. /\ History!Open(j)
        /\ \A m \in Jobs : History!Kept(m) <=> job[m] # None /\ job[m].status = "completed"
    BY <1>1, StateOf
  <2>6. Base(j) > 0 =>
          \E m \in Jobs : /\ History!Kept(m)
                          /\ OperationOf(m).series = OperationOf(j).series
                          /\ OperationOf(m).base + 1 = OperationOf(j).base
    <3>1. SUFFICES ASSUME Base(j) > 0
                   PROVE  \E m \in Jobs : /\ job[m] # None /\ job[m].status = "completed"
                                          /\ SetOf(m) = SetOf(j) /\ Base(m) + 1 = Base(j)
      BY <2>4, <2>5
    <3>2. job[j].request.target # None
      BY <3>1 DEF Base
    <3>3. QED
      BY <3>2 DEF Publish, TargetUnchanged, IsLatest, Published, JobsIn, WithStatus
  <2>7. ASSUME NEW m \in Jobs \ {j}, job[m] # None, job[m].status = "completed",
               SetOf(m) = SetOf(j)
        PROVE  Base(m) # Base(j)
    <3>1. job[m].scope = job[j].scope
      BY <1>1, <2>7, SameScope
    <3>2. CASE job[j].request.target = None
      <4>1. job[m].request.target # None
        BY <2>7, <3>2 DEF SetOf
      <4>2. Base(m) \in 1 .. RevisionLimit
        BY <1>1, <2>7, <4>1, TargetSet DEF Base, SoundStore
      <4>3. QED BY <3>2, <4>2, EvidenceAssumption DEF Base
    <3>3. CASE job[j].request.target # None
      <4>1. PICK i \in Jobs : IsLatest(i, job[j].scope, SetOf(j)) /\ Base(i) + 1 = Base(j)
        BY <3>3 DEF Publish, TargetUnchanged
      <4>2. Base(m) <= Base(i)
        BY <2>7, <3>1, <4>1 DEF IsLatest, Published, JobsIn, WithStatus
      <4>3. Base(m) \in Int /\ Base(i) \in Int
        <5>1. job[i] # None
          BY <4>1 DEF IsLatest, Published, JobsIn
        <5>2. QED BY <1>1, <2>7, <5>1, TargetSet, EvidenceAssumption DEF Base, SoundStore
      <4>4. QED BY <4>1, <4>2, <4>3
    <3>4. QED BY <3>2, <3>3
  <2>8. \A m \in Jobs \ {j} : History!Kept(m) =>
          <<OperationOf(m).series, OperationOf(m).base>>
             # <<OperationOf(j).series, OperationOf(j).base>>
    BY <2>4, <2>5, <2>7
  <2>9. History!Appends(j)
    BY <2>2, <2>3, <2>4, <2>5, <2>6, <2>8 DEF History!Appends
  <2>10. QED BY <1>3, <2>9 DEF History!Moves
<1>4. QED BY <1>2, <1>3

(***************************************************************************)
(* Removal: whatever was open on the set is closed in the same step.       *)
(***************************************************************************)
LEMMA RemovalWithholds ==
    ASSUME HistoryInv, NEW a, NEW i \in Jobs,
           NEW kind \in {"raw_removed", "normalized_removed"},
           RemovePayloads(a, i, kind), NEW n \in Jobs
    PROVE  History!Moves(n)
<1> DEFINE Working == {j \in JobsIn(job[i].scope) :
                          job[j].request.target # None /\ SetOf(j) = SetOf(i)}
<1>1. \A j \in Jobs : job'[j] =
        IF j # i THEN Ended(Working, "failed")[j]
        ELSE IF kind = "raw_removed" THEN [job[j] EXCEPT !.blob = 0]
        ELSE [job[j] EXCEPT !.payload = 0]
  BY DEF RemovePayloads, Withdrawn
<1>2. /\ SoundStore /\ job[i] # None /\ job[i] \in JobRecord
      /\ job[i].status = "completed" /\ WithheldFrom(job[i], job'[i])
  BY <1>1 DEF RemovePayloads, CanJob, WithheldFrom, HistoryInv, SoundStore, StoreTypeOK
<1>3. CASE n # i
  <2> HIDE DEF Working
  <2>1. job'[n] = Ended(Working, "failed")[n]
    BY <1>1, <1>3
  <2>2. QED BY <1>2, <2>1, EndedMoves
<1>4. CASE n = i
  <2>1. \E parts \in SUBSET PartsOf(i) : History!Stays(i, "kept", parts)
    <3>1. /\ SameOperation(job[i], job'[i]) /\ job'[i] # None
          /\ job'[i].status = "completed"
          /\ job'[i].blob \in {0, job[i].blob} /\ job'[i].payload \in {0, job[i].payload}
      <4>1. Follows(job[i], job'[i]) /\ Honest(job[i])
        BY <1>2, ReservedHonest DEF Follows, SoundStore
      <4>2. job'[i] \in JobRecord /\ job'[i] # None /\ SameOperation(job[i], job'[i])
        BY <1>2, <4>1, FollowsKeeps, NoneJobAssumption DEF SameOperation
      <4>3. QED BY <1>2, <4>2 DEF WithheldFrom, JobRecord
    <3>2. OperationOf(i)' = [OperationOf(i) EXCEPT !.state = "kept", !.parts = PartsOf(i)']
      BY <1>2, <3>1, OperationStays
    <3>3. PartsOf(i)' \in SUBSET PartsOf(i)
      BY <3>1 DEF PartsOf
    <3>4. QED BY <3>2, <3>3 DEF History!Stays
  <2>2. OperationOf(i).parts = PartsOf(i) /\ OperationOf(i).series = SetOf(i)
    BY <1>2 DEF OperationOf
  <2>3. ASSUME NEW m \in Jobs, job[m] # None, Waits(job[m]), SetOf(m) = SetOf(i)
        PROVE  History!Closes(m)
    <3>1. job[m].scope = job[i].scope
      BY <1>2, <2>3, SameScope
    <3>2. job[m].request.target # None
      <4>1. SUFFICES ASSUME job[m].request.target = None PROVE FALSE
        OBVIOUS
      <4>2. SetOf(i) = m /\ m # i
        BY <1>2, <2>3, <4>1 DEF SetOf, Waits
      <4>3. job[i].request.target # None /\ job[i].request.target.set = m
        BY <4>2 DEF SetOf
      <4>4. Rooted(i)
        BY <1>2 DEF HistoryInv, SetsRooted
      <4>5. job[m].status = "completed"
        BY <4>3, <4>4 DEF Rooted
      <4>6. QED BY <2>3, <4>5 DEF Waits
    <3>3. m \in Working /\ Pending(m) /\ m # i
      BY <1>2, <2>3, <3>1, <3>2 DEF JobsIn, Pending, Waits
    <3>4. job'[m] = Ended(Working, "failed")[m]
      BY <1>1, <3>3
    <3> HIDE DEF Working
    <3>5. job'[m] = [job[m] EXCEPT !.status = "failed", !.reservedRaw = 0,
                                   !.reservedNormalized = 0]
      BY <3>3, <3>4 DEF Ended
    <3>6. ClosedFrom(job[m], job'[m])
      BY <2>3, <3>5 DEF ClosedFrom
    <3>7. QED BY <1>2, <2>3, <3>6, ClosedCloses
  <2>4. History!Kept(i)
    BY <1>2, StateOf
  <2>5. \A m \in Jobs : History!Open(m) => job[m] # None /\ Waits(job[m])
    BY <1>2, StateOf
  <2>6. \A m \in Jobs : job[m] # None => OperationOf(m).series = SetOf(m)
    BY DEF OperationOf
  <2>7. History!Withholds(i)
    BY <2>1, <2>2, <2>3, <2>4, <2>5, <2>6 DEF History!Withholds
  <2>8. QED BY <1>4, <2>7 DEF History!Moves
<1>5. QED BY <1>3, <1>4

(***************************************************************************)
(* Clearing: a scope forgets everything and begins a new epoch.            *)
(***************************************************************************)
LEMMA PurgeForgets ==
    ASSUME HistoryInv, NEW a, NEW s \in Scopes, PurgeScope(a, s), NEW n \in Jobs
    PROVE  History!Moves(n)
<1>1. /\ \A i \in Jobs : job'[i] = IF i \in JobsIn(s) THEN None ELSE job[i]
      /\ SoundStore /\ generation'[s] = generation[s] + 1
  BY PurgeSound DEF HistoryInv, PurgeScope, SoundStore, StoreTypeOK
<1>2. CASE n \notin JobsIn(s)
  BY <1>1, <1>2, SameStays DEF History!Moves
<1>3. CASE n \in JobsIn(s)
  <2>1. job[n] # None /\ job[n].scope = s /\ job'[n] = None
    BY <1>1, <1>3 DEF JobsIn
  <2>2. History!Known(n) /\ \A m \in Jobs : History!Known(m) => job[m] # None
    BY <1>1, <2>1, StateOf
  <2>3. \A m \in Jobs : job[m] # None => OperationOf(m).scope = job[m].scope
    BY DEF OperationOf
  <2>4. \A m \in Jobs : job'[m] = None => OperationOf(m)' = None
    BY DEF OperationOf
  <2>5. \A m \in Jobs : job[m] # None /\ job[m].scope = s => OperationOf(m)' = None
    BY <1>1, <2>4 DEF JobsIn
  <2>6. History!Forgets(n)
    BY <1>1, <2>1, <2>2, <2>3, <2>5 DEF History!Forgets
  <2>7. QED BY <2>6 DEF History!Moves
<1>4. QED BY <1>2, <1>3

LEMMA EpochsRenew ==
    ASSUME SoundStore, StoreMoves, NEW s \in Scopes
    PROVE  History!Renews(s)
<1>1. CASE \E a \in Actors, t \in Scopes : PurgeScope(a, t)
  <2>1. PICK a \in Actors, t \in Scopes : PurgeScope(a, t)
    BY <1>1
  <2>2. generation' = [generation EXCEPT ![t] = @ + 1]
    BY <2>1 DEF PurgeScope
  <2>3. CASE s # t
    BY <2>2, <2>3 DEF History!Renews, SoundStore, StoreTypeOK
  <2>4. CASE s = t
    <3>1. generation'[s] = generation[s] + 1
      BY <2>2, <2>4 DEF SoundStore, StoreTypeOK
    <3>2. ASSUME NEW n \in Jobs, OperationOf(n)' # None
          PROVE  OperationOf(n)'.scope # s
      <4>1. job'[n] # None
        BY <3>2 DEF OperationOf
      <4>2. job'[n] = job[n] /\ n \notin JobsIn(s)
        BY <2>1, <2>4, <4>1, PurgeSound
      <4>3. job'[n].scope # s
        BY <4>1, <4>2 DEF JobsIn
      <4>4. QED BY <4>1, <4>3 DEF OperationOf
    <3>3. QED BY <3>1, <3>2 DEF History!Renews
  <2>5. QED BY <2>3, <2>4
<1>2. CASE ~ \E a \in Actors, t \in Scopes : PurgeScope(a, t)
  <2>1. generation' = generation
    BY <1>2 DEF StoreMoves, StoreRests, StoreQuiet, Admissions, Admit, Closings, Start,
       Publish, Removals,
       RemovePayloads, DeleteRun, Lapse, RoleMoves, OnlyJobs, store
  <2>2. QED BY <2>1 DEF History!Renews
<1>3. QED BY <1>1, <1>2

LEMMA HistoryMoves ==
    ASSUME HistoryInv, StoreMoves, NEW n \in Jobs
    PROVE  History!Moves(n)
<1>1. SoundStore
  BY DEF HistoryInv
<1>2. CASE Closings
  <2>1. PICK J \in SUBSET Jobs, status \in {"cancelled", "failed"} : job' = Ended(J, status)
    BY <1>2 DEF Closings
  <2>2. QED BY <1>1, <2>1, EndedMoves
<1>3. ASSUME NEW a \in Actors, NEW j \in Jobs, Start(a, j)
      PROVE  History!Moves(n)
  <2>1. CASE n # j
    BY <1>1, <1>3, <2>1, SameStays
       DEF Start, Started, SoundStore, StoreTypeOK, History!Moves
  <2>2. CASE n = j
    <3>1. /\ job[j] # None /\ job[j] \in JobRecord /\ Waits(job[j])
          /\ job'[j] = [job[j] EXCEPT !.status = "running"]
      BY <1>1, <1>3 DEF Start, Startable, Started, Owned, CanJob, Waits, SoundStore,
         StoreTypeOK
    <3>2. job'[j] = [job[j] EXCEPT !.status = "running", !.late = job[j].late]
      BY <3>1 DEF JobRecord
    <3>3. Continues(job[j], job'[j])
      BY <3>1, <3>2 DEF Continues, JobRecord
    <3>4. QED BY <1>1, <2>2, <3>1, <3>3, ContinuedStays DEF History!Moves
  <2>3. QED BY <2>1, <2>2
<1>4. ASSUME NEW j \in Jobs, Lapse(j)
      PROVE  History!Moves(n)
  <2>1. CASE n # j
    BY <1>1, <1>4, <2>1, SameStays DEF Lapse, SoundStore, StoreTypeOK, History!Moves
  <2>2. CASE n = j
    <3>1. /\ job[j] # None /\ job[j] \in JobRecord /\ Waits(job[j])
          /\ job'[j] = [job[j] EXCEPT !.late = TRUE]
      BY <1>1, <1>4 DEF Lapse, Pending, Waits, SoundStore, StoreTypeOK
    <3>2. job'[j] = [job[j] EXCEPT !.status = job[j].status, !.late = TRUE]
      BY <3>1 DEF JobRecord
    <3>3. Continues(job[j], job'[j])
      BY <3>1, <3>2 DEF Continues, Waits
    <3>4. QED BY <1>1, <2>2, <3>1, <3>3, ContinuedStays DEF History!Moves
  <2>3. QED BY <2>1, <2>2
<1>5. CASE \/ \E a \in Actors, s \in Scopes, x \in Attachments : DeleteRun(a, s, x)
           \/ RoleMoves \/ UNCHANGED store
  <2>1. UNCHANGED job
    BY <1>5 DEF DeleteRun, RoleMoves, store
  <2>2. QED BY <2>1, SameStays DEF History!Moves
<1>6. CASE Admissions
  BY <1>6, AdmitAdmits DEF Admissions
<1>7. CASE Removals
  BY <1>7, RemovalWithholds DEF Removals
<1>8. QED
  BY <1>2, <1>3, <1>4, <1>5, <1>6, <1>7, PublishAppends, PurgeForgets
     DEF StoreMoves, StoreRests, StoreQuiet

\* The store keeps the promise of EvidenceHistory: an operation is decided once
\* under its key, revisions form one line, removing a part of a set closes every
\* import open on it, and clearing forgets the scope.
THEOREM HistoryHolds == StoreSpec => HistoryKept
<1>1. StoreInit => HistoryInv /\ History!Init
  <2>1. ASSUME StoreInit
        PROVE  History!Init
    BY <2>1 DEF StoreInit, History!Init, OperationOf
  <2>2. QED BY <2>1, HistoryInvInit
<1>2. HistoryInv /\ [StoreNext]_store => HistoryInv'
  BY ActionMoves, HistoryInvStep
<1>3. HistoryInv /\ [StoreNext]_store
        => [History!Next]_<<generation, [j \in Jobs |-> OperationOf(j)]>>
  <2>1. ASSUME HistoryInv, [StoreNext]_store
        PROVE  History!Next
    BY <2>1, ActionMoves, HistoryMoves, EpochsRenew DEF History!Next, HistoryInv
  <2>2. QED BY <2>1
<1>4. QED BY <1>1, <1>2, <1>3, PTL
         DEF StoreSpec, HistoryKept, History!Spec, History!history

(***************************************************************************)
(* What a step may do to an operation that was stored before it.           *)
(***************************************************************************)
LEMMA StoredStays ==
    ASSUME SoundStore, StoreMoves, NEW j \in Jobs, j \in used, job'[j] # None
    PROVE  /\ job[j] # None
           /\ job'[j].scope = job[j].scope /\ job'[j].generation = job[j].generation
           /\ job'[j].key = job[j].key /\ job'[j].request = job[j].request
<1>1. CASE Admissions
  <2>1. PICK a \in Actors, i \in Jobs, s \in Scopes, k \in Keys, r \in Request :
            Admit(a, i, s, k, r)
    BY <1>1 DEF Admissions
  <2>2. i \notin used /\ \A m \in Jobs : m # i => job'[m] = job[m]
    BY <2>1, AdmitSound DEF Admit
  <2>3. QED BY <2>2
<1>2. CASE \E a \in Actors, s \in Scopes : PurgeScope(a, s)
  BY <1>2, PurgeSound
<1>3. CASE EachFollows
  BY <1>3, FollowsSound
<1>4. QED BY <1>1, <1>2, <1>3, JobsMove DEF SoundStore

LEMMA PendingStays ==
    ASSUME SoundStore, StoreMoves, NEW j \in Jobs, j \in used, Pending(j)'
    PROVE  Pending(j)
<1>1. job'[j] # None /\ job[j] # None
  BY StoredStays DEF Pending
<1>2. CASE Admissions
  <2>1. PICK a \in Actors, i \in Jobs, s \in Scopes, k \in Keys, r \in Request :
            Admit(a, i, s, k, r)
    BY <1>2 DEF Admissions
  <2>2. i \notin used /\ \A m \in Jobs : m # i => job'[m] = job[m]
    BY <2>1, AdmitSound DEF Admit
  <2>3. QED BY <2>2 DEF Pending
<1>3. CASE \E a \in Actors, i \in Jobs : Start(a, i)
  BY <1>1, <1>3 DEF Start, Startable, Started, Pending, SoundStore, StoreTypeOK
<1>4. CASE NoneBegins
  BY <1>4 DEF NoneBegins, Pending
<1>5. QED BY <1>2, <1>3, <1>4, StatusMoves

LEMMA CompletionIsPublication ==
    ASSUME SoundStore, StoreMoves, NEW j \in Jobs, job'[j] # None,
           job'[j].status = "completed", job[j] # None => job[j].status # "completed"
    PROVE  ~StoreQuiet /\ \E a \in Actors : Publish(a, j)
<1>1. CASE Admissions
  <2>1. PICK a \in Actors, i \in Jobs, s \in Scopes, k \in Keys, r \in Request :
            Admit(a, i, s, k, r)
    BY <1>1 DEF Admissions
  <2>2. job'[i] = Admitted(s, k, r) /\ \A m \in Jobs : m # i => job'[m] = job[m]
    BY <2>1, AdmitSound
  <2>3. QED BY <2>2 DEF Admitted
<1>2. CASE Closings
  <2>1. job[j] # None /\ job[j] \in JobRecord
    BY <1>2, EndedAbsent DEF Closings, SoundStore, StoreTypeOK
  <2>2. job'[j] = job[j] \/ ClosedFrom(job[j], job'[j])
    BY <1>2, <2>1, EndedFollows DEF Closings
  <2>3. QED BY <2>1, <2>2 DEF ClosedFrom, Waits, JobRecord
<1>3. ASSUME NEW a \in Actors, NEW i \in Jobs, Start(a, i) PROVE FALSE
  BY <1>3 DEF Start, Started, Startable, Owned, CanJob, SoundStore, StoreTypeOK, JobRecord
<1>4. ASSUME NEW a \in Actors, NEW i \in Jobs, Publish(a, i) PROVE i = j
  BY <1>4 DEF Publish, SoundStore, StoreTypeOK
<1>5. ASSUME NEW a \in Actors, NEW i \in Jobs,
             NEW kind \in {"raw_removed", "normalized_removed"},
             RemovePayloads(a, i, kind)
      PROVE  FALSE
  <2> DEFINE Open == {m \in JobsIn(job[i].scope) :
                         job[m].request.target # None /\ SetOf(m) = SetOf(i)}
  <2>1. job[i] # None /\ job[i].status = "completed"
    BY <1>5 DEF RemovePayloads, CanJob
  <2>2. job'[j] = Ended(Open, "failed")[j]
    BY <1>5, <2>1 DEF RemovePayloads, Withdrawn
  <2> HIDE DEF Open
  <2>3. job[j] # None /\ (job'[j] = job[j] \/ ClosedFrom(job[j], job'[j]))
    BY <2>2, EndedFollows, EndedAbsent
  <2>4. job[j] \in JobRecord
    BY <2>3 DEF SoundStore, StoreTypeOK
  <2>5. QED BY <2>3, <2>4 DEF ClosedFrom, Waits, JobRecord
<1>6. ASSUME NEW a \in Actors, NEW s \in Scopes, PurgeScope(a, s) PROVE FALSE
  BY <1>6, PurgeSound
<1>7. ASSUME NEW i \in Jobs, Lapse(i) PROVE FALSE
  BY <1>7 DEF Lapse, Pending, SoundStore, StoreTypeOK, JobRecord
<1>8. CASE \/ \E a \in Actors, s \in Scopes, x \in Attachments : DeleteRun(a, s, x)
           \/ RoleMoves \/ UNCHANGED store
  BY <1>8 DEF DeleteRun, RoleMoves, store
<1>9. QED BY <1>1, <1>2, <1>3, <1>4, <1>5, <1>6, <1>7, <1>8
         DEF StoreMoves, StoreRests, StoreQuiet, Removals

\* While an operation on a set goes on, no revision of the set loses its raw bytes.
LEMMA RetentionStays ==
    ASSUME SoundStore, StoreMoves, NEW i \in Jobs, NEW j \in Jobs,
           job[i] # None, job[i].status = "completed", Pending(j), Pending(j)',
           job[i].scope = job[j].scope, job[j].request.target # None, SetOf(i) = SetOf(j)
    PROVE  job'[i] = job[i] \/ job'[i] = None
<1>1. i \in used /\ job[i] \in JobRecord /\ ~Pending(i) /\ i # j /\ job[j] # None
  BY DEF SoundStore, StoreTypeOK, Pending
<1>2. ASSUME NEW J, NEW status PROVE Ended(J, status)[i] = job[i]
  BY <1>1 DEF Ended
<1>3. CASE Admissions
  BY <1>1, <1>3, AdmitSound DEF Admissions, Admit
<1>4. CASE Closings
  BY <1>2, <1>4 DEF Closings
<1>5. ASSUME NEW a \in Actors, NEW m \in Jobs, NEW kind, RemovePayloads(a, m, kind)
      PROVE  job'[i] = job[i]
  <2> DEFINE Open == {n \in JobsIn(job[m].scope) :
                         job[n].request.target # None /\ SetOf(n) = SetOf(m)}
  <2>1. \A n \in Jobs : n # m => job'[n] = Ended(Open, "failed")[n]
    BY <1>5 DEF RemovePayloads, Withdrawn
  <2>2. CASE m = i
    <3>1. j \in Open
      BY <1>1, <2>2 DEF JobsIn
    <3> HIDE DEF Open
    <3>2. job'[j] = [job[j] EXCEPT !.status = "failed", !.reservedRaw = 0,
                                   !.reservedNormalized = 0]
      BY <1>1, <2>1, <2>2, <3>1 DEF Ended
    <3>3. job[j] \in JobRecord
      BY <1>1 DEF SoundStore, StoreTypeOK
    <3>4. QED BY <3>2, <3>3 DEF Pending, JobRecord
  <2>3. CASE m # i
    BY <1>2, <2>1, <2>3
  <2>4. QED BY <2>2, <2>3
<1>6. ASSUME NEW a \in Actors, NEW s \in Scopes, PurgeScope(a, s)
      PROVE  job'[i] = job[i] \/ job'[i] = None
  BY <1>6, PurgeSound
<1>7. ASSUME NEW m \in Jobs, Lapse(m) PROVE job'[i] = job[i]
  BY <1>1, <1>7 DEF Lapse, SoundStore, StoreTypeOK
<1>8. ASSUME NEW a \in Actors, NEW m \in Jobs, Start(a, m) PROVE job'[i] = job[i]
  BY <1>1, <1>8 DEF Start, Startable, Started, SoundStore, StoreTypeOK
<1>9. ASSUME NEW a \in Actors, NEW m \in Jobs, Publish(a, m) PROVE job'[i] = job[i]
  BY <1>1, <1>9 DEF Publish, Publishing, SoundStore, StoreTypeOK
<1>10. CASE \/ \E a \in Actors, s \in Scopes, x \in Attachments : DeleteRun(a, s, x)
            \/ RoleMoves \/ UNCHANGED store
  BY <1>10 DEF DeleteRun, RoleMoves, store
<1>11. QED BY <1>3, <1>4, <1>5, <1>6, <1>7, <1>8, <1>9, <1>10
         DEF StoreMoves, StoreRests, StoreQuiet, Removals

(***************************************************************************)
(* The revisions of a set are numbered from 1 without a gap, so a scope    *)
(* has at least as many published jobs as any set of it has revisions.     *)
(***************************************************************************)
Linked(j) ==
    \A n \in 0 .. Base(j) :
        \E i \in Published(job[j].scope) : SetOf(i) = SetOf(j) /\ Base(i) = n

RevisionsInLine == \A j \in WithStatus("completed") : Linked(j)

LEMMA PublishedIs ==
    ASSUME NEW s
    PROVE  /\ Published(s) = {i \in Jobs : /\ job[i] # None /\ job[i].scope = s
                                           /\ job[i].status = "completed"}
           /\ Published(s) \subseteq WithStatus("completed")
BY DEF Published, JobsIn, WithStatus

LEMMA PublishedStays ==
    ASSUME SoundStore, StoreMoves, NEW s, NEW i \in Published(s), job'[i] # None
    PROVE  /\ job'[i].status = "completed" /\ job'[i].scope = s
           /\ SetOf(i)' = SetOf(i) /\ Base(i)' = Base(i)
<1>1. i \in Jobs /\ job[i] # None /\ job[i].scope = s /\ job[i].status = "completed"
  BY PublishedIs
<1>2. i \in used
  BY <1>1 DEF SoundStore, StoreTypeOK
<1>3. job'[i].scope = s /\ job'[i].request = job[i].request
  BY <1>1, <1>2, StoredStays
<1>4. job'[i].status = "completed"
  <2>1. CASE Admissions
    BY <1>1, <1>2, <2>1, AdmitSound DEF Admissions, Admit
  <2>2. CASE \E a \in Actors, t \in Scopes : PurgeScope(a, t)
    BY <1>1, <2>2, PurgeSound
  <2>3. CASE EachFollows
    BY <1>1, <2>3, CompletedStays
  <2>4. QED BY <2>1, <2>2, <2>3, JobsMove DEF SoundStore
<1>5. QED BY <1>3, <1>4 DEF SetOf, Base

\* A scope is forgotten as a whole.
LEMMA ScopeStays ==
    ASSUME SoundStore, StoreMoves, NEW i \in Jobs, NEW j \in Jobs, i \in used, j \in used,
           job[i] # None, job'[j] # None, job[j] # None, job[i].scope = job[j].scope
    PROVE  job'[i] # None
<1>1. CASE Admissions
  BY <1>1, AdmitSound DEF Admissions, Admit
<1>2. CASE \E a \in Actors, t \in Scopes : PurgeScope(a, t)
  BY <1>2, PurgeSound DEF JobsIn
<1>3. CASE EachFollows
  BY <1>3, FollowsSound
<1>4. QED BY <1>1, <1>2, <1>3, JobsMove DEF SoundStore

LEMMA LinkStays ==
    ASSUME SoundStore, StoreMoves, NEW j \in Jobs, job[j] # None, job'[j] # None, Linked(j)
    PROVE  Linked(j)'
<1>1. j \in used
  BY DEF SoundStore, StoreTypeOK
<1>2. /\ job'[j].scope = job[j].scope /\ Base(j)' = Base(j) /\ SetOf(j)' = SetOf(j)
  BY <1>1, StoredStays DEF Base, SetOf
<1>3. SUFFICES ASSUME NEW n \in 0 .. Base(j)
               PROVE  \E i \in Published(job[j].scope)' :
                          SetOf(i)' = SetOf(j) /\ Base(i)' = n
  BY <1>2 DEF Linked
<1>4. PICK i \in Published(job[j].scope) : SetOf(i) = SetOf(j) /\ Base(i) = n
  BY <1>3 DEF Linked
<1>5. /\ i \in Jobs /\ job[i] # None /\ job[i].scope = job[j].scope
      /\ i \in used
  BY <1>4, PublishedIs DEF SoundStore, StoreTypeOK
<1>6. job'[i] # None
  BY <1>1, <1>5, ScopeStays
<1>7. /\ job'[i].status = "completed" /\ job'[i].scope = job[j].scope
      /\ SetOf(i)' = SetOf(i) /\ Base(i)' = Base(i)
  BY <1>4, <1>6, PublishedStays
<1>8. i \in Published(job[j].scope)'
  BY <1>2, <1>5, <1>6, <1>7 DEF Published, JobsIn, WithStatus
<1>9. QED BY <1>4, <1>7, <1>8

LEMMA RevisionsStep ==
    ASSUME SoundStore, RevisionsInLine, StoreMoves
    PROVE  RevisionsInLine'
<1>1. SUFFICES ASSUME NEW j \in Jobs, job'[j] # None, job'[j].status = "completed"
               PROVE  Linked(j)'
  BY DEF RevisionsInLine, WithStatus
<1>2. CASE job[j] # None /\ job[j].status = "completed"
  BY <1>1, <1>2, LinkStays DEF RevisionsInLine, WithStatus
<1>3. CASE ~(job[j] # None /\ job[j].status = "completed")
  <2>1. PICK a \in Actors : Publish(a, j)
    BY <1>1, <1>3, CompletionIsPublication
  <2>2. /\ job[j] # None /\ job[j] \in JobRecord /\ TargetUnchanged(j)
        /\ j \in used /\ SoundStore'
    BY <2>1, SoundStep
       DEF Publish, Publishing, Owned, CanJob, SoundStore, StoreTypeOK
  <2>3. job'[j].scope = job[j].scope /\ Base(j)' = Base(j) /\ SetOf(j)' = SetOf(j)
    BY <1>1, <2>2, StoredStays DEF Base, SetOf
  <2>4. Base(j) \in Nat
    BY <2>2, TargetSet, EvidenceAssumption DEF Base, SoundStore
  <2>5. j \in Published(job[j].scope)'
    BY <1>1, <2>3 DEF Published, JobsIn, WithStatus
  <2>6. CASE job[j].request.target = None
    BY <2>3, <2>5, <2>6 DEF Linked, Base
  <2>7. CASE job[j].request.target # None
    <3>1. PICK i \in Jobs : IsLatest(i, job[j].scope, SetOf(j)) /\ Base(i) + 1 = Base(j)
      BY <2>2, <2>7 DEF TargetUnchanged
    <3>2. /\ job[i] # None /\ job[i].scope = job[j].scope
          /\ job[i].status = "completed" /\ SetOf(i) = SetOf(j) /\ i \in used
      BY <3>1, PublishedIs DEF IsLatest, SoundStore, StoreTypeOK
    <3>3. Base(i) \in Nat
      BY <3>2, TargetSet, EvidenceAssumption DEF Base, SoundStore
    <3>4. Linked(i) /\ job'[i] # None
      BY <1>1, <2>2, <3>2, ScopeStays DEF RevisionsInLine, WithStatus
    <3>5. Linked(i)' /\ Base(i)' = Base(i) /\ SetOf(i)' = SetOf(i)
          /\ job'[i].scope = job[i].scope
      BY <3>2, <3>4, LinkStays, StoredStays DEF Base, SetOf
    <3>6. \A n \in 0 .. Base(j) : n \in 0 .. Base(i) \/ n = Base(j)
      BY <2>4, <3>1, <3>3
    <3>7. QED BY <2>3, <2>5, <3>2, <3>5, <3>6 DEF Linked
  <2>8. QED BY <2>6, <2>7
<1>4. QED BY <1>2, <1>3

LEMMA RevisionBound ==
    ASSUME SoundStore, RevisionsInLine, NEW s, NEW j \in Published(s)
    PROVE  Base(j) \in Nat /\ Base(j) + 1 <= Cardinality(Published(s))
<1>1. /\ j \in Jobs /\ job[j] # None /\ job[j].scope = s
      /\ j \in WithStatus("completed") /\ Published(s) \in SUBSET Jobs
  BY PublishedIs DEF WithStatus
<1>2. Base(j) \in Nat
  BY <1>1, TargetSet, EvidenceAssumption DEF Base, SoundStore
<1>3. \A n \in 0 .. Base(j) : \E i \in Published(s) : Base(i) = n
  BY <1>1 DEF RevisionsInLine, Linked
<1> DEFINE f == [n \in 0 .. Base(j) |-> CHOOSE i \in Published(s) : Base(i) = n]
<1>4. \A n \in 0 .. Base(j) : f[n] \in Published(s) /\ Base(f[n]) = n
  BY <1>3
<1>5. f \in [0 .. Base(j) -> Published(s)]
  BY <1>4
<1> HIDE DEF f
<1>6. f \in Injection(0 .. Base(j), Published(s))
  BY <1>4, <1>5 DEF Injection, IsInjective
<1>7. IsFiniteSet(Published(s)) /\ Cardinality(Published(s)) \in Nat
  BY <1>1, UnitsFinite
<1>8. 0 \in Int /\ Base(j) \in Int /\ ~(0 > Base(j))
  BY <1>2
<1>9. Cardinality(0 .. Base(j)) = Base(j) - 0 + 1
  BY <1>8, FS_Interval
<1>10. Cardinality(0 .. Base(j)) <= Cardinality(Published(s))
  BY <1>6, <1>7, FS_Injection
<1>11. QED BY <1>2, <1>7, <1>9, <1>10

\* The revisions of a set are 1, 2, 3 and so on without a gap, whatever is withheld,
\* cancelled or refused between them.
THEOREM RevisionsFollow == StoreSpec => []RevisionsInLine
<1>1. StoreInit => SoundStore /\ RevisionsInLine
  BY StoreInitSound DEF StoreInit, RevisionsInLine, WithStatus
<1>2. (SoundStore /\ RevisionsInLine) /\ [StoreNext]_store
        => (SoundStore /\ RevisionsInLine)'
  BY ActionMoves, SoundStep, RevisionsStep
<1>3. QED BY <1>1, <1>2, PTL DEF StoreSpec
=============================================================================
