-------------------------- MODULE EvidenceImportProofs --------------------------
(***************************************************************************)
(* What holds of the import service for every number of receipts, clears,  *)
(* jobs and members, and whatever roles members are given meanwhile.       *)
(***************************************************************************)
EXTENDS EvidenceImport, EvidenceStoreProofs, SequenceTheorems

(***************************************************************************)
(* Receipts, one by one.                                                   *)
(***************************************************************************)
WellFormed(rec) ==
    /\ rec \in Receipt
    /\ rec.stage = "free" => rec = Free
    /\ rec.stage # "free" => rec.owner \in Actors /\ rec.scope \in Scopes
    /\ rec.stage = "header" => rec.job = None /\ rec.kind = "upload"
    /\ rec.job # None => rec.draft \in Request
    /\ rec.stage \in {"waiting", "granted", "working"} => rec.job # None
    /\ rec.stage \in {"granted", "working"} => rec.active
    /\ rec.active => rec.stage \in {"granted", "working", "unwinding"}
    /\ rec.kind = "reparse" =>
          ~rec.reused /\ rec.draft \in Request /\ rec.draft.target # None
    /\ rec.stage = "working" => ~rec.reused

\* The receipt keeps its operation and its slot, if it has one.
Passes(r, q) ==
    \/ q = r
    \/ q = Stopped(r)
    \/ r.stage \in {"header", "waiting", "granted"} /\ q = [r EXCEPT !.stage = "unwinding"]
    \/ r.stage = "granted" /\ ~r.reused /\ q = [r EXCEPT !.stage = "working"]

SameReceipt(r, q) ==
    /\ q.kind = r.kind /\ q.owner = r.owner /\ q.scope = r.scope /\ q.draft = r.draft
    /\ q.job = r.job /\ q.reused = r.reused /\ q.active = r.active
    /\ q.stage = "free" <=> r.stage = "free"

LEMMA FreeType == WellFormed(Free)
BY DEF WellFormed, Receipt, Free, Stages

LEMMA PassesKeeps ==
    ASSUME NEW r, WellFormed(r), NEW q, Passes(r, q)
    PROVE  WellFormed(q) /\ SameReceipt(r, q)
<1>1. r \in Receipt
  BY DEF WellFormed
<1>2. CASE q = r
  BY <1>2 DEF SameReceipt
<1>3. CASE q = Stopped(r)
  <2>1. CASE r.stage = "free"
    BY <1>3, <2>1 DEF Stopped, SameReceipt
  <2>2. CASE q = [r EXCEPT !.stage = "unwinding", !.aborted = TRUE]
    <3>1. PICK p : p = [r EXCEPT !.stage = "unwinding"]
      OBVIOUS
    <3>2. q = [p EXCEPT !.aborted = TRUE]
      BY <2>2, <3>1
    <3>3. (p \in Receipt /\ SameReceipt(r, p)) \/ r.stage = "free"
      BY <1>1, <3>1 DEF Receipt, Stages, SameReceipt
    <3>4. QED BY <1>1, <2>1, <2>2, <3>1, <3>2, <3>3 DEF WellFormed, Receipt, Stages, SameReceipt
  <2>3. CASE r.stage # "free" /\ q = [r EXCEPT !.aborted = TRUE]
    BY <1>1, <2>3 DEF WellFormed, Receipt, SameReceipt
  <2>4. QED BY <1>3, <2>1, <2>2, <2>3 DEF Stopped
<1>4. CASE r.stage \in {"header", "waiting", "granted"} /\ q = [r EXCEPT !.stage = "unwinding"]
  BY <1>1, <1>4 DEF WellFormed, Receipt, Stages, SameReceipt
<1>5. CASE r.stage = "granted" /\ ~r.reused /\ q = [r EXCEPT !.stage = "working"]
  BY <1>1, <1>5 DEF WellFormed, Receipt, Stages, SameReceipt
<1>6. QED BY <1>2, <1>3, <1>4, <1>5 DEF Passes

(***************************************************************************)
(* The line.                                                               *)
(***************************************************************************)
Once == \A m, n \in DOMAIN line : line[m] = line[n] => m = n

LineOK == ToSet(line) = Busy /\ Once

LEMMA RemoveFirstOnce ==
    ASSUME NEW s \in Seq(Entries), NEW e,
           \A m, n \in DOMAIN s : s[m] = s[n] => m = n,
           NEW k \in DOMAIN s, s[k] = e
    PROVE  /\ RemoveFirst(s, e) \in Seq(Entries)
           /\ ToSet(RemoveFirst(s, e)) = ToSet(s) \ {e}
           /\ \A m, n \in DOMAIN RemoveFirst(s, e) :
                 RemoveFirst(s, e)[m] = RemoveFirst(s, e)[n] => m = n
<1>1. k \in 1 .. Len(s) /\ Len(s) \in Nat /\ DOMAIN s = 1 .. Len(s)
  OBVIOUS
<1>2. \A i \in 1 .. Len(s) : s[i] = e <=> i = k
  BY <1>1
<1> DEFINE found == {i \in 1 .. Len(s) : s[i] = e}
<1>3. SelectInSeq(s, LAMBDA v : v = e) = k
  <2>1. found = {k} /\ found # {}
    BY <1>1, <1>2
  <2>2. Min({k}) = k
    BY <1>1 DEF Min
  <2>3. SelectInSeq(s, LAMBDA v : v = e) = IF found # {} THEN Min(found) ELSE 0
    BY DEF SelectInSeq
  <2> HIDE DEF found
  <2>4. QED BY <2>1, <2>2, <2>3
<1> DEFINE r == RemoveAt(s, k)
<1>4. RemoveFirst(s, e) = r
  BY <1>1, <1>3 DEF RemoveFirst
<1>5. /\ r \in Seq(Entries) /\ Len(r) = Len(s) - 1
      /\ \A m \in 1 .. Len(s) - 1 : r[m] = IF m < k THEN s[m] ELSE s[m + 1]
  <2> DEFINE a == SubSeq(s, 1, k - 1)
             b == SubSeq(s, k + 1, Len(s))
  <2>1. \A i \in 1 .. Len(s) : s[i] \in Entries
    OBVIOUS
  <2>2. a \in Seq(Entries) /\ Len(a) = k - 1 /\ \A m \in 1 .. k - 1 : a[m] = s[m]
    BY <1>1, <2>1, SubSeqProperties
  <2>3. /\ b \in Seq(Entries) /\ Len(b) = Len(s) - k
        /\ \A m \in 1 .. Len(s) - k : b[m] = s[k + m]
    BY <1>1, <2>1, SubSeqProperties
  <2>4. r = a \o b
    BY DEF RemoveAt
  <2> HIDE DEF a, b, r
  <2>5. r \in Seq(Entries) /\ Len(r) = Len(s) - 1
    <3>1. a \o b \in Seq(Entries) /\ Len(a \o b) = Len(a) + Len(b)
      BY <2>2, <2>3, ConcatProperties
    <3>2. QED BY <1>1, <2>2, <2>3, <2>4, <3>1
  <2>6. \A m \in 1 .. Len(s) - 1 : r[m] = IF m <= k - 1 THEN a[m] ELSE b[m - (k - 1)]
    BY <1>1, <2>2, <2>3, <2>4, ConcatProperties
  <2>7. ASSUME NEW m \in 1 .. Len(s) - 1 PROVE r[m] = IF m < k THEN s[m] ELSE s[m + 1]
    <3>1. CASE m < k
      BY <1>1, <2>2, <2>6, <3>1
    <3>2. CASE ~(m < k)
      <4>1. m - (k - 1) \in 1 .. Len(s) - k /\ k + (m - (k - 1)) = m + 1
        BY <1>1, <3>2
      <4>2. r[m] = b[m - (k - 1)]
        BY <1>1, <2>6, <3>2
      <4>3. QED BY <2>3, <3>2, <4>1, <4>2
    <3>3. QED BY <3>1, <3>2
  <2>8. QED BY <2>5, <2>7
<1> HIDE DEF r
<1>6. DOMAIN r = 1 .. Len(s) - 1
  BY <1>5
<1>7. ASSUME NEW m \in DOMAIN r, NEW n \in DOMAIN r, r[m] = r[n] PROVE m = n
  <2> DEFINE at(i) == IF i < k THEN i ELSE i + 1
  <2>1. /\ at(m) \in DOMAIN s /\ r[m] = s[at(m)] /\ m \in Nat
        /\ at(n) \in DOMAIN s /\ r[n] = s[at(n)] /\ n \in Nat
    BY <1>1, <1>5, <1>6
  <2>2. at(m) = at(n)
    BY <1>7, <2>1
  <2>3. QED BY <1>1, <2>1, <2>2
<1>8. \A x : x \in ToSet(r) <=> x \in ToSet(s) \ {e}
  <2>1. ASSUME NEW m \in DOMAIN r PROVE r[m] \in ToSet(s) \ {e}
    BY <1>1, <1>2, <1>5, <1>6, <2>1 DEF ToSet
  <2>2. ASSUME NEW n \in DOMAIN s, s[n] # e PROVE s[n] \in ToSet(r)
    <3>1. n # k
      BY <2>2
    <3>2. CASE n < k
      <4>1. n \in DOMAIN r /\ r[n] = s[n]
        BY <1>1, <1>5, <1>6, <3>2
      <4>2. QED BY <4>1 DEF ToSet
    <3>3. CASE n > k
      <4>1. n - 1 \in DOMAIN r /\ r[n - 1] = s[n]
        BY <1>1, <1>5, <1>6, <3>3
      <4>2. QED BY <4>1 DEF ToSet
    <3>4. QED BY <1>1, <3>1, <3>2, <3>3
  <2>3. QED BY <2>1, <2>2 DEF ToSet
<1>9. QED BY <1>4, <1>5, <1>7, <1>8

LEMMA AppendOnce ==
    ASSUME NEW s \in Seq(Entries), NEW e \in Entries, e \notin ToSet(s),
           \A m, n \in DOMAIN s : s[m] = s[n] => m = n
    PROVE  /\ Append(s, e) \in Seq(Entries)
           /\ ToSet(Append(s, e)) = ToSet(s) \cup {e}
           /\ \A m, n \in DOMAIN Append(s, e) : Append(s, e)[m] = Append(s, e)[n] => m = n
<1> DEFINE r == Append(s, e)
<1>1. /\ r \in Seq(Entries) /\ Len(r) = Len(s) + 1 /\ Len(s) \in Nat
      /\ DOMAIN r = 1 .. Len(s) + 1 /\ DOMAIN s = 1 .. Len(s)
      /\ r[Len(s) + 1] = e /\ \A n \in 1 .. Len(s) : r[n] = s[n]
  OBVIOUS
<1> HIDE DEF r
<1>2. \A n \in DOMAIN s : s[n] # e
  BY DEF ToSet
<1>3. \A m, n \in DOMAIN r : r[m] = r[n] => m = n
  BY <1>1, <1>2
<1>4. \A x : x \in ToSet(r) <=> x \in ToSet(s) \cup {e}
  <2>1. ASSUME NEW n \in DOMAIN r PROVE r[n] \in ToSet(s) \cup {e}
    BY <1>1 DEF ToSet
  <2>2. ASSUME NEW n \in DOMAIN s PROVE s[n] \in ToSet(r)
    <3>1. n \in DOMAIN r /\ r[n] = s[n]
      BY <1>1
    <3>2. QED BY <3>1 DEF ToSet
  <2>3. e \in ToSet(r)
    <3>1. Len(s) + 1 \in DOMAIN r
      BY <1>1
    <3>2. QED BY <1>1, <3>1 DEF ToSet
  <2>4. QED BY <2>1, <2>2, <2>3 DEF ToSet
<1>5. QED BY <1>1, <1>3, <1>4 DEF r

\* The line counts the receipts.
LEMMA LineCounts ==
    ASSUME line \in Seq(Entries), LineOK
    PROVE  IsFiniteSet(Busy) /\ Len(line) = Cardinality(Busy)
<1>1. line \in [1 .. Len(line) -> Busy] /\ Len(line) \in Nat
  BY DEF LineOK, ToSet
<1>2. line \in Bijection(1 .. Len(line), Busy)
  BY <1>1 DEF LineOK, ToSet, Once, Bijection, Injection, Surjection, IsInjective
<1>3. ExistsBijection(1 .. Len(line), Busy)
  BY <1>2 DEF ExistsBijection
<1>4. QED BY <1>1, <1>3, FS_CountingElements, FS_NatBijection

(***************************************************************************)
(* The state of the service, apart from what receipts own.                 *)
(***************************************************************************)
SweepSound(rec) ==
    /\ rec.stage # "idle" => rec.actor \in Actors /\ rec.scope \in Scopes
    /\ rec.kind = "clear" => rec.attachment = None
    /\ rec.kind = "run" => rec.attachment \in Attachments
    /\ rec.stage = "unlinking" => rec.kind = "run"

Receipts == entry \in [Entries -> Receipt] /\ \A e \in Entries : WellFormed(entry[e])

Line == line \in Seq(Entries) /\ LineOK

Sweeps == sweep \in [Sweepers -> Sweep] /\ \A w \in Sweepers : SweepSound(sweep[w])

Surroundings ==
    /\ pumping \in BOOLEAN
    /\ blocked \in SUBSET ((Scopes \X {None}) \cup (Scopes \X Attachments))
    /\ process \in {"up", "closing", "down"}

StoreInv == HistoryInv /\ RevisionsInLine

ServiceInv == Receipts /\ Line /\ Sweeps /\ Surroundings

(***************************************************************************)
(* What a step of the service does to the store.                           *)
(***************************************************************************)
LEMMA ReceiptFacts ==
    ASSUME Receipts, NEW e \in Entries
    PROVE  /\ WellFormed(entry[e]) /\ entry[e] \in Receipt
           /\ entry[e].stage # "free" => entry[e].owner \in Actors /\ entry[e].scope \in Scopes
           /\ entry[e].job # None => entry[e].job \in Jobs /\ entry[e].draft \in Request
           /\ OwnsJob(e) => entry[e].stage # "free" /\ entry[e].job \in Jobs
           /\ entry[e].stage \in {"waiting", "granted", "working"} => entry[e].job \in Jobs
BY DEF Receipts, WellFormed, Receipt, OwnsJob, Free

LEMMA FailingCloses ==
    ASSUME Receipts, NEW E \in SUBSET Entries, NEW a, job' = Failing(E, a), OnlyJobs
    PROVE  Closings
<1> DEFINE J == {entry[e].job : e \in {f \in E : OwnsJob(f) /\ Failable(a, entry[f].job)}}
<1>1. J \in SUBSET Jobs
  BY ReceiptFacts
<1>2. job' = Ended(J, "failed")
  BY DEF Failing
<1> HIDE DEF J
<1>3. QED BY <1>1, <1>2 DEF Closings

LEMMA OneCloses ==
    ASSUME NEW J \in SUBSET Jobs, NEW status \in {"cancelled", "failed"},
           job' = Ended(J, status), OnlyJobs
    PROVE  Closings
BY DEF Closings

\* A reparse asks for the revision after one that exists.
LEMMA ReparseRequest ==
    ASSUME StoreInv, NEW a, NEW i \in Jobs, NEW report \in Reports, NEW r,
           job[i] # None, job[i].status = "completed",
           r = [report |-> report, attachment |-> job[i].request.attachment,
                target |-> [set |-> SetOf(i), revision |-> Base(i) + 1]],
           HasRoom(job[i].scope, r)
    PROVE  r \in Request /\ r.target # None /\ job[i].scope \in Scopes
<1>1. job[i] \in JobRecord /\ SoundStore
  BY DEF StoreInv, HistoryInv, SoundStore, StoreTypeOK
<1>2. i \in Published(job[i].scope)
  BY PublishedIs
<1>3. Base(i) \in Nat /\ Base(i) + 1 <= Cardinality(Published(job[i].scope))
  BY <1>1, <1>2, RevisionBound DEF StoreInv
<1>4. /\ Published(job[i].scope) \in SUBSET Jobs
      /\ {j \in JobsIn(job[i].scope) : Pending(j)} \in SUBSET Jobs
  BY PublishedIs DEF JobsIn
<1>5. /\ Cardinality(Published(job[i].scope)) \in Nat
      /\ Cardinality({j \in JobsIn(job[i].scope) : Pending(j)}) \in Nat
  BY <1>4, UnitsFinite
<1>6. Base(i) + 1 \in 1 .. RevisionLimit
  BY <1>3, <1>5, EvidenceAssumption DEF HasRoom
<1>7. SetOf(i) \in Jobs
  BY <1>1, TargetSet DEF SetOf, SoundStore
<1>8. r.target \in Target
  BY <1>6, <1>7 DEF Target
<1>9. QED BY <1>1, <1>8, NoneJobAssumption DEF Request, JobRecord

Granting(e) == PumpGrants(e) /\ ~entry[e].reused

LEMMA ArrivalsRest ==
    ASSUME StoreInv, Receipts, Arrivals
    PROVE  StoreQuiet
<1>1. ASSUME NEW e \in Entries, NEW a \in Actors, NEW s \in Scopes, Arrive(e, a, s)
      PROVE  StoreQuiet
  BY <1>1 DEF Arrive, StoreQuiet
<1>2. ASSUME NEW e \in Entries, NEW j \in Jobs, NEW k \in Keys, NEW r \in Request,
             NEW reused \in BOOLEAN, AdmitUpload(e, j, k, r, reused)
      PROVE  StoreQuiet
  <2>1. entry[e].owner \in Actors /\ entry[e].scope \in Scopes
    BY <1>2, ReceiptFacts DEF AdmitUpload
  <2>2. UNCHANGED store \/ Admit(entry[e].owner, j, entry[e].scope, k, r)
    BY <1>2 DEF AdmitUpload, Receives
  <2>3. QED BY <2>1, <2>2 DEF StoreQuiet, Admissions
<1>3. ASSUME NEW e \in Entries, NEW a \in Actors, NEW i \in Jobs, NEW j \in Jobs, NEW k \in Keys,
             NEW report \in Reports, Reparse(e, a, i, j, k, report)
      PROVE  StoreQuiet
  <2>1. PICK r : r = [report |-> report, attachment |-> job[i].request.attachment,
                      target |-> [set |-> SetOf(i), revision |-> Base(i) + 1]]
    OBVIOUS
  <2>2. /\ job[i] # None /\ job[i].status = "completed"
        /\ Admit(a, j, job[i].scope, k, r)
    BY <1>3, <2>1 DEF Reparse
  <2>3. r \in Request /\ job[i].scope \in Scopes
    BY <2>1, <2>2, ReparseRequest DEF Admit, Admissible
  <2>4. QED BY <2>2, <2>3 DEF StoreQuiet, Admissions
<1>4. QED BY <1>1, <1>2, <1>3 DEF Arrivals

\* A worker's answer that is published.
Publishes(e) == WorkerAnswers(e) /\ Publish(entry[e].owner, entry[e].job)

LEMMA ReceivingRests ==
    ASSUME Receipts, NEW e \in Entries, Receiving(e)
    PROVE  StoreQuiet \/ Publishes(e)
<1>1. {e} \in SUBSET Entries
  OBVIOUS
<1>2. CASE Malformed(e) \/ CaptureUpload(e)
  BY <1>2 DEF Malformed, CaptureUpload, StoreQuiet
<1>3. CASE CaptureReparse(e)
  BY <1>1, <1>3, FailingCloses DEF CaptureReparse, StoreQuiet
<1>4. CASE Unwind(e) \/ WorkerFails(e) \/ Timer(e)
  BY <1>1, <1>4, FailingCloses DEF Unwind, WorkerFails, Timer, StoreQuiet
<1>5. CASE WorkerAnswers(e)
  <2>1. entry[e].owner \in Actors /\ entry[e].job \in Jobs
    BY <1>5, ReceiptFacts DEF WorkerAnswers
  <2>2. CASE Publish(entry[e].owner, entry[e].job)
    BY <1>5, <2>2 DEF Publishes
  <2>3. CASE PublishRefused(entry[e].owner, entry[e].job)
    <3>1. {entry[e].job} \in SUBSET Jobs
      BY <2>1
    <3>2. QED BY <2>3, <3>1, OneCloses DEF PublishRefused, StoreQuiet
  <2>4. QED BY <1>5, <2>2, <2>3 DEF WorkerAnswers
<1>6. QED BY <1>2, <1>3, <1>4, <1>5 DEF Receiving, WorkerEnds

LEMMA RequestedRests ==
    ASSUME Receipts, Requested
    PROVE  StoreQuiet
<1>1. ASSUME NEW a \in Actors, NEW j \in Jobs, Cancel(a, j) PROVE StoreQuiet
  <2>1. {j} \in SUBSET Jobs
    OBVIOUS
  <2>2. QED BY <1>1, <2>1, OneCloses DEF Cancel, StoreQuiet
<1>2. ASSUME NEW a \in Actors, NEW j \in Jobs,
             NEW kind \in {"raw_removed", "normalized_removed"}, RemoveRetained(a, j, kind)
      PROVE  StoreQuiet
  BY <1>2 DEF RemoveRetained, StoreQuiet, Removals
<1>3. ASSUME NEW w, NEW kind, NEW a, NEW s, NEW x, NEW E \in SUBSET Entries,
             Invalidate(w, kind, a, s, x, E)
      PROVE  StoreQuiet
  BY <1>3, FailingCloses DEF Invalidate, StoreQuiet
<1>4. ASSUME NEW w, NEW a, NEW s, BeginClear(w, a, s) PROVE StoreQuiet
  <2>1. {e \in Busy : entry[e].scope = s} \in SUBSET Entries
    BY DEF Busy
  <2>2. QED BY <1>3, <1>4, <2>1 DEF BeginClear
<1>5. ASSUME NEW w, NEW a, NEW s, NEW x, BeginDeletion(w, a, s, x) PROVE StoreQuiet
  <2>1. {e \in Busy : /\ entry[e].scope = s
                      /\ entry[e].draft # None
                      /\ entry[e].draft.attachment = x} \in SUBSET Entries
    BY DEF Busy
  <2>2. QED BY <1>3, <1>5, <2>1 DEF BeginDeletion
<1>6. QED BY <1>1, <1>2, <1>4, <1>5 DEF Requested

LEMMA SweepingRests ==
    ASSUME Sweeps, NEW w \in Sweepers, Sweeping(w)
    PROVE  StoreQuiet
<1>1. sweep[w].stage # "idle" /\ SweepSound(sweep[w])
  BY DEF Sweeping, EndClear, EndInvalidation, Unlink, Drained, Sweeps
<1>2. CASE EndClear(w)
  BY <1>1, <1>2 DEF EndClear, StoreQuiet, SweepSound
<1>3. CASE EndInvalidation(w)
  BY <1>3 DEF EndInvalidation, StoreQuiet
<1>4. CASE Unlink(w)
  <2>1. /\ sweep[w].actor \in Actors /\ sweep[w].scope \in Scopes
        /\ sweep[w].attachment \in Attachments \/ sweep[w].kind # "run"
    BY <1>1 DEF SweepSound
  <2>2. sweep[w].kind = "run"
    BY <1>1, <1>4 DEF Unlink, SweepSound
  <2>3. QED BY <1>4, <2>1, <2>2 DEF Unlink, StoreQuiet
<1>5. QED BY <1>2, <1>3, <1>4 DEF Sweeping

LEMMA ServiceMoves ==
    ASSUME StoreInv, ServiceInv, [Next]_vars
    PROVE  StoreQuiet \/ \E e \in Entries : Granting(e) \/ Publishes(e)
<1>1. Receipts /\ Sweeps
  BY DEF ServiceInv
<1>2. CASE Pump
  <2>1. ASSUME NEW e \in Entries, PumpRefuses(e) PROVE StoreQuiet
    <3>1. {entry[e].job} \in SUBSET Jobs
      BY <1>1, <2>1, ReceiptFacts DEF PumpRefuses, Candidate
    <3>2. QED BY <2>1, <3>1, OneCloses DEF PumpRefuses, StartLate, StoreQuiet
  <2>2. ASSUME NEW e \in Entries, PumpGrants(e), entry[e].reused PROVE StoreQuiet
    BY <2>2 DEF PumpGrants, StoreQuiet
  <2>3. QED BY <1>2, <2>1, <2>2 DEF Pump, PumpEnds, StoreQuiet, Granting
<1>3. CASE Shutdown \/ Restart
  BY <1>3, OneCloses DEF Shutdown, Restart, StoreQuiet
<1>4. CASE Exit \/ Crash \/ UNCHANGED vars
  BY <1>4 DEF Exit, Crash, Gone, StoreQuiet, vars
<1>5. CASE Around
  <2>1. ASSUME NEW a \in Actors, NEW r \in RoleChanges, SetRole(a, r) PROVE RoleMoves
    BY <2>1, ImportAssumption DEF SetRole, RoleMoves
  <2>2. QED BY <1>5, <2>1 DEF Around, StoreQuiet
<1>6. QED
  BY <1>1, <1>2, <1>3, <1>4, <1>5, ArrivalsRest, ReceivingRests, RequestedRests, SweepingRests
     DEF Next

LEMMA GrantStarts ==
    ASSUME Receipts, NEW e \in Entries, Granting(e)
    PROVE  /\ entry[e].owner \in Actors /\ entry[e].job \in Jobs
           /\ Start(entry[e].owner, entry[e].job)
BY ReceiptFacts DEF Granting, PumpGrants, Candidate

LEMMA PublishRests ==
    ASSUME Receipts, NEW e \in Entries, Publishes(e)
    PROVE  entry[e].job \in Jobs /\ StoreRests
<1>1. entry[e].owner \in Actors /\ entry[e].job \in Jobs
  BY ReceiptFacts DEF Publishes, WorkerAnswers
<1>2. QED BY <1>1 DEF Publishes, StoreRests

LEMMA ServiceStoreMoves ==
    ASSUME StoreInv, ServiceInv, [Next]_vars
    PROVE  StoreMoves
BY ServiceMoves, GrantStarts, PublishRests DEF StoreMoves, StoreRests, ServiceInv

LEMMA StoreInvStep ==
    ASSUME StoreInv, ServiceInv, [Next]_vars
    PROVE  StoreInv'
BY ServiceStoreMoves, HistoryInvStep, RevisionsStep DEF StoreInv, HistoryInv

(***************************************************************************)
(* What a step does to the receipts.                                       *)
(***************************************************************************)
\* A reparse is captured while the bytes it reads are there.
Captured(e) ==
    entry[e].kind = "reparse" /\ entry[e].stage # "working" /\ entry'[e].stage = "working" =>
        Readable(e) /\ UNCHANGED store

EachPasses ==
    /\ entry' = [e \in Entries |-> entry'[e]]
    /\ \A e \in Entries : Captured(e)
    /\ \A e \in Entries : Passes(entry[e], entry'[e])
    /\ line' = line

Uploads ==
    \E e \in Entries, j \in Jobs, k \in Keys, r \in Request, reused \in BOOLEAN :
        AdmitUpload(e, j, k, r, reused)

Reparses ==
    \E e \in Entries, a \in Actors, i, j \in Jobs, k \in Keys, report \in Reports :
        Reparse(e, a, i, j, k, report)

ReceiptMoves ==
    \/ EachPasses
    \/ \E e \in Entries : PumpGrants(e)
    \/ \E e \in Busy : Receiving(e) /\ Release(e)
    \/ Gone
    \/ \E e \in Entries, a \in Actors, s \in Scopes : Arrive(e, a, s)
    \/ Uploads
    \/ Reparses

LEMMA StoppingPasses ==
    ASSUME Receipts, NEW E, entry' = Stopping(E), line' = line
    PROVE  EachPasses
<1>1. \A e \in Entries : entry'[e] = entry[e] \/ entry'[e] = Stopped(entry[e])
  BY DEF Stopping
<1>2. ASSUME NEW e \in Entries, entry'[e].stage = "working"
      PROVE  entry[e].stage = "working"
  <2>1. entry[e] \in Receipt
    BY ReceiptFacts
  <2>2. QED BY <1>1, <1>2, <2>1 DEF Stopped, Receipt
<1>3. QED BY <1>1, <1>2 DEF Stopping, EachPasses, Passes, Captured

LEMMA RestingPasses ==
    ASSUME Receipts, UNCHANGED <<entry, line>>
    PROVE  EachPasses
BY DEF EachPasses, Passes, Receipts, Captured

LEMMA OnePasses ==
    ASSUME Receipts, NEW e \in Entries, NEW stage, line' = line,
           entry' = [entry EXCEPT ![e].stage = stage],
           \/ stage = "unwinding" /\ entry[e].stage \in {"header", "waiting", "granted"}
           \/ /\ stage = "working" /\ entry[e].stage = "granted" /\ ~entry[e].reused
              /\ entry[e].kind = "reparse" => Readable(e) /\ UNCHANGED store
    PROVE  EachPasses
<1>1. /\ entry'[e] = [entry[e] EXCEPT !.stage = stage]
      /\ \A f \in Entries : f # e => entry'[f] = entry[f]
  BY DEF Receipts
<1>2. entry' = [f \in Entries |-> entry'[f]]
  BY DEF Receipts
<1>3. Passes(entry[e], entry'[e])
  BY <1>1 DEF Passes
<1>4. Captured(e)
  <2>1. entry'[e].stage = stage
    BY <1>1, ReceiptFacts DEF Receipt
  <2>2. QED BY <2>1 DEF Captured
<1>5. \A f \in Entries : f # e => Captured(f)
  BY <1>1 DEF Captured
<1>6. QED BY <1>1, <1>2, <1>3, <1>4, <1>5 DEF EachPasses, Passes

LEMMA ReceivingMoves ==
    ASSUME Receipts, NEW e \in Entries, Receiving(e)
    PROVE  \/ EachPasses /\ UNCHANGED <<pumping, blocked, sweep, process>>
           \/ e \in Busy /\ Release(e)
<1>1. CASE Malformed(e)
  BY <1>1, OnePasses DEF Malformed
<1>2. CASE CaptureUpload(e)
  <2>1. CASE entry[e].reused \/ ~CanJob(entry[e].owner, "normalized_read", entry[e].job)
    BY <1>2, <2>1 DEF CaptureUpload, Busy
  <2>2. CASE ~(entry[e].reused \/ ~CanJob(entry[e].owner, "normalized_read", entry[e].job))
    BY <1>2, <2>2, OnePasses DEF CaptureUpload
  <2>3. QED BY <2>1, <2>2
<1>3. CASE CaptureReparse(e)
  <2>1. CASE process = "up" /\ Readable(e)
    <3>1. ~entry[e].reused
      BY <1>3, ReceiptFacts DEF CaptureReparse, WellFormed
    <3>2. QED BY <1>3, <2>1, <3>1, OnePasses DEF CaptureReparse
  <2>2. CASE ~(process = "up" /\ Readable(e))
    BY <1>3, <2>2 DEF CaptureReparse, Busy
  <2>3. QED BY <2>1, <2>2
<1>4. CASE Unwind(e) \/ WorkerFails(e) \/ WorkerAnswers(e)
  BY <1>4 DEF Unwind, WorkerFails, WorkerAnswers, Busy
<1>5. CASE Timer(e)
  BY <1>5, StoppingPasses DEF Timer
<1>6. QED BY <1>1, <1>2, <1>3, <1>4, <1>5 DEF Receiving, WorkerEnds

LEMMA ReceiptsMove ==
    ASSUME Receipts, [Next]_vars
    PROVE  ReceiptMoves
<1>1. CASE Arrivals
  BY <1>1 DEF Arrivals, ReceiptMoves, Uploads, Reparses
<1>2. CASE Pump
  <2>1. ASSUME NEW e \in Entries, PumpRefuses(e) PROVE EachPasses
    BY <2>1, OnePasses DEF PumpRefuses, Candidate
  <2>2. QED BY <1>2, <2>1, RestingPasses DEF Pump, PumpEnds, ReceiptMoves
<1>3. CASE Requested
  <2>1. ASSUME NEW a, NEW j, Cancel(a, j) PROVE EachPasses
    BY <2>1, StoppingPasses DEF Cancel
  <2>2. ASSUME NEW a, NEW j, NEW kind, RemoveRetained(a, j, kind) PROVE EachPasses
    BY <2>2, StoppingPasses DEF RemoveRetained
  <2>3. ASSUME NEW w, NEW a, NEW s, BeginClear(w, a, s) PROVE EachPasses
    BY <2>3, StoppingPasses DEF BeginClear, Invalidate
  <2>4. ASSUME NEW w, NEW a, NEW s, NEW x, BeginDeletion(w, a, s, x) PROVE EachPasses
    BY <2>4, StoppingPasses DEF BeginDeletion, Invalidate
  <2>5. QED BY <1>3, <2>1, <2>2, <2>3, <2>4 DEF Requested, ReceiptMoves
<1>4. ASSUME NEW e \in Entries, Receiving(e) PROVE ReceiptMoves
  BY <1>4, ReceivingMoves DEF ReceiptMoves
<1>5. ASSUME NEW w \in Sweepers, Sweeping(w) PROVE EachPasses
  BY <1>5, RestingPasses DEF Sweeping, EndClear, EndInvalidation, Unlink
<1>6. CASE Shutdown
  BY <1>6, StoppingPasses DEF Shutdown, ReceiptMoves
<1>7. CASE Exit \/ Crash
  BY <1>7 DEF Exit, Crash, ReceiptMoves
<1>8. CASE Restart \/ Around \/ UNCHANGED vars
  BY <1>8, RestingPasses DEF Restart, Around, vars, service, ReceiptMoves
<1>9. QED
  BY <1>1, <1>2, <1>3, <1>4, <1>5, <1>6, <1>7, <1>8 DEF Next, ReceiptMoves

(***************************************************************************)
(* One receipt changes, or all of them pass on.                            *)
(***************************************************************************)
LEMMA PassesAll ==
    ASSUME Receipts, EachPasses
    PROVE  /\ Receipts'
           /\ \A e \in Entries : SameReceipt(entry[e], entry'[e])
           /\ Busy' = Busy /\ Active' = Active
<1>1. \A e \in Entries : WellFormed(entry'[e]) /\ SameReceipt(entry[e], entry'[e])
  BY PassesKeeps DEF Receipts, EachPasses
<1>2. Receipts'
  BY <1>1 DEF Receipts, EachPasses, WellFormed
<1>3. QED BY <1>1, <1>2 DEF Busy, Active, SameReceipt

LEMMA GrantsReceipt ==
    ASSUME Receipts, NEW e \in Entries, PumpGrants(e)
    PROVE  /\ Receipts'
           /\ \A f \in Entries : f # e => entry'[f] = entry[f]
           /\ entry'[e] = [entry[e] EXCEPT !.stage = "granted", !.active = TRUE]
           /\ line' = line /\ Busy' = Busy /\ Active' = Active \cup {e}
<1>1. entry[e].stage = "waiting" /\ WellFormed(entry[e]) /\ entry[e] \in Receipt
  BY ReceiptFacts DEF PumpGrants, Candidate
<1>2. PICK p : p = [entry[e] EXCEPT !.stage = "granted"]
  OBVIOUS
<1>3. entry'[e] = [p EXCEPT !.active = TRUE]
  BY <1>2 DEF PumpGrants, Receipts
<1>4. /\ p \in Receipt /\ p.stage = "granted" /\ p.owner = entry[e].owner
      /\ p.scope = entry[e].scope /\ p.job = entry[e].job /\ p.draft = entry[e].draft
      /\ p.kind = entry[e].kind /\ p.reused = entry[e].reused
  BY <1>1, <1>2 DEF Receipt, Stages
<1>5. WellFormed(entry'[e]) /\ entry'[e].stage = "granted" /\ entry'[e].active
  <2>1. PICK q : q = entry'[e]
    OBVIOUS
  <2>2. /\ q \in Receipt /\ q.stage = "granted" /\ q.active /\ q.owner = p.owner
        /\ q.scope = p.scope /\ q.job = p.job /\ q.draft = p.draft
        /\ q.kind = p.kind /\ q.reused = p.reused
    BY <1>3, <1>4, <2>1 DEF Receipt
  <2>3. WellFormed(q)
    BY <1>1, <1>4, <2>2 DEF WellFormed
  <2>4. QED BY <2>1, <2>2, <2>3
<1>6. \A f \in Entries : f # e => entry'[f] = entry[f]
  BY DEF PumpGrants, Receipts
<1>7. Receipts'
  BY <1>5, <1>6 DEF PumpGrants, Receipts, WellFormed
<1>8. Busy' = Busy /\ Active' = Active \cup {e}
  BY <1>1, <1>5, <1>6 DEF Busy, Active
<1>9. QED BY <1>2, <1>3, <1>6, <1>7, <1>8 DEF PumpGrants

LEMMA ReleasesReceipt ==
    ASSUME Receipts, Line, NEW e \in Busy, Release(e)
    PROVE  /\ Receipts' /\ Line'
           /\ \A f \in Entries : f # e => entry'[f] = entry[f]
           /\ entry'[e] = Free
           /\ Busy' = Busy \ {e} /\ Active' = Active \ {e}
<1>1. e \in Entries
  BY DEF Busy
<1>2. entry'[e] = Free /\ \A f \in Entries : f # e => entry'[f] = entry[f]
  BY <1>1 DEF Release, Receipts
<1>3. Receipts'
  BY <1>1, <1>2, FreeType DEF Release, Receipts, WellFormed
<1>4. Busy' = Busy \ {e} /\ Active' = Active \ {e}
  BY <1>2 DEF Busy, Active, Free
<1>5. PICK k \in DOMAIN line : line[k] = e
  BY DEF Line, LineOK, ToSet
<1>6. Line'
  <2>1. /\ line \in Seq(Entries) /\ \A m, n \in DOMAIN line : line[m] = line[n] => m = n
        /\ ToSet(line) = Busy /\ line' = RemoveFirst(line, e)
    BY DEF Line, LineOK, Once, Release
  <2>2. /\ line' \in Seq(Entries) /\ ToSet(line') = Busy \ {e}
        /\ \A m, n \in DOMAIN line' : line'[m] = line'[n] => m = n
    BY <1>5, <2>1, RemoveFirstOnce
  <2>3. QED BY <1>4, <2>2 DEF Line, LineOK, Once
<1>7. QED BY <1>2, <1>3, <1>4, <1>6

LEMMA JoinsLine ==
    ASSUME Line, NEW e \in Entries, e \notin Busy, line' = Append(line, e),
           Busy' = Busy \cup {e}
    PROVE  Line'
<1>1. /\ line \in Seq(Entries) /\ \A m, n \in DOMAIN line : line[m] = line[n] => m = n
      /\ ToSet(line) = Busy
  BY DEF Line, LineOK, Once
<1>2. /\ line' \in Seq(Entries) /\ ToSet(line') = Busy \cup {e}
      /\ \A m, n \in DOMAIN line' : line'[m] = line'[n] => m = n
  BY <1>1, AppendOnce
<1>3. QED BY <1>2 DEF Line, LineOK, Once

LEMMA ChangesReceipt ==
    ASSUME Receipts, NEW e \in Entries, DOMAIN entry' = DOMAIN entry,
           entry' = [f \in DOMAIN entry' |-> entry'[f]], WellFormed(entry'[e]),
           \A f \in Entries : f # e => entry'[f] = entry[f]
    PROVE  Receipts'
<1>1. \A f \in Entries : WellFormed(entry'[f])
  BY DEF Receipts
<1>2. QED BY <1>1 DEF Receipts, WellFormed

\* A receipt begins, or goes on with the operation it was given.
LEMMA ArrivesReceipt ==
    ASSUME Receipts, Line, NEW e \in Entries, NEW a \in Actors, NEW s \in Scopes,
           Arrive(e, a, s)
    PROVE  /\ Receipts' /\ Line'
           /\ \A f \in Entries : f # e => entry'[f] = entry[f]
           /\ entry'[e].job = None /\ entry'[e].stage = "header"
           /\ entry'[e].scope = s /\ entry'[e].kind = "upload" /\ entry'[e].owner = a
           /\ e \notin Busy /\ Busy' = Busy \cup {e} /\ Active' = Active
<1>1. entry[e].stage = "free" /\ entry[e] = Free
  BY DEF Arrive, Enters, Receipts, WellFormed
<1>2. /\ \A f \in Entries : f # e => entry'[f] = entry[f]
      /\ entry'[e] = [Free EXCEPT !.stage = "header", !.owner = a, !.scope = s]
  BY DEF Arrive, Receipts
<1>3. entry'[e] =
        [stage |-> "header", kind |-> "upload", owner |-> a, scope |-> s, draft |-> None,
         job |-> None, reused |-> FALSE, active |-> FALSE, aborted |-> FALSE]
  BY <1>2 DEF Free
<1>4. WellFormed(entry'[e])
  BY <1>3 DEF WellFormed, Receipt, Stages
<1>5. Receipts'
  BY <1>2, <1>4 DEF Arrive, Receipts, WellFormed
<1>6. /\ e \notin Busy /\ Busy' = Busy \cup {e} /\ Active' = Active
  BY <1>1, <1>2, <1>3 DEF Busy, Active, Free
<1>7. Line'
  BY <1>6, JoinsLine DEF Arrive
<1>8. /\ entry'[e].job = None /\ entry'[e].stage = "header"
      /\ entry'[e].scope = s /\ entry'[e].kind = "upload" /\ entry'[e].owner = a
  BY <1>3
<1>9. QED BY <1>2, <1>5, <1>6, <1>7, <1>8

LEMMA UploadsReceipt ==
    ASSUME Receipts, NEW e \in Entries, NEW j \in Jobs, NEW k \in Keys, NEW r \in Request,
           NEW reused \in BOOLEAN, AdmitUpload(e, j, k, r, reused)
    PROVE  /\ Receipts' /\ line' = line
           /\ \A f \in Entries : f # e => entry'[f] = entry[f]
           /\ entry'[e].job = j /\ entry'[e].draft = r /\ entry'[e].reused = reused
           /\ entry'[e].scope = entry[e].scope /\ entry'[e].owner = entry[e].owner
           /\ entry'[e].stage = "waiting" /\ entry'[e].kind = entry[e].kind
           /\ Busy' = Busy /\ Active' = Active /\ e \in Busy
<1>1. entry[e].stage = "header" /\ WellFormed(entry[e]) /\ entry[e] \in Receipt
  BY ReceiptFacts DEF AdmitUpload
<1>2. PICK p : p = [entry[e] EXCEPT !.stage = "waiting"]
  OBVIOUS
<1>3. PICK p2 : p2 = [p EXCEPT !.draft = r]
  OBVIOUS
<1>4. PICK p3 : p3 = [p2 EXCEPT !.job = j]
  OBVIOUS
<1>5. PICK q : q = [p3 EXCEPT !.reused = reused]
  OBVIOUS
<1>6. entry'[e] = q /\ \A f \in Entries : f # e => entry'[f] = entry[f]
  BY <1>2, <1>3, <1>4, <1>5 DEF AdmitUpload, Receipts
<1>7. /\ p \in Receipt /\ p.stage = "waiting" /\ p.owner = entry[e].owner
      /\ p.scope = entry[e].scope /\ p.kind = entry[e].kind /\ p.active = entry[e].active
  BY <1>1, <1>2 DEF Receipt, Stages
<1>8. /\ p2 \in Receipt /\ p2.stage = "waiting" /\ p2.owner = entry[e].owner
      /\ p2.scope = entry[e].scope /\ p2.kind = entry[e].kind
      /\ p2.active = entry[e].active /\ p2.draft = r
  BY <1>3, <1>7 DEF Receipt
<1>9. /\ p3 \in Receipt /\ p3.stage = "waiting" /\ p3.owner = entry[e].owner
      /\ p3.scope = entry[e].scope /\ p3.kind = entry[e].kind
      /\ p3.active = entry[e].active /\ p3.draft = r /\ p3.job = j
  BY <1>4, <1>8 DEF Receipt
<1>10. /\ q \in Receipt /\ q.stage = "waiting" /\ q.owner = entry[e].owner
       /\ q.scope = entry[e].scope /\ q.kind = entry[e].kind
       /\ q.active = entry[e].active /\ q.draft = r /\ q.job = j /\ q.reused = reused
  BY <1>5, <1>9 DEF Receipt
<1>11. entry[e].kind = "upload"
  BY <1>1 DEF WellFormed
<1>12. WellFormed(q)
  <2>1. j # None
    BY EvidenceAssumption
  <2>2. QED BY <1>1, <1>10, <1>11, <2>1 DEF WellFormed
<1>13. Receipts'
  BY <1>6, <1>12, ChangesReceipt DEF AdmitUpload
<1>14. Busy' = Busy /\ Active' = Active /\ e \in Busy
  BY <1>1, <1>6, <1>10 DEF Busy, Active
<1>15. QED BY <1>6, <1>10, <1>13, <1>14 DEF AdmitUpload

\* A reparse waits at once; r is what it asks for.
LEMMA ReparsesReceipt ==
    ASSUME StoreInv, Receipts, Line, NEW e \in Entries, NEW a \in Actors, NEW i \in Jobs,
           NEW j \in Jobs, NEW k \in Keys, NEW report \in Reports,
           Reparse(e, a, i, j, k, report)
    PROVE  \E r \in Request, s \in Scopes :
              /\ Admit(a, j, s, k, r) /\ r.target # None
              /\ Enters(e, a, s)
              /\ Receipts' /\ Line'
              /\ \A f \in Entries : f # e => entry'[f] = entry[f]
              /\ entry'[e].job = j /\ entry'[e].draft = r /\ entry'[e].owner = a
              /\ entry'[e].scope = s /\ entry'[e].stage = "waiting" /\ ~entry'[e].reused
              /\ e \notin Busy /\ Busy' = Busy \cup {e} /\ Active' = Active
<1>1. PICK r : r = [report |-> report, attachment |-> job[i].request.attachment,
                    target |-> [set |-> SetOf(i), revision |-> Base(i) + 1]]
  OBVIOUS
<1>2. PICK s : s = job[i].scope
  OBVIOUS
<1>3. /\ job[i] # None /\ job[i].status = "completed"
      /\ Enters(e, a, s) /\ Admit(a, j, s, k, r)
      /\ entry' = [entry EXCEPT ![e] =
             [Free EXCEPT !.stage = "waiting", !.kind = "reparse", !.owner = a,
                          !.scope = s, !.draft = r, !.job = j]]
      /\ line' = Append(line, e)
  BY <1>1, <1>2 DEF Reparse
<1>4. r \in Request /\ r.target # None /\ s \in Scopes
  BY <1>1, <1>2, <1>3, ReparseRequest DEF Admit, Admissible
<1>5. entry[e].stage = "free" /\ entry[e] = Free
  BY <1>3 DEF Enters, Receipts, WellFormed
<1>6. PICK q : q = [Free EXCEPT !.stage = "waiting", !.kind = "reparse", !.owner = a,
                                !.scope = s, !.draft = r, !.job = j]
  OBVIOUS
<1>7. q = [stage |-> "waiting", kind |-> "reparse", owner |-> a, scope |-> s, draft |-> r,
           job |-> j, reused |-> FALSE, active |-> FALSE, aborted |-> FALSE]
  BY <1>6 DEF Free
<1>8. entry'[e] = q /\ \A f \in Entries : f # e => entry'[f] = entry[f]
  BY <1>3, <1>6 DEF Receipts
<1>9. WellFormed(q)
  BY <1>4, <1>7, EvidenceAssumption DEF WellFormed, Receipt, Stages
<1>10. Receipts'
  BY <1>3, <1>6, <1>8, <1>9 DEF Receipts, WellFormed
<1>11. e \notin Busy /\ Busy' = Busy \cup {e} /\ Active' = Active
  BY <1>5, <1>7, <1>8 DEF Busy, Active, Free
<1>12. Line'
  BY <1>3, <1>11, JoinsLine
<1>13. /\ q.job = j /\ q.draft = r /\ q.owner = a /\ q.scope = s
       /\ q.stage = "waiting" /\ ~q.reused
  BY <1>7
<1>14. QED BY <1>3, <1>4, <1>8, <1>10, <1>11, <1>12, <1>13

LEMMA GoneReceipts ==
    ASSUME Gone
    PROVE  /\ Receipts' /\ Line' /\ Busy' = {} /\ Active' = {}
           /\ \A e \in Entries : entry'[e] = Free
<1>1. entry' = [e \in Entries |-> Free] /\ line' = << >>
  BY DEF Gone
<1>2. Receipts'
  BY <1>1, FreeType DEF Receipts, WellFormed
<1>3. Busy' = {} /\ Active' = {}
  BY <1>1 DEF Busy, Active, Free
<1>4. Line'
  BY <1>1, <1>3 DEF Line, LineOK, ToSet, Once
<1>5. QED BY <1>1, <1>2, <1>3, <1>4

LEMMA ReceiptsStep ==
    ASSUME StoreInv, Receipts, Line, [Next]_vars
    PROVE  Receipts' /\ Line'
<1>1. CASE EachPasses
  BY <1>1, PassesAll DEF EachPasses, Line, LineOK, Once
<1>2. CASE \E e \in Entries : PumpGrants(e)
  BY <1>2, GrantsReceipt DEF Line, LineOK, Once
<1>3. CASE Uploads
  BY <1>3, UploadsReceipt DEF Uploads, Line, LineOK, Once
<1>4. CASE Reparses
  BY <1>4, ReparsesReceipt DEF Reparses
<1>5. QED
  BY <1>1, <1>2, <1>3, <1>4, ReceiptsMove, ReleasesReceipt, GoneReceipts, ArrivesReceipt
     DEF ReceiptMoves

(***************************************************************************)
(* Clears and run deletions.                                               *)
(***************************************************************************)
SweepMoves ==
    \/ UNCHANGED <<blocked, sweep>>
    \/ \E e \in Busy : Release(e)
    \/ Gone
    \/ \E w \in Sweepers, a \in Actors, s \in Scopes :
          \/ BeginClear(w, a, s)
          \/ \E x \in Attachments : BeginDeletion(w, a, s, x)
    \/ \E w \in Sweepers : Sweeping(w)

LEMMA SweepsMove ==
    ASSUME Receipts, [Next]_vars
    PROVE  SweepMoves
<1>1. CASE Arrivals \/ Pump
  <2>1. ASSUME NEW e, NEW a, NEW s, Arrive(e, a, s) PROVE UNCHANGED <<blocked, sweep>>
    BY <2>1 DEF Arrive
  <2>2. ASSUME NEW e, NEW j, NEW k, NEW r, NEW reused, AdmitUpload(e, j, k, r, reused)
        PROVE  UNCHANGED <<blocked, sweep>>
    BY <2>2 DEF AdmitUpload
  <2>3. ASSUME NEW e, NEW a, NEW i, NEW j, NEW k, NEW report, Reparse(e, a, i, j, k, report)
        PROVE  UNCHANGED <<blocked, sweep>>
    BY <2>3 DEF Reparse
  <2>4. CASE Pump
    BY <2>4 DEF Pump, PumpEnds, PumpGrants, PumpRefuses, SweepMoves
  <2>5. QED BY <1>1, <2>1, <2>2, <2>3, <2>4 DEF Arrivals, SweepMoves
<1>2. CASE Requested
  BY <1>2 DEF Requested, Cancel, RemoveRetained, SweepMoves
<1>3. ASSUME NEW e \in Entries, Receiving(e) PROVE SweepMoves
  BY <1>3, ReceivingMoves DEF SweepMoves
<1>4. CASE Shutdown \/ Restart \/ Around \/ UNCHANGED vars
  BY <1>4 DEF Shutdown, Restart, Around, vars, service, SweepMoves
<1>5. CASE Exit \/ Crash
  BY <1>5 DEF Exit, Crash, SweepMoves
<1>6. QED BY <1>1, <1>2, <1>3, <1>4, <1>5 DEF Next, SweepMoves

LEMMA IdleSound == Idle \in Sweep /\ SweepSound(Idle)
BY DEF Idle, Sweep, SweepSound

LEMMA InvalidateSound ==
    ASSUME Sweeps, NEW w \in Sweepers, NEW kind \in {"clear", "run"}, NEW a \in Actors,
           NEW s \in Scopes, NEW x, NEW E \in SUBSET Entries,
           IF kind = "clear" THEN x = None ELSE x \in Attachments,
           Invalidate(w, kind, a, s, x, E)
    PROVE  Sweeps'
<1>1. PICK thrown \in BOOLEAN :
        sweep' = [sweep EXCEPT ![w] =
          [kind |-> kind, stage |-> "draining", actor |-> a, scope |-> s,
           attachment |-> x, awaits |-> E, thrown |-> thrown]]
  BY DEF Invalidate
<1> DEFINE rec == [kind |-> kind, stage |-> "draining", actor |-> a, scope |-> s,
                   attachment |-> x, awaits |-> E, thrown |-> thrown]
<1>2. rec \in Sweep /\ SweepSound(rec)
  BY DEF Sweep, SweepSound
<1>3. sweep'[w] = rec /\ \A v \in Sweepers : v # w => sweep'[v] = sweep[v]
  BY <1>1 DEF Sweeps
<1> HIDE DEF rec
<1>4. QED BY <1>1, <1>2, <1>3 DEF Sweeps, SweepSound

LEMMA SweepsStep ==
    ASSUME Receipts, Sweeps, [Next]_vars
    PROVE  Sweeps'
<1>1. CASE UNCHANGED <<blocked, sweep>>
  BY <1>1 DEF Sweeps, SweepSound
<1>2. ASSUME NEW e \in Busy, Release(e) PROVE Sweeps'
  <2>1. \A w \in Sweepers : sweep'[w] = [sweep[w] EXCEPT !.awaits = @ \ {e}]
    BY <1>2 DEF Release
  <2>2. ASSUME NEW w \in Sweepers PROVE sweep'[w] \in Sweep /\ SweepSound(sweep'[w])
    <3>1. sweep[w] \in Sweep /\ SweepSound(sweep[w])
      BY DEF Sweeps
    <3>2. PICK rest : rest = sweep[w].awaits \ {e}
      OBVIOUS
    <3>3. sweep'[w] = [sweep[w] EXCEPT !.awaits = rest] /\ rest \in SUBSET Entries
      BY <2>1, <3>1, <3>2 DEF Sweep
    <3>4. QED BY <3>1, <3>3 DEF Sweep, SweepSound
  <2>3. sweep' \in [Sweepers -> Sweep]
    BY <1>2, <2>2 DEF Release
  <2>4. QED BY <2>2, <2>3 DEF Sweeps, SweepSound
<1>3. CASE Gone
  BY <1>3, IdleSound DEF Gone, Sweeps, SweepSound
<1>4. ASSUME NEW w \in Sweepers, NEW a \in Actors, NEW s \in Scopes, BeginClear(w, a, s)
      PROVE  Sweeps'
  <2>1. {e \in Busy : entry[e].scope = s} \in SUBSET Entries
    BY DEF Busy
  <2>2. QED BY <1>4, <2>1, InvalidateSound DEF BeginClear
<1>5. ASSUME NEW w \in Sweepers, NEW a \in Actors, NEW s \in Scopes, NEW x \in Attachments,
             BeginDeletion(w, a, s, x)
      PROVE  Sweeps'
  <2>1. {e \in Busy : /\ entry[e].scope = s
                      /\ entry[e].draft # None
                      /\ entry[e].draft.attachment = x} \in SUBSET Entries
    BY DEF Busy
  <2>2. QED BY <1>5, <2>1, InvalidateSound DEF BeginDeletion
<1>6. ASSUME NEW w \in Sweepers, Sweeping(w) PROVE Sweeps'
  <2>1. CASE sweep' = [sweep EXCEPT ![w] = Idle]
    BY <2>1, IdleSound DEF Sweeps, SweepSound
  <2>2. CASE EndInvalidation(w) /\ sweep' = [sweep EXCEPT ![w] = [@ EXCEPT !.stage = "unlinking"]]
    <3>1. sweep[w] \in Sweep /\ SweepSound(sweep[w]) /\ sweep[w].stage = "draining"
          /\ sweep[w].kind = "run"
      BY <2>2 DEF Sweeps, EndInvalidation, Drained
    <3>2. sweep'[w] = [sweep[w] EXCEPT !.stage = "unlinking"]
      BY <2>2 DEF Sweeps
    <3>3. sweep'[w] \in Sweep /\ SweepSound(sweep'[w])
      BY <3>1, <3>2 DEF Sweep, SweepSound
    <3>4. \A v \in Sweepers : v # w => sweep'[v] = sweep[v]
      BY <2>2 DEF Sweeps
    <3>5. QED BY <2>2, <3>3, <3>4 DEF Sweeps, SweepSound
  <2>3. EndInvalidation(w) => \/ sweep' = [sweep EXCEPT ![w] = Idle]
                             \/ sweep' = [sweep EXCEPT ![w] = [@ EXCEPT !.stage = "unlinking"]]
    BY DEF EndInvalidation
  <2>4. QED BY <1>6, <2>1, <2>2, <2>3 DEF Sweeping, EndClear, Unlink
<1>7. QED BY <1>1, <1>2, <1>3, <1>4, <1>5, <1>6, SweepsMove DEF SweepMoves

(***************************************************************************)
(* The operation a receipt owns: an operation that runs has a slot, and no *)
(* two receipts own the same one.                                          *)
(***************************************************************************)
Charged(e) ==
    OwnsJob(e) =>
        /\ entry[e].job \in used
        /\ job[entry[e].job] # None =>
              /\ job[entry[e].job].scope = entry[e].scope
              /\ job[entry[e].job].request = entry[e].draft
              /\ job[entry[e].job].status = "running" => entry[e].active

OneOwner ==
    \A e, f \in Entries :
        OwnsJob(e) /\ OwnsJob(f) /\ entry[e].job = entry[f].job => e = f

OwnersInv == (\A e \in Entries : Charged(e)) /\ OneOwner

ImportInv == StoreInv /\ ServiceInv /\ OwnersInv

\* The receipt goes on with the operation it owned,
GoesOn(e) ==
    /\ OwnsJob(e)
    /\ entry'[e].job = entry[e].job /\ entry'[e].scope = entry[e].scope
    /\ entry'[e].draft = entry[e].draft /\ entry'[e].owner = entry[e].owner
    /\ entry'[e].kind = entry[e].kind
    /\ entry[e].active => entry'[e].active

\* or has just been given a new one.
Begins(e) ==
    /\ \E k \in Keys : Admit(entry'[e].owner, entry'[e].job, entry'[e].scope, k,
                             entry'[e].draft)
    /\ entry'[e].job \in Jobs /\ entry'[e].scope \in Scopes
    /\ entry'[e].draft \in Request /\ entry'[e].owner \in Actors
    /\ \A f \in Entries : f # e => entry'[f] = entry[f]
    /\ entry'[e].stage = "waiting"

LEMMA OwnedBefore ==
    ASSUME StoreInv, Receipts, Line, [Next]_vars, NEW e \in Entries, OwnsJob(e)'
    PROVE  GoesOn(e) \/ Begins(e)
<1>1. entry'[e].job # None /\ ~entry'[e].reused
  BY DEF OwnsJob
<1>2. CASE entry'[e] = entry[e]
  BY <1>1, <1>2 DEF GoesOn, OwnsJob
<1>3. CASE EachPasses
  BY <1>1, <1>3, PassesAll DEF GoesOn, OwnsJob, SameReceipt
<1>4. ASSUME NEW f \in Entries, PumpGrants(f) PROVE GoesOn(e)
  <2>1. CASE f = e
    <3>1. /\ entry'[e] = [entry[e] EXCEPT !.stage = "granted", !.active = TRUE]
          /\ entry[e] \in Receipt
      BY <1>4, <2>1, GrantsReceipt, ReceiptFacts
    <3>2. /\ entry'[e].job = entry[e].job /\ entry'[e].scope = entry[e].scope
          /\ entry'[e].draft = entry[e].draft /\ entry'[e].owner = entry[e].owner
          /\ entry'[e].kind = entry[e].kind /\ entry'[e].reused = entry[e].reused
          /\ entry'[e].active
      BY <3>1 DEF Receipt
    <3>3. QED BY <1>1, <3>2 DEF GoesOn, OwnsJob
  <2>2. CASE f # e
    BY <1>1, <1>4, <2>2, GrantsReceipt DEF GoesOn, OwnsJob
  <2>3. QED BY <2>1, <2>2
<1>5. ASSUME NEW f \in Busy, Release(f) PROVE GoesOn(e) \/ Begins(e)
  <2>1. f # e
    BY <1>1, <1>5, ReleasesReceipt DEF Free
  <2>2. entry'[e] = entry[e]
    BY <1>5, <2>1, ReleasesReceipt
  <2>3. QED BY <1>2, <2>2
<1>6. CASE Gone
  BY <1>1, <1>6, GoneReceipts DEF Free
<1>7. ASSUME NEW f \in Entries, NEW a \in Actors, NEW s \in Scopes, Arrive(f, a, s)
      PROVE  GoesOn(e)
  BY <1>1, <1>7, ArrivesReceipt DEF GoesOn, OwnsJob
<1>8. CASE Uploads
  <2>1. PICK f \in Entries, j \in Jobs, k \in Keys, r \in Request, reused \in BOOLEAN :
            AdmitUpload(f, j, k, r, reused)
    BY <1>8 DEF Uploads
  <2>2. CASE f # e
    BY <1>2, <2>1, <2>2, UploadsReceipt
  <2>3. CASE f = e
    <3>1. /\ entry'[e].job = j /\ entry'[e].draft = r /\ ~reused
          /\ entry'[e].scope = entry[e].scope /\ entry'[e].owner = entry[e].owner
          /\ entry'[e].stage = "waiting" /\ \A g \in Entries : g # e => entry'[g] = entry[g]
      BY <1>1, <2>1, <2>3, UploadsReceipt
    <3>2. Admit(entry[e].owner, j, entry[e].scope, k, r)
      BY <2>1, <2>3, <3>1 DEF AdmitUpload, Receives
    <3>3. entry[e].owner \in Actors /\ entry[e].scope \in Scopes
      BY <2>1, <2>3, ReceiptFacts DEF AdmitUpload
    <3>4. QED BY <3>1, <3>2, <3>3 DEF Begins
  <2>4. QED BY <2>2, <2>3
<1>9. CASE Reparses
  <2>1. PICK f \in Entries, a \in Actors, i \in Jobs, j \in Jobs, k \in Keys,
             report \in Reports : Reparse(f, a, i, j, k, report)
    BY <1>9 DEF Reparses
  <2>2. PICK r \in Request, s \in Scopes :
              /\ Admit(a, j, s, k, r)
              /\ \A g \in Entries : g # f => entry'[g] = entry[g]
              /\ entry'[f].job = j /\ entry'[f].draft = r /\ entry'[f].owner = a
              /\ entry'[f].scope = s /\ entry'[f].stage = "waiting"
    BY <2>1, ReparsesReceipt
  <2>3. CASE f # e
    BY <1>2, <2>2, <2>3
  <2>4. CASE f = e
    BY <2>2, <2>4 DEF Begins
  <2>5. QED BY <2>3, <2>4
<1>10. QED BY <1>3, <1>4, <1>5, <1>6, <1>7, <1>8, <1>9, ReceiptsMove DEF ReceiptMoves

LEMMA UsedGrows ==
    ASSUME StoreMoves
    PROVE  used \subseteq used'
<1>1. CASE Admissions
  BY <1>1 DEF Admissions, Admit
<1>2. CASE ~Admissions
  BY <1>2 DEF StoreMoves, StoreRests, StoreQuiet, Closings, Start, Publish, Removals, RemovePayloads,
     PurgeScope, DeleteRun, Lapse, RoleMoves, OnlyJobs, store
<1>3. QED BY <1>1, <1>2

\* Only a grant makes a stored operation run.
LEMMA RunningBefore ==
    ASSUME SoundStore, StoreRests, NEW j \in Jobs, j \in used, job'[j] # None,
           job'[j].status = "running"
    PROVE  job[j] # None /\ job[j].status = "running"
<1>1. CASE Admissions
  BY <1>1, AdmitSound DEF Admissions, Admit
<1>2. CASE NoneBegins
  BY <1>2 DEF NoneBegins
<1>3. QED BY <1>1, <1>2, RestBegins

LEMMA ChargedStep ==
    ASSUME ImportInv, [Next]_vars, NEW e \in Entries
    PROVE  Charged(e)'
<1>1. /\ StoreInv /\ SoundStore /\ ServiceInv /\ Receipts /\ Line /\ OneOwner /\ Charged(e)
      /\ StoreMoves
  BY ServiceStoreMoves
     DEF ImportInv, OwnersInv, ServiceInv, StoreInv, HistoryInv
<1>2. SUFFICES ASSUME OwnsJob(e)'
               PROVE  /\ entry'[e].job \in used'
                      /\ job'[entry'[e].job] # None =>
                            /\ job'[entry'[e].job].scope = entry'[e].scope
                            /\ job'[entry'[e].job].request = entry'[e].draft
                            /\ job'[entry'[e].job].status = "running" => entry'[e].active
  BY DEF Charged
<1>3. CASE Begins(e)
  <2>1. PICK k \in Keys : Admit(entry'[e].owner, entry'[e].job, entry'[e].scope, k,
                               entry'[e].draft)
    BY <1>3 DEF Begins
  <2>2. /\ entry'[e].job \in used'
        /\ job'[entry'[e].job] = Admitted(entry'[e].scope, k, entry'[e].draft)
    BY <1>1, <1>3, <2>1, AdmitSound DEF Begins, Admit
  <2>3. QED BY <2>2 DEF Admitted
<1>4. CASE GoesOn(e)
  <2> DEFINE j == entry[e].job
  <2>1. /\ OwnsJob(e) /\ j \in Jobs /\ j \in used /\ entry'[e].job = j
    BY <1>1, <1>4, ReceiptFacts DEF GoesOn, Charged
  <2>2. j \in used'
    BY <1>1, <2>1, UsedGrows
  <2>3. ASSUME job'[j] # None
        PROVE  job'[j].scope = entry'[e].scope /\ job'[j].request = entry'[e].draft
    <3>1. /\ job[j] # None /\ job'[j].scope = job[j].scope
          /\ job'[j].request = job[j].request
      BY <1>1, <2>1, <2>3, StoredStays
    <3>2. QED BY <1>1, <1>4, <2>1, <3>1 DEF Charged, GoesOn
  <2>4. ASSUME job'[j] # None, job'[j].status = "running"
        PROVE  entry'[e].active
    <3>1. CASE StoreRests
      <4>1. job[j] # None /\ job[j].status = "running"
        BY <1>1, <2>1, <2>4, <3>1, RunningBefore
      <4>2. QED BY <1>1, <1>4, <2>1, <4>1 DEF Charged, GoesOn
    <3>2. ASSUME NEW f \in Entries, Granting(f) PROVE entry'[e].active
      <4>1. /\ Start(entry[f].owner, entry[f].job) /\ entry[f].job \in Jobs
            /\ PumpGrants(f) /\ ~entry[f].reused
        BY <1>1, <3>2, GrantStarts DEF Granting
      <4>2. CASE f = e
        <5>1. entry[e] \in Receipt
              /\ entry'[e] = [entry[e] EXCEPT !.stage = "granted", !.active = TRUE]
          BY <1>1, <4>1, <4>2, GrantsReceipt, ReceiptFacts
        <5>2. QED BY <5>1 DEF Receipt
      <4>3. CASE f # e
        <5>1. OwnsJob(f)
          BY <4>1, EvidenceAssumption DEF OwnsJob
        <5>2. entry[f].job # j
          BY <1>1, <2>1, <4>3, <5>1 DEF OneOwner
        <5>3. job'[j] = job[j]
          BY <1>1, <2>1, <4>1, <5>2 DEF Start, Started, SoundStore, StoreTypeOK
        <5>4. QED BY <1>1, <1>4, <2>1, <2>4, <5>3 DEF Charged, GoesOn
      <4>4. QED BY <4>2, <4>3
    <3>3. QED BY <1>1, <3>1, <3>2, ServiceMoves, PublishRests DEF StoreRests
  <2>5. QED BY <2>1, <2>2, <2>3, <2>4
<1>5. QED BY <1>1, <1>2, <1>3, <1>4, OwnedBefore

LEMMA OneOwnerStep ==
    ASSUME ImportInv, [Next]_vars
    PROVE  OneOwner'
<1>1. /\ StoreInv /\ Receipts /\ Line /\ OneOwner /\ \A e \in Entries : Charged(e)
  BY DEF ImportInv, OwnersInv, ServiceInv
<1>2. SUFFICES ASSUME NEW e \in Entries, NEW f \in Entries, OwnsJob(e)', OwnsJob(f)',
                      entry'[e].job = entry'[f].job, e # f
               PROVE  FALSE
  BY DEF OneOwner
<1>3. ASSUME NEW x \in Entries, NEW y \in Entries, x # y, Begins(x), OwnsJob(y)',
             entry'[x].job = entry'[y].job
      PROVE  FALSE
  <2>1. entry'[y] = entry[y] /\ entry'[x].job \notin used
    BY <1>3 DEF Begins, Admit
  <2>2. OwnsJob(y)
    BY <1>3, <2>1 DEF OwnsJob
  <2>3. QED BY <1>1, <1>3, <2>1, <2>2 DEF Charged
<1>4. CASE GoesOn(e) /\ GoesOn(f)
  BY <1>1, <1>2, <1>4 DEF GoesOn, OneOwner
<1>5. QED BY <1>1, <1>2, <1>3, <1>4, OwnedBefore

(***************************************************************************)
(* Slots.                                                                  *)
(***************************************************************************)
SlotsHeld == Cardinality(Active) <= ActiveLimit

LEMMA ActiveCounted ==
    ASSUME Receipts, Line
    PROVE  Active \subseteq Busy /\ IsFiniteSet(Active) /\ Cardinality(Active) \in Nat
<1>1. Active \subseteq Busy
  BY DEF Active, Busy, Receipts, WellFormed
<1>2. IsFiniteSet(Busy)
  BY LineCounts DEF Line
<1>3. QED BY <1>1, <1>2, FS_Subset, FS_CardinalityType

LEMMA SlotsStep ==
    ASSUME StoreInv, Receipts, Line, SlotsHeld, [Next]_vars
    PROVE  SlotsHeld'
<1>1. IsFiniteSet(Active) /\ Cardinality(Active) \in Nat /\ ActiveLimit \in Nat
  BY ActiveCounted, EvidenceAssumption
<1>2. ASSUME Active' \subseteq Active PROVE SlotsHeld'
  <2>1. IsFiniteSet(Active') /\ Cardinality(Active') <= Cardinality(Active)
    BY <1>1, <1>2, FS_Subset
  <2>2. Cardinality(Active') \in Nat
    BY <2>1, FS_CardinalityType
  <2>3. QED BY <1>1, <2>1, <2>2 DEF SlotsHeld
<1>3. ASSUME NEW e \in Entries, PumpGrants(e) PROVE SlotsHeld'
  <2>1. Active' = Active \cup {e} /\ Cardinality(Active) < ActiveLimit
    BY <1>3, GrantsReceipt DEF PumpGrants, Slots
  <2>2. Cardinality(Active \cup {e}) <= Cardinality(Active) + 1
    BY <1>1, FS_AddElement
  <2>3. Cardinality(Active \cup {e}) \in Nat
    BY <1>1, FS_AddElement, FS_CardinalityType
  <2>4. QED BY <1>1, <2>1, <2>2, <2>3 DEF SlotsHeld
<1>4. CASE EachPasses
  BY <1>2, <1>4, PassesAll
<1>5. CASE \E e \in Busy : Release(e)
  BY <1>2, <1>5, ReleasesReceipt
<1>6. CASE Gone
  BY <1>2, <1>6, GoneReceipts
<1>7. CASE \E e \in Entries, a \in Actors, s \in Scopes : Arrive(e, a, s)
  BY <1>2, <1>7, ArrivesReceipt
<1>8. CASE Uploads
  BY <1>2, <1>8, UploadsReceipt DEF Uploads
<1>9. CASE Reparses
  BY <1>2, <1>9, ReparsesReceipt DEF Reparses
<1>10. QED
  BY <1>3, <1>4, <1>5, <1>6, <1>7, <1>8, <1>9, ReceiptsMove DEF ReceiptMoves

(***************************************************************************)
(* The invariant of the service, and what follows from it.                 *)
(***************************************************************************)
LEMMA SurroundingsStep ==
    ASSUME Surroundings, Sweeps, Receipts, [Next]_vars
    PROVE  Surroundings'
<1> DEFINE Blocks == SUBSET ((Scopes \X {None}) \cup (Scopes \X Attachments))
<1>1. pumping \in BOOLEAN /\ blocked \in Blocks /\ process \in {"up", "closing", "down"}
  BY DEF Surroundings
<1>2. ASSUME NEW e, Release(e) PROVE Surroundings'
  BY <1>1, <1>2 DEF Release, Surroundings
<1>3. CASE UNCHANGED <<pumping, blocked, process>>
  BY <1>1, <1>3 DEF Surroundings
<1>4. CASE Arrivals
  <2>1. ASSUME NEW e, NEW a, NEW s, Arrive(e, a, s) PROVE Surroundings'
    BY <1>3, <2>1 DEF Arrive
  <2>2. ASSUME NEW e, NEW j, NEW k, NEW r, NEW reused, AdmitUpload(e, j, k, r, reused)
        PROVE  Surroundings'
    BY <1>1, <2>2 DEF AdmitUpload, Surroundings
  <2>3. ASSUME NEW e, NEW a, NEW i, NEW j, NEW k, NEW report, Reparse(e, a, i, j, k, report)
        PROVE  Surroundings'
    BY <1>1, <2>3 DEF Reparse, Surroundings
  <2>4. QED BY <1>4, <2>1, <2>2, <2>3 DEF Arrivals
<1>5. CASE Pump
  BY <1>1, <1>5 DEF Pump, PumpEnds, PumpGrants, PumpRefuses, Surroundings
<1>6. ASSUME NEW e \in Entries, Receiving(e) PROVE Surroundings'
  BY <1>2, <1>3, <1>6, ReceivingMoves
<1>7. CASE Requested
  <2>1. ASSUME NEW w, NEW kind, NEW a, NEW s \in Scopes, NEW x \in Attachments \cup {None}, NEW E,
               Invalidate(w, kind, a, s, x, E)
        PROVE  Surroundings'
    <3>1. <<s, x>> \in (Scopes \X {None}) \cup (Scopes \X Attachments)
      OBVIOUS
    <3>2. QED BY <1>1, <2>1, <3>1 DEF Invalidate, Surroundings
  <2>2. ASSUME NEW a, NEW j, Cancel(a, j) PROVE Surroundings'
    BY <1>3, <2>2 DEF Cancel
  <2>3. ASSUME NEW a, NEW j, NEW kind, RemoveRetained(a, j, kind) PROVE Surroundings'
    BY <1>3, <2>3 DEF RemoveRetained
  <2>4. ASSUME NEW w, NEW a, NEW s \in Scopes, BeginClear(w, a, s) PROVE Surroundings'
    BY <2>1, <2>4 DEF BeginClear
  <2>5. ASSUME NEW w, NEW a, NEW s \in Scopes, NEW x \in Attachments, BeginDeletion(w, a, s, x)
        PROVE  Surroundings'
    BY <2>1, <2>5 DEF BeginDeletion
  <2>6. QED BY <1>7, <2>2, <2>3, <2>4, <2>5 DEF Requested
<1>8. ASSUME NEW w \in Sweepers, Sweeping(w) PROVE Surroundings'
  BY <1>1, <1>8 DEF Sweeping, EndClear, EndInvalidation, Unlink, Unblocked, Surroundings
<1>9. CASE Shutdown \/ Exit \/ Crash \/ Restart
  BY <1>1, <1>9 DEF Shutdown, Exit, Crash, Gone, Restart, Surroundings
<1>10. CASE Around \/ UNCHANGED vars
  BY <1>3, <1>10 DEF Around, vars, service
<1>11. QED BY <1>4, <1>5, <1>6, <1>7, <1>8, <1>9, <1>10 DEF Next

Service == ImportInv /\ SlotsHeld

LEMMA ServiceInit == Init => Service
<1>1. SUFFICES ASSUME Init PROVE Service
  OBVIOUS
<1>2. StoreInv
  BY <1>1, HistoryInvInit DEF Init, StoreInit, StoreInv, RevisionsInLine, WithStatus
<1>3. Receipts /\ Busy = {} /\ Active = {}
  BY <1>1, FreeType DEF Init, Receipts, WellFormed, Busy, Active, Free
<1>4. Line
  BY <1>1, <1>3 DEF Init, Line, LineOK, ToSet, Once
<1>5. Sweeps /\ Surroundings
  BY <1>1, IdleSound DEF Init, Sweeps, Surroundings
<1>6. OwnersInv
  BY <1>1 DEF Init, OwnersInv, Charged, OneOwner, OwnsJob, Free
<1>7. SlotsHeld
  BY <1>3, FS_EmptySet, EvidenceAssumption DEF SlotsHeld
<1>8. QED BY <1>2, <1>3, <1>4, <1>5, <1>6, <1>7 DEF Service, ImportInv, ServiceInv

LEMMA ServiceStep == Service /\ [Next]_vars => Service'
<1>1. SUFFICES ASSUME Service, [Next]_vars PROVE Service'
  OBVIOUS
<1>2. ImportInv /\ StoreInv /\ ServiceInv /\ Receipts /\ Line /\ Sweeps /\ Surroundings
      /\ SlotsHeld
  BY <1>1 DEF Service, ImportInv, ServiceInv
<1>3. StoreInv'
  BY <1>1, <1>2, StoreInvStep
<1>4. ServiceInv'
  BY <1>1, <1>2, ReceiptsStep, SweepsStep, SurroundingsStep DEF ServiceInv
<1>5. OwnersInv'
  BY <1>1, <1>2, ChargedStep, OneOwnerStep DEF OwnersInv
<1>6. SlotsHeld'
  BY <1>1, <1>2, SlotsStep
<1>7. QED BY <1>3, <1>4, <1>5, <1>6 DEF Service, ImportInv

LEMMA ServiceAlways == Spec => []Service
BY ServiceInit, ServiceStep, PTL DEF Spec

LEMMA ServiceStoreSteps == Service /\ [Next]_vars => StoreMoves /\ SoundStore /\ HistoryInv
BY ServiceStoreMoves DEF Service, ImportInv, StoreInv, HistoryInv

\* Receipts, the line, clears and the process keep their shapes.
THEOREM ImportTypeCorrect == Spec => []ImportTypeOK
<1>1. Service => ImportTypeOK
  BY DEF Service, ImportInv, ServiceInv, StoreInv, HistoryInv, SoundStore, Receipts, Line,
     Sweeps, Surroundings, ImportTypeOK
<1>2. QED BY <1>1, ServiceAlways, PTL

\* Whatever the service makes of uploads, reparses, clears, crashes and restarts,
\* the store stays within its quotas and holds reservations only for operations
\* that have not ended.
THEOREM ImportHoldsQuotas == Spec => [](QuotaHeld /\ ReservedWhilePending)
<1>1. Init => QuotaHeld
  BY QuotaInit DEF Init
<1>2. Service /\ QuotaHeld /\ [Next]_vars => QuotaHeld'
  BY ServiceStoreSteps, QuotaStep
<1>3. Service => ReservedWhilePending
  BY DEF Service, ImportInv, StoreInv, HistoryInv, SoundStore
<1>4. QED BY <1>1, <1>2, <1>3, ServiceAlways, PTL DEF Spec

\* No receipt imports into a run that is gone, whichever way the deletion of the
\* run and the admission of the import interleave.
THEOREM ImportKeepsAnchors == Spec => []AnchoredWork
<1>1. Init => AnchoredWork
  BY DEF Init, StoreInit, AnchoredWork, Pending
<1>2. Service /\ AnchoredWork /\ [Next]_vars => AnchoredWork'
  BY ServiceStoreSteps, AnchoredStep
<1>3. QED BY <1>1, <1>2, ServiceAlways, PTL DEF Spec

\* The service implements EvidenceHistory: an operation is decided once under its
\* key, revisions form one line and nothing is published across a removal or clear.
THEOREM ImportKeepsHistory == Spec => HistoryKept
<1>1. Init => History!Init
  BY DEF Init, StoreInit, History!Init, OperationOf
<1>2. Service /\ [Next]_vars
        => [History!Next]_<<generation, [j \in Jobs |-> OperationOf(j)]>>
  <2>1. ASSUME Service, [Next]_vars
        PROVE  History!Next
    BY <2>1, ServiceStoreSteps, HistoryMoves, EpochsRenew DEF History!Next
  <2>2. QED BY <2>1
<1>3. QED BY <1>1, <1>2, ServiceAlways, PTL
         DEF Spec, HistoryKept, History!Spec, History!history

\* Memory and table agree on the slots: never more than MAX_ACTIVE receipts or
\* running jobs, a running job's receipt holds a slot, and every receipt that is
\* not over stands in the line once.
THEOREM SlotsAlwaysAgree == Spec => []SlotsAgree
<1>1. Service /\ QuotaHeld => SlotsAgree
  <2>1. SUFFICES ASSUME Service, QuotaHeld PROVE SlotsAgree
    OBVIOUS
  <2>2. Receipts /\ Line /\ SlotsHeld /\ \A e \in Entries : Charged(e)
    BY <2>1 DEF Service, ImportInv, ServiceInv, OwnersInv
  <2>3. ToSet(line) = Busy /\ Len(line) = Cardinality(Busy)
    BY <2>2, LineCounts DEF Line, LineOK
  <2>4. \A e \in Entries : entry[e].stage = "working" => entry[e].active
    BY <2>2 DEF Receipts, WellFormed
  <2>5. QED BY <2>1, <2>2, <2>3, <2>4 DEF SlotsAgree, SlotsHeld, QuotaHeld, Charged
<1>2. QED BY <1>1, ServiceAlways, ImportHoldsQuotas, PTL
(***************************************************************************)
(* A reparse and the revision it reads.                                    *)
(***************************************************************************)
Sourced(e) ==
    entry[e].kind = "reparse" /\ entry[e].stage = "working" /\ Pending(entry[e].job) =>
        \E i \in Jobs : /\ IsRevision(i, entry[e].scope, entry[e].draft.target.set,
                                      entry[e].draft.target.revision)
                        /\ job[i].blob > 0

\* A receipt that works was working before, or its capture found its source.
LEMMA WorkedBefore ==
    ASSUME StoreInv, Receipts, Line, [Next]_vars, NEW e \in Entries, OwnsJob(e)',
           entry'[e].stage = "working"
    PROVE  /\ GoesOn(e)
           /\ \/ entry[e].stage = "working"
              \/ entry[e].kind = "reparse" => Readable(e)
<1>1. GoesOn(e)
  BY OwnedBefore DEF Begins
<1>2. CASE entry'[e] = entry[e]
  BY <1>1, <1>2
<1>3. CASE EachPasses
  BY <1>1, <1>3 DEF EachPasses, Captured
<1>4. ASSUME NEW f \in Entries, PumpGrants(f) PROVE entry'[e] = entry[e]
  <2>1. /\ entry'[f] = [entry[f] EXCEPT !.stage = "granted", !.active = TRUE]
        /\ entry[f] \in Receipt
    BY <1>4, GrantsReceipt, ReceiptFacts
  <2>2. entry'[f].stage = "granted"
    BY <2>1 DEF Receipt
  <2>3. QED BY <1>4, <2>2, GrantsReceipt
<1>5. ASSUME NEW f \in Busy, Release(f) PROVE entry'[e] = entry[e]
  BY <1>5, ReleasesReceipt DEF Free
<1>6. CASE Gone
  BY <1>6, GoneReceipts DEF Free
<1>7. ASSUME NEW f \in Entries, NEW a \in Actors, NEW s \in Scopes, Arrive(f, a, s)
      PROVE  entry'[e] = entry[e]
  BY <1>7, ArrivesReceipt
<1>8. CASE Uploads
  BY <1>2, <1>8, UploadsReceipt DEF Uploads
<1>9. CASE Reparses
  BY <1>2, <1>9, ReparsesReceipt DEF Reparses
<1>10. QED
  BY <1>2, <1>3, <1>4, <1>5, <1>6, <1>7, <1>8, <1>9, ReceiptsMove DEF ReceiptMoves, GoesOn

LEMMA SourcedStep ==
    ASSUME Service, [Next]_vars, NEW e \in Entries, Sourced(e)
    PROVE  Sourced(e)'
<1>1. /\ StoreInv /\ SoundStore /\ Receipts /\ Line /\ Charged(e) /\ StoreMoves
  BY ServiceStoreMoves DEF Service, ImportInv, OwnersInv, ServiceInv, StoreInv, HistoryInv
<1>2. SUFFICES ASSUME entry'[e].kind = "reparse", entry'[e].stage = "working",
                      Pending(entry[e].job)'
               PROVE  \E i \in Jobs :
                         /\ IsRevision(i, entry[e].scope, entry[e].draft.target.set,
                                       entry[e].draft.target.revision)'
                         /\ job'[i].blob > 0
  BY DEF Sourced
<1>3. OwnsJob(e)'
  BY <1>1, <1>2, ReceiptsStep DEF Receipts, WellFormed, OwnsJob
<1>4. GoesOn(e) /\ (entry[e].stage = "working" \/ Readable(e))
  BY <1>1, <1>2, <1>3, WorkedBefore DEF GoesOn
<1> DEFINE j == entry[e].job
<1>5. /\ OwnsJob(e) /\ j \in Jobs /\ j \in used /\ entry[e].kind = "reparse"
      /\ entry'[e].job = j /\ entry'[e].scope = entry[e].scope
      /\ entry'[e].draft = entry[e].draft /\ WellFormed(entry[e])
  BY <1>1, <1>2, <1>4, ReceiptFacts DEF GoesOn, Charged
<1>6. Pending(j) /\ Pending(j)'
  BY <1>1, <1>2, <1>5, PendingStays
<1>7. /\ job[j] # None /\ job'[j] # None /\ job[j].scope = entry[e].scope
      /\ job[j].request = entry[e].draft /\ entry[e].draft.target # None
      /\ SetOf(j) = entry[e].draft.target.set
  BY <1>1, <1>5, <1>6 DEF Pending, Charged, WellFormed, SetOf
<1>8. PICK i \in Jobs : /\ IsRevision(i, entry[e].scope, entry[e].draft.target.set,
                                      entry[e].draft.target.revision)
                        /\ job[i].blob > 0
  BY <1>4, <1>5, <1>6 DEF Sourced, Readable
<1>9. /\ i \in Published(entry[e].scope) /\ job[i] # None
      /\ job[i].status = "completed" /\ job[i].scope = job[j].scope
      /\ SetOf(i) = SetOf(j) /\ i \in used
  BY <1>1, <1>7, <1>8, PublishedIs DEF IsRevision, SoundStore, StoreTypeOK
<1>10. job'[i] # None
  BY <1>1, <1>5, <1>7, <1>9, ScopeStays
<1>11. job'[i] = job[i]
  BY <1>1, <1>5, <1>6, <1>7, <1>9, <1>10, RetentionStays
<1>12. IsRevision(i, entry[e].scope, entry[e].draft.target.set,
                  entry[e].draft.target.revision)'
  <2>1. /\ job'[i].status = "completed" /\ job'[i].scope = entry[e].scope
        /\ SetOf(i)' = SetOf(i) /\ Base(i)' = Base(i)
    BY <1>1, <1>9, <1>10, PublishedStays
  <2>2. i \in Published(entry[e].scope)'
    BY <1>5, <1>10, <2>1 DEF Published, JobsIn, WithStatus
  <2>3. QED BY <1>5, <1>8, <2>1, <2>2 DEF IsRevision
<1>13. QED BY <1>8, <1>11, <1>12

\* A reparse publishes only while the bytes it read are retained: a removal ends it,
\* a clear forgets it, and its capture looked for them.
THEOREM RetainedAlways == Spec => RetainedWhenReparsed
<1> DEFINE AllSourced == \A e \in Entries : Sourced(e)
           Kept == \A e \in Entries :
              entry[e].kind = "reparse" /\ OwnsJob(e) /\ job[entry[e].job] # None
              /\ job[entry[e].job].status = "running" /\ job'[entry[e].job] # None
              /\ job'[entry[e].job].status = "completed"
                  => \E i \in Jobs : /\ IsRevision(i, entry[e].scope,
                                           entry[e].draft.target.set,
                                           entry[e].draft.target.revision)
                                     /\ job[i].blob > 0
<1>1. Init => AllSourced
  BY DEF Init, Free, Sourced
<1>2. Service /\ AllSourced /\ [Next]_vars => AllSourced'
  BY SourcedStep
<1>3. Service /\ AllSourced /\ [Next]_vars => Kept
  <2>1. SUFFICES ASSUME Service, AllSourced, [Next]_vars, NEW e \in Entries,
                        entry[e].kind = "reparse", OwnsJob(e), job[entry[e].job] # None,
                        job[entry[e].job].status = "running", job'[entry[e].job] # None,
                        job'[entry[e].job].status = "completed"
                 PROVE  Sourced(e) /\ entry[e].stage = "working" /\ Pending(entry[e].job)
    BY DEF Sourced
  <2>2. /\ StoreInv /\ SoundStore /\ ServiceInv /\ Receipts /\ OneOwner /\ StoreMoves
        /\ entry[e].job \in Jobs
    BY <2>1, ServiceStoreMoves, ReceiptFacts
       DEF Service, ImportInv, OwnersInv, ServiceInv, StoreInv, HistoryInv
  <2>3. ~StoreQuiet
    BY <2>1, <2>2, CompletionIsPublication
  <2>4. PICK f \in Entries : Granting(f) \/ Publishes(f)
    BY <2>1, <2>2, <2>3, ServiceMoves
  <2>5. ~Granting(f)
    <3>1. SUFFICES ASSUME Granting(f) PROVE FALSE
      OBVIOUS
    <3>2. Start(entry[f].owner, entry[f].job)
      BY <2>2, <3>1, GrantStarts
    <3>3. QED BY <2>1, <2>2, <3>2 DEF Start, Started, SoundStore, StoreTypeOK, JobRecord
  <2>6. Publish(entry[f].owner, entry[f].job) /\ entry[f].stage = "working"
    BY <2>4, <2>5 DEF Publishes, WorkerAnswers
  <2>7. entry[f].job = entry[e].job
    BY <2>1, <2>2, <2>6 DEF Publish, SoundStore, StoreTypeOK
  <2>8. OwnsJob(f)
    BY <2>2, <2>6, ReceiptFacts DEF WellFormed, OwnsJob
  <2>9. f = e
    BY <2>1, <2>2, <2>7, <2>8 DEF OneOwner
  <2>10. QED BY <2>1, <2>6, <2>9 DEF Pending
<1>4. Spec => [](Service /\ AllSourced)
  BY <1>1, <1>2, ServiceAlways, PTL DEF Spec
<1>5. QED BY <1>3, <1>4, PTL DEF Spec, RetainedWhenReparsed

(***************************************************************************)
(* Clears.                                                                 *)
(***************************************************************************)
ReceiptsOf(s) == {e \in Busy : entry[e].scope = s}

Draining(w) == sweep[w].kind = "clear" /\ sweep[w].stage = "draining"

\* A clear awaits exactly the receipts of its scope, and none can be added.
Quieting(w) ==
    Draining(w) =>
        /\ sweep[w].awaits = ReceiptsOf(sweep[w].scope)
        /\ sweep[w].awaits # {} => <<sweep[w].scope, None>> \in blocked

AllQuieting == \A w \in Sweepers : Quieting(w)

SameScopes == Busy' = Busy /\ \A e \in Busy : entry'[e].scope = entry[e].scope

LEMMA PassesScopes ==
    ASSUME Receipts, EachPasses
    PROVE  SameScopes
BY PassesAll DEF SameScopes, SameReceipt, Busy

\* While no clear begins or ends, receipts enter one by one, past the scopes that
\* are blocked and after the clears that are due.
LEMMA ReceiptsEnter ==
    ASSUME StoreInv, Receipts, Line, [Next]_vars
    PROVE  \/ SameScopes
           \/ \E e \in Busy : Release(e)
           \/ Gone
           \/ \E e \in Entries, a \in Actors, s \in Scopes :
                 /\ Enters(e, a, s) /\ Busy' = Busy \cup {e} /\ entry'[e].scope = s
                 /\ \A f \in Entries : f # e => entry'[f] = entry[f]
<1>1. ASSUME NEW e \in Entries, PumpGrants(e) PROVE SameScopes
  <2>1. /\ entry'[e] = [entry[e] EXCEPT !.stage = "granted", !.active = TRUE]
        /\ entry[e] \in Receipt
    BY <1>1, GrantsReceipt, ReceiptFacts
  <2>2. entry'[e].scope = entry[e].scope
    BY <2>1 DEF Receipt
  <2>3. QED BY <1>1, <2>2, GrantsReceipt DEF SameScopes, Busy
<1>2. ASSUME NEW e \in Entries, NEW a \in Actors, NEW s \in Scopes, Arrive(e, a, s)
      PROVE  /\ Enters(e, a, s) /\ Busy' = Busy \cup {e} /\ entry'[e].scope = s
             /\ \A f \in Entries : f # e => entry'[f] = entry[f]
  BY <1>2, ArrivesReceipt DEF Arrive
<1>3. CASE Uploads
  BY <1>3, UploadsReceipt DEF Uploads, SameScopes, Busy
<1>4. CASE Reparses
  BY <1>4, ReparsesReceipt DEF Reparses
<1>5. QED BY <1>1, <1>2, <1>3, <1>4, PassesScopes, ReceiptsMove DEF ReceiptMoves

LEMMA SameReceiptsOf ==
    ASSUME SameScopes, NEW s
    PROVE  ReceiptsOf(s)' = ReceiptsOf(s)
BY DEF SameScopes, ReceiptsOf

\* A clear that goes on, and whose scope stays blocked, awaits the same receipts.
LEMMA QuietGoesOn ==
    ASSUME NEW w \in Sweepers, Quieting(w), SameScopes, sweep'[w] = sweep[w],
           <<sweep[w].scope, None>> \in blocked => <<sweep[w].scope, None>> \in blocked'
    PROVE  Quieting(w)'
<1>1. PICK s : s = sweep[w].scope
  OBVIOUS
<1>2. ReceiptsOf(s)' = ReceiptsOf(s)
  BY SameReceiptsOf
<1>3. QED BY <1>1, <1>2 DEF Quieting, Draining, ReceiptsOf

LEMMA InvalidateQuiets ==
    ASSUME Receipts, Sweeps, AllQuieting, NEW w \in Sweepers, NEW kind \in {"clear", "run"},
           NEW a, NEW s, NEW x, NEW E, Invalidate(w, kind, a, s, x, E),
           kind = "clear" => x = None /\ E = ReceiptsOf(s)
    PROVE  AllQuieting'
<1>1. SameScopes
  BY StoppingPasses, PassesScopes DEF Invalidate
<1>2. ASSUME NEW v \in Sweepers, v # w PROVE Quieting(v)'
  <2>1. sweep'[v] = sweep[v] /\ blocked \subseteq blocked'
    BY <1>2 DEF Invalidate, Sweeps
  <2>2. QED BY <1>1, <2>1, QuietGoesOn DEF AllQuieting
<1>3. Quieting(w)'
  <2>1. /\ sweep'[w].kind = kind /\ sweep'[w].scope = s /\ sweep'[w].awaits = E
        /\ <<s, x>> \in blocked'
    BY DEF Invalidate, Sweeps
  <2>2. ReceiptsOf(s)' = ReceiptsOf(s)
    BY <1>1, SameReceiptsOf
  <2>3. QED BY <2>1, <2>2 DEF Quieting, Draining, ReceiptsOf
<1>4. QED BY <1>2, <1>3 DEF AllQuieting

LEMMA SweepingQuiets ==
    ASSUME Receipts, Sweeps, AllQuieting, NEW w \in Sweepers, Sweeping(w)
    PROVE  AllQuieting'
<1>1. SameScopes
  BY RestingPasses, PassesScopes DEF Sweeping, EndClear, EndInvalidation, Unlink
<1>2. ~Draining(w)'
  BY DEF Sweeping, EndClear, EndInvalidation, Unlink, Drained, Sweeps, Idle, Draining, Sweep
<1>3. ASSUME NEW v \in Sweepers, v # w PROVE Quieting(v)'
  <2>1. sweep'[v] = sweep[v] /\ Quieting(v)
    BY <1>3 DEF Sweeping, EndClear, EndInvalidation, Unlink, Sweeps, AllQuieting
  <2>2. CASE EndClear(w) /\ Draining(v) /\ sweep[v].scope = sweep[w].scope
    <3>1. Draining(w) /\ sweep[w].awaits = {}
      BY <2>2 DEF EndClear, Drained, Draining
    <3>2. sweep[v].awaits = {}
      BY <2>1, <2>2, <3>1 DEF AllQuieting, Quieting
    <3>3. PICK s : s = sweep[v].scope
      OBVIOUS
    <3>4. ReceiptsOf(s)' = ReceiptsOf(s)
      BY <1>1, SameReceiptsOf
    <3>5. QED BY <2>1, <2>2, <3>2, <3>3, <3>4 DEF Quieting, Draining, ReceiptsOf
  <2>3. CASE EndClear(w) /\ Draining(v) /\ sweep[v].scope # sweep[w].scope
    <3>1. blocked' = blocked \ {<<sweep[w].scope, sweep[w].attachment>>}
      BY <2>3 DEF EndClear, Unblocked
    <3>2. QED BY <1>1, <2>1, <2>3, <3>1, QuietGoesOn
  <2>4. CASE ~EndClear(w)
    <3>1. sweep[w].attachment # None \/ blocked' = blocked
      BY <2>4, ImportAssumption
         DEF Sweeping, EndInvalidation, Unlink, Drained, Sweeps, SweepSound
    <3>2. blocked' = blocked
          \/ blocked' = blocked \ {<<sweep[w].scope, sweep[w].attachment>>}
      BY <2>4 DEF Sweeping, EndInvalidation, Unlink, Unblocked
    <3>3. QED BY <1>1, <2>1, <3>1, <3>2, QuietGoesOn
  <2>5. CASE ~Draining(v)
    BY <2>1, <2>5 DEF Quieting, Draining
  <2>6. QED BY <2>2, <2>3, <2>4, <2>5
<1>4. QED BY <1>2, <1>3 DEF AllQuieting, Quieting

LEMMA QuietingStep ==
    ASSUME Service, AllQuieting, [Next]_vars
    PROVE  AllQuieting'
<1>1. StoreInv /\ Receipts /\ Line /\ Sweeps /\ Surroundings
  BY DEF Service, ImportInv, ServiceInv
<1>2. ASSUME NEW e \in Busy, Release(e) PROVE AllQuieting'
  <2>1. \A s : ReceiptsOf(s)' = ReceiptsOf(s) \ {e}
    BY <1>1, <1>2, ReleasesReceipt DEF ReceiptsOf, Busy
  <2>2. ASSUME NEW w \in Sweepers PROVE Quieting(w)'
    <3>1. sweep[w] \in Sweep /\ Quieting(w) /\ blocked' = blocked
      BY <1>1, <1>2 DEF Sweeps, AllQuieting, Release
    <3>2. PICK rest : rest = sweep[w].awaits \ {e}
      OBVIOUS
    <3>3. sweep'[w] = [sweep[w] EXCEPT !.awaits = rest]
      BY <1>2, <3>2 DEF Release
    <3>4. /\ sweep'[w].kind = sweep[w].kind /\ sweep'[w].stage = sweep[w].stage
          /\ sweep'[w].scope = sweep[w].scope /\ sweep'[w].awaits = sweep[w].awaits \ {e}
      BY <3>1, <3>2, <3>3 DEF Sweep
    <3>5. PICK s : s = sweep[w].scope
      OBVIOUS
    <3>6. ReceiptsOf(s)' = ReceiptsOf(s) \ {e}
      BY <2>1
    <3>7. QED BY <3>1, <3>4, <3>5, <3>6 DEF Quieting, Draining, ReceiptsOf
  <2>3. QED BY <2>2 DEF AllQuieting
<1>3. CASE Gone
  BY <1>3 DEF Gone, AllQuieting, Quieting, Draining, Idle
<1>4. CASE UNCHANGED <<blocked, sweep>>
  <2>1. CASE SameScopes
    BY <1>4, <2>1, QuietGoesOn DEF AllQuieting
  <2>2. ASSUME NEW e \in Entries, NEW a \in Actors, NEW s \in Scopes,
               Enters(e, a, s), Busy' = Busy \cup {e}, entry'[e].scope = s,
               \A f \in Entries : f # e => entry'[f] = entry[f]
        PROVE  AllQuieting'
    <3>1. ASSUME NEW w \in Sweepers, Draining(w) PROVE sweep[w].scope # s
      BY <2>2, <3>1 DEF AllQuieting, Quieting, Draining, Enters, Open, Drained
    <3>2. ASSUME NEW t, t # s PROVE ReceiptsOf(t)' = ReceiptsOf(t)
      <4>1. \A f \in Busy : f # e => f \in Entries /\ entry'[f].scope = entry[f].scope
        BY <2>2 DEF Busy
      <4>2. e \notin Busy
        BY <2>2 DEF Enters, Busy
      <4>3. \A f : f \in ReceiptsOf(t)' <=> f \in ReceiptsOf(t)
        BY <2>2, <3>2, <4>1, <4>2 DEF ReceiptsOf
      <4>4. QED BY <4>3
    <3>3. ASSUME NEW w \in Sweepers, Draining(w)' PROVE Quieting(w)'
      <4>1. Draining(w) /\ sweep'[w] = sweep[w] /\ blocked' = blocked
        BY <1>4, <3>3 DEF Draining
      <4>2. PICK t : t = sweep[w].scope
        OBVIOUS
      <4>3. ReceiptsOf(t)' = ReceiptsOf(t)
        BY <3>1, <3>2, <4>1, <4>2
      <4>4. QED BY <4>1, <4>2, <4>3 DEF AllQuieting, Quieting, ReceiptsOf
    <3>4. QED BY <3>3 DEF AllQuieting, Quieting
  <2>3. QED BY <1>1, <1>2, <1>3, <2>1, <2>2, ReceiptsEnter
<1>5. ASSUME NEW w \in Sweepers, NEW a \in Actors, NEW s \in Scopes, BeginClear(w, a, s)
      PROVE  AllQuieting'
  BY <1>1, <1>5, InvalidateQuiets DEF BeginClear, ReceiptsOf
<1>6. ASSUME NEW w \in Sweepers, NEW a \in Actors, NEW s \in Scopes, NEW x \in Attachments,
             BeginDeletion(w, a, s, x)
      PROVE  AllQuieting'
  BY <1>1, <1>6, InvalidateQuiets DEF BeginDeletion
<1>7. ASSUME NEW w \in Sweepers, Sweeping(w) PROVE AllQuieting'
  BY <1>1, <1>7, SweepingQuiets
<1>8. QED BY <1>1, <1>2, <1>3, <1>4, <1>5, <1>6, <1>7, SweepsMove DEF SweepMoves

\* Only an arrival hands out a job id, only the end of a clear renews a generation,
\* and only Around changes roles.
LEMMA WhoWrites ==
    ASSUME [Next]_vars
    PROVE  /\ used' = used \/ Arrivals
           /\ generation' = generation \/ \E w \in Sweepers : EndClear(w)
           /\ role' = role \/ Around
           /\ process' = "up" => process = "up" \/ Restart
           /\ process' = "down" => process = "down" \/ Gone
<1> DEFINE Rests == UNCHANGED <<used, generation, role, process>>
<1>1. CASE Arrivals
  <2> DEFINE Reads == UNCHANGED <<generation, role, process>>
  <2>1. ASSUME NEW e, NEW a, NEW t, Arrive(e, a, t) PROVE Reads
    BY <2>1 DEF Arrive, store
  <2>2. ASSUME NEW e, NEW j, NEW k, NEW r, NEW reused, AdmitUpload(e, j, k, r, reused)
        PROVE  Reads
    BY <2>2 DEF AdmitUpload, Receives, Admit, store
  <2>3. ASSUME NEW e, NEW a, NEW i, NEW j, NEW k, NEW report, Reparse(e, a, i, j, k, report)
        PROVE  Reads
    BY <2>3 DEF Reparse, Admit
  <2>4. QED BY <1>1, <2>1, <2>2, <2>3 DEF Arrivals
<1>2. CASE Pump
  BY <1>2 DEF Pump, PumpEnds, PumpGrants, PumpRefuses, Start, StartLate, OnlyJobs, store
<1>3. CASE Requested
  <2>1. ASSUME NEW a, NEW j, Cancel(a, j) PROVE Rests
    BY <2>1 DEF Cancel, OnlyJobs
  <2>2. ASSUME NEW a, NEW j, NEW kind, RemoveRetained(a, j, kind) PROVE Rests
    BY <2>2 DEF RemoveRetained, RemovePayloads, OnlyJobs
  <2>3. ASSUME NEW w, NEW a, NEW t, BeginClear(w, a, t) PROVE Rests
    BY <2>3 DEF BeginClear, Invalidate, OnlyJobs
  <2>4. ASSUME NEW w, NEW a, NEW t, NEW x, BeginDeletion(w, a, t, x) PROVE Rests
    BY <2>4 DEF BeginDeletion, Invalidate, OnlyJobs
  <2>5. QED BY <1>3, <2>1, <2>2, <2>3, <2>4 DEF Requested
<1>4. ASSUME NEW e \in Entries, Receiving(e) PROVE Rests
  BY <1>4 DEF Receiving, Malformed, CaptureUpload, CaptureReparse, Unwind, WorkerEnds,
     WorkerAnswers, WorkerFails, Timer, Publish, PublishRefused, Release, OnlyJobs, store
<1>5. ASSUME NEW w \in Sweepers, Sweeping(w)
      PROVE  UNCHANGED <<used, role, process>> /\ (generation' = generation \/ EndClear(w))
  BY <1>5 DEF Sweeping, EndClear, EndInvalidation, Unlink, PurgeScope, DeleteRun, store
<1>6. CASE Shutdown \/ Exit \/ Crash \/ Restart
  BY <1>6 DEF Shutdown, Exit, Crash, Gone, Restart, OnlyJobs, store
<1>7. CASE Around \/ UNCHANGED vars
  BY <1>7 DEF Around, Lapse, SetRole, OnlyJobs, vars, store, service
<1>8. QED BY <1>1, <1>2, <1>3, <1>4, <1>5, <1>6, <1>7 DEF Next

\* A scope is cleared only when no receipt of it is left that could still publish,
\* however many clears and run deletions overlap.
THEOREM ClearsWhenQuiet == Spec => ClearedWhenQuiet
<1>1. Init => AllQuieting
  BY DEF Init, Idle, AllQuieting, Quieting, Draining
<1>2. Service /\ AllQuieting /\ [Next]_vars => AllQuieting'
  BY QuietingStep
<1>3. Service /\ AllQuieting /\ [Next]_vars
        => \A s \in Scopes : generation'[s] # generation[s] =>
              ~\E e \in Busy : entry[e].scope = s
  <2>1. SUFFICES ASSUME Service, AllQuieting, [Next]_vars, NEW s \in Scopes,
                        generation'[s] # generation[s]
                 PROVE  ReceiptsOf(s) = {}
    BY DEF ReceiptsOf
  <2>2. PICK w \in Sweepers : EndClear(w)
    BY <2>1, WhoWrites
  <2>3. Draining(w) /\ sweep[w].awaits = {}
    BY <2>2 DEF EndClear, Drained, Draining
  <2>4. sweep[w].scope = s
    BY <2>1, <2>2 DEF EndClear, PurgeScope, store, Service, ImportInv, StoreInv, HistoryInv,
       SoundStore, StoreTypeOK
  <2>5. QED BY <2>1, <2>3, <2>4 DEF AllQuieting, Quieting
<1>4. Spec => [](Service /\ AllQuieting)
  BY <1>1, <1>2, ServiceAlways, PTL DEF Spec
<1>5. QED BY <1>3, <1>4, PTL DEF Spec, ClearedWhenQuiet

(***************************************************************************)
(* Reservations and the receipts that release them.                        *)
(***************************************************************************)
\* Whoever has a receipt may still import, as long as no role takes that away.
Importers ==
    /\ process = "down" => Busy = {}
    /\ \A e \in Busy : Can(entry[e].owner, "import")

\* A receipt in progress keeps its owner, or has just entered.
LEMMA OwnerStays ==
    ASSUME StoreInv, Receipts, Line, [Next]_vars, NEW e \in Busy'
    PROVE  \/ e \in Busy /\ entry'[e].owner = entry[e].owner
           \/ Arrivals /\ process = "up" /\ Can(entry'[e].owner, "import")
<1>1. e \in Entries
  BY DEF Busy
<1>2. CASE EachPasses
  BY <1>1, <1>2, PassesAll DEF SameReceipt
<1>3. ASSUME NEW f \in Entries, PumpGrants(f)
      PROVE  e \in Busy /\ entry'[e].owner = entry[e].owner
  <2>1. /\ entry'[f] = [entry[f] EXCEPT !.stage = "granted", !.active = TRUE]
        /\ entry[f] \in Receipt
    BY <1>3, GrantsReceipt, ReceiptFacts
  <2>2. entry'[f].owner = entry[f].owner
    BY <2>1 DEF Receipt
  <2>3. QED BY <1>1, <1>3, <2>2, GrantsReceipt
<1>4. ASSUME NEW f \in Busy, Release(f) PROVE e \in Busy /\ entry'[e].owner = entry[e].owner
  BY <1>1, <1>4, ReleasesReceipt
<1>5. CASE Gone
  BY <1>5, GoneReceipts
<1>6. ASSUME NEW f \in Entries, NEW a \in Actors, NEW s \in Scopes, Arrive(f, a, s)
      PROVE  \/ e \in Busy /\ entry'[e].owner = entry[e].owner
             \/ Arrivals /\ process = "up" /\ Can(entry'[e].owner, "import")
  <2>1. Arrivals /\ process = "up" /\ Can(a, "import")
    BY <1>6 DEF Arrivals, Arrive, Enters, Open
  <2>2. QED BY <1>1, <1>6, <2>1, ArrivesReceipt
<1>7. CASE Uploads
  BY <1>1, <1>7, UploadsReceipt DEF Uploads
<1>8. CASE Reparses
  <2>1. PICK f \in Entries, a \in Actors, i \in Jobs, j \in Jobs, k \in Keys,
             report \in Reports : Reparse(f, a, i, j, k, report)
    BY <1>8 DEF Reparses
  <2>2. PICK s \in Scopes :
              /\ Enters(f, a, s) /\ entry'[f].owner = a
              /\ Busy' = Busy \cup {f} /\ \A g \in Entries : g # f => entry'[g] = entry[g]
    BY <2>1, ReparsesReceipt
  <2>3. Arrivals /\ process = "up" /\ Can(a, "import")
    BY <2>1, <2>2 DEF Arrivals, Enters, Open
  <2>4. QED BY <1>1, <2>2, <2>3
<1>9. QED
  BY <1>2, <1>3, <1>4, <1>5, <1>6, <1>7, <1>8, ReceiptsMove DEF ReceiptMoves

LEMMA ImportersStep ==
    ASSUME Service, Importers, [Next]_vars, \A r \in RoleChanges : "import" \in Access[r]
    PROVE  Importers'
<1>1. StoreInv /\ Receipts /\ Line /\ StoreTypeOK
  BY DEF Service, ImportInv, ServiceInv, StoreInv, HistoryInv, SoundStore
<1>2. ASSUME NEW a \in Actors \cup {None}, Can(a, "import") PROVE Can(a, "import")'
  <2>1. CASE role' = role
    BY <1>2, <2>1 DEF Can
  <2>2. ASSUME NEW b \in Actors, NEW r \in RoleChanges, SetRole(b, r)
        PROVE  Can(a, "import")'
    BY <1>1, <1>2, <2>2 DEF Can, SetRole, StoreTypeOK
  <2>3. Around => role' = role \/ \E b \in Actors, r \in RoleChanges : SetRole(b, r)
    BY DEF Around, Lapse, OnlyJobs
  <2>4. QED BY <2>1, <2>2, <2>3, WhoWrites
<1>3. ASSUME NEW e \in Busy' PROVE Can(entry[e].owner, "import")'
  <2>1. Can(entry'[e].owner, "import")
    BY <1>1, <1>3, OwnerStays DEF Importers
  <2>2. PICK a : a = entry'[e].owner
    OBVIOUS
  <2>3. a \in Actors \cup {None}
    BY <1>1, <1>3, <2>2, ReceiptsStep DEF Receipts, WellFormed, Busy
  <2>4. Can(a, "import")'
    BY <1>2, <2>1, <2>2, <2>3
  <2>5. QED BY <2>2, <2>4 DEF Can
<1>4. ASSUME process' = "down" PROVE Busy' = {}
  <2>1. CASE process = "down"
    BY <1>1, <2>1, OwnerStays DEF Importers
  <2>2. CASE Gone
    BY <2>2, GoneReceipts
  <2>3. QED BY <1>4, <2>1, <2>2, WhoWrites
<1>5. QED BY <1>3, <1>4 DEF Importers

LEMMA EndedEnds ==
    ASSUME SoundStore, NEW j \in Jobs, NEW J, j \in J, job' = Ended(J, "failed")
    PROVE  ~Pending(j)'
<1>1. CASE Pending(j)
  <2>1. job'[j] = [job[j] EXCEPT !.status = "failed", !.reservedRaw = 0,
                                 !.reservedNormalized = 0]
    BY <1>1 DEF Ended
  <2>2. job[j] \in JobRecord
    BY <1>1 DEF Pending, SoundStore, StoreTypeOK
  <2>3. QED BY <2>1, <2>2 DEF Pending, JobRecord
<1>2. CASE ~Pending(j)
  BY <1>2 DEF Ended, Pending
<1>3. QED BY <1>1, <1>2

\* A receipt is over only when the operation it owned is.
LEMMA ReleaseEnds ==
    ASSUME Service, AnchoredWork, Importers, NEW e \in Busy, OwnsJob(e), Receiving(e),
           Release(e), NEW j, entry[e].job = j
    PROVE  ~Pending(j)'
<1>1. /\ Receipts /\ Charged(e) /\ SoundStore /\ SetsRooted /\ e \in Entries
  BY DEF Service, ImportInv, ServiceInv, OwnersInv, StoreInv, HistoryInv, Busy
<1>2. j \in Jobs /\ Can(entry[e].owner, "import") /\ ~entry[e].reused
  BY <1>1, ReceiptFacts DEF Importers, OwnsJob
<1>3. pumping' = TRUE
  BY DEF Release
<1>4. ASSUME Pending(j)
      PROVE  /\ Failable(entry[e].owner, j)
             /\ CanJob(entry[e].owner, "normalized_read", j)
  <2>1. <<job[j].scope, job[j].request.attachment>> \in anchor
    BY <1>2, <1>4 DEF AnchoredWork
  <2>2. job[j] # None /\ job[j].generation = generation[job[j].scope]
    BY <1>1, <1>2, <1>4 DEF Pending, SetsRooted, Rooted
  <2>3. Can(entry[e].owner, "normalized_read")
    <3>1. role[entry[e].owner] \in Roles
      BY <1>1, ReceiptFacts DEF SoundStore, StoreTypeOK, Busy
    <3>2. QED BY <1>2, <3>1 DEF Can, Access, Roles
  <2>4. QED BY <1>2, <1>4, <2>1, <2>2, <2>3 DEF Failable, Owned, CanJob, CanOn
<1>5. ASSUME NEW J, j \in J, job' = Ended(J, "failed") PROVE ~Pending(j)'
  BY <1>1, <1>2, <1>5, EndedEnds
<1>6. ASSUME job' = Failing({e}, entry[e].owner) PROVE ~Pending(j)'
  <2> DEFINE J == {entry[f].job : f \in {g \in {e} : /\ OwnsJob(g)
                                                     /\ Failable(entry[e].owner, entry[g].job)}}
  <2>1. CASE Pending(j)
    <3>1. j \in J
      BY <1>4, <2>1
    <3>2. job' = Ended(J, "failed")
      BY <1>6 DEF Failing
    <3> HIDE DEF J
    <3>3. QED BY <1>5, <3>1, <3>2
  <2>2. CASE ~Pending(j)
    BY <1>2, <1>6, <2>2 DEF Failing, Ended, Pending
  <2>3. QED BY <2>1, <2>2
<1>7. CASE Malformed(e) \/ Timer(e)
  BY <1>3, <1>7 DEF Malformed, Timer, Turn
<1>8. CASE CaptureUpload(e)
  <2>1. ~CanJob(entry[e].owner, "normalized_read", j) /\ UNCHANGED store
    BY <1>2, <1>3, <1>8 DEF CaptureUpload, Turn
  <2>2. ~Pending(j)
    BY <1>4, <2>1
  <2>3. QED BY <2>1, <2>2 DEF Pending, store
<1>9. CASE CaptureReparse(e)
  BY <1>3, <1>6, <1>9 DEF CaptureReparse, Turn
<1>10. CASE Unwind(e) \/ WorkerFails(e)
  BY <1>6, <1>10 DEF Unwind, WorkerFails
<1>11. CASE WorkerAnswers(e)
  <2>1. CASE Publish(entry[e].owner, j)
    <3>1. PublishedFrom(job[j], job'[j])
      BY <1>1, <1>2, <2>1, PublishFollows DEF SoundStore
    <3>2. job[j] \in JobRecord
      BY <1>1, <1>2, <2>1 DEF SoundStore, StoreTypeOK, Publish, Publishing, Owned, CanJob
    <3>3. QED BY <3>1, <3>2 DEF PublishedFrom, Pending, JobRecord
  <2>2. CASE PublishRefused(entry[e].owner, j)
    BY <1>5, <2>2 DEF PublishRefused
  <2>3. QED BY <1>11, <2>1, <2>2 DEF WorkerAnswers
<1>12. QED BY <1>7, <1>8, <1>9, <1>10, <1>11 DEF Receiving, WorkerEnds

\* A receipt whose operation goes on keeps it, unless the process is gone.
LEMMA OwnerKeeps ==
    ASSUME Service, AnchoredWork, Importers, [Next]_vars, NEW e \in Entries, OwnsJob(e),
           NEW j, entry[e].job = j, Pending(j)', process' # "down"
    PROVE  OwnsJob(e)' /\ entry'[e].job = j
<1>1. StoreInv /\ Receipts /\ Line
  BY DEF Service, ImportInv, ServiceInv
<1>2. entry[e].job # None /\ ~entry[e].reused /\ e \in Busy
  BY <1>1, ReceiptFacts DEF OwnsJob, Busy
<1>3. CASE EachPasses
  BY <1>2, <1>3, PassesAll, <1>1 DEF SameReceipt, OwnsJob
<1>4. ASSUME NEW f \in Entries, PumpGrants(f)
      PROVE  entry'[e].job = entry[e].job /\ ~entry'[e].reused
  <2>1. CASE f = e
    <3>1. /\ entry'[e] = [entry[e] EXCEPT !.stage = "granted", !.active = TRUE]
          /\ entry[e] \in Receipt
      BY <1>1, <1>4, <2>1, GrantsReceipt, ReceiptFacts
    <3>2. entry'[e].job = entry[e].job /\ entry'[e].reused = entry[e].reused
      BY <3>1 DEF Receipt
    <3>3. QED BY <1>2, <3>2
  <2>2. CASE f # e
    BY <1>1, <1>2, <1>4, <2>2, GrantsReceipt
  <2>3. QED BY <2>1, <2>2
<1>5. ASSUME NEW f \in Busy, Receiving(f), Release(f) PROVE entry'[e] = entry[e]
  <2>1. CASE f = e
    BY <1>5, <2>1, ReleaseEnds
  <2>2. CASE f # e
    BY <1>1, <1>5, <2>2, ReleasesReceipt
  <2>3. QED BY <2>1, <2>2
<1>6. ~Gone
  BY DEF Gone
<1>7. ASSUME NEW f \in Entries, NEW a \in Actors, NEW s \in Scopes, Arrive(f, a, s)
      PROVE  entry'[e] = entry[e]
  BY <1>1, <1>2, <1>7, ArrivesReceipt
<1>8. CASE Uploads
  <2>1. PICK f \in Entries, i \in Jobs, k \in Keys, r \in Request, reused \in BOOLEAN :
            AdmitUpload(f, i, k, r, reused)
    BY <1>8 DEF Uploads
  <2>2. f # e
    BY <1>1, <1>2, <2>1 DEF AdmitUpload, Receipts, WellFormed
  <2>3. QED BY <1>1, <1>2, <2>1, <2>2, UploadsReceipt DEF OwnsJob
<1>9. CASE Reparses
  <2>1. PICK f \in Entries, a \in Actors, m \in Jobs, i \in Jobs, k \in Keys,
             report \in Reports : Reparse(f, a, m, i, k, report)
    BY <1>9 DEF Reparses
  <2>2. f \notin Busy /\ \A g \in Entries : g # f => entry'[g] = entry[g]
    BY <1>1, <2>1, ReparsesReceipt
  <2>3. QED BY <1>2, <2>2 DEF OwnsJob
<1>10. QED
  BY <1>1, <1>2, <1>3, <1>4, <1>5, <1>6, <1>7, <1>8, <1>9, ReceiptsMove
     DEF ReceiptMoves, OwnsJob

\* A new operation is stored for the receipt that brought it.
LEMMA NewIsOwned ==
    ASSUME Service, [Next]_vars, NEW j \in Jobs, j \notin used, Pending(j)'
    PROVE  \E e \in Entries : OwnsJob(e)' /\ entry'[e].job = j
<1>1. StoreInv /\ Receipts /\ Line /\ SoundStore /\ ServiceInv /\ HistoryInv
  BY DEF Service, ImportInv, ServiceInv, StoreInv, HistoryInv
<1>2. SoundStore' /\ job[j] = None
  BY <1>1, StoreInvStep DEF StoreInv, HistoryInv, SoundStore, StoreTypeOK
<1>3. used' # used /\ Arrivals
  BY <1>2, WhoWrites DEF SoundStore, StoreTypeOK, Pending
<1>4. ASSUME NEW e, NEW a, NEW s, Arrive(e, a, s) PROVE FALSE
  BY <1>3, <1>4 DEF Arrive, store
<1>5. ASSUME NEW e \in Entries, NEW i \in Jobs, NEW k \in Keys, NEW r \in Request,
             NEW reused \in BOOLEAN, AdmitUpload(e, i, k, r, reused)
      PROVE  OwnsJob(e)' /\ entry'[e].job = j
  <2>1. ~reused /\ used' = used \cup {i}
    BY <1>3, <1>5 DEF AdmitUpload, Receives, Admit, store
  <2>2. i = j
    BY <1>2, <2>1 DEF SoundStore, StoreTypeOK, Pending
  <2>3. QED BY <1>1, <1>5, <2>1, <2>2, UploadsReceipt, EvidenceAssumption DEF OwnsJob
<1>6. ASSUME NEW e \in Entries, NEW a \in Actors, NEW m \in Jobs, NEW i \in Jobs,
             NEW k \in Keys, NEW report \in Reports, Reparse(e, a, m, i, k, report)
      PROVE  OwnsJob(e)' /\ entry'[e].job = j
  <2>1. used' = used \cup {i}
    BY <1>6 DEF Reparse, Admit
  <2>2. i = j
    BY <1>2, <2>1 DEF SoundStore, StoreTypeOK, Pending
  <2>3. entry'[e].job = i /\ ~entry'[e].reused
    BY <1>1, <1>6, ReparsesReceipt
  <2>4. QED BY <2>2, <2>3, EvidenceAssumption DEF OwnsJob
<1>7. QED BY <1>3, <1>4, <1>5, <1>6 DEF Arrivals

\* While the service is up and nobody who imports loses the right to, an operation
\* that holds a reservation has a receipt in progress that will release it.
THEOREM ReservationsAlwaysOwned ==
    ASSUME \A r \in RoleChanges : "import" \in Access[r]
    PROVE  Spec => []ReservationsOwned
<1> DEFINE Inv == Service /\ AnchoredWork
<1>1. Init => Importers /\ ReservationsOwned
  BY DEF Init, StoreInit, Importers, Busy, Free, ReservationsOwned, Pending
<1>2. Inv /\ Importers /\ [Next]_vars => Importers'
  BY ImportersStep
<1>3. Inv /\ Importers /\ ReservationsOwned /\ [Next]_vars => ReservationsOwned'
  <2>1. SUFFICES ASSUME Inv, Importers, ReservationsOwned, [Next]_vars, process' = "up",
                        NEW j \in Jobs, Pending(j)'
                 PROVE  \E e \in Entries : OwnsJob(e)' /\ entry'[e].job = j
    BY DEF ReservationsOwned
  <2>2. process = "up"
    <3>1. SUFFICES ASSUME Restart PROVE FALSE
      BY <2>1, WhoWrites
    <3>2. job' = Ended(Jobs, "failed") /\ SoundStore
      BY <2>1, <3>1, ServiceStoreSteps DEF Restart
    <3>3. QED BY <2>1, <3>2, EndedEnds
  <2>3. CASE j \notin used
    BY <2>1, <2>3, NewIsOwned
  <2>4. CASE j \in used
    <3>1. Pending(j)
      BY <2>1, <2>4, ServiceStoreSteps, PendingStays
    <3>2. PICK e \in Entries : OwnsJob(e) /\ entry[e].job = j
      BY <2>1, <2>2, <3>1 DEF ReservationsOwned
    <3>3. OwnsJob(e)' /\ entry'[e].job = j
      BY <2>1, <3>2, OwnerKeeps
    <3>4. QED BY <3>3
  <2>5. QED BY <2>3, <2>4
<1>4. QED BY <1>1, <1>2, <1>3, ServiceAlways, ImportKeepsAnchors, PTL DEF Spec
=============================================================================
