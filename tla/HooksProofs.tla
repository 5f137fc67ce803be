------------------------------ MODULE HooksProofs ------------------------------
(***************************************************************************)
(* What holds of the coding hooks for every set of installations, roots,   *)
(* callbacks and management requests, every limit and every scenario: the  *)
(* type invariant, what is kept of the evidence, that nothing revoked      *)
(* captures, and that an active installation has its credential.           *)
(***************************************************************************)
EXTENDS HookManagement, SequenceTheorems, WellFoundedInduction, TLAPS

-----------------------------------------------------------------------------
(* Types. *)

Phases == {"pending", "success", "failure", "interrupted", "unknown", "conflict"}
Datum == [mode : Modes, roots : SUBSET Roots, version : Versions]

Session == [state : {"absent", "open", "suppressed"}, kind : {"initial", "v1", "v2"},
            inc : Nat, cursor : Nat, revision : Nat]
Observation == [phase : Phases, source : {"hook", "transcript"}, offset : Nat, body : BOOLEAN]
Entity == [phase : Phases, source : {"hook", "transcript"}, offset : Nat, body : BOOLEAN, seen : Observation]

Credential == [token : Nat, generation : Nat, owner : Nat, old : BOOLEAN]
ActiveFile == [state : {"active"}, token : Nat, generation : Nat, owner : Nat, old : BOOLEAN]

Batch == [inc : Nat \ {0}, cursor : Nat, observed : Observation \cup {NoEntity}]
AdmissionReply == [via : {"v1", "v2"}, mode : Modes, generation : Nat, owner : Nat,
                   inc : Nat, cursor : Nat, revision : Nat]
PublishReply == [via : {"v1", "v2"}, generation : Nat, owner : Nat, revision : Nat, batch : Batch]
Work(pcs, replies) ==
  [pc : pcs, inst : Installs, root : Roots, event : Events, cap : Credential, reply : replies,
   at : Nat, place : {"sent", "queued", "active", "none"}, aborted : BOOLEAN, alive : BOOLEAN]
Working == Work({"transport"}, {0}) \cup Work({"reread", "admit1", "admit2"}, Versions)
           \cup Work({"acquire"}, AdmissionReply) \cup Work({"publish"}, PublishReply)

Installing == [op : {"install"}, inst : Installs, want : Want,
               pc : {"check", "lock", "prepare", "inactive", "settle", "write", "commit"},
               expected : Nat, data : Datum \cup {NoRow}, before : Row, token : Nat, owner : Nat,
               generation : Nat, unchanged : BOOLEAN, revoked : SUBSET Installs]
Uninstalling == [op : {"uninstall"}, inst : Installs, pc : {"lock", "remove"}, token : Nat,
                 revoked : SUBSET Installs]
Activating == [op : {"activate"}, ctl : Nat, sel : SUBSET Installs, before : [Installs -> Row],
               pc : {"drain", "lock", "disable", "commit", "enable", "resume", "fail"}, owner : Nat,
               owned : Nat, held : SUBSET Installs, written : SUBSET Installs, revoked : SUBSET Installs]

Controller == [closed : BOOLEAN, paused : BOOLEAN, line : Seq(Callbacks)]

StoreTypeOK ==
  /\ owner \in [active : BOOLEAN, generation : Nat]
  /\ row \in [Installs -> Row]
  /\ session \in [Roots -> Session]
  /\ tool \in [Roots -> Entity \cup {NoEntity}]
  /\ fresh \in Nat

ServiceTypeOK ==
  /\ file \in [Installs -> ActiveFile \cup {NoFile, DisabledFile}]
  /\ lock \in [Installs -> BOOLEAN]
  /\ ctl \in Seq(Controller)
  /\ cb \in [Callbacks -> Working \cup {Quiet, Over}]
  /\ mgr \in [Managers -> Installing \cup Uninstalling \cup Activating \cup {Idle}]
  /\ transcript \in [Roots -> [inc : Nat \ {0}, lines : Seq(Outcomes)]]

\* The scenario: what it lets happen, what is left of it, and whether a daemon ended.
ScenarioTypeOK ==
  /\ scenario.sessions \subseteq Roots /\ scenario.events \subseteq Events /\ scenario.wants \subseteq Want
  /\ scenario.outcomes \subseteq Outcomes /\ scenario.bodies \subseteq BOOLEAN
  /\ {"sessions", "events", "wants", "outcomes", "bodies", "stopped"} \subseteq DOMAIN scenario /\ scenario.stopped \in BOOLEAN

HooksTypeOK == StoreTypeOK /\ ServiceTypeOK /\ ScenarioTypeOK

-----------------------------------------------------------------------------
(* The inductive invariant. *)

\* Generations and tokens were drawn, and no two rows share a generation.
GenerationsDrawn ==
  /\ owner.generation <= fresh
  /\ \A i \in Installs : row[i].generation <= fresh /\ row[i].token <= fresh
  /\ \A i \in Installs : Stored(i) => row[i].generation > 0
  /\ \A i, j \in Installs : Stored(i) /\ Stored(j) /\ i # j => row[i].generation # row[j].generation

\* An observation, or what is retained of one, is at a line when the transcript is its
\* source; only a hook says that the tool still runs, only a line that it ended somehow.
InOrder(e) ==
  /\ e.offset # 0 <=> e.source = "transcript"
  /\ e.phase = "pending" => e.source = "hook"
  /\ e.phase = "unknown" => e.source = "transcript"

\* A retained outcome came of an observation of one.
RetainedInOrder(e) == InOrder(e) /\ (Terminal(e.phase) => Terminal(e.seen.phase))

\* A session that has published nothing has no tool and is at its beginning.
SessionsInOrder ==
  \A k \in Roots :
    /\ session[k].state # "open" \/ session[k].kind = "initial" => tool[k] = NoEntity
    /\ session[k].inc = 0 => session[k].cursor = 0
    /\ tool[k] # NoEntity => RetainedInOrder(tool[k])

\* A generation is of one policy: the mode a callback works under is that of the row.
UnderMode(generation, full) ==
  generation <= fresh /\ \A i \in Installs : Stored(i) /\ row[i].generation = generation => (full <=> row[i].mode = "full")

RepliesInOrder ==
  \A c \in Callbacks :
    /\ cb[c].pc = "acquire" => UnderMode(cb[c].reply.generation, cb[c].reply.mode = "full")
    /\ cb[c].pc = "publish" =>
         LET a == cb[c].reply
             o == a.batch.observed
         IN  /\ a.generation = cb[c].cap.generation /\ a.owner = cb[c].cap.owner
             /\ o # NoEntity => InOrder(o) /\ (o.body => UnderMode(a.generation, TRUE))

\* A credential of installation i names a generation no other row has, and the one
\* that is marked old names a row or an owner that has moved on.
Sound(i, generation, own, old) ==
  /\ generation \in 1 .. fresh /\ own \in 0 .. fresh
  /\ \A j \in Installs \ {i} : row[j].generation # generation
  /\ old => row[i].generation # generation \/ owner.generation # own

FilesSound == \A i \in Installs : file[i].state = "active" =>
  file[i].token <= fresh /\ Sound(i, file[i].generation, file[i].owner, file[i].old)

CallbacksSound == \A c \in Callbacks :
  Alive(c) => Sound(cb[c].inst, cb[c].cap.generation, cb[c].cap.owner, cb[c].cap.old)

\* The credentials that management is about to write down.
InstallSound(r) == r.pc \in {"write", "commit"} =>
  r.token <= fresh /\ Sound(r.inst, r.generation, r.owner, r.inst \in r.revoked)
ActivateSound(r) ==
  \A i \in Installs :
    /\ i \in r.sel => r.before[i] # NoRow /\ Sound(i, Drawn(r, i), r.owner, i \in r.revoked)
    /\ i \notin r.sel /\ r.before[i].state = "active" => Sound(i, r.before[i].generation, r.owner, i \in r.revoked)

ManagersSound == \A m \in Managers :
  /\ mgr[m].op = "install" => InstallSound(mgr[m])
  /\ mgr[m].op = "activate" => ActivateSound(mgr[m])

CredentialsSound == FilesSound /\ CallbacksSound /\ ManagersSound

\* A management request has the lock file of an installation.
Leased(r, i) ==
  \/ r.op = "install" /\ r.pc \in {"prepare", "inactive", "settle", "write", "commit"} /\ r.inst = i
  \/ r.op = "uninstall" /\ r.pc = "remove" /\ r.inst = i
  \/ r.op = "activate" /\ i \in r.held

LocksHeld ==
  /\ \A m \in Managers, i \in Installs : Leased(mgr[m], i) => lock[i]
  /\ \A m, n \in Managers, i \in Installs : Leased(mgr[m], i) /\ Leased(mgr[n], i) => m = n

Serving(i, generation, token) ==
  file[i].state = "active" /\ file[i].generation = generation /\ file[i].token = token

\* What an installer knows of the row and of the file under its lock.
InstallKnows(r) ==
  /\ row[r.inst].state = "active" =>
       /\ r.pc = "prepare" => row[r.inst] = r.before
       /\ r.pc \notin {"inactive", "settle"}
       /\ r.pc \in {"write", "commit"} => row[r.inst].generation = r.generation /\ row[r.inst].token = r.token
  /\ (r.pc = "write" /\ r.unchanged) \/ r.pc = "commit" => Serving(r.inst, r.generation, r.token)

\* An activation takes its leases and writes its files in the order of the plan.
PlanFollowed(r) ==
  /\ r.held \subseteq Required(r)
  /\ r.pc \in {"disable", "commit", "enable", "resume"} => r.held = Required(r)
  /\ r.pc \in {"drain", "lock"} => r.written = {}
  /\ r.pc = "disable" => r.written \subseteq Required(r)
  /\ r.pc = "commit" => r.written = Required(r)
  /\ r.pc = "enable" => r.written \subseteq Reenabled(r)
  /\ r.pc = "resume" => r.written = Reenabled(r)

PlansFollowed == \A m \in Managers : mgr[m].op = "activate" => PlanFollowed(mgr[m])

\* What an activation knows: its rows were redrawn, its files are disabled until the
\* commit, and what became active by the commit is what it drew.
ActivateKnows(r) ==
  /\ \A i \in r.sel : r.before[i] # NoRow /\ row[i].generation >= Drawn(r, i) /\ Drawn(r, i) > r.before[i].generation
  /\ r.pc \in {"disable", "commit"} => \A i \in r.written \cap r.sel : file[i].state = "disabled"
  /\ r.pc \in {"enable", "resume"} => \A i \in r.sel :
       row[i].state = "active" =>
         r.before[i].state = "active" /\ row[i].generation = Drawn(r, i) /\ row[i].token = Drawn(r, i)

Knows(r) ==
  /\ r.op = "install" => InstallKnows(r)
  /\ r.op = "uninstall" /\ r.pc = "remove" => row[r.inst].state # "active"
  /\ r.op = "activate" => ActivateKnows(r)

ManagersKnow == \A m \in Managers : Knows(mgr[m])

\* An activation between its commit and the file of i, or on its way to take it back.
Revives(r, i) ==
  /\ r.op = "activate" /\ i \in r.sel
  /\ r.pc = "fail" \/ (r.pc = "enable" /\ i \notin r.written)

\* The private file of an active row serves it, or is disabled for a reason.
FileServes(i) == row[i].state = "active" =>
  \/ Serving(i, row[i].generation, row[i].token)
  \/ /\ file[i].state = "disabled"
     /\ scenario.stopped \/ ~owner.active \/ \E m \in Managers : Revives(mgr[m], i)

FilesServe == \A i \in Installs : FileServes(i)

Ended == ctl = <<>> => scenario.stopped

\* What the callbacks' side needs, which is inductive without the rest.
CaptureInv ==
  /\ HooksTypeOK /\ GenerationsDrawn /\ SessionsInOrder /\ RepliesInOrder /\ CredentialsSound /\ PlansFollowed

HooksInv == CaptureInv /\ LocksHeld /\ ManagersKnow /\ FilesServe /\ Ended

-----------------------------------------------------------------------------
(* The shapes of callbacks and of management requests. *)

Reads(w) ==
  /\ w.inst \in Installs /\ w.root \in Roots /\ w.event \in Events /\ w.cap \in Credential
  /\ w.at \in Nat /\ w.place \in {"sent", "queued", "active", "none"}
  /\ w.aborted \in BOOLEAN /\ w.alive \in BOOLEAN
  /\ w.pc \in {"transport", "reread", "admit1", "admit2", "acquire", "publish"}
  /\ w.pc \in {"reread", "admit1", "admit2"} => w.reply \in Versions
  /\ w.pc = "acquire" => w.reply \in AdmissionReply
  /\ w.pc = "publish" => w.reply \in PublishReply

LEMMA WorkingReads == ASSUME NEW w \in Working PROVE Reads(w)
BY DEF Working, Work, Reads

LEMMA WorkingMoves ==
  ASSUME NEW w \in Working, NEW n \in Nat, NEW p \in {"sent", "queued", "active", "none"}
  PROVE  /\ [w EXCEPT !.cap.old = TRUE] \in Working
         /\ [w EXCEPT !.place = p] \in Working
         /\ [w EXCEPT !.place = p, !.at = n] \in Working
         /\ [w EXCEPT !.aborted = TRUE] \in Working
         /\ [w EXCEPT !.alive = FALSE] \in Working
BY Zenon DEF Working, Work, Credential

LEMMA OverStays ==
  /\ [Over EXCEPT !.place = "active"] = Over
  /\ [Quiet EXCEPT !.place = "active"] = Quiet
BY DEF Over, Quiet

LEMMA ManagerRevoked ==
  ASSUME NEW S \in SUBSET Installs, NEW r
  PROVE  /\ r \in Installing => [r EXCEPT !.revoked = @ \cup S] \in Installing
         /\ r \in Uninstalling => [r EXCEPT !.revoked = @ \cup S] \in Uninstalling
         /\ r \in Activating => [r EXCEPT !.revoked = @ \cup S] \in Activating
BY DEF Installing, Uninstalling, Activating

-----------------------------------------------------------------------------
(* What a step does to rows, owner and random values. *)

\* Row i was disabled under values drawn in this step.
Redrawn(i) ==
  /\ row'[i] \in KnownRow /\ row'[i].state = "disabled"
  /\ row'[i].generation \in fresh + 1 .. fresh' /\ row'[i].token <= fresh'

\* Only the state of row i is another.
Restated(i) ==
  /\ row[i] # NoRow /\ row'[i] \in KnownRow
  /\ row'[i].generation = row[i].generation /\ row'[i].token = row[i].token /\ row'[i].mode = row[i].mode

RowsMove ==
  /\ fresh' \in Nat /\ fresh' >= fresh /\ row' \in [Installs -> Row]
  /\ \A i \in Installs : row'[i] = row[i] \/ Redrawn(i) \/ Restated(i)
  /\ \A i, j \in Installs : i # j /\ Redrawn(i) /\ Redrawn(j) => row'[i].generation # row'[j].generation

OwnerMoves ==
  /\ owner' \in [active : BOOLEAN, generation : Nat]
  /\ owner'.generation = owner.generation \/ owner'.generation \in fresh + 1 .. fresh'

StoreMoves == RowsMove /\ OwnerMoves

LEMMA RestMoves ==
  ASSUME StoreTypeOK, GenerationsDrawn, UNCHANGED <<row, fresh>>, owner'.generation = owner.generation,
         owner' \in [active : BOOLEAN, generation : Nat]
  PROVE  StoreMoves
BY DEF StoreTypeOK, StoreMoves, RowsMove, OwnerMoves, Redrawn

LEMMA DisabledRow ==
  ASSUME NEW r \in Row, NEW n \in Nat, r # NoRow
  PROVE  /\ Disabled(r, n) \in KnownRow /\ Disabled(r, n).state = "disabled"
         /\ Disabled(r, n).generation = n /\ Disabled(r, n).token = n
BY Zenon DEF Row, KnownRow, Disabled, Modes

LEMMA FencedRow ==
  ASSUME NEW r \in Row, NEW n \in Nat, r # NoRow
  PROVE  /\ Fenced(r, n) \in KnownRow /\ Fenced(r, n).state = "disabled" /\ Fenced(r, n).mode = r.mode
         /\ Fenced(r, n).generation = n /\ Fenced(r, n).token = n
         /\ [Fenced(r, n) EXCEPT !.version = 2] \in KnownRow
         /\ [Fenced(r, n) EXCEPT !.version = 2].state = "disabled"
         /\ [Fenced(r, n) EXCEPT !.version = 2].generation = n
         /\ [Fenced(r, n) EXCEPT !.version = 2].token = n
BY Zenon DEF Row, KnownRow, Fenced, Versions

\* One row is disabled under a value that is drawn.
LEMMA OneRedrawn ==
  ASSUME StoreTypeOK, GenerationsDrawn, NEW i \in Installs, NEW r \in Row,
         row' = [row EXCEPT ![i] = r], fresh' = fresh + 1, owner' = owner,
         r = row[i] \/ (r \in KnownRow /\ r.state = "disabled" /\ r.generation = fresh + 1 /\ r.token <= fresh + 1)
  PROVE  StoreMoves
<1>1. \A j \in Installs : row'[j] = IF j = i THEN r ELSE row[j]
  BY DEF StoreTypeOK
<1>2. row' \in [Installs -> Row] /\ fresh \in Nat
  BY DEF StoreTypeOK
<1>3. row'[i] = row[i] \/ Redrawn(i)
  BY <1>1, <1>2 DEF Redrawn
<1>4. \A j \in Installs : j # i => row'[j] = row[j]
  BY <1>1
<1>5. \A j \in Installs : Redrawn(j) => j = i
  BY <1>2, <1>4 DEF Redrawn, GenerationsDrawn, KnownRow
<1>6. RowsMove
  BY <1>2, <1>3, <1>4, <1>5 DEF RowsMove
<1> QED
  BY <1>6 DEF StoreMoves, OwnerMoves, StoreTypeOK

\* Several rows are redrawn together, each under a value of its own, with the owner.
LEMMA SomeRedrawn ==
  ASSUME StoreTypeOK, GenerationsDrawn, NEW S \in SUBSET Installs,
         fresh' = fresh + NInstalls, owner' = [owner EXCEPT !.generation = fresh + 1],
         row' \in [Installs -> Row], \A i \in Installs \ S : row'[i] = row[i],
         \A i \in S : row'[i] = row[i] \/ (row'[i] \in KnownRow /\ row'[i].state = "disabled"
                        /\ row'[i].generation = fresh + i /\ row'[i].token = fresh + i)
  PROVE  StoreMoves
<1>1. fresh \in Nat /\ NInstalls \in Nat /\ NInstalls > 0 /\ \A i \in Installs : i \in 1 .. NInstalls
  BY HookAssumption DEF StoreTypeOK, Installs
<1>2. \A i \in Installs : row'[i] = row[i] \/ Redrawn(i)
  BY <1>1 DEF Redrawn
<1>3. ASSUME NEW i \in Installs, Redrawn(i)
      PROVE  row'[i].generation = fresh + i
  <2>1. row'[i] # row[i]
    BY <1>1, <1>3 DEF Redrawn, GenerationsDrawn, KnownRow
  <2> QED
    BY <2>1
<1>4. \A i, j \in Installs : i # j /\ Redrawn(i) /\ Redrawn(j) => row'[i].generation # row'[j].generation
  BY <1>1, <1>3
<1>5. RowsMove
  BY <1>1, <1>2, <1>4 DEF RowsMove
<1>6. OwnerMoves
  BY <1>1 DEF OwnerMoves, StoreTypeOK
<1> QED
  BY <1>5, <1>6 DEF StoreMoves

LEMMA RotatedOwner ==
  ASSUME StoreTypeOK, GenerationsDrawn, row' = row, fresh' = fresh + 1, NEW a \in BOOLEAN,
         owner' = [active |-> a, generation |-> fresh + 1] \/ owner' = [owner EXCEPT !.generation = fresh + 1]
  PROVE  StoreMoves
<1>1. RowsMove
  BY DEF RowsMove, StoreTypeOK, GenerationsDrawn, Redrawn, KnownRow
<1>2. OwnerMoves
  BY DEF OwnerMoves, StoreTypeOK
<1> QED
  BY <1>1, <1>2 DEF StoreMoves

LEMMA GenerationsStay ==
  ASSUME StoreTypeOK, GenerationsDrawn, StoreMoves
  PROVE  GenerationsDrawn'
<1>1. /\ fresh \in Nat /\ fresh' \in Nat /\ fresh' >= fresh /\ owner.generation \in Nat
      /\ \A i \in Installs : row[i] \in Row /\ row'[i] \in Row
  BY DEF StoreTypeOK, StoreMoves, RowsMove
<1>2. \A i \in Installs : Stored(i) <=> row[i] # NoRow
  BY <1>1 DEF Row, KnownRow, NoRow, Stored
<1>3. \A i \in Installs : Stored(i)' <=> row'[i] # NoRow
  BY <1>1 DEF Row, KnownRow, NoRow, Stored
<1>4. \A i \in Installs : row[i] \in KnownRow \/ (row[i] = NoRow /\ row[i].generation = 0 /\ row[i].token = 0)
  BY <1>1 DEF Row, NoRow
<1>5. ASSUME NEW i \in Installs
      PROVE  /\ row'[i].generation <= fresh' /\ row'[i].token <= fresh'
             /\ row'[i] # NoRow => row'[i].generation > 0
  <2>1. CASE row'[i] = row[i]
    BY <1>1, <1>2, <1>4, <2>1 DEF GenerationsDrawn, KnownRow
  <2>2. CASE Redrawn(i)
    BY <1>1, <2>2 DEF Redrawn, KnownRow
  <2>3. CASE Restated(i)
    BY <1>1, <1>2, <1>4, <2>3 DEF Restated, GenerationsDrawn, KnownRow
  <2> QED
    BY <2>1, <2>2, <2>3 DEF StoreMoves, RowsMove
<1>6. ASSUME NEW i \in Installs, NEW j \in Installs, i # j, row'[i] # NoRow, row'[j] # NoRow
      PROVE  row'[i].generation # row'[j].generation
  <2> DEFINE Kept(k) == row[k] # NoRow /\ row'[k].generation = row[k].generation
  <2>1. \A k \in {i, j} : Kept(k) \/ Redrawn(k)
    BY <1>6 DEF StoreMoves, RowsMove, Restated
  <2>2. CASE Kept(i) /\ Kept(j)
    BY <1>2, <1>6, <2>2 DEF GenerationsDrawn
  <2>3. CASE Redrawn(i) /\ Redrawn(j)
    BY <1>6, <2>3 DEF StoreMoves, RowsMove
  <2>4. CASE Kept(i) /\ Redrawn(j)
    BY <1>1, <1>4, <2>4 DEF GenerationsDrawn, Redrawn, KnownRow
  <2>5. CASE Redrawn(i) /\ Kept(j)
    BY <1>1, <1>4, <2>5 DEF GenerationsDrawn, Redrawn, KnownRow
  <2> QED
    BY <2>1, <2>2, <2>3, <2>4, <2>5
<1>7. owner'.generation <= fresh'
  BY <1>1 DEF GenerationsDrawn, StoreMoves, OwnerMoves
<1> QED
  BY <1>3, <1>5, <1>6, <1>7 DEF GenerationsDrawn

\* What is revoked in a step is not what its row and its owner are afterwards.
Revokes(i) == row'[i].generation # row[i].generation \/ owner'.generation # owner.generation \/ row[i] = NoRow

\* A credential stays sound; one that the step revokes may be marked old.
LEMMA SoundStays ==
  ASSUME StoreTypeOK, GenerationsDrawn, StoreMoves,
         NEW i \in Installs, NEW g, NEW o, NEW old \in BOOLEAN, NEW older \in BOOLEAN,
         Sound(i, g, o, old), older => old \/ Revokes(i)
  PROVE  Sound(i, g, o, older)'
<1>1. /\ fresh \in Nat /\ fresh' \in Nat /\ fresh' >= fresh /\ owner.generation \in Nat
      /\ g \in 1 .. fresh /\ o \in 0 .. fresh /\ \A j \in Installs : row[j] \in Row
  BY DEF StoreTypeOK, StoreMoves, RowsMove, Sound
<1>2. \A j \in Installs : row'[j].generation = row[j].generation \/ row'[j].generation \in fresh + 1 .. fresh'
  BY DEF StoreMoves, RowsMove, Redrawn, Restated
<1>3. owner'.generation = owner.generation \/ owner'.generation \in fresh + 1 .. fresh'
  BY DEF StoreMoves, OwnerMoves
<1>4. \A j \in Installs \ {i} : row'[j].generation # g
  BY <1>1, <1>2 DEF Sound
<1>5. ASSUME older PROVE row'[i].generation # g \/ owner'.generation # o
  <2>1. CASE old
    BY <1>1, <1>2, <1>3, <2>1 DEF Sound
  <2>2. CASE row'[i].generation # row[i].generation
    BY <1>1, <1>2, <2>2
  <2>3. CASE owner'.generation # owner.generation
    BY <1>1, <1>3, <2>3
  <2>4. CASE row[i] = NoRow
    BY <1>1, <1>2, <2>4 DEF NoRow
  <2> QED
    BY <1>5, <2>1, <2>2, <2>3, <2>4 DEF Revokes
<1> QED
  BY <1>1, <1>4, <1>5 DEF Sound

LEMMA UnderModeStays ==
  ASSUME StoreTypeOK, GenerationsDrawn, StoreMoves, NEW g \in Nat, NEW full \in BOOLEAN, UnderMode(g, full)
  PROVE  UnderMode(g, full)'
<1>1. /\ fresh \in Nat /\ fresh' \in Nat /\ fresh' >= fresh
      /\ \A i \in Installs : row[i] \in Row /\ row'[i] \in Row
  BY DEF StoreTypeOK, StoreMoves, RowsMove
<1>2. ASSUME NEW i \in Installs, Stored(i)', row'[i].generation = g
      PROVE  full <=> row'[i].mode = "full"
  <2>1. CASE row'[i] = row[i]
    BY <1>2, <2>1 DEF UnderMode, Stored
  <2>2. CASE Redrawn(i)
    BY <1>1, <1>2, <2>2 DEF UnderMode, Redrawn
  <2>3. CASE Restated(i)
    BY <1>1, <1>2, <2>3 DEF UnderMode, Restated, Stored, Row, KnownRow
  <2> QED
    BY <2>1, <2>2, <2>3 DEF StoreMoves, RowsMove
<1> QED
  BY <1>1, <1>2 DEF UnderMode

-----------------------------------------------------------------------------
(* Every step moves the store. *)

LEMMA ManagerKinds ==
  ASSUME ServiceTypeOK, NEW m \in Managers
  PROVE  /\ mgr[m].op = "install" => mgr[m] \in Installing
         /\ mgr[m].op = "uninstall" => mgr[m] \in Uninstalling
         /\ mgr[m].op = "activate" => mgr[m] \in Activating
         /\ mgr[m].op \notin {"install", "uninstall", "activate"} => mgr[m] = Idle
BY DEF ServiceTypeOK, Installing, Uninstalling, Activating, Idle

LEMMA FileKinds ==
  ASSUME ServiceTypeOK, NEW i \in Installs, file[i].state = "active"
  PROVE  file[i] \in ActiveFile
BY DEF ServiceTypeOK, NoFile, DisabledFile

CallbackActs(c) ==
  Begin(c) \/ Handle(c) \/ Refuse(c) \/ GiveUp(c) \/ Transport(c) \/ Reread(c)
  \/ Admission(c) \/ Acquire(c) \/ Publication(c)

OwnerActs == ClearStart \/ ClearFinish \/ ClearFails \/ Shutdown \/ Gone \/ Boot

\* Management that neither redraws nor restates a row.
ManagerWaits(m) ==
  \/ InstallCheck(m) \/ InstallLock(m) \/ InstallDisabled(m) \/ InstallSettled(m) \/ InstallWrite(m)
  \/ UninstallRemove(m) \/ Abandoned(m)
  \/ ActivateBusy(m) \/ ActivateDrain(m) \/ ActivateLock(m) \/ ActivateDisable(m) \/ ActivateEnable(m)
  \/ ActivateResume(m) \/ ActivateFails(m)

LEMMA CallbackRests ==
  ASSUME NEW c \in Callbacks, CallbackActs(c)
  PROVE  UNCHANGED <<row, owner, fresh, file, lock, mgr, clears, clearing, transcript>>
<1>1. CASE Begin(c)
  BY <1>1 DEF Begin, store
<1>2. CASE Handle(c)
  BY <1>2 DEF Handle, store
<1>3. CASE Refuse(c)
  BY <1>3 DEF Refuse, store
<1>4. CASE GiveUp(c)
  BY <1>4 DEF GiveUp, store
<1>5. CASE Transport(c)
  BY <1>5 DEF Transport, Serves, store
<1>6. CASE Reread(c)
  BY <1>6 DEF Reread, store
<1>7. CASE Admission(c)
  BY <1>7 DEF Admission, Serves
<1>8. CASE Acquire(c)
  BY <1>8 DEF Acquire, store
<1>9. CASE Publication(c)
  BY <1>9 DEF Publication, Publish, Serves
<1> QED
  BY <1>1, <1>2, <1>3, <1>4, <1>5, <1>6, <1>7, <1>8, <1>9 DEF CallbackActs

LEMMA ManagerRests ==
  ASSUME NEW m \in Managers, ManagerWaits(m)
  PROVE  UNCHANGED store
BY DEF ManagerWaits, InstallCheck, InstallLock, InstallDisabled, InstallSettled, InstallWrite,
       UninstallRemove, Abandoned, ActivateBusy,
       ActivateDrain, ActivateLock, ActivateDisable, ActivateEnable, ActivateResume, ActivateFails

LEMMA OwnerMovesOn ==
  ASSUME StoreTypeOK, GenerationsDrawn, OwnerActs
  PROVE  StoreMoves
<1>1. CASE ClearStart
  BY Zenon, <1>1, RotatedOwner DEF ClearStart, RotateOwner
<1>2. CASE ClearFinish
  BY Zenon, <1>2, RotatedOwner DEF ClearFinish, ClearAll, RotateOwner
<1>3. CASE ClearFails
  BY <1>3, RestMoves DEF ClearFails, store, StoreTypeOK
<1>4. CASE Shutdown
  BY Zenon, <1>4, RotatedOwner DEF Shutdown
<1>5. CASE Gone
  <2>1. owner' = [owner EXCEPT !.active = FALSE]
    BY <1>5 DEF Gone
  <2>2. owner'.generation = owner.generation /\ owner' \in [active : BOOLEAN, generation : Nat]
    BY Zenon, <2>1 DEF StoreTypeOK
  <2> QED
    BY <1>5, <2>2, RestMoves DEF Gone
<1>6. CASE Boot
  BY Zenon, <1>6, RotatedOwner DEF Boot
<1> QED
  BY <1>1, <1>2, <1>3, <1>4, <1>5, <1>6 DEF OwnerActs

LEMMA DisableMoves ==
  ASSUME StoreTypeOK, GenerationsDrawn, NEW i \in Installs, DisableInstallation(i)
  PROVE  /\ StoreMoves /\ owner' = owner /\ Revokes(i)
         /\ row'[i].state # "active" /\ (\A j \in Installs \ {i} : row'[j] = row[j])
<1> DEFINE r == Disabled(row[i], fresh + 1)
<1>1. row[i] \in Row /\ fresh \in Nat /\ row' = [row EXCEPT ![i] = r] /\ fresh' = fresh + 1 /\ owner' = owner
  BY DEF DisableInstallation, StoreTypeOK
<1>2. row'[i] = r /\ \A j \in Installs \ {i} : row'[j] = row[j]
  BY <1>1 DEF StoreTypeOK
<1>3. CASE row[i] = NoRow
  <2>1. r = NoRow /\ r \in Row
    BY <1>3 DEF Disabled, Row
  <2>2. StoreMoves
    BY Zenon, <1>1, <1>3, <2>1, OneRedrawn
  <2> QED
    BY <1>1, <1>2, <1>3, <2>1, <2>2 DEF Revokes, NoRow
<1>4. CASE row[i] # NoRow
  <2>0. fresh + 1 \in Nat
    BY <1>1
  <2>1. r \in KnownRow /\ r.state = "disabled" /\ r.generation = fresh + 1 /\ r.token = fresh + 1
    BY <1>1, <1>4, <2>0, DisabledRow
  <2>2. r \in Row
    BY <2>1 DEF Row
  <2> HIDE DEF r
  <2>3. StoreMoves
    <3>1. r.token <= fresh + 1
      BY <1>1, <2>1
    <3> QED
      BY Zenon, <1>1, <2>1, <2>2, <3>1, OneRedrawn
  <2>4. row[i].generation <= fresh
    BY DEF GenerationsDrawn
  <2>5. row[i].generation \in Nat
    BY <1>1, <1>4 DEF Row, KnownRow
  <2> QED
    <3>1. row'[i].generation = fresh + 1 /\ row'[i].state = "disabled"
      BY <1>2, <2>1
    <3>2. Revokes(i)
      BY <1>1, <2>4, <2>5, <3>1 DEF Revokes
    <3> QED
      BY <1>1, <1>2, <2>3, <3>1, <3>2
<1> QED
  BY <1>3, <1>4

LEMMA FenceMoves ==
  ASSUME StoreTypeOK, GenerationsDrawn, NEW i \in Installs, Stored(i),
         row' = [row EXCEPT ![i] = Fenced(@, fresh + 1)], fresh' = fresh + 1, owner' = owner
  PROVE  /\ StoreMoves /\ Revokes(i)
         /\ row'[i].state # "active" /\ (\A j \in Installs \ {i} : row'[j] = row[j])
<1> DEFINE r == Fenced(row[i], fresh + 1)
<1>1. row[i] \in Row /\ row[i] # NoRow /\ fresh \in Nat /\ fresh + 1 \in Nat
  BY DEF StoreTypeOK, Stored, NoRow
<1>2. row'[i] = r /\ \A j \in Installs \ {i} : row'[j] = row[j]
  BY DEF StoreTypeOK
<1>3. r \in KnownRow /\ r.state = "disabled" /\ r.generation = fresh + 1 /\ r.token = fresh + 1
  BY Zenon, <1>1, FencedRow
<1>4. r \in Row /\ r.token <= fresh + 1 /\ row' = [row EXCEPT ![i] = r]
  BY <1>1, <1>3 DEF Row
<1> HIDE DEF r
<1>5. StoreMoves
  BY Zenon, <1>1, <1>3, <1>4, OneRedrawn
<1>6. row[i].generation <= fresh /\ row[i].generation \in Nat
  BY <1>1 DEF GenerationsDrawn, Row, KnownRow
<1>7. Revokes(i)
  BY <1>1, <1>2, <1>3, <1>6 DEF Revokes
<1> QED
  BY <1>2, <1>3, <1>5, <1>7

LEMMA PreparedRow ==
  ASSUME StoreTypeOK, NEW i \in Installs, NEW want \in Want, NEW t \in Nat
  PROVE  \/ Prepared(i, want, t) = row[i] /\ row[i].state = "active" /\ row[i].token = t
         \/ /\ Prepared(i, want, t) \in KnownRow /\ Prepared(i, want, t).state = "disabled"
            /\ Prepared(i, want, t).generation = fresh + 1 /\ Prepared(i, want, t).token = t
<1>1. SharedVersion(i, want.roots) \in Versions /\ fresh + 1 \in Nat
  BY DEF SharedVersion, Versions, StoreTypeOK
<1> DEFINE v == SharedVersion(i, want.roots)
<1> HIDE DEF v
<1>2. v \in Versions
  BY <1>1 DEF v
<1>3. \/ Prepared(i, want, t) = row[i] /\ row[i].state = "active" /\ row[i].token = t
      \/ Prepared(i, want, t) = [state |-> "disabled", generation |-> fresh + 1, token |-> t, mode |-> want.mode,
                                 roots |-> want.roots, version |-> v]
  BY DEF Prepared, v
<1>4. [state |-> "disabled", generation |-> fresh + 1, token |-> t, mode |-> want.mode,
       roots |-> want.roots, version |-> v] \in KnownRow
  BY <1>1, <1>2 DEF KnownRow, Want
<1> QED
  BY <1>3, <1>4

LEMMA PrepareMoves ==
  ASSUME StoreTypeOK, GenerationsDrawn, NEW i \in Installs, NEW want \in Want, NEW t \in Nat, t <= fresh + 1,
         row' = [row EXCEPT ![i] = Prepared(i, want, t)], fresh' = fresh + 1, owner' = owner
  PROVE  /\ StoreMoves /\ (\A j \in Installs \ {i} : row'[j] = row[j])
         /\ \/ row'[i] = row[i] /\ row[i].state = "active" /\ row[i].token = t
            \/ row'[i] # row[i] /\ row'[i].state = "disabled" /\ row'[i].generation = fresh + 1
               /\ row'[i] \in KnownRow
<1> DEFINE r == Prepared(i, want, t)
<1>1. row[i] \in Row /\ fresh \in Nat /\ fresh + 1 \in Nat
  BY DEF StoreTypeOK
<1>2. row'[i] = r /\ row' = [row EXCEPT ![i] = r] /\ \A j \in Installs \ {i} : row'[j] = row[j]
  BY DEF StoreTypeOK
<1>3. \/ r = row[i] /\ row[i].state = "active" /\ row[i].token = t
      \/ r \in KnownRow /\ r.state = "disabled" /\ r.generation = fresh + 1 /\ r.token = t
  BY PreparedRow
<1> HIDE DEF r
<1>4. r \in Row
  BY <1>1, <1>3 DEF Row
<1>5. StoreMoves
  BY Zenon, <1>1, <1>2, <1>3, <1>4, OneRedrawn
<1>6. row[i].generation <= fresh /\ row[i].generation \in Nat
  BY <1>1 DEF GenerationsDrawn, Row, KnownRow, NoRow
<1> QED
  BY <1>1, <1>2, <1>3, <1>5, <1>6

\* The rows that change only become active, or what they were.
LEMMA RestateMoves ==
  ASSUME StoreTypeOK, GenerationsDrawn, UNCHANGED <<owner, fresh>>, row' \in [Installs -> Row],
         \A i \in Installs : row'[i] = row[i]
             \/ \E s \in {"active", "disabled"} : row[i] # NoRow /\ row'[i] = [row[i] EXCEPT !.state = s]
  PROVE  /\ StoreMoves
         /\ \A i \in Installs : row'[i].generation = row[i].generation /\ row'[i].token = row[i].token
<1>1. ASSUME NEW i \in Installs, NEW s \in {"active", "disabled"}, row[i] # NoRow, row'[i] = [row[i] EXCEPT !.state = s]
      PROVE  Restated(i)
  <2>1. row[i] \in KnownRow
    BY <1>1 DEF StoreTypeOK, Row
  <2> QED
    BY <1>1, <2>1 DEF Restated, KnownRow
<1>2. \A i \in Installs : row'[i] = row[i] \/ Restated(i)
  BY <1>1
<1>3. \A i \in Installs : ~Redrawn(i)
  BY DEF Redrawn, StoreTypeOK
<1>4. RowsMove
  BY <1>2, <1>3 DEF RowsMove, StoreTypeOK
<1> QED
  BY <1>2, <1>4 DEF Restated, StoreMoves, OwnerMoves, StoreTypeOK

LEMMA InstallStartMoves ==
  ASSUME StoreTypeOK, GenerationsDrawn, NEW m \in Managers, InstallStart(m)
  PROVE  StoreMoves /\ UNCHANGED <<owner, session, tool>>
<1>1. CASE UNCHANGED store
  BY <1>1, RestMoves DEF store, StoreTypeOK
<1>2. CASE /\ \E i \in Installs : Stored(i) /\ row' = [row EXCEPT ![i] = Fenced(@, fresh + 1)]
           /\ fresh' = fresh + 1 /\ UNCHANGED <<owner, session, tool>>
  BY Zenon, <1>2, FenceMoves
<1> QED
  BY <1>1, <1>2 DEF InstallStart, store

LEMMA InstallPrepareMoves ==
  ASSUME HooksTypeOK, GenerationsDrawn, FilesSound, NEW m \in Managers, InstallPrepare(m)
  PROVE  LET r == mgr[m]
             t == IF Repeats(r) THEN file[r.inst].token ELSE fresh + 1
         IN  /\ StoreMoves /\ UNCHANGED <<owner, session, tool>> /\ t \in Nat /\ t <= fresh'
             /\ \A j \in Installs \ {r.inst} : row'[j] = row[j]
             /\ \/ row'[r.inst] = row[r.inst] /\ row[r.inst].state = "active" /\ row[r.inst].token = t
                \/ row'[r.inst] # row[r.inst] /\ row'[r.inst].state = "disabled"
                   /\ row'[r.inst].generation = fresh + 1 /\ row'[r.inst] \in KnownRow
             /\ row' = [row EXCEPT ![r.inst] = Prepared(r.inst, r.want, t)] /\ fresh' = fresh + 1
<1> DEFINE r == mgr[m]
           t == IF Repeats(r) THEN file[r.inst].token ELSE fresh + 1
<1>1. r \in Installing /\ StoreTypeOK /\ fresh \in Nat
  BY ManagerKinds DEF InstallPrepare, HooksTypeOK, StoreTypeOK
<1>2. r.inst \in Installs /\ r.want \in Want
  BY <1>1 DEF Installing
<1>3. t \in Nat /\ t <= fresh + 1
  <2>1. CASE Repeats(r)
    <3>1. file[r.inst].state = "active"
      BY Zenon, <2>1 DEF InstallPrepare, Held
    <3>2. file[r.inst] \in ActiveFile
      BY <1>2, <3>1, FileKinds DEF HooksTypeOK
    <3>3. file[r.inst].token \in Nat /\ file[r.inst].token <= fresh
      BY <1>2, <3>1, <3>2 DEF ActiveFile, FilesSound
    <3> QED
      BY <1>1, <2>1, <3>3
  <2> QED
    BY <1>1, <2>1
<1>4. row' = [row EXCEPT ![r.inst] = Prepared(r.inst, r.want, t)] /\ fresh' = fresh + 1
      /\ UNCHANGED <<owner, session, tool>>
  BY DEF InstallPrepare
<1> HIDE DEF r, t
<1>5. PICK i \in Installs, want \in Want, u \in Nat : i = r.inst /\ want = r.want /\ u = t
  BY <1>2, <1>3
<1>6. /\ StoreMoves /\ (\A j \in Installs \ {i} : row'[j] = row[j])
      /\ \/ row'[i] = row[i] /\ row[i].state = "active" /\ row[i].token = u
         \/ row'[i] # row[i] /\ row'[i].state = "disabled" /\ row'[i].generation = fresh + 1
            /\ row'[i] \in KnownRow
  <2>1. row' = [row EXCEPT ![i] = Prepared(i, want, u)] /\ fresh' = fresh + 1 /\ owner' = owner /\ u <= fresh + 1
    BY <1>3, <1>4, <1>5
  <2> QED
    BY Zenon, <1>1, <2>1, PrepareMoves
<1> QED
  BY <1>1, <1>3, <1>4, <1>5, <1>6 DEF r, t

LEMMA ActivateStartMoves ==
  ASSUME StoreTypeOK, GenerationsDrawn, NEW S \in SUBSET Installs, Plannable(S),
         row' = [i \in Installs |-> IF i \in S THEN [Fenced(row[i], fresh + i) EXCEPT !.version = 2] ELSE row[i]],
         owner' = [owner EXCEPT !.generation = fresh + 1], fresh' = fresh + NInstalls
  PROVE  /\ StoreMoves /\ (\A i \in Installs \ S : row'[i] = row[i])
         /\ \A i \in S : /\ row[i] # NoRow /\ row'[i].state = "disabled"
                         /\ row'[i].generation = fresh + i /\ row'[i].token = fresh + i
<1>1. \A i \in Installs : i \in Nat
  BY HookAssumption DEF Installs
<1>2. \A i \in S : row'[i] = [Fenced(row[i], fresh + i) EXCEPT !.version = 2]
  OBVIOUS
<1>3. ASSUME NEW i \in S
      PROVE  /\ row[i] # NoRow /\ row'[i] \in KnownRow /\ row'[i].state = "disabled"
             /\ row'[i].generation = fresh + i /\ row'[i].token = fresh + i
  <2>1. row[i] \in Row /\ row[i] # NoRow /\ fresh + i \in Nat
    BY <1>1 DEF Plannable, Stored, NoRow, StoreTypeOK
  <2> QED
    BY <1>2, <2>1, FencedRow
<1>4. row' \in [Installs -> Row] /\ \A i \in Installs \ S : row'[i] = row[i]
  BY Zenon, <1>3 DEF StoreTypeOK, Row
<1>5. StoreMoves
  BY Zenon, <1>3, <1>4, SomeRedrawn
<1> QED
  BY <1>3, <1>4, <1>5

LEMMA ActivateFailMoves ==
  ASSUME StoreTypeOK, GenerationsDrawn, NEW S \in SUBSET Installs,
         row' = [i \in Installs |-> IF i \in S THEN Fenced(row[i], fresh + i) ELSE row[i]],
         owner' = [owner EXCEPT !.generation = fresh + 1], fresh' = fresh + NInstalls
  PROVE  /\ StoreMoves /\ (\A i \in Installs \ S : row'[i] = row[i])
         /\ \A i \in S : row'[i].state # "active"
<1>1. \A i \in Installs : i \in Nat
  BY HookAssumption DEF Installs
<1>2. \A i \in S : row'[i] = Fenced(row[i], fresh + i)
  OBVIOUS
<1>3. ASSUME NEW i \in S
      PROVE  \/ row'[i] = row[i] /\ row[i] = NoRow
             \/ /\ row'[i] \in KnownRow /\ row'[i].state = "disabled"
                /\ row'[i].generation = fresh + i /\ row'[i].token = fresh + i
  <2>1. row[i] \in Row /\ fresh + i \in Nat
    BY <1>1 DEF StoreTypeOK
  <2>2. CASE row[i] = NoRow
    BY Zenon, <1>2, <2>2 DEF Fenced
  <2>3. CASE row[i] # NoRow
    BY Zenon, <1>2, <2>1, <2>3, FencedRow
  <2> QED
    BY <2>2, <2>3
<1>4. row' \in [Installs -> Row] /\ \A i \in Installs \ S : row'[i] = row[i]
  BY Zenon, <1>3 DEF StoreTypeOK, Row
<1>5. StoreMoves
  BY Zenon, <1>3, <1>4, SomeRedrawn
<1>6. \A i \in S : row'[i].state # "active"
  BY <1>3 DEF NoRow
<1> QED
  BY <1>4, <1>5, <1>6

LEMMA InstallCommitMoves ==
  ASSUME HooksTypeOK, GenerationsDrawn, ManagersSound, NEW m \in Managers, InstallCommit(m)
  PROVE  LET i == mgr[m].inst
         IN  /\ StoreMoves /\ UNCHANGED <<owner, session, tool, fresh>> /\ i \in Installs /\ row[i] \in KnownRow
             /\ row' = [row EXCEPT ![i] = [row[i] EXCEPT !.state = "active"]]
             /\ \A j \in Installs : row'[j].generation = row[j].generation /\ row'[j].token = row[j].token
<1> DEFINE r == mgr[m]
<1>1. r \in Installing /\ r.inst \in Installs /\ r.pc = "commit" /\ row[r.inst].generation = r.generation
      /\ r.op = "install"
  BY ManagerKinds DEF InstallCommit, HooksTypeOK, Installing
<1>2. r.generation \in 1 .. fresh /\ fresh \in Nat
  BY <1>1 DEF ManagersSound, InstallSound, Sound, HooksTypeOK, StoreTypeOK
<1>3. row[r.inst] # NoRow
  BY <1>1, <1>2 DEF NoRow
<1>4. row[r.inst] \in KnownRow
  BY <1>1, <1>3 DEF HooksTypeOK, StoreTypeOK, Row
<1>5. row' = [row EXCEPT ![r.inst] = [row[r.inst] EXCEPT !.state = "active"]] /\ UNCHANGED <<owner, session, tool, fresh>>
  BY DEF InstallCommit
<1> HIDE DEF r
<1>6. PICK i \in Installs : i = r.inst
  BY <1>1
<1>7. [row[i] EXCEPT !.state = "active"] \in Row
  BY <1>4, <1>6 DEF Row, KnownRow
<1>8. /\ row' \in [Installs -> Row] /\ \A j \in Installs \ {i} : row'[j] = row[j]
      /\ row'[i] = [row[i] EXCEPT !.state = "active"]
  BY <1>5, <1>6, <1>7 DEF HooksTypeOK, StoreTypeOK
<1>9. \A j \in Installs : row'[j] = row[j]
        \/ \E s \in {"active", "disabled"} : row[j] # NoRow /\ row'[j] = [row[j] EXCEPT !.state = s]
  BY <1>3, <1>6, <1>8
<1>10. /\ StoreMoves
       /\ \A j \in Installs : row'[j].generation = row[j].generation /\ row'[j].token = row[j].token
  BY <1>5, <1>8, <1>9, RestateMoves DEF HooksTypeOK
<1> QED
  BY <1>1, <1>4, <1>5, <1>10 DEF r

LEMMA ActivateCommitMoves ==
  ASSUME HooksTypeOK, GenerationsDrawn, ManagersSound, NEW m \in Managers, ActivateCommit(m)
  PROVE  LET r == mgr[m]
         IN  /\ StoreMoves /\ UNCHANGED <<owner, session, tool, fresh>> /\ r \in Activating
             /\ \A i \in Installs \ r.sel : row'[i] = row[i]
             /\ \A i \in r.sel : row'[i].state = r.before[i].state
                                 /\ row[i].generation = Drawn(r, i) /\ row[i].token = Drawn(r, i)
             /\ \A i \in Installs : row'[i].generation = row[i].generation /\ row'[i].token = row[i].token
<1> DEFINE r == mgr[m]
<1>1. r \in Activating /\ r.op = "activate" /\ Checkpoint(r, FALSE)
  BY Zenon, ManagerKinds DEF ActivateCommit, HooksTypeOK
<1>2. /\ row' = [i \in Installs |-> IF i \in r.sel THEN [row[i] EXCEPT !.state = r.before[i].state] ELSE row[i]]
      /\ UNCHANGED <<owner, session, tool, fresh>>
  BY DEF ActivateCommit
<1>3. r.sel \subseteq Installs /\ r.before \in [Installs -> Row]
  BY <1>1 DEF Activating
<1>4. ASSUME NEW i \in r.sel
      PROVE  /\ row[i] \in KnownRow /\ r.before[i].state \in {"active", "disabled"}
             /\ row[i].generation = Drawn(r, i) /\ row[i].token = Drawn(r, i)
  <2>1. r.before[i] # NoRow /\ Drawn(r, i) \in Nat /\ r.before[i] \in Row
    BY <1>1, <1>3 DEF ManagersSound, ActivateSound, Sound
  <2>2. row[i] = [Fenced(r.before[i], Drawn(r, i)) EXCEPT !.version = 2, !.state = "disabled"]
    BY Zenon, <1>1, <1>3, <2>1 DEF Checkpoint
  <2>3. PICK b \in KnownRow, n \in Nat : b = r.before[i] /\ n = Drawn(r, i)
    BY <2>1 DEF Row
  <2>4. b # NoRow
    BY DEF NoRow, KnownRow
  <2>5. /\ [Fenced(b, n) EXCEPT !.version = 2, !.state = "disabled"] \in KnownRow
        /\ [Fenced(b, n) EXCEPT !.version = 2, !.state = "disabled"].generation = n
        /\ [Fenced(b, n) EXCEPT !.version = 2, !.state = "disabled"].token = n
    BY Zenon, <2>4 DEF Fenced, KnownRow, Versions
  <2> QED
    BY <2>2, <2>3, <2>5 DEF KnownRow
<1>5. \A i \in r.sel : row'[i] = [row[i] EXCEPT !.state = r.before[i].state]
  BY <1>2, <1>3
<1>6. \A i \in Installs \ r.sel : row'[i] = row[i]
  BY <1>2
<1> HIDE DEF r
<1>7. ASSUME NEW i \in r.sel
      PROVE  row'[i] \in Row /\ row'[i].state = r.before[i].state /\ row[i] # NoRow
  <2>1. PICK b \in KnownRow, s \in {"active", "disabled"} : b = row[i] /\ s = r.before[i].state
    BY <1>4, <1>7
  <2>2. row'[i] = [b EXCEPT !.state = s]
    BY <1>5, <1>7, <2>1
  <2>3. [b EXCEPT !.state = s] \in KnownRow /\ [b EXCEPT !.state = s].state = s /\ b # NoRow
    BY DEF KnownRow, NoRow
  <2> QED
    BY <2>1, <2>2, <2>3 DEF Row
<1>8. row' \in [Installs -> Row]
  BY Zenon, <1>2, <1>6, <1>7 DEF HooksTypeOK, StoreTypeOK
<1>9. \A i \in Installs : row'[i] = row[i]
        \/ \E s \in {"active", "disabled"} : row[i] # NoRow /\ row'[i] = [row[i] EXCEPT !.state = s]
  BY <1>4, <1>5, <1>6, <1>7
<1>10. /\ StoreMoves
       /\ \A j \in Installs : row'[j].generation = row[j].generation /\ row'[j].token = row[j].token
  BY Zenon, <1>2, <1>8, <1>9, RestateMoves DEF HooksTypeOK
<1> QED
  BY Zenon, <1>1, <1>2, <1>4, <1>6, <1>7, <1>10 DEF r

\* Management that disables or redraws one row, or none.
ManagerDisables(m) ==
  InstallInactive(m) \/ InstallFails(m) \/ UninstallStart(m) \/ UninstallLock(m)

LEMMA ManagerDisablesMoves ==
  ASSUME HooksTypeOK, GenerationsDrawn, NEW m \in Managers, ManagerDisables(m)
  PROVE  /\ StoreMoves /\ UNCHANGED <<owner, session, tool>>
         /\ UNCHANGED store \/ \E i \in Installs : DisableInstallation(i)
<1>1. CASE \E i \in Installs : DisableInstallation(i)
  BY Zenon, <1>1, DisableMoves DEF DisableInstallation, HooksTypeOK
<1>2. CASE UNCHANGED store
  BY <1>2, RestMoves DEF store, StoreTypeOK, HooksTypeOK
<1>3. (\E i \in Installs : DisableInstallation(i)) \/ UNCHANGED store
  <2>1. CASE InstallInactive(m)
    BY <2>1, ManagerKinds DEF InstallInactive, Disables, HooksTypeOK, Installing
  <2>2. CASE InstallFails(m)
    BY <2>2, ManagerKinds DEF InstallFails, HooksTypeOK, Installing
  <2>3. CASE UninstallStart(m)
    BY <2>3 DEF UninstallStart, Disables
  <2>4. CASE UninstallLock(m)
    BY <2>4, ManagerKinds DEF UninstallLock, Disables, HooksTypeOK, Uninstalling
  <2> QED
    BY <2>1, <2>2, <2>3, <2>4 DEF ManagerDisables
<1> QED
  BY <1>1, <1>2, <1>3

\* Management that has a lemma of its own.
ManagerCommits(m) ==
  InstallStart(m) \/ InstallPrepare(m) \/ InstallCommit(m) \/ ActivateStart(m) \/ ActivateCommit(m) \/ ActivateFail(m)

ManagerActs(m) == ManagerWaits(m) \/ ManagerDisables(m) \/ ManagerCommits(m)

LEMMA StepKinds ==
  ASSUME Next
  PROVE  \/ \E c \in Callbacks : CallbackActs(c)
         \/ \E k \in scenario.sessions : Write(k) \/ DeleteCaptured(k)
         \/ OwnerActs
         \/ \E m \in Managers : ManagerActs(m)
<1>1. CASE CallbackNext
  BY <1>1 DEF CallbackNext, CallbackActs, OwnerActs
<1>2. CASE ManagerNext
  BY <1>2 DEF ManagerNext, ManagerActs, ManagerWaits, ManagerDisables, ManagerCommits
<1> QED
  BY <1>1, <1>2 DEF Next

LEMMA ManagerCommitsMoves ==
  ASSUME HooksTypeOK, GenerationsDrawn, CredentialsSound, NEW m \in Managers, ManagerCommits(m)
  PROVE  StoreMoves /\ UNCHANGED <<session, tool>>
<1>0. StoreTypeOK /\ ServiceTypeOK /\ FilesSound /\ ManagersSound
  BY DEF HooksTypeOK, CredentialsSound
<1>1. CASE InstallStart(m)
  BY <1>0, <1>1, InstallStartMoves
<1>2. CASE InstallPrepare(m)
  BY <1>0, <1>2, InstallPrepareMoves
<1>3. CASE InstallCommit(m)
  BY Zenon, <1>0, <1>3, InstallCommitMoves
<1>4. CASE ActivateStart(m)
  <2>1. PICK S \in SUBSET Installs :
          /\ Plannable(S)
          /\ row' = [i \in Installs |-> IF i \in S THEN [Fenced(row[i], fresh + i) EXCEPT !.version = 2] ELSE row[i]]
          /\ owner' = [owner EXCEPT !.generation = fresh + 1] /\ fresh' = fresh + NInstalls
          /\ UNCHANGED <<session, tool>>
    BY <1>4 DEF ActivateStart
  <2> QED
    BY <1>0, <2>1, ActivateStartMoves
<1>5. CASE ActivateCommit(m)
  BY <1>0, <1>5, ActivateCommitMoves
<1>6. CASE ActivateFail(m)
  <2>1. CASE owner.active
    <3>1. PICK S \in SUBSET Installs : S = mgr[m].sel
      BY <1>0, <1>6, ManagerKinds DEF ActivateFail, Activating
    <3>2. /\ row' = [i \in Installs |-> IF i \in S THEN Fenced(row[i], fresh + i) ELSE row[i]]
          /\ owner' = [owner EXCEPT !.generation = fresh + 1] /\ fresh' = fresh + NInstalls
          /\ UNCHANGED <<session, tool>>
      BY <1>6, <2>1, <3>1 DEF ActivateFail
    <3> QED
      BY <1>0, <3>2, ActivateFailMoves
  <2>2. CASE ~owner.active
    BY <1>0, <1>6, <2>2, RestMoves DEF ActivateFail, store, StoreTypeOK
  <2> QED
    BY <2>1, <2>2
<1> QED
  BY <1>1, <1>2, <1>3, <1>4, <1>5, <1>6 DEF ManagerCommits

LEMMA ManagerMoves ==
  ASSUME HooksTypeOK, GenerationsDrawn, CredentialsSound, NEW m \in Managers, ManagerActs(m)
  PROVE  StoreMoves /\ UNCHANGED <<session, tool>>
<1>1. CASE ManagerWaits(m)
  BY <1>1, ManagerRests, RestMoves DEF store, HooksTypeOK, StoreTypeOK
<1>2. CASE ManagerDisables(m)
  BY <1>2, ManagerDisablesMoves
<1>3. CASE ManagerCommits(m)
  BY <1>3, ManagerCommitsMoves
<1> QED
  BY <1>1, <1>2, <1>3 DEF ManagerActs

LEMMA NextMoves ==
  ASSUME HooksTypeOK, GenerationsDrawn, CredentialsSound, [Next]_vars
  PROVE  StoreMoves
<1>0. StoreTypeOK
  BY DEF HooksTypeOK
<1>1. CASE \E c \in Callbacks : CallbackActs(c)
  BY <1>0, <1>1, CallbackRests, RestMoves DEF StoreTypeOK
<1>2. CASE \E k \in scenario.sessions : Write(k) \/ DeleteCaptured(k)
  BY <1>0, <1>2, RestMoves DEF Write, DeleteCaptured, DeleteRun, store, StoreTypeOK
<1>3. CASE OwnerActs
  BY <1>0, <1>3, OwnerMovesOn
<1>4. CASE \E m \in Managers : ManagerActs(m)
  BY <1>4, ManagerMoves
<1>5. CASE UNCHANGED vars
  BY <1>0, <1>5, RestMoves DEF vars, store, StoreTypeOK
<1> QED
  BY <1>1, <1>2, <1>3, <1>4, <1>5, StepKinds

-----------------------------------------------------------------------------
(* The type invariant. *)

FileType == ActiveFile \cup {NoFile, DisabledFile}
CallbackType == Working \cup {Quiet, Over}
ManagerType == Installing \cup Uninstalling \cup Activating \cup {Idle}

LEMMA FilesRevokedTyped ==
  ASSUME ServiceTypeOK, NEW S \in SUBSET Installs
  PROVE  FilesRevoked(S) \in [Installs -> FileType]
<1>1. ASSUME NEW i \in Installs, file[i].state = "active" PROVE [file[i] EXCEPT !.old = TRUE] \in ActiveFile
  BY Zenon, <1>1, FileKinds DEF ActiveFile
<1> QED
  BY <1>1 DEF FilesRevoked, FileType, ServiceTypeOK

LEMMA AliveWorks ==
  ASSUME ServiceTypeOK, NEW c \in Callbacks, Alive(c)
  PROVE  cb[c] \in Working
BY DEF ServiceTypeOK, Alive, Quiet, Over

LEMMA CallbacksRevokedTyped ==
  ASSUME ServiceTypeOK, NEW S
  PROVE  CallbacksRevoked(S) \in [Callbacks -> CallbackType]
<1>1. ASSUME NEW c \in Callbacks, Alive(c) PROVE [cb[c] EXCEPT !.cap.old = TRUE] \in Working
  BY Zenon, <1>1, AliveWorks, WorkingMoves
<1> QED
  BY <1>1 DEF CallbacksRevoked, CallbackType, ServiceTypeOK

LEMMA ManagersRevokedTyped ==
  ASSUME ServiceTypeOK, NEW S \in SUBSET Installs
  PROVE  ManagersRevoked(S) \in [Managers -> ManagerType]
<1>1. ASSUME NEW m \in Managers, mgr[m] # Idle PROVE [mgr[m] EXCEPT !.revoked = @ \cup S] \in ManagerType
  BY Zenon, <1>1, ManagerRevoked DEF ServiceTypeOK, ManagerType
<1> QED
  BY <1>1 DEF ManagersRevoked, ManagerType, ServiceTypeOK

\* A set of numbers has a least one, and a line from which one is taken is a line.
LEMMA Least ==
  ASSUME NEW S \in SUBSET Nat, S # {}
  PROVE  \E x \in S : \A y \in S : x <= y
<1> DEFINE R == OpToRel(<, Nat)
<1>1. IsWellFoundedOn(R, Nat)
  BY Zenon, NatLessThanWellFounded
<1>2. \A x, y \in Nat : <<x, y>> \in R <=> x < y
  BY DEF OpToRel
<1> HIDE DEF R
<1>3. \E x \in S : \A y \in S : ~(<<y, x>> \in R)
  BY Zenon, <1>1, WFMin
<1>4. PICK x \in S : \A y \in S : ~(<<y, x>> \in R)
  BY <1>3
<1>5. \A y \in S : x <= y
  <2> TAKE y \in S
  <2>1. x \in Nat /\ y \in Nat /\ ~(y < x)
    BY Zenon, <1>2, <1>4
  <2> QED
    BY <2>1
<1> QED
  BY <1>5

LEMMA RemoveFirstTyped ==
  ASSUME NEW E, NEW s \in Seq(E), NEW e
  PROVE  RemoveFirst(s, e) \in Seq(E)
<1>1. CASE ~\E i \in 1 .. Len(s) : s[i] = e
  BY <1>1 DEF RemoveFirst
<1>2. CASE \E i \in 1 .. Len(s) : s[i] = e
  <2> DEFINE found == {i \in 1 .. Len(s) : s[i] = e}
             k == SelectInSeq(s, LAMBDA v : v = e)
  <2>1. found \in SUBSET Nat /\ found # {} /\ found \subseteq 1 .. Len(s)
    BY <1>2
  <2>2. k = Min(found)
    BY <2>1 DEF SelectInSeq
  <2> HIDE DEF found
  <2>3. k \in 1 .. Len(s)
    BY Zenon, <2>1, <2>2, Least DEF Min
  <2>4. RemoveFirst(s, e) = RemoveAt(s, k)
    BY <1>2 DEF RemoveFirst
  <2> HIDE DEF k
  <2>5. SubSeq(s, 1, k - 1) \in Seq(E)
    BY <2>3, SubSeqProperties
  <2>6. SubSeq(s, k + 1, Len(s)) \in Seq(E)
    BY <2>3, SubSeqProperties
  <2> QED
    BY <2>4, <2>5, <2>6 DEF RemoveAt
<1> QED
  BY <1>1, <1>2

LEMMA CallbackChanges ==
  ASSUME NEW x \in CallbackType
  PROVE  [x EXCEPT !.place = "active"] \in CallbackType /\ [x EXCEPT !.aborted = TRUE] \in CallbackType
<1>1. CASE x \in Working
  BY Zenon, <1>1, WorkingMoves DEF CallbackType
<1>2. CASE x = Quiet \/ x = Over
  BY <1>2 DEF CallbackType, Quiet, Over
<1> QED
  BY <1>1, <1>2 DEF CallbackType

LEMMA AbortedTyped ==
  ASSUME NEW n, NEW callbacks \in [Callbacks -> CallbackType]
  PROVE  Aborted(n, callbacks) \in [Callbacks -> CallbackType]
<1>1. \A c \in Callbacks : [callbacks[c] EXCEPT !.aborted = TRUE] \in CallbackType /\ callbacks[c] \in CallbackType
  BY Zenon, CallbackChanges
<1> QED
  BY <1>1 DEF Aborted, CallbackType

LEMMA ReleaseTyped ==
  ASSUME ServiceTypeOK, NEW c \in Callbacks, NEW next \in CallbackType, Release(c, next)
  PROVE  cb' \in [Callbacks -> CallbackType] /\ ctl' \in Seq(Controller) /\ Len(ctl') = Len(ctl)
<1> DEFINE n == cb[c].at
           line == RemoveFirst(ctl[n].line, c)
           runs == cb[c].place = "active" /\ Accepts(n) /\ line # <<>>
           left == IF runs THEN Tail(line) ELSE line
<1>1. ctl' = [ctl EXCEPT ![n].line = left]
  BY DEF Release
<1>2. cb' = [d \in Callbacks |->
                  IF d = c THEN next
                  ELSE IF runs /\ d = Head(line) THEN [cb[d] EXCEPT !.place = "active"] ELSE cb[d]]
  BY DEF Release
<1>3. ASSUME n \in DOMAIN ctl PROVE left \in Seq(Callbacks)
  <2>1. ctl[n] \in Controller
    BY <1>3, ElementOfSeq DEF ServiceTypeOK
  <2>2. line \in Seq(Callbacks)
    BY <2>1, RemoveFirstTyped DEF Controller
  <2> HIDE DEF line
  <2> QED
    BY <2>2
<1> HIDE DEF n, line, runs, left
<1>4. ctl' \in Seq(Controller) /\ Len(ctl') = Len(ctl)
  <2>1. CASE n \in DOMAIN ctl
    <3>1. ctl \in Seq(Controller) /\ n \in 1 .. Len(ctl) /\ ctl[n] \in Controller
      BY <2>1, ElementOfSeq DEF ServiceTypeOK
    <3>2. [ctl[n] EXCEPT !.line = left] \in Controller
      BY Zenon, <1>3, <2>1, <3>1 DEF Controller
    <3>3. ctl' = [ctl EXCEPT ![n] = [ctl[n] EXCEPT !.line = left]]
      BY <1>1
    <3> QED
      BY <3>1, <3>2, <3>3, ExceptSeq
  <2>2. CASE n \notin DOMAIN ctl
    <3>1. ctl' = ctl
      BY <1>1, <2>2 DEF ServiceTypeOK
    <3> QED
      BY <3>1 DEF ServiceTypeOK
  <2> QED
    BY <2>1, <2>2
<1>5. \A d \in Callbacks : cb[d] \in CallbackType /\ [cb[d] EXCEPT !.place = "active"] \in CallbackType
  BY Zenon, CallbackChanges DEF ServiceTypeOK, CallbackType
<1>6. cb' \in [Callbacks -> CallbackType]
  BY <1>2, <1>5
<1> QED
  BY <1>4, <1>6

\* What a callback becomes when it goes on.
LEMMA GoesOn ==
  ASSUME NEW w \in Working
  PROVE  /\ \A v \in Versions : Thinks([w EXCEPT !.reply = v], "reread") \in Working
         /\ \A a \in AdmissionReply : Thinks([w EXCEPT !.reply = a], "acquire") \in Working
         /\ \A k \in Credential, pc \in {"admit1", "admit2"} :
              w.reply \in Versions => Sends([w EXCEPT !.cap = k], pc) \in Working
         /\ \A p \in PublishReply : Sends([w EXCEPT !.reply = p], "publish") \in Working
<1>1. Reads(w)
  BY WorkingReads
<1>2. \A v \in Versions : Thinks([w EXCEPT !.reply = v], "reread") \in Work({"reread", "admit1", "admit2"}, Versions)
  BY Zenon, <1>1 DEF Thinks, Working, Work
<1>3. \A a \in AdmissionReply : Thinks([w EXCEPT !.reply = a], "acquire") \in Work({"acquire"}, AdmissionReply)
  BY Zenon, <1>1 DEF Thinks, Working, Work
<1>4. \A k \in Credential, pc \in {"admit1", "admit2"} :
        w.reply \in Versions => Sends([w EXCEPT !.cap = k], pc) \in Work({"reread", "admit1", "admit2"}, Versions)
  BY Zenon, <1>1 DEF Sends, Working, Work
<1>5. \A p \in PublishReply : Sends([w EXCEPT !.reply = p], "publish") \in Work({"publish"}, PublishReply)
  BY Zenon, <1>1 DEF Sends, Working, Work
<1> QED
  BY <1>2, <1>3, <1>4, <1>5 DEF Working

LEMMA CapabilityTyped ==
  ASSUME NEW f \in ActiveFile
  PROVE  Capability(f) \in Credential
BY DEF Capability, ActiveFile, Credential

LEMMA ObservedTyped ==
  ASSUME NEW event \in Events, NEW lines \in Seq(Outcomes), NEW cursor \in Nat, NEW body \in BOOLEAN
  PROVE  LET o == Observed(event, lines, cursor, body)
         IN  o = NoEntity \/ (o \in Observation /\ InOrder(o) /\ o.body = body)
<1> DEFINE news  == (cursor + 1) .. Len(lines)
           since == {n \in news : \A m \in news : m >= n => lines[m] # "unknown"}
           told  == {lines[n] : n \in since} \cup (IF since = news THEN {event} \ {"pending", "none"} ELSE {})
           phase == IF told = {} THEN IF news = {} THEN "pending" ELSE "unknown"
                    ELSE IF Cardinality(told) > 1 THEN "conflict" ELSE CHOOSE p \in told : TRUE
<1>1. told \subseteq {"success", "failure", "interrupted"}
  <2>1. \A n \in news : lines[n] \in Outcomes
    OBVIOUS
  <2>2. \A n \in since : n \in news /\ lines[n] # "unknown"
    OBVIOUS
  <2>3. {lines[n] : n \in since} \subseteq {"success", "failure"}
    BY <2>1, <2>2 DEF Outcomes
  <2>4. {event} \ {"pending", "none"} \subseteq {"success", "failure", "interrupted"}
    BY DEF Events
  <2> HIDE DEF since, news
  <2> QED
    BY <2>3, <2>4
<1>2. news # {} => Len(lines) # 0
  OBVIOUS
<1>3. Len(lines) \in Nat
  OBVIOUS
<1>4. CASE news = {} /\ event = "none"
  BY <1>4 DEF Observed
<1>5. CASE ~(news = {} /\ event = "none")
  <2>1. Observed(event, lines, cursor, body) =
          [phase |-> phase, source |-> IF news = {} THEN "hook" ELSE "transcript",
           offset |-> IF news = {} THEN 0 ELSE Len(lines), body |-> body]
    BY Zenon, <1>5 DEF Observed
  <2> HIDE DEF told, news
  <2>2. told # {} => (CHOOSE p \in told : TRUE) \in told
    BY Zenon
  <2>3. phase \in Phases /\ (phase = "pending" => news = {}) /\ (phase = "unknown" => news # {})
    BY <1>1, <2>2 DEF Phases
  <2> HIDE DEF phase
  <2>4. Observed(event, lines, cursor, body) \in Observation
    BY <1>3, <2>1, <2>3 DEF Observation
  <2>5. InOrder(Observed(event, lines, cursor, body))
    BY <1>2, <2>1, <2>3 DEF InOrder
  <2>6. Observed(event, lines, cursor, body).body = body
    BY <2>1
  <2> QED
    BY <2>4, <2>5, <2>6
<1> QED
  BY <1>4, <1>5

\* A publication takes nothing back of the entity it finds.
Keeps(prior, e) ==
  /\ e # NoEntity
  /\ e.phase = "pending" => prior.phase = "pending"
  /\ Terminal(prior.phase) /\ e.phase # prior.phase =>
       e.phase = "conflict" \/ (e.phase = "unknown" /\ e.offset > prior.offset)
  /\ prior.source = "transcript" => e.source = "transcript"
  /\ e.offset >= prior.offset

\* What took the place of the entity is the observation, under a phase of its own.
LEMMA MergedTakes ==
  ASSUME NEW prior \in Entity, NEW o \in Observation, NEW mode \in Modes,
         RetainedInOrder(prior), InOrder(o), ~Contradicts(prior, o, mode), prior # NoEntity,
         ~Superseded(prior, o, mode),
         NEW phase, phase = IF Conflicting(prior, o) THEN "conflict" ELSE o.phase
  PROVE  /\ phase \in Phases /\ o.offset >= prior.offset
         /\ phase = "pending" => prior.phase = "pending"
         /\ Terminal(prior.phase) /\ phase # prior.phase =>
              phase = "conflict" \/ (phase = "unknown" /\ o.offset > prior.offset)
         /\ phase = "pending" => o.source = "hook"
         /\ phase = "unknown" => o.source = "transcript"
         /\ Terminal(phase) => Terminal(o.phase)
<1>1. /\ prior.phase \in Phases /\ prior.offset \in Nat /\ prior.source \in {"hook", "transcript"}
      /\ o.phase \in Phases /\ o.offset \in Nat /\ o.source \in {"hook", "transcript"}
  BY DEF Entity, Observation
<1>2. phase \in Phases /\ (Terminal(phase) => Terminal(o.phase))
  BY <1>1 DEF Phases, Conflicting
<1>3. phase \in {"pending", "unknown"} => phase = o.phase
  OBVIOUS
<1>4. prior.source = "transcript" => o.source = "transcript"
  BY <1>1 DEF Superseded
<1>5. o.offset >= prior.offset
  BY <1>1, <1>4 DEF Superseded, InOrder, RetainedInOrder
<1>6. ASSUME phase = "pending" PROVE prior.phase = "pending"
  <2>1. ~Terminal(prior.phase)
    BY <1>3, <1>6 DEF Superseded
  <2>2. prior.phase # "unknown"
    BY <1>3, <1>4, <1>6 DEF InOrder, RetainedInOrder
  <2> QED
    BY <1>1, <2>1, <2>2 DEF Phases, Terminal
<1>7. ASSUME Terminal(prior.phase), phase # prior.phase, phase # "conflict"
      PROVE  phase = "unknown" /\ o.offset > prior.offset
  <2>1. phase = o.phase /\ ~Terminal(o.phase)
    BY <1>7 DEF Conflicting
  <2>2. o.phase = "unknown"
    BY <1>1, <1>7, <2>1 DEF Phases, Terminal, Superseded
  <2>3. o.offset # 0
    BY <2>2 DEF InOrder
  <2>4. o.offset # prior.offset
    <3>1. SUFFICES ASSUME o.offset = prior.offset PROVE FALSE
      OBVIOUS
    <3>2. mode = "full"
      BY <2>3, <3>1 DEF Superseded, Modes
    <3>3. o = prior.seen
      BY Zenon, <2>3, <3>1, <3>2 DEF Contradicts
    <3> QED
      BY <1>7, <2>2, <3>3 DEF RetainedInOrder, Terminal
  <2> QED
    BY <1>1, <1>5, <2>1, <2>2, <2>4
<1> QED
  BY <1>2, <1>3, <1>5, <1>6, <1>7 DEF InOrder

LEMMA MergedKeeps ==
  ASSUME NEW prior \in Entity \cup {NoEntity}, NEW o \in Observation, NEW mode \in Modes,
         prior # NoEntity => RetainedInOrder(prior), InOrder(o), ~Contradicts(prior, o, mode),
         o.body => mode = "full"
  PROVE  LET e == Merged(prior, o, mode)
         IN  /\ e \in Entity /\ RetainedInOrder(e) /\ (prior # NoEntity => Keeps(prior, e))
             /\ HasBody(e) # HasBody(prior) => mode = "full"
<1>0. \A e \in Entity : e # NoEntity
  BY DEF Entity, NoEntity, Phases
<1>1. CASE prior = NoEntity
  <2>1. Merged(prior, o, mode) = [phase |-> o.phase, source |-> o.source, offset |-> o.offset, body |-> o.body, seen |-> o]
    BY <1>1 DEF Merged
  <2>2. Merged(prior, o, mode) \in Entity
    BY <2>1 DEF Entity, Observation
  <2>3. RetainedInOrder(Merged(prior, o, mode))
    BY <2>1 DEF InOrder, RetainedInOrder
  <2>4. HasBody(Merged(prior, o, mode)) # HasBody(prior) => mode = "full"
    BY <1>1, <2>1 DEF HasBody
  <2> QED
    BY <1>1, <2>2, <2>3, <2>4
<1>2. CASE prior # NoEntity /\ Merged(prior, o, mode) = prior
  <2>1. prior \in Entity /\ prior.offset \in Nat
    BY <1>2 DEF Entity
  <2> QED
    BY <1>0, <1>2, <2>1 DEF Keeps
<1>3. CASE prior # NoEntity /\ Merged(prior, o, mode) # prior
  <2> DEFINE phase == IF Conflicting(prior, o) THEN "conflict" ELSE o.phase
             body == IF mode = "metadata" /\ prior.body THEN TRUE ELSE o.body
             e == Merged(prior, o, mode)
  <2>1. ~Superseded(prior, o, mode)
    BY Zenon, <1>3 DEF Merged
  <2>2. e = [phase |-> phase, source |-> o.source, offset |-> o.offset, body |-> body, seen |-> o]
    BY Zenon, <1>3, <2>1 DEF Merged
  <2>3. prior \in Entity
    BY <1>3
  <2>4. /\ phase \in Phases /\ o.offset >= prior.offset
        /\ phase = "pending" => prior.phase = "pending"
        /\ Terminal(prior.phase) /\ phase # prior.phase =>
             phase = "conflict" \/ (phase = "unknown" /\ o.offset > prior.offset)
        /\ phase = "pending" => o.source = "hook"
        /\ phase = "unknown" => o.source = "transcript"
        /\ Terminal(phase) => Terminal(o.phase)
    BY <1>3, <2>1, <2>3, MergedTakes
  <2>5. body \in BOOLEAN
    BY Zenon DEF Observation
  <2>6. body # prior.body => mode = "full"
    BY <2>3, <2>5 DEF Modes, Entity
  <2>7. prior.source = "transcript" => o.source = "transcript"
    BY <2>1 DEF Superseded, Observation
  <2> HIDE DEF phase, body, e
  <2>8. e \in Entity
    BY <2>2, <2>4, <2>5 DEF Entity, Observation
  <2>9. e.phase = phase /\ e.source = o.source /\ e.offset = o.offset /\ e.body = body /\ e.seen = o
    BY <2>2
  <2>10. RetainedInOrder(e)
    BY <2>4, <2>9 DEF InOrder, RetainedInOrder
  <2>11. Keeps(prior, e)
    BY <1>0, <2>4, <2>7, <2>8, <2>9 DEF Keeps
  <2>12. HasBody(e) # HasBody(prior) => mode = "full"
    BY <1>0, <1>3, <2>6, <2>8, <2>9 DEF HasBody
  <2> QED
    BY <2>8, <2>10, <2>11, <2>12 DEF e
<1> QED
  BY <1>1, <1>2, <1>3

\* The store after a step: the sessions and the tools it leaves.
SessionsTyped == session \in [Roots -> Session] /\ tool \in [Roots -> Entity \cup {NoEntity}]

LEMMA ReplyKinds ==
  ASSUME ServiceTypeOK, NEW c \in Callbacks
  PROVE  /\ cb[c].pc = "acquire" => cb[c] \in Working /\ cb[c].reply \in AdmissionReply
         /\ cb[c].pc = "publish" => cb[c] \in Working /\ cb[c].reply \in PublishReply
         /\ cb[c].pc \in {"transport", "reread", "admit1", "admit2", "acquire", "publish"} =>
              Reads(cb[c]) /\ cb[c] \in Working
<1>1. cb[c] \in Working \/ cb[c] = Quiet \/ cb[c] = Over
  BY DEF ServiceTypeOK
<1>2. CASE cb[c] \in Working
  BY <1>2, WorkingReads DEF Reads
<1>3. CASE cb[c] = Quiet \/ cb[c] = Over
  BY <1>3 DEF Quiet, Over
<1> QED
  BY <1>1, <1>2, <1>3

\* A step leaves the sessions in order and the evidence of every root as it may be.
SessionsMove ==
  /\ SessionsTyped' /\ SessionsInOrder'
  /\ \A k \in Roots : EvidenceStays(k)

LEMMA SessionsRest ==
  ASSUME StoreTypeOK, SessionsInOrder, UNCHANGED <<session, tool>>
  PROVE  SessionsMove
<1>1. SessionsTyped' /\ SessionsInOrder'
  BY DEF SessionsTyped, StoreTypeOK, SessionsInOrder
<1>2. ASSUME NEW k \in Roots PROVE EvidenceStays(k)
  <2>1. session[k] \in Session /\ tool[k] \in Entity \cup {NoEntity}
    BY DEF StoreTypeOK
  <2>2. session[k].cursor \in Nat /\ (tool[k] # NoEntity => tool[k].offset \in Nat)
    BY <2>1 DEF Session, Entity
  <2>3. session[k].state = "suppressed" => tool[k] = NoEntity
    BY DEF SessionsInOrder
  <2> QED
    BY <2>2, <2>3 DEF EvidenceStays
<1> QED
  BY <1>1, <1>2 DEF SessionsMove

LEMMA AdmissionMoves ==
  ASSUME HooksTypeOK, SessionsInOrder, NEW c \in Callbacks, Admission(c)
  PROVE  SessionsMove
<1>0. StoreTypeOK
  BY DEF HooksTypeOK
<1>1. PICK k \in Roots, via \in {"v1", "v2"} :
        session' = [session EXCEPT ![k] = Admitted(k, via)] /\ UNCHANGED <<owner, row, tool, fresh>>
  <2>1. PICK i \in Installs : /\ Serves(c, i, {"admit1", "admit2"}) /\ Dispatch(cb[c].root, row[i].version) # "refused"
          /\ session' = [session EXCEPT ![cb[c].root] = Admitted(cb[c].root, Dispatch(cb[c].root, row[i].version))]
          /\ UNCHANGED <<owner, row, tool, fresh>>
    BY Zenon DEF Admission
  <2>2. cb[c].root \in Roots
    BY <2>1, ReplyKinds DEF Serves, Reads, HooksTypeOK
  <2>3. Dispatch(cb[c].root, row[i].version) \in {"v1", "v2"}
    BY <2>1 DEF Dispatch
  <2> QED
    BY Zenon, <2>1, <2>2, <2>3
<1>2. CASE session[k].state # "absent"
  <2>1. session' = session
    BY <1>0, <1>1, <1>2 DEF Admitted, StoreTypeOK
  <2> QED
    BY <1>0, <1>1, <2>1, SessionsRest
<1>3. CASE session[k].state = "absent"
  <2> DEFINE s == Admitted(k, via)
  <2>1. s \in Session /\ s.state = "open" /\ s.inc = 0 /\ s.cursor = 0
    BY Zenon, <1>1, <1>3 DEF Admitted, NoSession, Session
  <2>2. \A j \in Roots : session'[j] = IF j = k THEN s ELSE session[j]
    BY <1>0, <1>1 DEF StoreTypeOK
  <2>3. tool[k] = NoEntity
    BY <1>3 DEF SessionsInOrder
  <2> HIDE DEF s
  <2>4. SessionsTyped'
    BY <1>0, <1>1, <2>1, <2>2 DEF SessionsTyped, StoreTypeOK
  <2>5. SessionsInOrder'
    BY <1>1, <2>1, <2>2, <2>3 DEF SessionsInOrder
  <2>6. ASSUME NEW j \in Roots PROVE EvidenceStays(j)
    <3>1. CASE j = k
      BY <1>3, <3>1 DEF EvidenceStays
    <3>2. CASE j # k
      <4>1. session[j] \in Session /\ tool[j] \in Entity \cup {NoEntity}
        BY <1>0 DEF StoreTypeOK
      <4>2. session[j].cursor \in Nat /\ (tool[j] # NoEntity => tool[j].offset \in Nat)
        BY <4>1 DEF Session, Entity
      <4>3. session[j].state = "suppressed" => tool[j] = NoEntity
        BY DEF SessionsInOrder
      <4> QED
        BY <1>1, <2>2, <3>2, <4>2, <4>3 DEF EvidenceStays
    <3> QED
      BY <3>1, <3>2
  <2> QED
    BY <2>4, <2>5, <2>6 DEF SessionsMove
<1> QED
  BY <1>2, <1>3

LEMMA PublicationMoves ==
  ASSUME HooksTypeOK, SessionsInOrder, RepliesInOrder, NEW c \in Callbacks, Publication(c)
  PROVE  SessionsMove
<1>0. StoreTypeOK /\ ServiceTypeOK
  BY DEF HooksTypeOK
<1>1. PICK i \in Installs : /\ Serves(c, i, {"publish"}) /\ cb[c].reply.generation = row[i].generation
                            /\ cb[c].root \in row[i].roots
                            /\ Publish(cb[c].root, cb[c].reply.batch, row[i].mode)
  BY DEF Publication
<1>2. cb[c].root \in Roots /\ cb[c].reply \in PublishReply /\ row[i] \in Row /\ Stored(i)
  BY <1>0, <1>1, ReplyKinds DEF Serves, Reads, Authentic, Stored, StoreTypeOK
<1>3. PICK k \in Roots, b \in Batch, mode \in Modes :
        k = cb[c].root /\ b = cb[c].reply.batch /\ mode = row[i].mode
  BY <1>2 DEF PublishReply, Row, KnownRow, NoRow, Modes
<1>4. Publish(k, b, mode)
  BY <1>1, <1>3
<1>5. b.observed # NoEntity => InOrder(b.observed) /\ (b.observed.body => mode = "full")
  BY <1>1, <1>2, <1>3 DEF RepliesInOrder, UnderMode, Serves
<1> DEFINE e == Retained(k, b, mode)
           s == Published(session[k], k, b, mode)
<1>6. /\ session[k].state = "open" /\ ~SourceChanged(session[k], b)
      /\ b.observed # NoEntity => ~Contradicts(tool[k], b.observed, mode)
      /\ tool' = [tool EXCEPT ![k] = e] /\ session' = [session EXCEPT ![k] = s]
  BY <1>4 DEF Publish
<1>7. b.inc \in Nat \ {0} /\ b.cursor \in Nat /\ b.observed \in Observation \cup {NoEntity}
  BY DEF Batch
<1>8. /\ e \in Entity \cup {NoEntity} /\ (e # NoEntity => RetainedInOrder(e)) /\ (tool[k] # NoEntity => Keeps(tool[k], e))
      /\ HasBody(e) # HasBody(tool[k]) => mode = "full"
  <2>1. tool[k] \in Entity \cup {NoEntity} /\ (tool[k] # NoEntity => RetainedInOrder(tool[k]))
    BY <1>0 DEF StoreTypeOK, SessionsInOrder
  <2>2. CASE b.observed = NoEntity
    <3>1. tool[k] # NoEntity => tool[k].offset \in Nat
      BY <2>1 DEF Entity
    <3> QED
      BY <2>1, <2>2, <3>1 DEF Retained, Keeps
  <2>3. CASE b.observed # NoEntity
    <3>1. PICK o \in Observation, prior \in Entity \cup {NoEntity} : o = b.observed /\ prior = tool[k]
      BY <1>7, <2>1, <2>3
    <3>2. /\ Merged(prior, o, mode) \in Entity /\ RetainedInOrder(Merged(prior, o, mode))
          /\ prior # NoEntity => Keeps(prior, Merged(prior, o, mode))
          /\ HasBody(Merged(prior, o, mode)) # HasBody(prior) => mode = "full"
      BY <1>5, <1>6, <2>1, <2>3, <3>1, MergedKeeps
    <3> QED
      BY <2>3, <3>1, <3>2 DEF Retained
  <2> QED
    BY <2>2, <2>3
<1>9. session[k] \in Session
  BY <1>0 DEF StoreTypeOK
<1>10. /\ s \in Session /\ s.state = "open" /\ s.inc = b.inc /\ s.cursor = b.cursor /\ s.kind # "initial"
       /\ session[k].kind # "initial" => s.kind = session[k].kind
  <2>1. PICK old \in Session : old = session[k]
    BY <1>9
  <2> DEFINE kind == IF old.kind = "v2" THEN "v2" ELSE "v1"
             news == b.inc # old.inc \/ b.cursor # old.cursor \/ e # tool[k]
             revision == IF old.kind = "v2" /\ news THEN old.revision + 1 ELSE old.revision
  <2>2. kind \in {"v1", "v2"} /\ revision \in Nat /\ (old.kind # "initial" => kind = old.kind)
    BY DEF Session
  <2>3. s = [old EXCEPT !.inc = b.inc, !.cursor = b.cursor, !.kind = kind, !.revision = revision]
    BY <2>1 DEF Published
  <2> HIDE DEF s, kind, revision
  <2>4. s.state = old.state /\ s.inc = b.inc /\ s.cursor = b.cursor /\ s.kind = kind
    BY <2>3 DEF Session
  <2>5. s \in Session
    BY Zenon, <1>7, <2>2, <2>3 DEF Session
  <2> QED
    BY <1>6, <2>1, <2>2, <2>4, <2>5
<1> HIDE DEF e, s
<1>11. s = session'[k] /\ \A j \in Roots \ {k} : session'[j] = session[j]
  BY <1>0, <1>6 DEF StoreTypeOK
<1>12. tool'[k] = e /\ \A j \in Roots \ {k} : tool'[j] = tool[j]
  BY <1>0, <1>6 DEF StoreTypeOK
<1>13. SessionsTyped'
  BY <1>0, <1>6, <1>8, <1>10 DEF SessionsTyped, StoreTypeOK
<1>14. SessionsInOrder'
  <2>1. /\ ~(session'[k].state # "open" \/ session'[k].kind = "initial") /\ session'[k].inc # 0
        /\ tool'[k] # NoEntity => RetainedInOrder(tool'[k])
    BY <1>6, <1>7, <1>8, <1>10, <1>11, <1>12
  <2>2. \A j \in Roots \ {k} : session'[j] = session[j] /\ tool'[j] = tool[j]
    BY <1>11, <1>12
  <2> QED
    BY <2>1, <2>2 DEF SessionsInOrder
<1>15. EvidenceStays(k)
  <2>1. session[k].inc # 0 => b.inc = session[k].inc /\ b.cursor >= session[k].cursor
    BY <1>6, <1>7, <1>9 DEF SourceChanged, Session
  <2>2. session[k].inc = 0 => session[k].cursor = 0
    BY DEF SessionsInOrder
  <2>3. s.cursor >= session[k].cursor
    BY <1>7, <1>10, <2>1, <2>2
  <2>4. HasBody(tool'[k]) # HasBody(tool[k]) => FullCapture(k)
    BY <1>1, <1>3, <1>8, <1>12 DEF FullCapture, Serves, Authentic
  <2> QED
    BY <1>6, <1>8, <1>10, <1>11, <1>12, <2>1, <2>3, <2>4 DEF EvidenceStays, Keeps
<1>16. ASSUME NEW j \in Roots \ {k} PROVE EvidenceStays(j)
  <2>1. session[j] \in Session /\ tool[j] \in Entity \cup {NoEntity}
    BY <1>0 DEF StoreTypeOK
  <2>2. session[j].cursor \in Nat /\ (tool[j] # NoEntity => tool[j].offset \in Nat)
    BY <2>1 DEF Session, Entity
  <2>3. session[j].state = "suppressed" => tool[j] = NoEntity
    BY DEF SessionsInOrder
  <2> QED
    BY <1>11, <1>12, <2>2, <2>3 DEF EvidenceStays
<1> QED
  BY <1>13, <1>14, <1>15, <1>16 DEF SessionsMove

\* A deletion, or a Clear, suppresses some roots.
LEMMA SuppressionMoves ==
  ASSUME StoreTypeOK, SessionsInOrder, NEW S \in SUBSET Roots,
         session' = [k \in Roots |-> IF k \in S THEN Suppressed(k) ELSE session[k]],
         tool' = [k \in Roots |-> IF k \in S THEN NoEntity ELSE tool[k]]
  PROVE  SessionsMove
<1>1. ASSUME NEW k \in Roots PROVE /\ session[k] \in Session /\ session[k].cursor \in Nat
                                   /\ tool[k] \in Entity \cup {NoEntity}
                                   /\ tool[k] # NoEntity => tool[k].offset \in Nat
                                   /\ Suppressed(k) \in Session
  BY DEF StoreTypeOK, Session, Entity, Suppressed, NoSession
<1>2. SessionsTyped'
  BY <1>1 DEF SessionsTyped
<1>3. SessionsInOrder'
  BY <1>1 DEF SessionsInOrder, Suppressed, NoSession, HasRun
<1>4. \A k \in Roots : EvidenceStays(k)
  BY <1>1 DEF EvidenceStays, SessionsInOrder, Suppressed, NoSession, HasRun
<1> QED
  BY <1>2, <1>3, <1>4 DEF SessionsMove

LEMMA NextSessions ==
  ASSUME HooksTypeOK, GenerationsDrawn, SessionsInOrder, RepliesInOrder, CredentialsSound, [Next]_vars
  PROVE  SessionsMove
<1>0. StoreTypeOK
  BY DEF HooksTypeOK
<1>1. ASSUME NEW c \in Callbacks, CallbackActs(c) PROVE SessionsMove
  <2>1. CASE Admission(c)
    BY <2>1, AdmissionMoves
  <2>2. CASE Publication(c)
    BY <2>2, PublicationMoves
  <2>3. CASE ~Admission(c) /\ ~Publication(c)
    <3>1. UNCHANGED <<session, tool>>
      BY Zenon, <1>1, <2>3 DEF CallbackActs, Begin, Handle, Refuse, GiveUp, Transport, Reread, Acquire, store
    <3> QED
      BY <1>0, <3>1, SessionsRest
  <2> QED
    BY <2>1, <2>2, <2>3
<1>2. ASSUME NEW k \in scenario.sessions, Write(k) \/ DeleteCaptured(k) PROVE SessionsMove
  <2>1. CASE Write(k)
    BY <1>0, <2>1, SessionsRest DEF Write, store
  <2>2. CASE DeleteCaptured(k)
    <3>1. k \in Roots
      BY DEF HooksTypeOK, ScenarioTypeOK
    <3>2. /\ session' = [j \in Roots |-> IF j \in {k} THEN Suppressed(j) ELSE session[j]]
          /\ tool' = [j \in Roots |-> IF j \in {k} THEN NoEntity ELSE tool[j]]
      BY Zenon, <1>0, <2>2, <3>1 DEF DeleteCaptured, DeleteRun, StoreTypeOK
    <3> QED
      BY Zenon, <1>0, <3>1, <3>2, SuppressionMoves
  <2> QED
    BY <1>2, <2>1, <2>2
<1>3. CASE OwnerActs
  <2>1. CASE ClearFinish
    <3>1. /\ session' = [j \in Roots |-> IF j \in Roots THEN Suppressed(j) ELSE session[j]]
          /\ tool' = [j \in Roots |-> IF j \in Roots THEN NoEntity ELSE tool[j]]
      BY <2>1 DEF ClearFinish, ClearAll
    <3> QED
      BY <1>0, <3>1, SuppressionMoves
  <2>2. CASE ~ClearFinish
    <3>1. UNCHANGED <<session, tool>>
      BY <1>3, <2>2 DEF OwnerActs, ClearStart, ClearFails, Shutdown, Gone, Boot, store
    <3> QED
      BY <1>0, <3>1, SessionsRest
  <2> QED
    BY <2>1, <2>2
<1>4. CASE \E m \in Managers : ManagerActs(m)
  BY <1>0, <1>4, ManagerMoves, SessionsRest
<1>5. CASE UNCHANGED vars
  BY <1>0, <1>5, SessionsRest DEF vars, store
<1> QED
  BY <1>1, <1>2, <1>3, <1>4, <1>5, StepKinds

\* A callback's own step leaves callbacks and controllers what they are.
CallbacksTyped == cb \in [Callbacks -> CallbackType] /\ ctl \in Seq(Controller)

LEMMA AnsweredTyped ==
  ASSUME ServiceTypeOK, NEW c \in Callbacks, NEW next \in CallbackType, Answered(c, next)
  PROVE  CallbacksTyped' /\ Len(ctl') = Len(ctl)
<1>1. Over \in CallbackType
  BY DEF CallbackType
<1>2. CASE cb[c].alive
  BY <1>2, ReleaseTyped DEF Answered, CallbacksTyped
<1>3. CASE ~cb[c].alive
  BY <1>1, <1>3, ReleaseTyped DEF Answered, CallbacksTyped
<1> QED
  BY <1>2, <1>3

LEMMA ResponseTyped ==
  ASSUME HooksTypeOK, SessionsTyped', NEW c \in Callbacks, Transport(c) \/ Admission(c) \/ Publication(c)
  PROVE  CallbacksTyped' /\ Len(ctl') = Len(ctl)
<1>0. StoreTypeOK /\ ServiceTypeOK
  BY DEF HooksTypeOK
<1>1. CASE Transport(c)
  <2>1. PICK i \in Installs : /\ cb[c].pc = "transport"
                              /\ Answered(c, Thinks([cb[c] EXCEPT !.reply = row[i].version], "reread"))
    BY <1>1 DEF Transport, Serves
  <2>2. cb[c] \in Working
    BY <1>0, <2>1, ReplyKinds
  <2>3. row[i].version \in Versions
    BY <1>0 DEF StoreTypeOK, Row, KnownRow, NoRow, Versions
  <2>4. Thinks([cb[c] EXCEPT !.reply = row[i].version], "reread") \in CallbackType
    BY <2>2, <2>3, GoesOn DEF CallbackType
  <2> QED
    BY <1>0, <2>1, <2>4, AnsweredTyped
<1>2. CASE Admission(c)
  <2> DEFINE k == cb[c].root
             Reply(i, via) == [via |-> via, mode |-> row[i].mode, generation |-> row[i].generation,
                owner |-> owner.generation, inc |-> session'[k].inc, cursor |-> session'[k].cursor,
                revision |-> session'[k].revision]
  <2>1. PICK i \in Installs : /\ cb[c].pc \in {"admit1", "admit2"} /\ Dispatch(k, row[i].version) # "refused"
          /\ Answered(c, Thinks([cb[c] EXCEPT !.reply = Reply(i, Dispatch(k, row[i].version))], "acquire"))
    BY Zenon, <1>2 DEF Admission, Serves
  <2>2. cb[c] \in Working /\ k \in Roots
    BY <1>0, <2>1, ReplyKinds DEF Reads
  <2>3. PICK via \in {"v1", "v2"} : via = Dispatch(k, row[i].version)
    BY <2>1 DEF Dispatch
  <2>4. row[i].mode \in Modes /\ row[i].generation \in Nat /\ owner.generation \in Nat
    BY <1>0 DEF StoreTypeOK, Row, KnownRow, NoRow, Modes
  <2>5. session'[k] \in Session
    BY <2>2 DEF SessionsTyped
  <2>6. Reply(i, via) \in AdmissionReply
    BY <2>4, <2>5 DEF AdmissionReply, Session
  <2> HIDE DEF Reply
  <2>7. Thinks([cb[c] EXCEPT !.reply = Reply(i, via)], "acquire") \in CallbackType
    BY <2>2, <2>6, GoesOn DEF CallbackType
  <2> QED
    BY <1>0, <2>1, <2>3, <2>7, AnsweredTyped
<1>3. CASE Publication(c)
  BY <1>0, <1>3, AnsweredTyped DEF Publication, CallbackType
<1> QED
  BY <1>1, <1>2, <1>3

LEMMA CallbackActsTyped ==
  ASSUME HooksTypeOK, SessionsTyped', NEW c \in Callbacks, CallbackActs(c)
  PROVE  CallbacksTyped' /\ Len(ctl') = Len(ctl)
<1>0. StoreTypeOK /\ ServiceTypeOK /\ ScenarioTypeOK
  BY DEF HooksTypeOK
<1>1. cb \in [Callbacks -> CallbackType] /\ ctl \in Seq(Controller) /\ Over \in CallbackType
  BY <1>0 DEF ServiceTypeOK, CallbackType
<1>2. ASSUME NEW x \in CallbackType, cb' = [cb EXCEPT ![c] = x]
      PROVE  cb' \in [Callbacks -> CallbackType]
  BY <1>1, <1>2
<1>3. CASE Begin(c)
  <2>1. PICK i \in Installs, k \in scenario.sessions, event \in scenario.events :
          /\ file[i].state = "active"
          /\ cb' = [cb EXCEPT ![c] =
               [pc |-> "transport", inst |-> i, root |-> k, event |-> event, cap |-> Capability(file[i]), reply |-> 0,
                at |-> 0, place |-> "sent", aborted |-> FALSE, alive |-> TRUE]]
    BY Zenon, <1>3 DEF Begin
  <2>2. Capability(file[i]) \in Credential
    BY <1>0, <2>1, FileKinds, CapabilityTyped
  <2>3. k \in Roots /\ event \in Events
    BY <1>0 DEF ScenarioTypeOK
  <2>4. [pc |-> "transport", inst |-> i, root |-> k, event |-> event, cap |-> Capability(file[i]), reply |-> 0,
         at |-> 0, place |-> "sent", aborted |-> FALSE, alive |-> TRUE] \in Work({"transport"}, {0})
    BY <2>2, <2>3 DEF Work
  <2>5. ctl' = ctl
    BY <1>3 DEF Begin
  <2> QED
    BY Zenon, <1>1, <1>2, <2>1, <2>4, <2>5 DEF CallbackType, Working, CallbacksTyped
<1>4. CASE Handle(c)
  <2>1. cb[c] \in Working
    BY <1>0, <1>4, AliveWorks DEF Handle
  <2>2. Cur \in Nat
    BY <1>1 DEF Cur
  <2>3. [cb[c] EXCEPT !.place = "queued", !.at = Cur] \in CallbackType
        /\ [cb[c] EXCEPT !.place = "active", !.at = Cur] \in CallbackType
    BY Zenon, <2>1, <2>2, WorkingMoves DEF CallbackType
  <2>4. \/ cb' = [cb EXCEPT ![c] = Over] /\ ctl' = ctl
        \/ /\ cb' = [cb EXCEPT ![c] = [cb[c] EXCEPT !.place = "queued", !.at = Cur]]
           /\ Cur > 0 /\ ctl' = [ctl EXCEPT ![Cur].line = Append(@, c)]
        \/ cb' = [cb EXCEPT ![c] = [cb[c] EXCEPT !.place = "active", !.at = Cur]] /\ ctl' = ctl
    BY Zenon, <1>4 DEF Handle
  <2>5. cb' \in [Callbacks -> CallbackType]
    BY <1>1, <1>2, <2>3, <2>4
  <2>6. ASSUME Cur > 0, ctl' = [ctl EXCEPT ![Cur].line = Append(@, c)]
        PROVE  ctl' \in Seq(Controller) /\ Len(ctl') = Len(ctl)
    <3>1. Cur \in 1 .. Len(ctl) /\ ctl[Cur] \in Controller
      BY <1>1, <2>6, ElementOfSeq DEF Cur
    <3>2. Append(ctl[Cur].line, c) \in Seq(Callbacks)
      BY <3>1, AppendProperties DEF Controller
    <3>3. [ctl[Cur] EXCEPT !.line = Append(ctl[Cur].line, c)] \in Controller
      BY Zenon, <3>1, <3>2 DEF Controller
    <3>4. ctl' = [ctl EXCEPT ![Cur] = [ctl[Cur] EXCEPT !.line = Append(ctl[Cur].line, c)]]
      BY <2>6
    <3> QED
      BY <1>1, <3>1, <3>3, <3>4, ExceptSeq
  <2> QED
    BY <1>1, <2>4, <2>5, <2>6 DEF CallbacksTyped
<1>5. CASE Refuse(c)
  BY <1>0, <1>1, <1>5, ReleaseTyped DEF Refuse, CallbacksTyped
<1>6. CASE GiveUp(c)
  <2>1. cb[c] \in Working
    BY <1>0, <1>6, AliveWorks DEF GiveUp
  <2>2. [cb[c] EXCEPT !.alive = FALSE] \in CallbackType
    <3>1. 0 \in Nat /\ "sent" \in {"sent", "queued", "active", "none"}
      OBVIOUS
    <3> QED
      BY Zenon, <2>1, <3>1, WorkingMoves DEF CallbackType
  <2>3. cb' = [cb EXCEPT ![c] = [cb[c] EXCEPT !.alive = FALSE]] \/ cb' = [cb EXCEPT ![c] = Over]
    BY Zenon, <1>6 DEF GiveUp
  <2>4. ctl' = ctl
    BY <1>6 DEF GiveUp
  <2> QED
    BY Zenon, <1>1, <1>2, <2>2, <2>3, <2>4 DEF CallbacksTyped
<1>7. CASE Reread(c)
  <2>1. cb[c] \in Working /\ cb[c].reply \in Versions /\ cb[c].inst \in Installs
    BY <1>0, <1>7, ReplyKinds DEF Reread, Reads
  <2>2. file[cb[c].inst].state = "active" => Capability(file[cb[c].inst]) \in Credential
    BY <1>0, <2>1, FileKinds, CapabilityTyped
  <2>3. ASSUME file[cb[c].inst].state = "active", NEW pc \in {"admit1", "admit2"}
        PROVE  Sends([cb[c] EXCEPT !.cap = Capability(file[cb[c].inst])], pc) \in CallbackType
    BY <2>1, <2>2, <2>3, GoesOn DEF CallbackType
  <2>4. \/ cb' = [cb EXCEPT ![c] = Over]
        \/ /\ file[cb[c].inst].state = "active"
           /\ \E pc \in {"admit1", "admit2"} :
                cb' = [cb EXCEPT ![c] = Sends([cb[c] EXCEPT !.cap = Capability(file[cb[c].inst])], pc)]
    BY Zenon, <1>7 DEF Reread
  <2>5. ctl' = ctl
    BY <1>7 DEF Reread
  <2> QED
    BY <1>1, <1>2, <2>3, <2>4, <2>5 DEF CallbacksTyped
<1>8. CASE Acquire(c)
  <2> DEFINE a == cb[c].reply
             t == transcript[cb[c].root]
             reply(body) == [via |-> a.via, generation |-> a.generation, owner |-> a.owner, revision |-> a.revision,
                             batch |-> [inc |-> t.inc, cursor |-> Len(t.lines),
                                        observed |-> Observed(cb[c].event, t.lines, a.cursor, body)]]
  <2>1. cb[c] \in Working /\ a \in AdmissionReply /\ cb[c].root \in Roots /\ cb[c].event \in Events
    BY <1>0, <1>8, ReplyKinds DEF Acquire, Reads
  <2>2. \/ cb' = [cb EXCEPT ![c] = Over]
        \/ \E body \in BOOLEAN : cb' = [cb EXCEPT ![c] = Sends([cb[c] EXCEPT !.reply = reply(body)], "publish")]
    <3>1. scenario.bodies \subseteq BOOLEAN
      BY <1>0 DEF HooksTypeOK, ScenarioTypeOK
    <3>2. \E body \in IF a.mode = "full" THEN scenario.bodies ELSE {FALSE} :
            \/ cb' = [cb EXCEPT ![c] = Over]
            \/ cb' = [cb EXCEPT ![c] = Sends([cb[c] EXCEPT !.reply = reply(body)], "publish")]
      BY Zenon, <1>8 DEF Acquire
    <3> HIDE DEF reply
    <3> QED
      BY Zenon, <3>1, <3>2
  <2>3. t \in [inc : Nat \ {0}, lines : Seq(Outcomes)]
    BY <1>0, <2>1 DEF ServiceTypeOK
  <2>4. ASSUME NEW body \in BOOLEAN
        PROVE  Observed(cb[c].event, t.lines, a.cursor, body) \in Observation \cup {NoEntity}
    <3>1. PICK lines \in Seq(Outcomes), cursor \in Nat, event \in Events :
            lines = t.lines /\ cursor = a.cursor /\ event = cb[c].event
      BY <2>1, <2>3 DEF AdmissionReply
    <3> QED
      BY <3>1, ObservedTyped
  <2>5. ASSUME NEW body \in BOOLEAN PROVE reply(body) \in PublishReply
    <3> DEFINE o == Observed(cb[c].event, t.lines, a.cursor, body)
    <3>1. Len(t.lines) \in Nat /\ t.inc \in Nat \ {0} /\ o \in Observation \cup {NoEntity}
      BY <2>3, <2>4
    <3> HIDE DEF o
    <3>2. [inc |-> t.inc, cursor |-> Len(t.lines), observed |-> o] \in Batch
      BY <3>1 DEF Batch
    <3>3. reply(body) = [via |-> a.via, generation |-> a.generation, owner |-> a.owner, revision |-> a.revision,
                   batch |-> [inc |-> t.inc, cursor |-> Len(t.lines), observed |-> o]]
      BY DEF o
    <3> QED
      BY Zenon, <2>1, <3>2, <3>3 DEF PublishReply, AdmissionReply
  <2> HIDE DEF reply
  <2>6. \A body \in BOOLEAN : Sends([cb[c] EXCEPT !.reply = reply(body)], "publish") \in CallbackType
    BY <2>1, <2>5, GoesOn DEF CallbackType
  <2>7. ctl' = ctl
    BY <1>8 DEF Acquire
  <2> QED
    BY <1>1, <1>2, <2>2, <2>6, <2>7 DEF CallbacksTyped
<1> QED
  BY <1>3, <1>4, <1>5, <1>6, <1>7, <1>8, ResponseTyped DEF CallbackActs

Countable == {"hooks", "lines", "rewrites", "clears", "failures", "deletions", "stops", "boots",
              "installs", "uninstalls", "activations"}

LEMMA SpendKeeps ==
  ASSUME ScenarioTypeOK, NEW what \in Countable, Spend(what)
  PROVE  ScenarioTypeOK' /\ scenario'.stopped = scenario.stopped
<1>1. scenario' = [scenario EXCEPT ![what] = @ - 1]
  BY DEF Spend
<1>2. what \notin {"sessions", "events", "wants", "outcomes", "bodies", "stopped"}
  BY DEF Countable
<1>3. \A x \in {"sessions", "events", "wants", "outcomes", "bodies", "stopped"} : scenario'[x] = scenario[x]
  BY <1>1, <1>2 DEF ScenarioTypeOK
<1>4. DOMAIN scenario' = DOMAIN scenario
  BY <1>1
<1> QED
  BY <1>3, <1>4 DEF ScenarioTypeOK

LEMMA GoneKeeps ==
  ASSUME ScenarioTypeOK,
         \/ scenario' = [scenario EXCEPT !.stopped = TRUE]
         \/ scenario' = [scenario EXCEPT !.stopped = TRUE, !.crashes = @ - 1]
  PROVE  ScenarioTypeOK' /\ scenario'.stopped
<1>1. CASE scenario' = [scenario EXCEPT !.stopped = TRUE]
  BY <1>1 DEF ScenarioTypeOK
<1>2. CASE scenario' = [scenario EXCEPT !.stopped = TRUE, !.crashes = @ - 1]
  BY <1>2 DEF ScenarioTypeOK
<1> QED
  BY <1>1, <1>2

\* Closing and pausing a controller.
LEMMA ControllersTyped ==
  ASSUME ctl \in Seq(Controller), Cur > 0
  PROVE  /\ Closed(Cur) \in Seq(Controller) /\ Len(Closed(Cur)) = Len(ctl)
         /\ Paused(Cur) \in Seq(Controller) /\ Len(Paused(Cur)) = Len(ctl)
<1>1. Cur \in 1 .. Len(ctl) /\ ctl[Cur] \in Controller /\ <<>> \in Seq(Callbacks)
  BY ElementOfSeq DEF Cur
<1>2. [ctl[Cur] EXCEPT !.closed = TRUE, !.line = <<>>] \in Controller
      /\ [ctl[Cur] EXCEPT !.paused = TRUE, !.line = <<>>] \in Controller
  BY Zenon, <1>1 DEF Controller
<1>3. Closed(Cur) = [ctl EXCEPT ![Cur] = [ctl[Cur] EXCEPT !.closed = TRUE, !.line = <<>>]]
  BY Zenon, <1>1 DEF Closed
<1>4. Paused(Cur) = [ctl EXCEPT ![Cur] = [ctl[Cur] EXCEPT !.paused = TRUE, !.line = <<>>]]
  BY Zenon, <1>1 DEF Paused
<1>5. Closed(Cur) \in Seq(Controller) /\ Len(Closed(Cur)) = Len(ctl)
  BY <1>1, <1>2, <1>3, ExceptSeq
<1>6. Paused(Cur) \in Seq(Controller) /\ Len(Paused(Cur)) = Len(ctl)
  BY <1>1, <1>2, <1>4, ExceptSeq
<1> QED
  BY <1>5, <1>6

LEMMA NewControllerTyped ==
  NewController \in Controller /\ <<NewController>> \in Seq(Controller) /\ <<>> \in Seq(Controller)
BY DEF NewController, Controller

\* What is left to show of the types once the store and the callbacks are seen to.
RestTyped ==
  /\ file \in [Installs -> FileType] /\ lock \in [Installs -> BOOLEAN]
  /\ mgr \in [Managers -> ManagerType] /\ ScenarioTypeOK
  /\ transcript \in [Roots -> [inc : Nat \ {0}, lines : Seq(Outcomes)]]

LEMMA TypesTogether ==
  HooksTypeOK <=> StoreTypeOK /\ CallbacksTyped /\ RestTyped
BY DEF HooksTypeOK, ServiceTypeOK, CallbacksTyped, RestTyped, CallbackType, FileType, ManagerType

LEMMA OwnerActsTyped ==
  ASSUME HooksTypeOK, OwnerActs
  PROVE  CallbacksTyped' /\ RestTyped'
<1>0. ServiceTypeOK /\ ScenarioTypeOK /\ CallbacksTyped /\ RestTyped
  BY TypesTogether DEF HooksTypeOK
<1>1. /\ FilesRevoked(Installs) \in [Installs -> FileType]
      /\ CallbacksRevoked(Installs) \in [Callbacks -> CallbackType]
      /\ ManagersRevoked(Installs) \in [Managers -> ManagerType]
  BY <1>0, FilesRevokedTyped, CallbacksRevokedTyped, ManagersRevokedTyped
<1>2. Aborted(Cur, CallbacksRevoked(Installs)) \in [Callbacks -> CallbackType]
  BY <1>1, AbortedTyped
<1>3. ctl \in Seq(Controller)
  BY <1>0 DEF CallbacksTyped
<1>4. CASE ClearStart
  <2>1. ScenarioTypeOK'
    BY <1>0, <1>4, SpendKeeps DEF ClearStart, Countable
  <2>2. ctl' \in Seq(Controller)
    BY <1>3, <1>4, ControllersTyped DEF ClearStart
  <2> QED
    BY <1>0, <1>1, <1>2, <1>4, <2>1, <2>2 DEF ClearStart, CallbacksTyped, RestTyped
<1>5. CASE ClearFinish
  <2>1. ScenarioTypeOK'
    BY <1>0, <1>5 DEF ClearFinish, ScenarioTypeOK
  <2>2. ctl' \in Seq(Controller)
    BY <1>3, <1>5, NewControllerTyped, AppendProperties DEF ClearFinish
  <2> QED
    BY <1>0, <1>1, <1>5, <2>1, <2>2 DEF ClearFinish, CallbacksTyped, RestTyped
<1>6. CASE ClearFails
  <2>1. ScenarioTypeOK'
    BY <1>0, <1>6, SpendKeeps DEF ClearFails, Countable
  <2> QED
    BY <1>0, <1>6, <2>1 DEF ClearFails, CallbacksTyped, RestTyped
<1>7. CASE Shutdown
  <2>1. ScenarioTypeOK'
    BY <1>0, <1>7, SpendKeeps DEF Shutdown, Countable
  <2>2. ctl' \in Seq(Controller)
    BY <1>3, <1>7, ControllersTyped DEF Shutdown
  <2> QED
    BY <1>0, <1>1, <1>2, <1>7, <2>1, <2>2 DEF Shutdown, CallbacksTyped, RestTyped
<1>8. CASE Gone
  <2>1. ScenarioTypeOK'
    BY <1>0, <1>8, GoneKeeps DEF Gone
  <2>2. ctl' \in Seq(Controller)
    BY <1>8, NewControllerTyped DEF Gone
  <2>3. cb' \in [Callbacks -> CallbackType]
    BY <1>0, <1>8 DEF Gone, CallbacksTyped, CallbackType
  <2>4. mgr' \in [Managers -> ManagerType]
    BY <1>8 DEF Gone, ManagerType
  <2> QED
    BY <1>0, <1>8, <2>1, <2>2, <2>3, <2>4 DEF Gone, CallbacksTyped, RestTyped
<1>9. CASE Boot
  <2>1. ScenarioTypeOK'
    BY <1>0, <1>9, SpendKeeps DEF Boot, Countable
  <2>2. ctl' \in Seq(Controller)
    BY <1>9, NewControllerTyped DEF Boot
  <2> QED
    BY <1>0, <1>1, <1>9, <2>1, <2>2 DEF Boot, CallbacksTyped, RestTyped
<1> QED
  BY <1>4, <1>5, <1>6, <1>7, <1>8, <1>9 DEF OwnerActs

\* The first in the order of the plan.
LEMMA ForemostOne ==
  ASSUME NEW S \in SUBSET Installs, S # {}
  PROVE  Foremost(S) \in S /\ \A j \in S : Foremost(S) <= j
<1>1. S \in SUBSET Nat
  BY HookAssumption DEF Installs
<1>2. \E x \in S : \A y \in S : x <= y
  BY <1>1, Least
<1> QED
  BY <1>2 DEF Foremost

LEMMA ManagerGoes ==
  ASSUME NEW m \in Managers, NEW managers \in [Managers -> ManagerType], NEW next \in ManagerType
  PROVE  /\ Goes(m, managers, next) => mgr' \in [Managers -> ManagerType]
         /\ Done(m, managers) => mgr' \in [Managers -> ManagerType]
BY DEF Goes, Done, ManagerType

LEMMA InstallingMoves ==
  ASSUME NEW r \in Installing
  PROVE  /\ \A n \in Nat : [r EXCEPT !.expected = n] \in Installing
         /\ \A d \in Datum : [r EXCEPT !.pc = "lock", !.data = d] \in Installing
         /\ \A b \in Row : [r EXCEPT !.pc = "prepare", !.before = b] \in Installing
         /\ \A t, o, g \in Nat, u \in BOOLEAN :
              [r EXCEPT !.pc = "write", !.token = t, !.owner = o, !.generation = g, !.unchanged = u, !.revoked = {}] \in Installing
         /\ \A pc \in {"inactive", "settle", "commit"} : [r EXCEPT !.pc = pc] \in Installing
BY Zenon DEF Installing

LEMMA ActivatingMoves ==
  ASSUME NEW r \in Activating
  PROVE  /\ \A pc \in {"lock", "disable", "resume"} : [r EXCEPT !.pc = pc] \in Activating
         /\ \A i \in Installs : [r EXCEPT !.held = @ \cup {i}] \in Activating
         /\ \A i \in Installs : [r EXCEPT !.written = @ \cup {i}] \in Activating
         /\ [r EXCEPT !.pc = "commit"] \in Activating
         /\ [r EXCEPT !.pc = "enable", !.written = {}] \in Activating
         /\ [r EXCEPT !.pc = "fail", !.held = {}] \in Activating
BY Zenon DEF Activating

LEMMA DescriptorTyped ==
  ASSUME NEW r, NEW i, NEW g \in Nat, NEW t \in Nat, NEW o \in Nat
  PROVE  Descriptor(r, i, g, t, o) \in ActiveFile
BY DEF Descriptor, ActiveFile

\* What an activation works on are installations.
LEMMA PlanTyped ==
  ASSUME NEW r \in Activating
  PROVE  /\ Required(r) \in SUBSET Installs /\ Reenabled(r) \in SUBSET Installs /\ r.sel \in SUBSET Installs
         /\ \A i \in Installs : Drawn(r, i) \in Nat
BY HookAssumption DEF Activating, Required, Reenabled, Drawn, Installs

LEMMA UnlockedTyped ==
  ASSUME lock \in [Installs -> BOOLEAN], NEW S
  PROVE  Unlocked(S) \in [Installs -> BOOLEAN]
BY DEF Unlocked

\* Types of what management leaves.
LEMMA InstallsTyped ==
  ASSUME HooksTypeOK, GenerationsDrawn, CredentialsSound, NEW m \in Managers,
         \/ InstallStart(m) \/ InstallCheck(m) \/ InstallLock(m) \/ InstallPrepare(m) \/ InstallInactive(m)
         \/ InstallDisabled(m) \/ InstallSettled(m) \/ InstallWrite(m) \/ InstallCommit(m) \/ InstallFails(m)
  PROVE  CallbacksTyped' /\ RestTyped' /\ Len(ctl') = Len(ctl)
<1> DEFINE r == mgr[m]
<1>0. /\ ServiceTypeOK /\ StoreTypeOK /\ ScenarioTypeOK /\ CallbacksTyped /\ RestTyped /\ FilesSound
      /\ mgr \in [Managers -> ManagerType] /\ fresh \in Nat /\ fresh + 1 \in Nat
  BY TypesTogether DEF HooksTypeOK, RestTyped, CredentialsSound, StoreTypeOK
<1>1. \A i \in Installs : /\ FilesRevoked({i}) \in [Installs -> FileType]
                          /\ CallbacksRevoked({i}) \in [Callbacks -> CallbackType]
                          /\ ManagersRevoked({i}) \in [Managers -> ManagerType]
  BY <1>0, FilesRevokedTyped, CallbacksRevokedTyped, ManagersRevokedTyped
<1>2. \A i \in Installs : \A roots : SharedVersion(i, roots) \in Versions
  BY DEF SharedVersion, Versions
<1>3. r.op = "install" => r \in Installing /\ r.inst \in Installs
  BY <1>0, ManagerKinds DEF Installing
<1>4. \A S : Unlocked(S) \in [Installs -> BOOLEAN]
  BY <1>0, UnlockedTyped DEF RestTyped
<1>5. CASE InstallStart(m)
  <2>1. PICK i \in Installs, want \in scenario.wants :
          LET next == [op |-> "install", inst |-> i, want |-> want, pc |-> "check", expected |-> 0, data |-> NoRow,
                       before |-> NoRow, token |-> 0, owner |-> 0, generation |-> 0, unchanged |-> FALSE, revoked |-> {}]
          IN  \/ /\ file' = FilesRevoked({i}) /\ cb' = CallbacksRevoked({i})
                 /\ Goes(m, ManagersRevoked({i}), [next EXCEPT !.expected = fresh + 1])
              \/ UNCHANGED <<file, cb>> /\ Goes(m, mgr, next)
    BY Zenon, <1>5 DEF InstallStart
  <2> DEFINE next == [op |-> "install", inst |-> i, want |-> want, pc |-> "check", expected |-> 0, data |-> NoRow,
                      before |-> NoRow, token |-> 0, owner |-> 0, generation |-> 0, unchanged |-> FALSE, revoked |-> {}]
  <2>2. next \in Installing
    BY <1>0 DEF Installing, ScenarioTypeOK, Row
  <2> HIDE DEF next
  <2>3. [next EXCEPT !.expected = fresh + 1] \in Installing
    BY Zenon, <1>0, <2>2, InstallingMoves
  <2>4. mgr' \in [Managers -> ManagerType]
    BY <1>0, <1>1, <2>1, <2>2, <2>3, ManagerGoes DEF ManagerType, next
  <2>5. ScenarioTypeOK'
    BY <1>0, <1>5, SpendKeeps DEF InstallStart, Countable
  <2> QED
    BY Zenon, <1>0, <1>1, <1>5, <2>1, <2>4, <2>5 DEF InstallStart, CallbacksTyped, RestTyped
<1>6. CASE InstallCheck(m)
  <2>1. r \in Installing /\ r.inst \in Installs /\ r.want \in Want
    BY <1>3, <1>6 DEF InstallCheck, Installing
  <2>2. Wanted(r.want, r.inst) \in Datum
    BY <1>2, <2>1 DEF Wanted, Datum, Want
  <2>3. [r EXCEPT !.pc = "lock", !.data = Wanted(r.want, r.inst)] \in ManagerType
    BY Zenon, <2>1, <2>2, InstallingMoves DEF ManagerType
  <2>4. Goes(m, mgr, [r EXCEPT !.pc = "lock", !.data = Wanted(r.want, r.inst)]) \/ Done(m, mgr)
    BY <1>6 DEF InstallCheck
  <2>5. mgr' \in [Managers -> ManagerType]
    BY <1>0, <2>3, <2>4, ManagerGoes
  <2> QED
    BY <1>0, <1>6, <2>5 DEF InstallCheck, mgmt, CallbacksTyped, RestTyped, ScenarioTypeOK
<1>7. CASE InstallLock(m)
  <2>1. r \in Installing /\ row[r.inst] \in Row /\ r.inst \in Installs
    BY <1>0, <1>3, <1>7 DEF InstallLock, StoreTypeOK
  <2>2. [r EXCEPT !.pc = "prepare", !.before = row[r.inst]] \in ManagerType
    BY Zenon, <2>1, InstallingMoves DEF ManagerType
  <2>3. \/ Goes(m, mgr, [r EXCEPT !.pc = "prepare", !.before = row[r.inst]]) /\ lock' = [lock EXCEPT ![r.inst] = TRUE]
        \/ Done(m, mgr) /\ lock' = lock
    BY <1>7 DEF InstallLock
  <2>4. mgr' \in [Managers -> ManagerType]
    BY <1>0, <2>2, <2>3, ManagerGoes
  <2>5. lock' \in [Installs -> BOOLEAN]
    BY Zenon, <1>0, <2>3 DEF RestTyped
  <2> QED
    BY <1>0, <1>7, <2>4, <2>5 DEF InstallLock, mgmt, CallbacksTyped, RestTyped, ScenarioTypeOK
<1>8. CASE InstallPrepare(m)
  <2> DEFINE i == r.inst
             t == IF Repeats(r) THEN file[i].token ELSE fresh + 1
             next == Prepared(i, r.want, t)
             gone == IF next = row[i] THEN {} ELSE {i}
  <2>1. r \in Installing /\ i \in Installs /\ r.want \in Want
    BY <1>3, <1>8 DEF InstallPrepare, Installing
  <2>2. /\ file' = FilesRevoked(gone) /\ cb' = CallbacksRevoked(gone)
        /\ Goes(m, ManagersRevoked(gone), [r EXCEPT !.pc = "write", !.token = t, !.owner = owner.generation,
              !.generation = next.generation, !.unchanged = gone = {}, !.revoked = {}])
    BY Zenon, <1>8 DEF InstallPrepare
  <2>3. gone \in SUBSET Installs
    BY <2>1
  <2>4. t \in Nat
    BY <1>0, <1>8, InstallPrepareMoves
  <2>5. next.generation \in Nat
    <3>1. PICK j \in Installs, want \in Want, u \in Nat : j = i /\ want = r.want /\ u = t
      BY <2>1, <2>4
    <3>2. Prepared(j, want, u) = row[j] \/ Prepared(j, want, u) \in KnownRow
      BY <1>0, PreparedRow
    <3>3. row[j] \in Row
      BY <1>0 DEF StoreTypeOK
    <3> QED
      BY <3>1, <3>2, <3>3 DEF Row, KnownRow, NoRow
  <2>6. owner.generation \in Nat
    BY <1>0 DEF StoreTypeOK
  <2> HIDE DEF next, t
  <2>7. [r EXCEPT !.pc = "write", !.token = t, !.owner = owner.generation,
              !.generation = next.generation, !.unchanged = gone = {}, !.revoked = {}] \in Installing
    <3>1. PICK u \in BOOLEAN : u = (gone = {})
      BY Zenon
    <3>2. [r EXCEPT !.pc = "write", !.token = t, !.owner = owner.generation,
              !.generation = next.generation, !.unchanged = u, !.revoked = {}] \in Installing
      BY Zenon, <2>1, <2>4, <2>5, <2>6, InstallingMoves
    <3> QED
      BY <3>1, <3>2
  <2>8. /\ file' \in [Installs -> FileType] /\ cb' \in [Callbacks -> CallbackType]
        /\ ManagersRevoked(gone) \in [Managers -> ManagerType]
    BY <1>0, <2>2, <2>3, FilesRevokedTyped, CallbacksRevokedTyped, ManagersRevokedTyped
  <2>9. mgr' \in [Managers -> ManagerType]
    BY Zenon, <2>2, <2>7, <2>8, ManagerGoes DEF ManagerType
  <2> QED
    BY Zenon, <1>0, <1>8, <2>8, <2>9 DEF InstallPrepare, CallbacksTyped, RestTyped, ScenarioTypeOK
<1>9. CASE InstallInactive(m)
  <2>1. r \in Installing /\ r.inst \in Installs
    BY <1>3, <1>9 DEF InstallInactive
  <2>2. [r EXCEPT !.pc = "inactive"] \in ManagerType
    BY Zenon, <2>1, InstallingMoves DEF ManagerType
  <2>3. mgr' \in [Managers -> ManagerType]
    BY Zenon, <1>1, <1>9, <2>1, <2>2, ManagerGoes DEF InstallInactive, Disables
  <2> QED
    BY Zenon, <1>0, <1>1, <1>9, <2>1, <2>3 DEF InstallInactive, Disables, CallbacksTyped, RestTyped, ScenarioTypeOK
<1>13. CASE InstallDisabled(m)
  <2>1. r \in Installing
    BY <1>3, <1>13 DEF InstallDisabled
  <2>2. file' \in [Installs -> FileType]
    BY Zenon, <1>0, <1>13 DEF InstallDisabled, RestTyped, FileType
  <2>3. [r EXCEPT !.pc = "settle"] \in ManagerType
    BY Zenon, <2>1, InstallingMoves DEF ManagerType
  <2>4. mgr' \in [Managers -> ManagerType]
    BY <1>0, <1>13, <2>3, ManagerGoes DEF InstallDisabled
  <2> QED
    BY <1>0, <1>13, <2>2, <2>4 DEF InstallDisabled, mgmt, CallbacksTyped, RestTyped, ScenarioTypeOK
<1>14. CASE InstallSettled(m)
  <2>1. mgr' \in [Managers -> ManagerType]
    BY <1>0, <1>14, ManagerGoes DEF InstallSettled, ManagerType
  <2> QED
    BY <1>0, <1>4, <1>14, <2>1 DEF InstallSettled, mgmt, CallbacksTyped, RestTyped, ScenarioTypeOK
<1>10. CASE InstallWrite(m)
  <2>1. r \in Installing /\ r.inst \in Installs /\ r.generation \in Nat /\ r.token \in Nat /\ r.owner \in Nat
    BY <1>3, <1>10 DEF InstallWrite, Installing
  <2>2. Descriptor(r, r.inst, r.generation, r.token, r.owner) \in FileType
    BY <2>1, DescriptorTyped DEF FileType
  <2>3. file' = file \/ file' = [file EXCEPT ![r.inst] = Descriptor(r, r.inst, r.generation, r.token, r.owner)]
    BY <1>10 DEF InstallWrite
  <2>4. file' \in [Installs -> FileType]
    BY <1>0, <2>2, <2>3 DEF RestTyped
  <2>5. [r EXCEPT !.pc = "commit"] \in ManagerType
    BY Zenon, <2>1, InstallingMoves DEF ManagerType
  <2>6. mgr' \in [Managers -> ManagerType]
    BY <1>0, <1>10, <2>5, ManagerGoes DEF InstallWrite
  <2> QED
    BY <1>0, <1>10, <2>4, <2>6 DEF InstallWrite, mgmt, CallbacksTyped, RestTyped, ScenarioTypeOK
<1>11. CASE InstallCommit(m)
  <2>1. mgr' \in [Managers -> ManagerType]
    BY <1>0, <1>11, ManagerGoes DEF InstallCommit, ManagerType
  <2> QED
    BY <1>0, <1>4, <1>11, <2>1 DEF InstallCommit, mgmt, CallbacksTyped, RestTyped, ScenarioTypeOK
<1>12. CASE InstallFails(m)
  <2>1. r.inst \in Installs
    BY <1>3, <1>12 DEF InstallFails
  <2>2. mgr' \in [Managers -> ManagerType]
    BY <1>0, <1>1, <1>12, <2>1, ManagerGoes DEF InstallFails, ManagerType
  <2>3. ScenarioTypeOK'
    <3>1. scenario' = scenario \/ Spend("failures")
      BY <1>12 DEF InstallFails
    <3> QED
      BY <1>0, <3>1, SpendKeeps DEF Countable, ScenarioTypeOK
  <2> QED
    BY Zenon, <1>0, <1>1, <1>4, <1>12, <2>1, <2>2, <2>3 DEF InstallFails, CallbacksTyped, RestTyped
<1> QED
  BY <1>5, <1>6, <1>7, <1>8, <1>9, <1>10, <1>11, <1>12, <1>13, <1>14

LEMMA UninstallsTyped ==
  ASSUME HooksTypeOK, NEW m \in Managers,
         UninstallStart(m) \/ UninstallLock(m) \/ UninstallRemove(m) \/ Abandoned(m)
  PROVE  CallbacksTyped' /\ RestTyped' /\ Len(ctl') = Len(ctl)
<1> DEFINE r == mgr[m]
<1>0. /\ ServiceTypeOK /\ StoreTypeOK /\ ScenarioTypeOK /\ CallbacksTyped /\ RestTyped
      /\ mgr \in [Managers -> ManagerType]
  BY TypesTogether DEF HooksTypeOK, RestTyped
<1>1. \A i \in Installs : /\ FilesRevoked({i}) \in [Installs -> FileType]
                          /\ CallbacksRevoked({i}) \in [Callbacks -> CallbackType]
                          /\ ManagersRevoked({i}) \in [Managers -> ManagerType]
  BY <1>0, FilesRevokedTyped, CallbacksRevokedTyped, ManagersRevokedTyped
<1>2. r.op = "uninstall" => r \in Uninstalling /\ r.inst \in Installs
  BY <1>0, ManagerKinds DEF Uninstalling
<1>3. \A S : Unlocked(S) \in [Installs -> BOOLEAN]
  BY <1>0, UnlockedTyped DEF RestTyped
<1>4. CASE UninstallStart(m)
  <2>1. PICK i \in Installs : Disables(m, i, [op |-> "uninstall", inst |-> i, pc |-> "lock", token |-> 0, revoked |-> {}])
    BY <1>4 DEF UninstallStart
  <2>2. [op |-> "uninstall", inst |-> i, pc |-> "lock", token |-> 0, revoked |-> {}] \in ManagerType
    BY DEF ManagerType, Uninstalling
  <2>3. mgr' \in [Managers -> ManagerType]
    BY <1>1, <2>1, <2>2, ManagerGoes DEF Disables
  <2>4. ScenarioTypeOK'
    BY <1>0, <1>4, SpendKeeps DEF UninstallStart, Countable
  <2> QED
    BY Zenon, <1>0, <1>1, <1>4, <2>1, <2>3, <2>4 DEF UninstallStart, Disables, CallbacksTyped, RestTyped
<1>5. CASE UninstallLock(m)
  <2>1. r \in Uninstalling /\ r.inst \in Installs
    BY <1>2, <1>5 DEF UninstallLock
  <2>2. CASE lock[r.inst] \/ ~Stored(r.inst)
    <3>1. Done(m, mgr) /\ UNCHANGED <<file, cb, lock>>
      BY <1>5, <2>2 DEF UninstallLock
    <3>2. mgr' \in [Managers -> ManagerType]
      BY <1>0, <3>1, ManagerGoes DEF ManagerType
    <3> QED
      BY <1>0, <1>5, <3>1, <3>2 DEF UninstallLock, CallbacksTyped, RestTyped, ScenarioTypeOK
  <2>3. CASE ~(lock[r.inst] \/ ~Stored(r.inst))
    <3>1. /\ Disables(m, r.inst, [r EXCEPT !.pc = "remove", !.token = row[r.inst].token])
          /\ lock' = [lock EXCEPT ![r.inst] = TRUE]
      BY <1>5, <2>3 DEF UninstallLock
    <3>2. row[r.inst].token \in Nat
      BY <1>0, <2>1 DEF StoreTypeOK, Row, KnownRow, NoRow
    <3>3. [r EXCEPT !.pc = "remove", !.token = row[r.inst].token] \in ManagerType
      BY Zenon, <2>1, <3>2 DEF ManagerType, Uninstalling
    <3>4. mgr' \in [Managers -> ManagerType]
      BY <1>1, <2>1, <3>1, <3>3, ManagerGoes DEF Disables
    <3>5. lock' \in [Installs -> BOOLEAN]
      BY Zenon, <1>0, <3>1 DEF RestTyped
    <3> QED
      BY Zenon, <1>0, <1>1, <1>5, <2>1, <3>1, <3>4, <3>5 DEF UninstallLock, Disables, CallbacksTyped, RestTyped, ScenarioTypeOK
  <2> QED
    BY <2>2, <2>3
<1>6. CASE UninstallRemove(m)
  <2>1. file' = [file EXCEPT ![r.inst] = NoFile] \/ file' = file
    BY <1>6 DEF UninstallRemove
  <2>2. file' \in [Installs -> FileType]
    BY <1>0, <2>1 DEF RestTyped, FileType
  <2>3. mgr' \in [Managers -> ManagerType]
    BY <1>0, <1>6, ManagerGoes DEF UninstallRemove, ManagerType
  <2> QED
    BY <1>0, <1>3, <1>6, <2>2, <2>3 DEF UninstallRemove, mgmt, CallbacksTyped, RestTyped, ScenarioTypeOK
<1>7. CASE Abandoned(m)
  <2>1. lock' \in [Installs -> BOOLEAN]
    BY <1>0, <1>3, <1>7 DEF Abandoned, RestTyped
  <2>2. mgr' \in [Managers -> ManagerType]
    BY <1>0, <1>7, ManagerGoes DEF Abandoned, ManagerType
  <2>3. ScenarioTypeOK'
    BY <1>0, <1>7, SpendKeeps DEF Abandoned, Countable
  <2> QED
    BY Zenon, <1>0, <1>7, <2>1, <2>2, <2>3 DEF Abandoned, mgmt, CallbacksTyped, RestTyped
<1> QED
  BY <1>4, <1>5, <1>6, <1>7

LEMMA ActivatesTyped ==
  ASSUME HooksTypeOK, GenerationsDrawn, PlansFollowed, NEW m \in Managers,
         \/ ActivateStart(m) \/ ActivateBusy(m) \/ ActivateDrain(m) \/ ActivateLock(m) \/ ActivateDisable(m)
         \/ ActivateCommit(m) \/ ActivateEnable(m) \/ ActivateResume(m) \/ ActivateFails(m) \/ ActivateFail(m)
  PROVE  CallbacksTyped' /\ RestTyped' /\ Len(ctl') = Len(ctl)
<1> DEFINE r == mgr[m]
<1>0. /\ ServiceTypeOK /\ StoreTypeOK /\ ScenarioTypeOK /\ CallbacksTyped /\ RestTyped
      /\ mgr \in [Managers -> ManagerType] /\ fresh \in Nat /\ fresh + 1 \in Nat
  BY TypesTogether DEF HooksTypeOK, RestTyped, StoreTypeOK
<1>1. /\ FilesRevoked(Installs) \in [Installs -> FileType]
      /\ CallbacksRevoked(Installs) \in [Callbacks -> CallbackType]
      /\ ManagersRevoked(Installs) \in [Managers -> ManagerType]
  BY <1>0, FilesRevokedTyped, CallbacksRevokedTyped, ManagersRevokedTyped
<1>2. r.op = "activate" => /\ r \in Activating /\ Required(r) \in SUBSET Installs /\ Reenabled(r) \in SUBSET Installs
                           /\ r.owner \in Nat /\ \A i \in Installs : Drawn(r, i) \in Nat
  BY <1>0, ManagerKinds, PlanTyped DEF Activating
<1>3. \A S : Unlocked(S) \in [Installs -> BOOLEAN]
  BY <1>0, UnlockedTyped DEF RestTyped
<1>4. /\ Aborted(Cur, CallbacksRevoked(Installs)) \in [Callbacks -> CallbackType]
      /\ Aborted(Cur, cb) \in [Callbacks -> CallbackType]
  BY <1>0, <1>1, AbortedTyped DEF CallbacksTyped
<1>5. ctl \in Seq(Controller) /\ Cur \in Nat
  BY <1>0 DEF CallbacksTyped, Cur
<1>6. CASE ActivateStart(m)
  <2>1. PICK S \in SUBSET Installs :
          Goes(m, ManagersRevoked(Installs),
            [op |-> "activate", ctl |-> Cur, sel |-> S, before |-> row, pc |-> "drain", owner |-> fresh + 1,
             owned |-> owner.generation, held |-> {}, written |-> {}, revoked |-> {}])
    BY Zenon, <1>6 DEF ActivateStart
  <2>2. [op |-> "activate", ctl |-> Cur, sel |-> S, before |-> row, pc |-> "drain", owner |-> fresh + 1,
         owned |-> owner.generation, held |-> {}, written |-> {}, revoked |-> {}] \in ManagerType
    BY <1>0, <1>5 DEF ManagerType, Activating, StoreTypeOK
  <2>3. mgr' \in [Managers -> ManagerType]
    BY <1>1, <2>1, <2>2, ManagerGoes
  <2>4. ScenarioTypeOK'
    BY <1>0, <1>6, SpendKeeps DEF ActivateStart, Countable
  <2>5. ctl' \in Seq(Controller) /\ Len(ctl') = Len(ctl)
    BY <1>5, <1>6, ControllersTyped DEF ActivateStart, Free
  <2> QED
    BY <1>0, <1>1, <1>4, <1>6, <2>3, <2>4, <2>5 DEF ActivateStart, CallbacksTyped, RestTyped
<1>7. CASE ActivateBusy(m)
  <2>1. ScenarioTypeOK'
    BY <1>0, <1>7, SpendKeeps DEF ActivateBusy, Countable
  <2>2. ctl' \in Seq(Controller) /\ Len(ctl') = Len(ctl)
    BY <1>5, <1>7, ControllersTyped DEF ActivateBusy, Free
  <2> QED
    BY <1>0, <1>4, <1>7, <2>1, <2>2 DEF ActivateBusy, CallbacksTyped, RestTyped
<1>8. CASE ActivateDrain(m)
  <2>1. [r EXCEPT !.pc = "lock"] \in ManagerType
    BY Zenon, <1>2, <1>8, ActivatingMoves DEF ActivateDrain, ManagerType
  <2>2. mgr' \in [Managers -> ManagerType]
    BY <1>0, <1>8, <2>1, ManagerGoes DEF ActivateDrain
  <2> QED
    BY <1>0, <1>8, <2>2 DEF ActivateDrain, mgmt, CallbacksTyped, RestTyped, ScenarioTypeOK
<1>9. CASE ActivateLock(m)
  <2> DEFINE i == Foremost(Required(r) \ r.held)
  <2>1. r \in Activating /\ Required(r) \in SUBSET Installs /\ r.held \subseteq Required(r)
    BY <1>2, <1>9 DEF ActivateLock, PlansFollowed, PlanFollowed
  <2>2. \/ Goes(m, mgr, [r EXCEPT !.pc = "disable"]) /\ lock' = lock
        \/ /\ Goes(m, mgr, [r EXCEPT !.held = @ \cup {i}]) /\ lock' = [lock EXCEPT ![i] = TRUE]
           /\ r.held # Required(r)
    BY <1>9 DEF ActivateLock
  <2>3. [r EXCEPT !.pc = "disable"] \in ManagerType
    BY Zenon, <2>1, ActivatingMoves DEF ManagerType
  <2>4. r.held # Required(r) => [r EXCEPT !.held = @ \cup {i}] \in ManagerType
    <3>1. r.held # Required(r) => i \in Installs
      BY Zenon, <2>1, ForemostOne
    <3> HIDE DEF i
    <3> QED
      BY Zenon, <2>1, <3>1, ActivatingMoves DEF ManagerType
  <2>5. mgr' \in [Managers -> ManagerType]
    BY <1>0, <2>2, <2>3, <2>4, ManagerGoes
  <2>6. lock' \in [Installs -> BOOLEAN]
    BY Zenon, <1>0, <2>2 DEF RestTyped
  <2> QED
    BY <1>0, <1>9, <2>5, <2>6 DEF ActivateLock, mgmt, CallbacksTyped, RestTyped, ScenarioTypeOK
<1>10. CASE ActivateDisable(m)
  <2> DEFINE i == Foremost(Required(r) \ r.written)
  <2>1. r \in Activating /\ Required(r) \in SUBSET Installs /\ r.written \subseteq Required(r) /\ r.owner \in Nat
    BY <1>2, <1>10 DEF ActivateDisable, PlansFollowed, PlanFollowed
  <2>2. \/ r.written = Required(r) /\ Goes(m, mgr, [r EXCEPT !.pc = "commit"]) /\ file' = file
        \/ /\ Goes(m, mgr, [r EXCEPT !.written = @ \cup {i}]) /\ r.written # Required(r) /\ AsPlanned(r, i)
           /\ file' = [file EXCEPT ![i] = IF i \in r.sel THEN DisabledFile
                            ELSE Descriptor(r, i, file[i].generation, file[i].token, r.owner)]
    BY <1>10 DEF ActivateDisable
  <2>3. ASSUME r.written # Required(r) PROVE i \in Installs /\ i \in Required(r)
    <3>1. Required(r) \ r.written # {} /\ Required(r) \ r.written \in SUBSET Installs
      BY <2>1, <2>3
    <3>2. i \in Required(r) \ r.written
      BY <3>1, ForemostOne
    <3> QED
      BY <3>1, <3>2
  <2> HIDE DEF i
  <2>4. ASSUME r.written # Required(r), AsPlanned(r, i), i \notin r.sel
        PROVE  Descriptor(r, i, file[i].generation, file[i].token, r.owner) \in FileType
    <3>1. file[i].state = "active"
      BY <2>3, <2>4 DEF AsPlanned, Required
    <3>2. file[i] \in ActiveFile
      BY <1>0, <2>3, <2>4, <3>1, FileKinds
    <3>3. file[i].generation \in Nat /\ file[i].token \in Nat
      BY <3>2 DEF ActiveFile
    <3> QED
      BY <2>1, <3>3, DescriptorTyped DEF FileType
  <2>5. file' \in [Installs -> FileType]
    <3>1. file \in [Installs -> FileType] /\ DisabledFile \in FileType
      BY <1>0 DEF RestTyped, FileType
    <3> QED
      BY <2>2, <2>4, <3>1
  <2>6. [r EXCEPT !.pc = "commit"] \in ManagerType
    BY Zenon, <2>1, ActivatingMoves DEF ManagerType
  <2>7. r.written # Required(r) => [r EXCEPT !.written = @ \cup {i}] \in ManagerType
    BY Zenon, <2>1, <2>3, ActivatingMoves DEF ManagerType
  <2>8. mgr' \in [Managers -> ManagerType]
    BY <1>0, <2>2, <2>6, <2>7, ManagerGoes
  <2> QED
    BY <1>0, <1>10, <2>5, <2>8 DEF ActivateDisable, mgmt, CallbacksTyped, RestTyped, ScenarioTypeOK
<1>11. CASE ActivateCommit(m)
  <2>1. [r EXCEPT !.pc = "enable", !.written = {}] \in ManagerType
    BY Zenon, <1>2, <1>11, ActivatingMoves DEF ActivateCommit, ManagerType
  <2>2. mgr' \in [Managers -> ManagerType]
    BY <1>0, <1>11, <2>1, ManagerGoes DEF ActivateCommit
  <2> QED
    BY <1>0, <1>11, <2>2 DEF ActivateCommit, mgmt, CallbacksTyped, RestTyped, ScenarioTypeOK
<1>12. CASE ActivateEnable(m)
  <2> DEFINE i == Foremost(Reenabled(r) \ r.written)
  <2>1. /\ r \in Activating /\ Reenabled(r) \in SUBSET Installs /\ r.written \subseteq Reenabled(r) /\ r.owner \in Nat
        /\ \A j \in Installs : Drawn(r, j) \in Nat
    BY <1>2, <1>12 DEF ActivateEnable, PlansFollowed, PlanFollowed
  <2>2. \/ Goes(m, mgr, [r EXCEPT !.pc = "resume"]) /\ file' = file
        \/ /\ Goes(m, mgr, [r EXCEPT !.written = @ \cup {i}]) /\ r.written # Reenabled(r)
           /\ file' = [file EXCEPT ![i] = Descriptor(r, i, Drawn(r, i), Drawn(r, i), r.owner)]
    BY <1>12 DEF ActivateEnable
  <2>3. r.written # Reenabled(r) => i \in Installs
    BY <2>1, ForemostOne
  <2> HIDE DEF i
  <2>4. r.written # Reenabled(r) => Descriptor(r, i, Drawn(r, i), Drawn(r, i), r.owner) \in FileType
    BY <2>1, <2>3, DescriptorTyped DEF FileType
  <2>5. file' \in [Installs -> FileType]
    BY <1>0, <2>2, <2>4 DEF RestTyped
  <2>6. [r EXCEPT !.pc = "resume"] \in ManagerType
    BY Zenon, <2>1, ActivatingMoves DEF ManagerType
  <2>7. r.written # Reenabled(r) => [r EXCEPT !.written = @ \cup {i}] \in ManagerType
    BY Zenon, <2>1, <2>3, ActivatingMoves DEF ManagerType
  <2>8. mgr' \in [Managers -> ManagerType]
    BY <1>0, <2>2, <2>6, <2>7, ManagerGoes
  <2> QED
    BY <1>0, <1>12, <2>5, <2>8 DEF ActivateEnable, mgmt, CallbacksTyped, RestTyped, ScenarioTypeOK
<1>13. CASE ActivateResume(m)
  <2>1. mgr' \in [Managers -> ManagerType]
    BY Zenon, <1>0, <1>13, ManagerGoes DEF ActivateResume, ManagerType
  <2>2. ctl' \in Seq(Controller) /\ Len(ctl') = Len(ctl)
    <3> DEFINE n == r.ctl
    <3>1. ctl' = [ctl EXCEPT ![n].paused = FALSE]
      BY <1>13 DEF ActivateResume
    <3> HIDE DEF n
    <3>2. CASE n \in DOMAIN ctl
      <4>1. n \in 1 .. Len(ctl) /\ ctl[n] \in Controller
        BY <1>5, <3>2, ElementOfSeq
      <4>2. [ctl[n] EXCEPT !.paused = FALSE] \in Controller
        BY Zenon, <4>1 DEF Controller
      <4>3. ctl' = [ctl EXCEPT ![n] = [ctl[n] EXCEPT !.paused = FALSE]]
        BY <3>1
      <4> QED
        BY <1>5, <4>1, <4>2, <4>3, ExceptSeq
    <3>3. CASE n \notin DOMAIN ctl
      <4>1. ctl' = ctl
        BY <1>5, <3>1, <3>3
      <4> QED
        BY <1>5, <4>1
    <3> QED
      BY <3>2, <3>3
  <2> QED
    BY <1>0, <1>3, <1>13, <2>1, <2>2 DEF ActivateResume, CallbacksTyped, RestTyped, ScenarioTypeOK
<1>14. CASE ActivateFails(m)
  <2>1. [r EXCEPT !.pc = "fail", !.held = {}] \in ManagerType
    BY Zenon, <1>2, <1>14, ActivatingMoves DEF ActivateFails, ManagerType
  <2>2. mgr' \in [Managers -> ManagerType]
    BY <1>0, <1>14, <2>1, ManagerGoes DEF ActivateFails
  <2>3. ScenarioTypeOK'
    <3>1. scenario' = scenario \/ Spend("failures")
      BY <1>14 DEF ActivateFails
    <3> QED
      BY <1>0, <3>1, SpendKeeps DEF Countable, ScenarioTypeOK
  <2> QED
    BY <1>0, <1>3, <1>14, <2>2, <2>3 DEF ActivateFails, mgmt, CallbacksTyped, RestTyped
<1>15. CASE ActivateFail(m)
  <2>1. \/ file' = FilesRevoked(Installs) /\ cb' = CallbacksRevoked(Installs) /\ Done(m, ManagersRevoked(Installs))
        \/ UNCHANGED <<file, cb>> /\ Done(m, mgr)
    BY <1>15 DEF ActivateFail
  <2>2. mgr' \in [Managers -> ManagerType]
    BY <1>0, <1>1, <2>1, ManagerGoes DEF ManagerType
  <2> QED
    BY <1>0, <1>1, <1>15, <2>1, <2>2 DEF ActivateFail, CallbacksTyped, RestTyped, ScenarioTypeOK
<1> QED
  BY <1>6, <1>7, <1>8, <1>9, <1>10, <1>11, <1>12, <1>13, <1>14, <1>15

LEMMA WritesTyped ==
  ASSUME HooksTypeOK, NEW k \in scenario.sessions, Write(k) \/ DeleteCaptured(k)
  PROVE  CallbacksTyped' /\ RestTyped' /\ Len(ctl') = Len(ctl)
<1>0. ServiceTypeOK /\ ScenarioTypeOK /\ CallbacksTyped /\ RestTyped /\ k \in Roots
  BY TypesTogether DEF HooksTypeOK, ScenarioTypeOK
<1>1. ScenarioTypeOK' /\ UNCHANGED <<file, lock, ctl, cb, mgr>>
  BY <1>0, SpendKeeps DEF Write, DeleteCaptured, Countable
<1>2. transcript' \in [Roots -> [inc : Nat \ {0}, lines : Seq(Outcomes)]]
  <2> DEFINE t == transcript[k]
  <2>1. /\ transcript \in [Roots -> [inc : Nat \ {0}, lines : Seq(Outcomes)]]
        /\ t \in [inc : Nat \ {0}, lines : Seq(Outcomes)]
    BY <1>0 DEF RestTyped
  <2>2. \/ transcript' = transcript
        \/ \E outcome \in Outcomes : transcript' = [transcript EXCEPT ![k] = [t EXCEPT !.lines = Append(t.lines, outcome)]]
        \/ transcript' = [transcript EXCEPT ![k] = [inc |-> t.inc + 1, lines |-> <<>>]]
    BY <1>0 DEF Write, DeleteCaptured, ScenarioTypeOK
  <2>3. \A outcome \in Outcomes : Append(t.lines, outcome) \in Seq(Outcomes)
    BY <2>1
  <2>4. \A outcome \in Outcomes :
          [t EXCEPT !.lines = Append(t.lines, outcome)] \in [inc : Nat \ {0}, lines : Seq(Outcomes)]
    BY Zenon, <2>1, <2>3
  <2>5. [inc |-> t.inc + 1, lines |-> <<>>] \in [inc : Nat \ {0}, lines : Seq(Outcomes)]
    BY <2>1
  <2> HIDE DEF t
  <2> QED
    BY Zenon, <2>1, <2>2, <2>4, <2>5
<1> QED
  BY <1>0, <1>1, <1>2 DEF CallbacksTyped, RestTyped

LEMMA NextTyped ==
  ASSUME HooksTypeOK, GenerationsDrawn, SessionsInOrder, RepliesInOrder, CredentialsSound, PlansFollowed, [Next]_vars
  PROVE  HooksTypeOK'
<1>1. StoreMoves /\ SessionsMove
  BY NextMoves, NextSessions
<1>2. StoreTypeOK'
  BY <1>1 DEF StoreTypeOK, StoreMoves, RowsMove, OwnerMoves, SessionsMove, SessionsTyped
<1>3. CallbacksTyped' /\ RestTyped'
  <2>1. ASSUME NEW c \in Callbacks, CallbackActs(c)
        PROVE  CallbacksTyped' /\ RestTyped'
    <3>1. CallbacksTyped'
      BY <1>1, <2>1, CallbackActsTyped DEF SessionsMove
    <3>2. UNCHANGED <<file, lock, mgr, transcript>>
      BY <2>1, CallbackRests
    <3>3. scenario' = scenario \/ Spend("hooks")
      BY Zenon, <2>1 DEF CallbackActs, Begin, Handle, Refuse, GiveUp, Transport, Reread, Admission, Acquire, Publication, Serves
    <3>4. ScenarioTypeOK'
      BY <3>3, SpendKeeps DEF Countable, ScenarioTypeOK, HooksTypeOK
    <3> QED
      BY <3>1, <3>2, <3>4, TypesTogether DEF RestTyped
  <2>2. CASE \E k \in scenario.sessions : Write(k) \/ DeleteCaptured(k)
    BY <2>2, WritesTyped
  <2>3. CASE OwnerActs
    BY <2>3, OwnerActsTyped
  <2>4. ASSUME NEW m \in Managers, ManagerActs(m)
        PROVE  CallbacksTyped' /\ RestTyped'
    BY <2>4, InstallsTyped, UninstallsTyped, ActivatesTyped DEF ManagerActs, ManagerWaits, ManagerDisables, ManagerCommits
  <2>5. CASE UNCHANGED vars
    BY <2>5, TypesTogether DEF vars, CallbacksTyped, RestTyped, ScenarioTypeOK
  <2> QED
    BY <2>1, <2>2, <2>3, <2>4, <2>5, StepKinds
<1>4. StoreTypeOK' /\ CallbacksTyped' /\ RestTyped' => HooksTypeOK'
  BY DEF HooksTypeOK, ServiceTypeOK, CallbacksTyped, RestTyped, CallbackType, FileType, ManagerType
<1> QED
  BY <1>2, <1>3, <1>4

-----------------------------------------------------------------------------
(* Credentials and replies. *)

CallbackFine(c) ==
  /\ Alive(c) => Sound(cb[c].inst, cb[c].cap.generation, cb[c].cap.owner, cb[c].cap.old)
  /\ cb[c].pc = "acquire" => UnderMode(cb[c].reply.generation, cb[c].reply.mode = "full")
  /\ cb[c].pc = "publish" =>
       LET a == cb[c].reply
           o == a.batch.observed
       IN  /\ a.generation = cb[c].cap.generation /\ a.owner = cb[c].cap.owner
           /\ o # NoEntity => InOrder(o) /\ (o.body => UnderMode(a.generation, TRUE))

LEMMA CallbacksFine ==
  (RepliesInOrder /\ CallbacksSound) <=> \A c \in Callbacks : CallbackFine(c)
BY DEF RepliesInOrder, CallbacksSound, CallbackFine

\* A callback ended, or is where it was under the credential it had, which the step
\* may have marked when it revoked it.
Carried(c) ==
  \/ cb'[c] \in {Quiet, Over}
  \/ /\ Alive(c) /\ cb'[c].pc = cb[c].pc /\ cb'[c].inst = cb[c].inst /\ cb'[c].reply = cb[c].reply
     /\ \/ cb'[c].cap = cb[c].cap
        \/ cb'[c].cap = [cb[c].cap EXCEPT !.old = TRUE] /\ Revokes(cb[c].inst)

LEMMA WorkingCarries ==
  ASSUME NEW w \in Working
  PROVE  /\ LET x == [w EXCEPT !.cap.old = TRUE]
            IN  x.pc = w.pc /\ x.inst = w.inst /\ x.reply = w.reply /\ x.cap = [w.cap EXCEPT !.old = TRUE]
         /\ LET x == [w EXCEPT !.aborted = TRUE]
            IN  x.pc = w.pc /\ x.inst = w.inst /\ x.reply = w.reply /\ x.cap = w.cap
         /\ LET x == [w EXCEPT !.alive = FALSE]
            IN  x.pc = w.pc /\ x.inst = w.inst /\ x.reply = w.reply /\ x.cap = w.cap
         /\ \A p : LET x == [w EXCEPT !.place = p]
                   IN  x.pc = w.pc /\ x.inst = w.inst /\ x.reply = w.reply /\ x.cap = w.cap
         /\ \A p, n : LET x == [w EXCEPT !.place = p, !.at = n]
                      IN  x.pc = w.pc /\ x.inst = w.inst /\ x.reply = w.reply /\ x.cap = w.cap
BY DEF Working, Work, Credential

LEMMA WorksAlive ==
  ASSUME ServiceTypeOK, NEW c \in Callbacks
  PROVE  /\ cb[c] \in Working <=> Alive(c)
         /\ ~Alive(c) => cb[c] \in {Quiet, Over}
         /\ cb[c].pc \in {"transport", "reread", "admit1", "admit2", "acquire", "publish"} => Alive(c)
<1>1. cb[c] \in Working \/ cb[c] = Quiet \/ cb[c] = Over
  BY DEF ServiceTypeOK
<1>2. cb[c] \in Working => Alive(c)
  BY WorkingReads DEF Reads, Alive
<1>3. cb[c] \in {Quiet, Over} => ~Alive(c) /\ cb[c].pc \in {"idle", "over"}
  BY DEF Quiet, Over, Alive
<1> QED
  BY <1>1, <1>2, <1>3

LEMMA StaysCarried ==
  ASSUME ServiceTypeOK, NEW c \in Callbacks, cb'[c] = cb[c]
  PROVE  Carried(c)
BY WorksAlive DEF Carried

\* What a revocation and an abort leave of the callbacks.
LEMMA RevocationCarries ==
  ASSUME ServiceTypeOK, NEW S \in SUBSET Installs, \A i \in S : Revokes(i), NEW n,
         cb' = CallbacksRevoked(S) \/ cb' = Aborted(n, CallbacksRevoked(S)) \/ cb' = Aborted(n, cb)
  PROVE  \A c \in Callbacks : Carried(c)
<1> SUFFICES ASSUME NEW c \in Callbacks PROVE Carried(c)
  OBVIOUS
<1>1. CASE ~Alive(c)
  <2>1. cb'[c] = cb[c]
    BY Zenon, <1>1 DEF CallbacksRevoked, Aborted, At
  <2> QED
    BY <2>1, StaysCarried
<1>2. CASE Alive(c)
  <2>1. cb[c] \in Working
    BY <1>2, AliveWorks
  <2> DEFINE x == CallbacksRevoked(S)[c]
  <2>2. /\ x \in Working /\ x.pc = cb[c].pc /\ x.inst = cb[c].inst /\ x.reply = cb[c].reply
        /\ \/ x.cap = cb[c].cap
           \/ x.cap = [cb[c].cap EXCEPT !.old = TRUE] /\ Revokes(cb[c].inst)
    <3>1. CASE cb[c].inst \in S
      <4>1. x = [cb[c] EXCEPT !.cap.old = TRUE]
        BY <1>2, <3>1 DEF CallbacksRevoked
      <4>2. [cb[c] EXCEPT !.cap.old = TRUE] \in Working
        <5>1. 0 \in Nat /\ "sent" \in {"sent", "queued", "active", "none"}
          OBVIOUS
        <5> QED
          BY Zenon, <2>1, <5>1, WorkingMoves
      <4> HIDE DEF x
      <4> QED
        BY <2>1, <3>1, <4>1, <4>2, WorkingCarries
    <3>2. CASE cb[c].inst \notin S
      <4>1. x = cb[c]
        BY <1>2, <3>2 DEF CallbacksRevoked
      <4> QED
        BY <2>1, <4>1
    <3> QED
      BY <3>1, <3>2
  <2>3. CASE cb' = CallbacksRevoked(S)
    BY <1>2, <2>2, <2>3 DEF Carried
  <2>4. CASE cb' = Aborted(n, CallbacksRevoked(S))
    <3>1. cb'[c] = Over \/ cb'[c] = [x EXCEPT !.aborted = TRUE] \/ cb'[c] = x
      BY <2>4 DEF Aborted
    <3> HIDE DEF x
    <3> QED
      BY Zenon, <1>2, <2>2, <3>1, WorkingCarries DEF Carried
  <2>5. CASE cb' = Aborted(n, cb)
    <3>1. cb'[c] = Over \/ cb'[c] = [cb[c] EXCEPT !.aborted = TRUE] \/ cb'[c] = cb[c]
      BY <2>5 DEF Aborted
    <3> QED
      BY Zenon, <1>2, <2>1, <3>1, WorkingCarries DEF Carried
  <2> QED
    BY <2>3, <2>4, <2>5
<1> QED
  BY <1>1, <1>2

\* A callback that is carried over stays fine.
LEMMA CarriedFine ==
  ASSUME HooksTypeOK, GenerationsDrawn, StoreMoves, NEW c \in Callbacks, CallbackFine(c), Carried(c)
  PROVE  CallbackFine(c)'
<1>0. StoreTypeOK /\ ServiceTypeOK
  BY DEF HooksTypeOK
<1>1. CASE cb'[c] \in {Quiet, Over}
  <2>1. cb'[c].pc \in {"idle", "over"}
    BY <1>1 DEF Quiet, Over
  <2> QED
    BY <2>1 DEF CallbackFine, Alive
<1>2. CASE cb'[c] \notin {Quiet, Over}
  <2>1. /\ Alive(c) /\ cb'[c].pc = cb[c].pc /\ cb'[c].inst = cb[c].inst /\ cb'[c].reply = cb[c].reply
        /\ \/ cb'[c].cap = cb[c].cap
           \/ cb'[c].cap = [cb[c].cap EXCEPT !.old = TRUE] /\ Revokes(cb[c].inst)
    BY <1>2 DEF Carried
  <2>2. cb[c] \in Working /\ cb[c].cap \in Credential /\ cb[c].inst \in Installs
    BY <1>0, <2>1, AliveWorks, WorkingReads DEF Reads
  <2>3. PICK i \in Installs, cap \in Credential, cap2 \in Credential :
          /\ i = cb[c].inst /\ cap = cb[c].cap /\ cap2 = cb'[c].cap
          /\ cap2.generation = cap.generation /\ cap2.owner = cap.owner
          /\ cap2.old => cap.old \/ Revokes(i)
    <3>1. CASE cb'[c].cap = cb[c].cap
      BY <2>2, <3>1
    <3>2. CASE cb'[c].cap = [cb[c].cap EXCEPT !.old = TRUE] /\ Revokes(cb[c].inst)
      <4>1. PICK cap \in Credential : cap = cb[c].cap
        BY <2>2
      <4>2. /\ [cap EXCEPT !.old = TRUE] \in Credential
            /\ [cap EXCEPT !.old = TRUE].generation = cap.generation
            /\ [cap EXCEPT !.old = TRUE].owner = cap.owner
        BY Zenon DEF Credential
      <4> QED
        BY Zenon, <2>2, <3>2, <4>1, <4>2
    <3> QED
      BY <2>1, <3>1, <3>2
  <2>4. Sound(i, cap.generation, cap.owner, cap.old)
    BY <2>1, <2>3 DEF CallbackFine
  <2>5. PICK g \in Nat, o \in Nat, old \in BOOLEAN, older \in BOOLEAN :
          g = cap.generation /\ o = cap.owner /\ old = cap.old /\ older = cap2.old
    <3>1. cap.generation \in Nat /\ cap.owner \in Nat /\ cap.old \in BOOLEAN /\ cap2.old \in BOOLEAN
      BY DEF Credential
    <3> QED
      BY <3>1
  <2>6. Sound(i, g, o, older)'
    BY <1>0, <2>3, <2>4, <2>5, SoundStays
  <2>7. Sound(cb[c].inst, cb[c].cap.generation, cb[c].cap.owner, cb[c].cap.old)'
    BY <2>1, <2>3, <2>5, <2>6
  <2>8. ASSUME cb[c].pc = "acquire"
        PROVE  UnderMode(cb[c].reply.generation, cb[c].reply.mode = "full")'
    <3>1. cb[c].reply \in AdmissionReply
      BY <1>0, <2>8, ReplyKinds
    <3>2. PICK g1 \in Nat, full \in BOOLEAN : g1 = cb[c].reply.generation /\ (full <=> cb[c].reply.mode = "full")
      BY Zenon, <3>1 DEF AdmissionReply
    <3>3. UnderMode(g1, full)
      BY <2>8, <3>2 DEF CallbackFine, UnderMode
    <3>4. UnderMode(g1, full)'
      BY <1>0, <3>3, UnderModeStays
    <3> QED
      BY <2>1, <3>2, <3>4 DEF UnderMode
  <2>9. ASSUME cb[c].pc = "publish", cb[c].reply.batch.observed # NoEntity, cb[c].reply.batch.observed.body
        PROVE  UnderMode(cb[c].reply.generation, TRUE)'
    <3>1. cb[c].reply \in PublishReply
      BY <1>0, <2>9, ReplyKinds
    <3>2. PICK g1 \in Nat : g1 = cb[c].reply.generation
      BY <3>1 DEF PublishReply
    <3>3. UnderMode(g1, TRUE)
      BY <2>9, <3>2 DEF CallbackFine
    <3>4. UnderMode(g1, TRUE)'
      BY <1>0, <3>3, UnderModeStays
    <3> QED
      BY <2>1, <3>2, <3>4
  <2>10. cb'[c].cap.generation = cb[c].cap.generation /\ cb'[c].cap.owner = cb[c].cap.owner
    BY <2>3
  <2> QED
    BY <2>1, <2>7, <2>8, <2>9, <2>10 DEF CallbackFine
<1> QED
  BY <1>1, <1>2

LEMMA DrawnRevokes ==
  ASSUME StoreTypeOK, GenerationsDrawn
  PROVE  /\ owner'.generation = fresh + 1 => \A i \in Installs : Revokes(i)
         /\ \A i \in Installs : row'[i].generation = fresh + 1 => Revokes(i)
<1>1. owner.generation \in Nat /\ fresh \in Nat /\ owner.generation <= fresh
  BY DEF StoreTypeOK, GenerationsDrawn
<1>2. \A i \in Installs : row[i].generation \in Nat /\ row[i].generation <= fresh
  BY DEF StoreTypeOK, GenerationsDrawn, Row, KnownRow, NoRow
<1> QED
  BY <1>1, <1>2 DEF Revokes

\* The installations a step revokes, and what it does to the callbacks for them.
Revoking(S) ==
  /\ S \in SUBSET Installs /\ \A i \in S : Revokes(i)
  /\ \/ cb' = cb \/ cb' = CallbacksRevoked(S)
     \/ cb' = Aborted(Cur, CallbacksRevoked(S)) \/ cb' = Aborted(Cur, cb)

\* A management step does that to the other requests and, but for the files it writes
\* itself, to the files.
Writes(m) == InstallDisabled(m) \/ InstallWrite(m) \/ UninstallRemove(m) \/ ActivateDisable(m) \/ ActivateEnable(m)

ManagerCarries(m, S) ==
  /\ Revoking(S)
  /\ \A n \in Managers \ {m} : mgr'[n] = mgr[n] \/ mgr'[n] = ManagersRevoked(S)[n]
  /\ file' = file \/ file' = FilesRevoked(S) \/ Writes(m)

LEMMA OthersGo ==
  ASSUME NEW m \in Managers, NEW managers \in [Managers -> ManagerType], NEW next
  PROVE  Goes(m, managers, next) \/ Done(m, managers) => \A n \in Managers \ {m} : mgr'[n] = managers[n]
BY DEF Goes, Done

LEMMA ManagerWaitsCarries ==
  ASSUME HooksTypeOK, NEW m \in Managers, ManagerWaits(m)
  PROVE  ManagerCarries(m, {})
<1>0. mgr \in [Managers -> ManagerType]
  BY TypesTogether DEF RestTyped
<1>1. Revoking({})
  BY DEF ManagerWaits, InstallCheck, InstallLock, InstallDisabled, InstallSettled, InstallWrite,
         UninstallRemove, Abandoned, ActivateBusy,
         ActivateDrain, ActivateLock, ActivateDisable, ActivateEnable, ActivateResume, ActivateFails, mgmt, Revoking
<1>2. file' = file \/ Writes(m)
  BY DEF ManagerWaits, Writes, InstallCheck, InstallLock, InstallSettled, Abandoned, ActivateBusy,
         ActivateDrain, ActivateLock, ActivateResume, ActivateFails
<1>3. \A n \in Managers \ {m} : mgr'[n] = mgr[n]
  BY <1>0 DEF ManagerWaits, InstallCheck, InstallLock, InstallDisabled, InstallSettled, InstallWrite,
         UninstallRemove, Abandoned, ActivateBusy,
         ActivateDrain, ActivateLock, ActivateDisable, ActivateEnable, ActivateResume, ActivateFails, Goes, Done
<1> QED
  BY <1>1, <1>2, <1>3 DEF ManagerCarries

LEMMA ManagerDisablesCarries ==
  ASSUME HooksTypeOK, GenerationsDrawn, NEW m \in Managers, ManagerDisables(m)
  PROVE  \E S : ManagerCarries(m, S)
<1>0. mgr \in [Managers -> ManagerType] /\ StoreTypeOK /\ ServiceTypeOK
  BY TypesTogether DEF RestTyped, HooksTypeOK
<1>1. ASSUME NEW i \in Installs, DisableInstallation(i), cb' = CallbacksRevoked({i}),
             NEW next, Goes(m, ManagersRevoked({i}), next) \/ Done(m, ManagersRevoked({i})),
             file' = FilesRevoked({i}) \/ Writes(m)
      PROVE  ManagerCarries(m, {i})
  <2>1. Revoking({i})
    BY <1>0, <1>1, DisableMoves DEF Revoking
  <2>2. ManagersRevoked({i}) \in [Managers -> ManagerType]
    BY <1>0, ManagersRevokedTyped
  <2>3. \A n \in Managers \ {m} : mgr'[n] = ManagersRevoked({i})[n]
    BY <1>1, <2>2, OthersGo
  <2> QED
    BY <1>1, <2>1, <2>3 DEF ManagerCarries
<1>2. ASSUME UNCHANGED <<file, cb>>, Done(m, mgr)
      PROVE  ManagerCarries(m, {})
  BY <1>0, <1>2 DEF ManagerCarries, Revoking, Done
<1>3. CASE InstallInactive(m)
  <2>1. mgr[m].inst \in Installs
    BY <1>0, <1>3, ManagerKinds DEF InstallInactive, Installing
  <2> QED
    BY <1>1, <1>3, <2>1 DEF InstallInactive, Disables
<1>4. CASE InstallFails(m)
  <2>1. mgr[m].inst \in Installs
    BY <1>0, <1>4, ManagerKinds DEF InstallFails, Installing
  <2> QED
    BY <1>1, <1>4, <2>1 DEF InstallFails
<1>5. CASE UninstallStart(m)
  BY <1>1, <1>5 DEF UninstallStart, Disables
<1>6. CASE UninstallLock(m)
  <2>1. mgr[m].inst \in Installs
    BY <1>0, <1>6, ManagerKinds DEF UninstallLock, Uninstalling
  <2> QED
    BY <1>1, <1>2, <1>6, <2>1 DEF UninstallLock, Disables
<1> QED
  BY <1>3, <1>4, <1>5, <1>6 DEF ManagerDisables

LEMMA ManagerCommitsCarries ==
  ASSUME HooksTypeOK, GenerationsDrawn, CredentialsSound, NEW m \in Managers, ManagerCommits(m)
  PROVE  \E S : ManagerCarries(m, S)
<1>0. /\ mgr \in [Managers -> ManagerType] /\ StoreTypeOK /\ ServiceTypeOK /\ FilesSound
      /\ ManagersRevoked(Installs) \in [Managers -> ManagerType]
      /\ \A i \in Installs : ManagersRevoked({i}) \in [Managers -> ManagerType]
  BY TypesTogether, ManagersRevokedTyped DEF RestTyped, HooksTypeOK, CredentialsSound
<1>1. ASSUME UNCHANGED <<file, cb>>, NEW next, Goes(m, mgr, next) \/ Done(m, mgr)
      PROVE  ManagerCarries(m, {})
  BY <1>0, <1>1, OthersGo DEF ManagerCarries, Revoking
<1>2. ASSUME NEW S \in SUBSET Installs, \A i \in S : Revokes(i), file' = FilesRevoked(S),
             cb' = CallbacksRevoked(S) \/ cb' = Aborted(Cur, CallbacksRevoked(S)),
             NEW next, Goes(m, ManagersRevoked(S), next) \/ Done(m, ManagersRevoked(S))
      PROVE  ManagerCarries(m, S)
  <2>1. ManagersRevoked(S) \in [Managers -> ManagerType]
    BY <1>0, ManagersRevokedTyped
  <2> QED
    BY <1>2, <2>1, OthersGo DEF ManagerCarries, Revoking
<1>3. CASE InstallStart(m)
  <2>0. PICK i \in Installs : \E next :
          \/ /\ Stored(i) /\ row' = [row EXCEPT ![i] = Fenced(@, fresh + 1)] /\ fresh' = fresh + 1
             /\ owner' = owner /\ file' = FilesRevoked({i}) /\ cb' = CallbacksRevoked({i})
             /\ Goes(m, ManagersRevoked({i}), next)
          \/ UNCHANGED <<file, cb>> /\ Goes(m, mgr, next)
    BY Zenon, <1>3 DEF InstallStart
  <2>1. PICK next :
          \/ /\ Stored(i) /\ row' = [row EXCEPT ![i] = Fenced(@, fresh + 1)] /\ fresh' = fresh + 1
             /\ owner' = owner /\ file' = FilesRevoked({i}) /\ cb' = CallbacksRevoked({i})
             /\ Goes(m, ManagersRevoked({i}), next)
          \/ UNCHANGED <<file, cb>> /\ Goes(m, mgr, next)
    BY <2>0
  <2>2. CASE UNCHANGED <<file, cb>> /\ Goes(m, mgr, next)
    BY <1>1, <2>2
  <2>3. CASE /\ Stored(i) /\ row' = [row EXCEPT ![i] = Fenced(@, fresh + 1)] /\ fresh' = fresh + 1
             /\ owner' = owner /\ file' = FilesRevoked({i}) /\ cb' = CallbacksRevoked({i})
             /\ Goes(m, ManagersRevoked({i}), next)
    <3>1. Revokes(i)
      BY Zenon, <1>0, <2>3, FenceMoves
    <3> QED
      BY <1>2, <2>3, <3>1
  <2> QED
    BY <2>1, <2>2, <2>3
<1>4. CASE InstallPrepare(m)
  <2> DEFINE r == mgr[m]
             t == IF Repeats(r) THEN file[r.inst].token ELSE fresh + 1
             gone == IF Prepared(r.inst, r.want, t) = row[r.inst] THEN {} ELSE {r.inst}
  <2>1. r.inst \in Installs
    BY <1>0, <1>4, ManagerKinds DEF InstallPrepare, Installing
  <2>2. /\ file' = FilesRevoked(gone) /\ cb' = CallbacksRevoked(gone)
        /\ \E next : Goes(m, ManagersRevoked(gone), next)
    BY <1>4 DEF InstallPrepare
  <2>3. row'[r.inst] = Prepared(r.inst, r.want, t)
    BY <1>0, <1>4, <2>1 DEF InstallPrepare, StoreTypeOK
  <2>4. row'[r.inst] # row[r.inst] => row'[r.inst].generation = fresh + 1
    BY <1>0, <1>4, InstallPrepareMoves
  <2>5. gone \in SUBSET Installs /\ \A i \in gone : Revokes(i)
    BY <1>0, <2>1, <2>3, <2>4, DrawnRevokes
  <2> HIDE DEF gone
  <2> QED
    BY <1>2, <2>2, <2>5
<1>5. CASE InstallCommit(m)
  BY <1>1, <1>5 DEF InstallCommit, mgmt
<1>6. CASE ActivateStart(m)
  <2>1. /\ owner' = [owner EXCEPT !.generation = fresh + 1] /\ file' = FilesRevoked(Installs)
        /\ cb' = Aborted(Cur, CallbacksRevoked(Installs)) /\ \E next : Goes(m, ManagersRevoked(Installs), next)
    BY <1>6 DEF ActivateStart
  <2>2. owner'.generation = fresh + 1
    BY <1>0, <2>1 DEF StoreTypeOK
  <2> QED
    BY <1>0, <1>2, <2>1, <2>2, DrawnRevokes
<1>7. CASE ActivateCommit(m)
  BY <1>1, <1>7 DEF ActivateCommit, mgmt
<1>8. CASE ActivateFail(m)
  <2>1. CASE owner.active
    <3>1. /\ owner' = [owner EXCEPT !.generation = fresh + 1] /\ file' = FilesRevoked(Installs)
          /\ cb' = CallbacksRevoked(Installs) /\ Done(m, ManagersRevoked(Installs))
      BY <1>8, <2>1 DEF ActivateFail
    <3>2. owner'.generation = fresh + 1
      BY <1>0, <3>1 DEF StoreTypeOK
    <3> QED
      BY <1>0, <1>2, <3>1, <3>2, DrawnRevokes
  <2>2. CASE ~owner.active
    BY <1>1, <1>8, <2>2 DEF ActivateFail
  <2> QED
    BY <2>1, <2>2
<1> QED
  BY <1>3, <1>4, <1>5, <1>6, <1>7, <1>8 DEF ManagerCommits

LEMMA ManagerStepCarries ==
  ASSUME HooksTypeOK, GenerationsDrawn, CredentialsSound, NEW m \in Managers, ManagerActs(m)
  PROVE  \E S : ManagerCarries(m, S)
BY ManagerWaitsCarries, ManagerDisablesCarries, ManagerCommitsCarries DEF ManagerActs

\* The owner's steps revoke everything, when they revoke; a process that is gone takes
\* its requests along.
OwnerCarries(S) ==
  /\ Revoking(S) \/ Gone
  /\ S \in SUBSET Installs /\ \A i \in S : Revokes(i)
  /\ \A n \in Managers : mgr'[n] = mgr[n] \/ mgr'[n] = Idle \/ mgr'[n] = ManagersRevoked(S)[n]
  /\ file' = file \/ file' = FilesRevoked(S)

LEMMA OwnerStepCarries ==
  ASSUME HooksTypeOK, GenerationsDrawn, OwnerActs
  PROVE  \E S : OwnerCarries(S)
<1>0. StoreTypeOK
  BY DEF HooksTypeOK
<1>1. CASE ClearStart \/ ClearFinish \/ Shutdown \/ Boot
  <2>1. owner'.generation = fresh + 1
    BY <1>0, <1>1 DEF ClearStart, ClearFinish, Shutdown, Boot, ClearAll, RotateOwner, StoreTypeOK
  <2>2. \A i \in Installs : Revokes(i)
    BY <1>0, <2>1, DrawnRevokes
  <2>3. /\ file' = FilesRevoked(Installs) /\ (mgr' = ManagersRevoked(Installs) \/ mgr' = mgr)
        /\ (cb' = CallbacksRevoked(Installs) \/ cb' = Aborted(Cur, CallbacksRevoked(Installs)))
    BY <1>1 DEF ClearStart, ClearFinish, Shutdown, Boot
  <2> QED
    BY <2>2, <2>3 DEF OwnerCarries, Revoking
<1>2. CASE ClearFails
  <2>1. OwnerCarries({})
    BY <1>2 DEF ClearFails, OwnerCarries, Revoking
  <2> QED
    BY <2>1
<1>3. CASE Gone
  <2>1. OwnerCarries({})
    BY <1>3 DEF Gone, OwnerCarries, Revoking
  <2> QED
    BY <2>1
<1> QED
  BY <1>1, <1>2, <1>3 DEF OwnerActs

LEMMA ReleaseCarries ==
  ASSUME ServiceTypeOK, NEW c \in Callbacks, NEW next, Release(c, next)
  PROVE  cb'[c] = next /\ \A d \in Callbacks \ {c} : Carried(d)
<1>1. \A d \in Callbacks \ {c} : cb'[d] = cb[d] \/ cb'[d] = [cb[d] EXCEPT !.place = "active"]
  BY DEF Release
<1>2. cb'[c] = next
  BY DEF Release
<1>3. ASSUME NEW d \in Callbacks \ {c}, cb'[d] = [cb[d] EXCEPT !.place = "active"]
      PROVE  Carried(d)
  <2>1. CASE Alive(d)
    <3>1. cb[d] \in Working
      BY <2>1, AliveWorks
    <3> QED
      BY <1>3, <2>1, <3>1, WorkingCarries DEF Carried
  <2>2. CASE ~Alive(d)
    <3>1. cb[d] = Quiet \/ cb[d] = Over
      BY <2>2, WorksAlive
    <3> QED
      BY <1>3, <3>1, OverStays DEF Carried
  <2> QED
    BY <2>1, <2>2
<1> QED
  BY Zenon, <1>1, <1>2, <1>3, StaysCarried

\* The sides of a callback that goes on.
LEMMA GoesOnCarries ==
  ASSUME NEW w \in Working
  PROVE  /\ \A v, p : /\ Thinks([w EXCEPT !.reply = v], p).pc = p
                       /\ Thinks([w EXCEPT !.reply = v], p).inst = w.inst
                       /\ Thinks([w EXCEPT !.reply = v], p).cap = w.cap
                       /\ Thinks([w EXCEPT !.reply = v], p).reply = v
         /\ \A v, p : /\ Sends([w EXCEPT !.cap = v], p).pc = p
                       /\ Sends([w EXCEPT !.cap = v], p).inst = w.inst
                       /\ Sends([w EXCEPT !.cap = v], p).cap = v
                       /\ Sends([w EXCEPT !.cap = v], p).reply = w.reply
         /\ \A v, p : /\ Sends([w EXCEPT !.reply = v], p).pc = p
                       /\ Sends([w EXCEPT !.reply = v], p).inst = w.inst
                       /\ Sends([w EXCEPT !.reply = v], p).cap = w.cap
                       /\ Sends([w EXCEPT !.reply = v], p).reply = v
BY DEF Thinks, Sends, Working, Work

\* What a callback needs to be fine while the store rests.
LEMMA FineAgain ==
  ASSUME UNCHANGED <<row, owner, fresh>>, NEW c \in Callbacks,
         cb'[c].pc \in {"transport", "reread", "admit1", "admit2", "acquire", "publish"},
         Sound(cb'[c].inst, cb'[c].cap.generation, cb'[c].cap.owner, cb'[c].cap.old),
         cb'[c].pc = "acquire" => UnderMode(cb'[c].reply.generation, cb'[c].reply.mode = "full"),
         cb'[c].pc = "publish" =>
           /\ cb'[c].reply.generation = cb'[c].cap.generation /\ cb'[c].reply.owner = cb'[c].cap.owner
           /\ cb'[c].reply.batch.observed # NoEntity =>
                /\ InOrder(cb'[c].reply.batch.observed)
                /\ cb'[c].reply.batch.observed.body => UnderMode(cb'[c].reply.generation, TRUE)
  PROVE  CallbackFine(c)'
<1>1. Sound(cb[c].inst, cb[c].cap.generation, cb[c].cap.owner, cb[c].cap.old)'
  BY DEF Sound
<1>2. cb'[c].pc = "acquire" => UnderMode(cb[c].reply.generation, cb[c].reply.mode = "full")'
  BY DEF UnderMode, Stored
<1>3. cb'[c].pc = "publish" /\ cb'[c].reply.batch.observed # NoEntity /\ cb'[c].reply.batch.observed.body =>
        UnderMode(cb[c].reply.generation, TRUE)'
  BY DEF UnderMode, Stored
<1> QED
  BY <1>1, <1>2, <1>3 DEF CallbackFine

\* A callback's own step: the others are carried over, and it is over, carried over, or
\* fine where it goes on.
LEMMA AnsweredCarries ==
  ASSUME ServiceTypeOK, NEW c \in Callbacks, NEW next, Answered(c, next)
  PROVE  /\ \A d \in Callbacks \ {c} : Carried(d)
         /\ cb'[c] = next \/ Carried(c)
<1>1. CASE cb[c].alive
  BY <1>1, ReleaseCarries DEF Answered
<1>2. CASE ~cb[c].alive
  BY <1>2, ReleaseCarries DEF Answered, Carried
<1> QED
  BY <1>1, <1>2

LEMMA OnlyCarries ==
  ASSUME ServiceTypeOK, NEW c \in Callbacks, NEW x, cb' = [cb EXCEPT ![c] = x]
  PROVE  cb'[c] = x /\ \A d \in Callbacks \ {c} : Carried(d)
<1>1. cb'[c] = x /\ \A d \in Callbacks \ {c} : cb'[d] = cb[d]
  BY DEF ServiceTypeOK
<1> QED
  BY <1>1, StaysCarried

LEMMA CallbackActsCarries ==
  ASSUME HooksTypeOK, GenerationsDrawn, RepliesInOrder, CredentialsSound, NEW c \in Callbacks, CallbackActs(c)
  PROVE  /\ \A d \in Callbacks \ {c} : Carried(d)
         /\ Carried(c) \/ CallbackFine(c)'
<1>0. StoreTypeOK /\ ServiceTypeOK /\ UNCHANGED <<row, owner, fresh>> /\ FilesSound /\ CallbackFine(c)
  BY CallbackRests, CallbacksFine DEF HooksTypeOK, CredentialsSound
<1>1. CASE Begin(c)
  <2>1. PICK i \in Installs, k \in scenario.sessions, event \in scenario.events :
          /\ file[i].state = "active"
          /\ cb' = [cb EXCEPT ![c] =
               [pc |-> "transport", inst |-> i, root |-> k, event |-> event, cap |-> Capability(file[i]), reply |-> 0,
                at |-> 0, place |-> "sent", aborted |-> FALSE, alive |-> TRUE]]
    BY Zenon, <1>1 DEF Begin
  <2> DEFINE w == [pc |-> "transport", inst |-> i, root |-> k, event |-> event, cap |-> Capability(file[i]),
                   reply |-> 0, at |-> 0, place |-> "sent", aborted |-> FALSE, alive |-> TRUE]
  <2>7. w.pc = "transport" /\ w.inst = i /\ w.cap = Capability(file[i])
    OBVIOUS
  <2>6. cb' = [cb EXCEPT ![c] = w]
    BY <2>1
  <2> HIDE DEF w
  <2>8. cb'[c] = w /\ \A d \in Callbacks \ {c} : Carried(d)
    BY Zenon, <1>0, <2>6, OnlyCarries
  <2>2. cb'[c].pc = "transport" /\ cb'[c].inst = i /\ cb'[c].cap = Capability(file[i])
    BY <2>7, <2>8
  <2>3. Sound(i, file[i].generation, file[i].owner, file[i].old)
    BY <2>1, <1>0 DEF FilesSound
  <2>4. Sound(cb'[c].inst, cb'[c].cap.generation, cb'[c].cap.owner, cb'[c].cap.old)
    BY <2>2, <2>3 DEF Capability
  <2>5. CallbackFine(c)'
    BY <1>0, <2>2, <2>4, FineAgain
  <2> QED
    BY <2>5, <2>8
<1>2. CASE Handle(c)
  <2>1. cb[c] \in Working /\ Alive(c)
    BY <1>0, <1>2, AliveWorks DEF Handle
  <2>2. \/ cb' = [cb EXCEPT ![c] = Over]
        \/ cb' = [cb EXCEPT ![c] = [cb[c] EXCEPT !.place = "queued", !.at = Cur]]
        \/ cb' = [cb EXCEPT ![c] = [cb[c] EXCEPT !.place = "active", !.at = Cur]]
    BY Zenon, <1>0, <1>2 DEF Handle, ServiceTypeOK
  <2>3. PICK w \in Working : w = cb[c]
    BY <2>1
  <2>4. /\ \A d \in Callbacks \ {c} : Carried(d)
        /\ \/ cb'[c] = Over
           \/ cb'[c] = [w EXCEPT !.place = "queued", !.at = Cur]
           \/ cb'[c] = [w EXCEPT !.place = "active", !.at = Cur]
    BY <1>0, <2>2, <2>3, OnlyCarries
  <2>5. ASSUME NEW p \in {"queued", "active"}, cb'[c] = [w EXCEPT !.place = p, !.at = Cur]
        PROVE  Carried(c)
    <3>1. PICK n : n = Cur
      OBVIOUS
    <3>2. LET x == [w EXCEPT !.place = p, !.at = n]
          IN  x.pc = w.pc /\ x.inst = w.inst /\ x.reply = w.reply /\ x.cap = w.cap
      BY WorkingCarries
    <3>3. cb'[c] = [w EXCEPT !.place = p, !.at = n]
      BY <2>5, <3>1
    <3>4. cb'[c].pc = w.pc /\ cb'[c].inst = w.inst /\ cb'[c].reply = w.reply /\ cb'[c].cap = w.cap
      BY <3>2, <3>3
    <3> QED
      BY <2>1, <2>3, <3>4 DEF Carried
  <2>6. cb'[c] = Over => Carried(c)
    BY DEF Carried
  <2> QED
    BY <2>4, <2>5, <2>6
<1>3. CASE Refuse(c)
  BY <1>0, <1>3, ReleaseCarries DEF Refuse, Carried
<1>4. CASE GiveUp(c)
  <2>1. cb[c] \in Working /\ Alive(c)
    BY <1>0, <1>4, AliveWorks DEF GiveUp
  <2>2. \E x : cb' = [cb EXCEPT ![c] = x] /\ (x = Over \/ x = [cb[c] EXCEPT !.alive = FALSE])
    BY Zenon, <1>4 DEF GiveUp
  <2>3. PICK w \in Working : w = cb[c]
    BY <2>1
  <2>4. (\A d \in Callbacks \ {c} : Carried(d)) /\ (cb'[c] = Over \/ cb'[c] = [w EXCEPT !.alive = FALSE])
    BY Zenon, <1>0, <2>2, <2>3, OnlyCarries
  <2> QED
    BY Zenon, <2>1, <2>3, <2>4, WorkingCarries DEF Carried
<1>5. CASE Transport(c)
  <2>1. PICK i \in Installs : /\ cb[c].pc = "transport"
                              /\ Answered(c, Thinks([cb[c] EXCEPT !.reply = row[i].version], "reread"))
    BY <1>5 DEF Transport, Serves
  <2> DEFINE next == Thinks([cb[c] EXCEPT !.reply = row[i].version], "reread")
  <2>2. cb[c] \in Working /\ Alive(c)
    BY <1>0, <2>1, ReplyKinds, WorksAlive
  <2>3. next.pc = "reread" /\ next.inst = cb[c].inst /\ next.cap = cb[c].cap
    BY <2>2, GoesOnCarries
  <2> HIDE DEF next
  <2>4. ASSUME cb'[c] = next PROVE CallbackFine(c)'
    <3>1. Sound(cb[c].inst, cb[c].cap.generation, cb[c].cap.owner, cb[c].cap.old)
      BY <1>0, <2>2 DEF CallbackFine
    <3> QED
      BY <1>0, <2>3, <2>4, <3>1, FineAgain
  <2>5. Answered(c, next)
    BY <2>1 DEF next
  <2> QED
    BY <1>0, <2>4, <2>5, AnsweredCarries
<1>6. CASE Reread(c)
  <2>1. cb[c] \in Working /\ Alive(c) /\ cb[c].inst \in Installs
    BY <1>0, <1>6, ReplyKinds, WorksAlive DEF Reread, Reads
  <2>2. PICK f : f = file[cb[c].inst]
    OBVIOUS
  <2>3. \/ cb' = [cb EXCEPT ![c] = Over]
        \/ /\ f.state = "active"
           /\ \E pc \in {"admit1", "admit2"} : cb' = [cb EXCEPT ![c] = Sends([cb[c] EXCEPT !.cap = Capability(f)], pc)]
    BY Zenon, <1>6, <2>2 DEF Reread
  <2>4. CASE cb' = [cb EXCEPT ![c] = Over]
    BY Zenon, <1>0, <2>4, OnlyCarries DEF Carried
  <2>5. ASSUME f.state = "active", NEW pc \in {"admit1", "admit2"},
               cb' = [cb EXCEPT ![c] = Sends([cb[c] EXCEPT !.cap = Capability(f)], pc)]
        PROVE  CallbackFine(c)' /\ \A d \in Callbacks \ {c} : Carried(d)
    <3>1. /\ cb'[c] = Sends([cb[c] EXCEPT !.cap = Capability(f)], pc)
          /\ \A d \in Callbacks \ {c} : Carried(d)
      BY Zenon, <1>0, <2>5, OnlyCarries
    <3>0. PICK w \in Working : w = cb[c]
      BY <2>1
    <3>2. cb'[c].pc = pc /\ cb'[c].inst = cb[c].inst /\ cb'[c].cap = Capability(f)
      <4>1. PICK k : k = Capability(f)
        OBVIOUS
      <4>2. cb'[c] = Sends([w EXCEPT !.cap = k], pc)
        BY <3>0, <3>1, <4>1
      <4>3. cb'[c].pc = pc /\ cb'[c].inst = w.inst /\ cb'[c].cap = k
        BY <4>2 DEF Sends, Working, Work
      <4> QED
        BY <3>0, <4>1, <4>3
    <3>3. Sound(cb[c].inst, f.generation, f.owner, f.old)
      BY <1>0, <2>1, <2>2, <2>5 DEF FilesSound
    <3>4. Sound(cb'[c].inst, cb'[c].cap.generation, cb'[c].cap.owner, cb'[c].cap.old)
      BY <3>2, <3>3 DEF Capability
    <3> QED
      BY <1>0, <3>1, <3>2, <3>4, FineAgain
  <2> QED
    BY <2>3, <2>4, <2>5
<1>7. CASE Admission(c)
  <2> DEFINE k == cb[c].root
             Reply(i, via) == [via |-> via, mode |-> row[i].mode, generation |-> row[i].generation,
                owner |-> owner.generation, inc |-> session'[k].inc, cursor |-> session'[k].cursor,
                revision |-> session'[k].revision]
  <2>1. PICK i \in Installs : /\ cb[c].pc \in {"admit1", "admit2"} /\ Authentic(i, cb[c].cap.token)
          /\ Answered(c, Thinks([cb[c] EXCEPT !.reply = Reply(i, Dispatch(k, row[i].version))], "acquire"))
    BY <1>7 DEF Admission, Serves
  <2> DEFINE a == Reply(i, Dispatch(k, row[i].version))
             next == Thinks([cb[c] EXCEPT !.reply = a], "acquire")
  <2>2. cb[c] \in Working /\ Alive(c)
    BY <1>0, <2>1, ReplyKinds, WorksAlive
  <2>3. a.mode = row[i].mode /\ a.generation = row[i].generation
    OBVIOUS
  <2>4. Answered(c, next)
    BY <2>1
  <2> HIDE DEF a
  <2>5. next.pc = "acquire" /\ next.inst = cb[c].inst /\ next.cap = cb[c].cap /\ next.reply = a
    <3>1. PICK w \in Working : w = cb[c]
      BY <2>2
    <3>2. PICK v : v = a
      OBVIOUS
    <3>3. next = Thinks([w EXCEPT !.reply = v], "acquire")
      BY <3>1, <3>2
    <3>4. next.pc = "acquire" /\ next.inst = w.inst /\ next.cap = w.cap /\ next.reply = v
      BY Zenon, <3>3 DEF Thinks, Working, Work
    <3> QED
      BY <3>1, <3>2, <3>4
  <2> HIDE DEF next
  <2>6. UnderMode(row[i].generation, row[i].mode = "full")
    <3>1. Stored(i) /\ row[i].generation <= fresh
      BY <2>1 DEF Authentic, Stored, GenerationsDrawn
    <3>2. \A j \in Installs : Stored(j) /\ row[j].generation = row[i].generation => j = i
      BY <3>1 DEF GenerationsDrawn
    <3> QED
      BY <3>1, <3>2 DEF UnderMode
  <2>7. ASSUME cb'[c] = next PROVE CallbackFine(c)'
    <3>1. Sound(cb[c].inst, cb[c].cap.generation, cb[c].cap.owner, cb[c].cap.old)
      BY <1>0, <2>2 DEF CallbackFine
    <3>2. UnderMode(cb'[c].reply.generation, cb'[c].reply.mode = "full")
      BY <2>3, <2>5, <2>6, <2>7
    <3> QED
      BY <1>0, <2>5, <2>7, <3>1, <3>2, FineAgain
  <2> QED
    BY <1>0, <2>4, <2>7, AnsweredCarries
<1>8. CASE Acquire(c)
  <2> DEFINE a == cb[c].reply
             t == transcript[cb[c].root]
             o(body) == Observed(cb[c].event, t.lines, a.cursor, body)
             reply(body) == [via |-> a.via, generation |-> a.generation, owner |-> a.owner, revision |-> a.revision,
                             batch |-> [inc |-> t.inc, cursor |-> Len(t.lines), observed |-> o(body)]]
  <2>1. /\ cb[c] \in Working /\ Alive(c) /\ a \in AdmissionReply /\ cb[c].root \in Roots /\ cb[c].event \in Events
        /\ cb[c].pc = "acquire"
    BY <1>0, <1>8, ReplyKinds, WorksAlive DEF Acquire, Reads
  <2>2. \/ cb' = [cb EXCEPT ![c] = Over]
        \/ /\ a.owner = cb[c].cap.owner /\ a.generation = cb[c].cap.generation
           /\ \E body \in BOOLEAN :
                /\ body => a.mode = "full"
                /\ cb' = [cb EXCEPT ![c] = Sends([cb[c] EXCEPT !.reply = reply(body)], "publish")]
    <3>1. scenario.bodies \subseteq BOOLEAN
      BY DEF HooksTypeOK, ScenarioTypeOK
    <3>2. \E body \in IF a.mode = "full" THEN scenario.bodies ELSE {FALSE} :
            \/ cb' = [cb EXCEPT ![c] = Over]
            \/ /\ a.owner = cb[c].cap.owner /\ a.generation = cb[c].cap.generation
               /\ cb' = [cb EXCEPT ![c] = Sends([cb[c] EXCEPT !.reply = reply(body)], "publish")]
      BY Zenon, <1>8 DEF Acquire
    <3> HIDE DEF reply
    <3>3. \A body \in IF a.mode = "full" THEN scenario.bodies ELSE {FALSE} : body \in BOOLEAN /\ (body => a.mode = "full")
      BY <3>1
    <3> QED
      BY Zenon, <3>2, <3>3
  <2>3. ASSUME NEW body \in BOOLEAN
        PROVE  o(body) = NoEntity \/ (InOrder(o(body)) /\ o(body).body = body)
    <3>1. t \in [inc : Nat \ {0}, lines : Seq(Outcomes)]
      BY <1>0, <2>1 DEF ServiceTypeOK
    <3>2. PICK lines \in Seq(Outcomes), cursor \in Nat, event \in Events :
            lines = t.lines /\ cursor = a.cursor /\ event = cb[c].event
      BY Zenon, <2>1, <3>1 DEF AdmissionReply
    <3>3. LET x == Observed(event, lines, cursor, body)
          IN  x = NoEntity \/ (InOrder(x) /\ x.body = body)
      BY <3>2, ObservedTyped
    <3> QED
      BY <3>2, <3>3
  <2> HIDE DEF o
  <2>4. \A body \in BOOLEAN :
          reply(body).generation = a.generation /\ reply(body).owner = a.owner /\ reply(body).batch.observed = o(body)
    OBVIOUS
  <2> HIDE DEF reply
  <2>5. CASE cb' = [cb EXCEPT ![c] = Over]
    BY Zenon, <1>0, <2>5, OnlyCarries DEF Carried
  <2>6. ASSUME a.owner = cb[c].cap.owner, a.generation = cb[c].cap.generation,
               NEW body \in BOOLEAN, body => a.mode = "full",
               cb' = [cb EXCEPT ![c] = Sends([cb[c] EXCEPT !.reply = reply(body)], "publish")]
        PROVE  CallbackFine(c)' /\ \A d \in Callbacks \ {c} : Carried(d)
    <3>1. /\ cb'[c] = Sends([cb[c] EXCEPT !.reply = reply(body)], "publish")
          /\ \A d \in Callbacks \ {c} : Carried(d)
      BY Zenon, <1>0, <2>6, OnlyCarries
    <3>2. cb'[c].pc = "publish" /\ cb'[c].inst = cb[c].inst /\ cb'[c].cap = cb[c].cap /\ cb'[c].reply = reply(body)
      BY <2>1, <3>1, GoesOnCarries
    <3>3. /\ Sound(cb[c].inst, cb[c].cap.generation, cb[c].cap.owner, cb[c].cap.old)
          /\ UnderMode(a.generation, a.mode = "full")
      BY <1>0, <2>1 DEF CallbackFine
    <3>4. o(body) # NoEntity /\ o(body).body => UnderMode(a.generation, TRUE)
      BY <2>3, <2>6, <3>3 DEF UnderMode
    <3>5. /\ reply(body).generation = cb'[c].cap.generation /\ reply(body).owner = cb'[c].cap.owner
          /\ o(body) # NoEntity => InOrder(o(body)) /\ (o(body).body => UnderMode(reply(body).generation, TRUE))
      BY <2>3, <2>4, <2>6, <3>2, <3>4
    <3>6. Sound(cb'[c].inst, cb'[c].cap.generation, cb'[c].cap.owner, cb'[c].cap.old)
      BY <3>2, <3>3
    <3>7. cb'[c].pc = "publish" =>
           /\ cb'[c].reply.generation = cb'[c].cap.generation /\ cb'[c].reply.owner = cb'[c].cap.owner
           /\ cb'[c].reply.batch.observed # NoEntity =>
                /\ InOrder(cb'[c].reply.batch.observed)
                /\ cb'[c].reply.batch.observed.body => UnderMode(cb'[c].reply.generation, TRUE)
      BY <2>4, <3>2, <3>5
    <3> QED
      BY <1>0, <3>1, <3>2, <3>6, <3>7, FineAgain
  <2> QED
    BY <2>2, <2>5, <2>6
<1>9. CASE Publication(c)
  <2>1. Answered(c, Over)
    BY <1>9 DEF Publication
  <2> QED
    BY <1>0, <2>1, AnsweredCarries DEF Carried
<1> QED
  BY <1>1, <1>2, <1>3, <1>4, <1>5, <1>6, <1>7, <1>8, <1>9 DEF CallbackActs

LEMMA NextCallbacks ==
  ASSUME HooksTypeOK, GenerationsDrawn, RepliesInOrder, CredentialsSound, [Next]_vars
  PROVE  RepliesInOrder' /\ CallbacksSound'
<1>0. StoreMoves /\ ServiceTypeOK /\ \A c \in Callbacks : CallbackFine(c)
  BY NextMoves, CallbacksFine DEF HooksTypeOK, CredentialsSound
<1>1. \A c \in Callbacks : Carried(c) \/ CallbackFine(c)'
  <2>1. CASE \E c \in Callbacks : CallbackActs(c)
    BY <2>1, CallbackActsCarries
  <2>2. CASE \E k \in scenario.sessions : Write(k) \/ DeleteCaptured(k)
    BY <1>0, <2>2, StaysCarried DEF Write, DeleteCaptured
  <2>3. ASSUME NEW S, Revoking(S) PROVE \A c \in Callbacks : Carried(c)
    BY <1>0, <2>3, RevocationCarries, StaysCarried DEF Revoking
  <2>4. CASE OwnerActs
    <3>1. CASE Gone
      <4>1. \A c \in Callbacks : cb'[c] = Over \/ cb'[c] = cb[c]
        BY <3>1 DEF Gone
      <4> QED
        BY <1>0, <4>1, StaysCarried DEF Carried
    <3>2. CASE ~Gone
      BY <2>3, <2>4, <3>2, OwnerStepCarries DEF OwnerCarries
    <3> QED
      BY <3>1, <3>2
  <2>5. CASE \E m \in Managers : ManagerActs(m)
    BY <2>3, <2>5, ManagerStepCarries DEF ManagerCarries
  <2>6. CASE UNCHANGED vars
    BY <1>0, <2>6, StaysCarried DEF vars
  <2> QED
    BY <2>1, <2>2, <2>4, <2>5, <2>6, StepKinds
<1>2. \A c \in Callbacks : CallbackFine(c)'
  BY <1>0, <1>1, CarriedFine
<1> QED
  BY <1>2 DEF RepliesInOrder, CallbacksSound, CallbackFine

-----------------------------------------------------------------------------
(* The credentials in files and in the hands of management. *)

FileFine(i) == file[i].state = "active" =>
  file[i].token <= fresh /\ Sound(i, file[i].generation, file[i].owner, file[i].old)

ManagerFine(m) ==
  /\ mgr[m].op = "install" => InstallSound(mgr[m])
  /\ mgr[m].op = "activate" => ActivateSound(mgr[m])

LEMMA SoundRevoked ==
  ASSUME StoreTypeOK, GenerationsDrawn, StoreMoves, NEW i \in Installs, NEW g, NEW o, NEW R, NEW S,
         Sound(i, g, o, i \in R), i \in S => Revokes(i)
  PROVE  Sound(i, g, o, i \in R \cup S)'
<1>1. PICK old \in BOOLEAN : old <=> i \in R
  BY Zenon
<1>2. PICK older \in BOOLEAN : older <=> i \in R \cup S
  BY Zenon
<1>3. Sound(i, g, o, old)
  BY <1>1 DEF Sound
<1>4. older => old \/ Revokes(i)
  BY <1>1, <1>2
<1>5. Sound(i, g, o, older)'
  BY <1>3, <1>4, SoundStays
<1> QED
  BY <1>2, <1>5 DEF Sound

LEMMA InstallSoundStays ==
  ASSUME StoreTypeOK, GenerationsDrawn, StoreMoves, NEW r \in Installing, NEW x, NEW S,
         x.pc \in {"write", "commit"} => r.pc \in {"write", "commit"},
         x.inst = r.inst, x.token = r.token, x.generation = r.generation, x.owner = r.owner,
         x.revoked = r.revoked \cup S, r.inst \in S => Revokes(r.inst), InstallSound(r)
  PROVE  InstallSound(x)'
<1> SUFFICES ASSUME x.pc \in {"write", "commit"}
             PROVE  x.token <= fresh' /\ Sound(x.inst, x.generation, x.owner, x.inst \in x.revoked)'
  BY DEF InstallSound
<1>1. r.inst \in Installs /\ r.token \in Nat
  BY DEF Installing
<1>2. r.token <= fresh /\ Sound(r.inst, r.generation, r.owner, r.inst \in r.revoked)
  BY DEF InstallSound
<1>3. Sound(r.inst, r.generation, r.owner, r.inst \in r.revoked \cup S)'
  BY <1>1, <1>2, SoundRevoked
<1>4. fresh \in Nat /\ fresh' \in Nat /\ fresh' >= fresh
  BY DEF StoreTypeOK, StoreMoves, RowsMove
<1>5. x.token <= fresh'
  BY <1>1, <1>2, <1>4
<1> QED
  BY <1>3, <1>5

LEMMA ActivateSoundStays ==
  ASSUME StoreTypeOK, GenerationsDrawn, StoreMoves, NEW r, NEW x, NEW S,
         x.sel = r.sel, x.before = r.before, x.owner = r.owner, x.revoked = r.revoked \cup S,
         \A i \in Installs : i \in S => Revokes(i), ActivateSound(r)
  PROVE  ActivateSound(x)'
<1>1. \A i \in Installs : Drawn(x, i) = Drawn(r, i)
  BY DEF Drawn
<1>2. ASSUME NEW i \in Installs, i \in r.sel
      PROVE  r.before[i] # NoRow /\ Sound(i, Drawn(x, i), x.owner, i \in x.revoked)'
  <2>1. r.before[i] # NoRow /\ Sound(i, Drawn(r, i), r.owner, i \in r.revoked)
    BY <1>2 DEF ActivateSound
  <2>2. Sound(i, Drawn(r, i), r.owner, i \in r.revoked \cup S)'
    BY <2>1, SoundRevoked
  <2> QED
    BY <1>1, <2>1, <2>2
<1>3. ASSUME NEW i \in Installs, i \notin r.sel, r.before[i].state = "active"
      PROVE  Sound(i, x.before[i].generation, x.owner, i \in x.revoked)'
  <2>1. Sound(i, r.before[i].generation, r.owner, i \in r.revoked)
    BY <1>3 DEF ActivateSound
  <2>2. Sound(i, r.before[i].generation, r.owner, i \in r.revoked \cup S)'
    BY <2>1, SoundRevoked
  <2> QED
    BY <2>2
<1> QED
  BY <1>2, <1>3 DEF ActivateSound

\* A file that is left alone or revoked stays fine.
LEMMA FileCarried ==
  ASSUME HooksTypeOK, GenerationsDrawn, StoreMoves, NEW i \in Installs, FileFine(i), NEW S,
         i \in S => Revokes(i), file'[i] = file[i] \/ file'[i] = FilesRevoked(S)[i]
  PROVE  FileFine(i)'
<1>0. StoreTypeOK /\ ServiceTypeOK /\ fresh \in Nat /\ fresh' \in Nat /\ fresh' >= fresh
  BY DEF HooksTypeOK, StoreTypeOK, StoreMoves, RowsMove
<1>1. CASE file[i].state # "active"
  BY <1>1 DEF FilesRevoked, FileFine
<1>2. CASE file[i].state = "active"
  <2>1. PICK f \in ActiveFile : f = file[i]
    BY <1>0, <1>2, FileKinds
  <2>2. f.token <= fresh /\ Sound(i, f.generation, f.owner, f.old)
    BY <1>2, <2>1 DEF FileFine
  <2>3. PICK g \in Nat, o \in Nat, old \in BOOLEAN : g = f.generation /\ o = f.owner /\ old = f.old
    BY DEF ActiveFile
  <2>4. file'[i] = f \/ (file'[i] = [f EXCEPT !.old = TRUE] /\ i \in S)
    BY <2>1 DEF FilesRevoked
  <2>5. f.token \in Nat /\ f.token <= fresh'
    BY <1>0, <2>2 DEF ActiveFile
  <2>6. CASE file'[i] = f
    <3>1. Sound(i, g, o, old)'
      BY <1>0, <2>2, <2>3, SoundStays
    <3> QED
      BY <2>3, <2>5, <2>6, <3>1 DEF FileFine
  <2>7. CASE file'[i] = [f EXCEPT !.old = TRUE] /\ i \in S
    <3>1. Sound(i, g, o, TRUE)'
      BY Zenon, <1>0, <2>2, <2>3, <2>7, SoundStays
    <3>2. LET x == [f EXCEPT !.old = TRUE]
          IN  x.token = f.token /\ x.generation = f.generation /\ x.owner = f.owner /\ x.old = TRUE
      BY DEF ActiveFile
    <3>3. file'[i].token = f.token /\ file'[i].generation = g /\ file'[i].owner = o /\ file'[i].old = TRUE
      BY <2>3, <2>7, <3>2
    <3>4. Sound(i, file[i].generation, file[i].owner, file[i].old)'
      BY Zenon, <3>1, <3>3
    <3> QED
      BY <2>5, <3>3, <3>4 DEF FileFine
  <2> QED
    BY <2>4, <2>6, <2>7
<1> QED
  BY <1>1, <1>2

\* A request that is left alone or revoked stays fine.
LEMMA ManagerCarried ==
  ASSUME HooksTypeOK, GenerationsDrawn, StoreMoves, NEW n \in Managers, ManagerFine(n), NEW S \in SUBSET Installs,
         \A i \in S : Revokes(i), mgr'[n] = mgr[n] \/ mgr'[n] = Idle \/ mgr'[n] = ManagersRevoked(S)[n]
  PROVE  ManagerFine(n)'
<1>0. StoreTypeOK /\ ServiceTypeOK
  BY DEF HooksTypeOK
<1>1. CASE mgr'[n] = Idle
  BY <1>1 DEF Idle, ManagerFine
<1>2. CASE mgr[n] = Idle
  BY <1>2 DEF Idle, ManagerFine, ManagersRevoked
<1>3. CASE mgr[n] # Idle /\ mgr'[n] # Idle
  <2>1. PICK r : r = mgr[n]
    OBVIOUS
  <2>2. mgr'[n] = r \/ mgr'[n] = [r EXCEPT !.revoked = @ \cup S]
    BY <1>3, <2>1 DEF ManagersRevoked
  <2>3. PICK x : x = mgr'[n]
    OBVIOUS
  <2>4. CASE r.op = "install"
    <3>1. r \in Installing /\ InstallSound(r)
      BY <1>0, <2>1, <2>4, ManagerKinds DEF ManagerFine
    <3>2. \E T \in SUBSET S : /\ x.op = r.op /\ x.pc = r.pc /\ x.inst = r.inst /\ x.token = r.token /\ x.generation = r.generation
                         /\ x.owner = r.owner /\ x.revoked = r.revoked \cup T
      <4>1. CASE x = r
        <5>1. x.revoked = r.revoked \cup {} /\ {} \in SUBSET S
          BY <4>1
        <5> QED
          BY Zenon, <4>1, <5>1
      <4>2. CASE x = [r EXCEPT !.revoked = @ \cup S]
        <5>1. /\ x.op = r.op /\ x.pc = r.pc /\ x.inst = r.inst /\ x.token = r.token /\ x.generation = r.generation
              /\ x.owner = r.owner /\ x.revoked = r.revoked \cup S /\ S \in SUBSET S
          BY <3>1, <4>2 DEF Installing
        <5> QED
          BY <5>1
      <4> QED
        BY <2>2, <2>3, <4>1, <4>2
    <3>3. PICK T \in SUBSET S : /\ x.op = r.op /\ x.pc = r.pc /\ x.inst = r.inst /\ x.token = r.token
                         /\ x.generation = r.generation /\ x.owner = r.owner /\ x.revoked = r.revoked \cup T
      BY <3>2
    <3>4. InstallSound(x)'
      BY <1>0, <3>1, <3>3, InstallSoundStays
    <3> QED
      BY <2>3, <2>4, <3>3, <3>4 DEF ManagerFine, InstallSound
  <2>5. CASE r.op = "activate"
    <3>1. r \in Activating /\ ActivateSound(r)
      BY <1>0, <2>1, <2>5, ManagerKinds DEF ManagerFine
    <3>2. \E T \in SUBSET S : /\ x.op = r.op /\ x.sel = r.sel /\ x.before = r.before /\ x.owner = r.owner
                              /\ x.revoked = r.revoked \cup T
      <4>1. CASE x = r
        <5>1. x.revoked = r.revoked \cup {} /\ {} \in SUBSET S
          BY <4>1
        <5> QED
          BY Zenon, <4>1, <5>1
      <4>2. CASE x = [r EXCEPT !.revoked = @ \cup S]
        <5>1. /\ x.op = r.op /\ x.sel = r.sel /\ x.before = r.before /\ x.owner = r.owner
              /\ x.revoked = r.revoked \cup S /\ S \in SUBSET S
          BY <3>1, <4>2 DEF Activating
        <5> QED
          BY <5>1
      <4> QED
        BY <2>2, <2>3, <4>1, <4>2
    <3>3. PICK T \in SUBSET S : /\ x.op = r.op /\ x.sel = r.sel /\ x.before = r.before /\ x.owner = r.owner
                                /\ x.revoked = r.revoked \cup T
      BY <3>2
    <3>4. ActivateSound(x)'
      BY <1>0, <3>1, <3>3, ActivateSoundStays
    <3> QED
      BY <2>3, <2>5, <3>3, <3>4 DEF ManagerFine, ActivateSound, Drawn
  <2>6. CASE r.op = "uninstall"
    <3>1. x.op = "uninstall"
      BY <1>0, <2>1, <2>2, <2>3, <2>6, ManagerKinds DEF Uninstalling
    <3> QED
      BY <2>3, <3>1 DEF ManagerFine
  <2> QED
    BY <1>0, <1>3, <2>1, <2>4, <2>5, <2>6, ManagerKinds
<1> QED
  BY <1>1, <1>2, <1>3

\* The files that management writes.
LEMMA WritesFine ==
  ASSUME HooksTypeOK, GenerationsDrawn, CredentialsSound, PlansFollowed, NEW m \in Managers, Writes(m), StoreMoves
  PROVE  \A i \in Installs : FileFine(i)'
<1>0. /\ StoreTypeOK /\ ServiceTypeOK /\ \A i \in Installs : FileFine(i)
      /\ file \in [Installs -> ActiveFile \cup {NoFile, DisabledFile}]
      /\ \A i \in Installs : file'[i] = file[i] => FileFine(i)'
  <2>1. /\ StoreTypeOK /\ ServiceTypeOK /\ \A i \in Installs : FileFine(i)
        /\ file \in [Installs -> ActiveFile \cup {NoFile, DisabledFile}]
    BY DEF HooksTypeOK, ServiceTypeOK, CredentialsSound, FilesSound, FileFine
  <2>2. ASSUME NEW i \in Installs, file'[i] = file[i] PROVE FileFine(i)'
    <3>1. PICK S : S = {}
      BY Zenon
    <3>2. FileFine(i) /\ (i \in S => Revokes(i))
      BY <2>1, <3>1
    <3> QED
      BY <2>2, <3>2, FileCarried
  <2> QED
    BY <2>1, <2>2
<1>1. ASSUME NEW i \in Installs, NEW f, f.state # "active", file' = [file EXCEPT ![i] = f]
      PROVE  \A j \in Installs : FileFine(j)'
  <2>1. file'[i] = f /\ \A j \in Installs \ {i} : file'[j] = file[j]
    BY <1>0, <1>1
  <2> QED
    BY <1>0, <1>1, <2>1 DEF FileFine
<1>2. ASSUME UNCHANGED <<row, owner, fresh>>, NEW i \in Installs, NEW r, NEW g, NEW t, NEW o, t <= fresh,
             Sound(i, g, o, i \in r.revoked), file' = [file EXCEPT ![i] = Descriptor(r, i, g, t, o)]
      PROVE  \A j \in Installs : FileFine(j)'
  <2>1. file'[i] = Descriptor(r, i, g, t, o) /\ \A j \in Installs \ {i} : file'[j] = file[j]
    BY <1>0, <1>2
  <2>2. /\ file'[i].token = t /\ file'[i].generation = g /\ file'[i].owner = o /\ file'[i].old = (i \in r.revoked)
    BY <2>1 DEF Descriptor
  <2>3. Sound(i, file[i].generation, file[i].owner, file[i].old)'
    BY Zenon, <1>2, <2>2 DEF Sound
  <2>4. FileFine(i)'
    BY <1>2, <2>2, <2>3 DEF FileFine
  <2> QED
    BY <1>0, <2>1, <2>4
<1>3. CASE InstallDisabled(m)
  <2>1. mgr[m].inst \in Installs
    BY <1>0, <1>3, ManagerKinds DEF InstallDisabled, Installing
  <2>2. file' = [file EXCEPT ![mgr[m].inst] = DisabledFile] /\ DisabledFile.state # "active"
    BY <1>3 DEF InstallDisabled, DisabledFile
  <2> QED
    BY Zenon, <1>1, <2>1, <2>2
<1>4. CASE InstallWrite(m)
  <2>1. PICK r \in Installing : r = mgr[m] /\ r.pc = "write"
    BY <1>0, <1>4, ManagerKinds DEF InstallWrite
  <2>2. r.inst \in Installs /\ r.token <= fresh /\ Sound(r.inst, r.generation, r.owner, r.inst \in r.revoked)
    BY <1>4, <2>1 DEF CredentialsSound, ManagersSound, InstallSound, InstallWrite, Installing
  <2>3. /\ UNCHANGED <<row, owner, fresh>>
        /\ file' = file \/ file' = [file EXCEPT ![r.inst] = Descriptor(r, r.inst, r.generation, r.token, r.owner)]
    BY <1>4, <2>1 DEF InstallWrite, store
  <2> QED
    BY <1>0, <1>2, <2>2, <2>3
<1>5. CASE UninstallRemove(m)
  <2>1. mgr[m].inst \in Installs
    BY <1>0, <1>5, ManagerKinds DEF UninstallRemove, Uninstalling
  <2>2. (file' = file \/ file' = [file EXCEPT ![mgr[m].inst] = NoFile]) /\ NoFile.state # "active"
    BY <1>5 DEF UninstallRemove, NoFile
  <2> QED
    BY <1>0, <1>1, <2>1, <2>2
<1>6. CASE ActivateDisable(m)
  <2>1. PICK r \in Activating : r = mgr[m] /\ r.pc = "disable"
    BY <1>0, <1>6, ManagerKinds DEF ActivateDisable
  <2>2. ActivateSound(r) /\ PlanFollowed(r)
    BY <1>6, <2>1 DEF CredentialsSound, ManagersSound, PlansFollowed, ActivateDisable
  <2>3. PICK i : i = Foremost(Required(r) \ r.written)
    OBVIOUS
  <2>4. /\ UNCHANGED <<row, owner, fresh>>
        /\ \/ file' = file
           \/ /\ r.written # Required(r) /\ AsPlanned(r, i)
              /\ file' = [file EXCEPT ![i] = IF i \in r.sel THEN DisabledFile
                            ELSE Descriptor(r, i, file[i].generation, file[i].token, r.owner)]
    BY Zenon, <1>6, <2>1, <2>3 DEF ActivateDisable, store
  <2>5. CASE file' = file
    BY <1>0, <2>5
  <2>6. CASE /\ r.written # Required(r) /\ AsPlanned(r, i)
             /\ file' = [file EXCEPT ![i] = IF i \in r.sel THEN DisabledFile
                            ELSE Descriptor(r, i, file[i].generation, file[i].token, r.owner)]
    <3>1. Required(r) \ r.written # {} /\ Required(r) \ r.written \in SUBSET Installs
      BY Zenon, <2>1, <2>2, <2>6, PlanTyped DEF PlanFollowed
    <3>2. i \in Required(r) /\ i \in Installs
      BY <2>3, <3>1, ForemostOne
    <3>3. CASE i \in r.sel
      <4>1. file' = [file EXCEPT ![i] = DisabledFile] /\ DisabledFile.state # "active"
        BY <2>6, <3>3 DEF DisabledFile
      <4> QED
        BY Zenon, <1>1, <3>2, <4>1
    <3>4. CASE i \notin r.sel
      <4>1. r.before[i].state = "active"
        BY <3>2, <3>4 DEF Required
      <4>2. file[i].state = "active" /\ file[i].generation = r.before[i].generation
        BY <2>6, <4>1 DEF AsPlanned
      <4>3. file[i].token <= fresh
        BY <1>0, <3>2, <4>2 DEF FileFine
      <4>4. Sound(i, file[i].generation, r.owner, i \in r.revoked)
        BY <2>2, <3>2, <3>4, <4>1, <4>2 DEF ActivateSound
      <4>5. file' = [file EXCEPT ![i] = Descriptor(r, i, file[i].generation, file[i].token, r.owner)]
        BY <2>6, <3>4
      <4> QED
        BY Zenon, <1>2, <2>4, <3>2, <4>3, <4>4, <4>5
    <3> QED
      BY <3>3, <3>4
  <2> QED
    BY <2>4, <2>5, <2>6
<1>7. CASE ActivateEnable(m)
  <2>1. PICK r \in Activating : r = mgr[m] /\ r.pc = "enable"
    BY <1>0, <1>7, ManagerKinds DEF ActivateEnable
  <2>2. ActivateSound(r) /\ PlanFollowed(r)
    BY <1>7, <2>1 DEF CredentialsSound, ManagersSound, PlansFollowed, ActivateEnable
  <2>3. PICK i : i = Foremost(Reenabled(r) \ r.written)
    OBVIOUS
  <2>4. /\ UNCHANGED <<row, owner, fresh>>
        /\ \/ file' = file
           \/ /\ r.written # Reenabled(r)
              /\ file' = [file EXCEPT ![i] = Descriptor(r, i, Drawn(r, i), Drawn(r, i), r.owner)]
    BY Zenon, <1>7, <2>1, <2>3 DEF ActivateEnable, store
  <2>5. CASE file' = file
    BY <1>0, <2>5
  <2>6. CASE /\ r.written # Reenabled(r)
             /\ file' = [file EXCEPT ![i] = Descriptor(r, i, Drawn(r, i), Drawn(r, i), r.owner)]
    <3>1. Reenabled(r) \ r.written # {} /\ Reenabled(r) \ r.written \in SUBSET Installs
      BY Zenon, <2>1, <2>2, <2>6, PlanTyped DEF PlanFollowed
    <3>2. i \in r.sel /\ i \in Installs
      BY <2>3, <3>1, ForemostOne DEF Reenabled
    <3>3. Sound(i, Drawn(r, i), r.owner, i \in r.revoked)
      BY <2>2, <3>2 DEF ActivateSound
    <3>4. Drawn(r, i) <= fresh
      BY <1>0, <3>3 DEF Sound, StoreTypeOK
    <3> QED
      BY Zenon, <1>2, <2>4, <2>6, <3>2, <3>3, <3>4
  <2> QED
    BY <2>4, <2>5, <2>6
<1> QED
  BY <1>3, <1>4, <1>5, <1>6, <1>7 DEF Writes

\* The credential an installer is about to write.
LEMMA PreparedSound ==
  ASSUME HooksTypeOK, GenerationsDrawn, CredentialsSound, NEW m \in Managers, InstallPrepare(m)
  PROVE  InstallSound(mgr[m])'
<1>0. StoreTypeOK /\ ServiceTypeOK /\ FilesSound /\ mgr \in [Managers -> ManagerType]
  BY TypesTogether DEF HooksTypeOK, CredentialsSound, RestTyped
<1>1. PICK r, t :
        /\ r \in Installing /\ r = mgr[m] /\ t = (IF Repeats(r) THEN file[r.inst].token ELSE fresh + 1)
    BY <1>0, ManagerKinds DEF InstallPrepare
<1>2. /\ StoreMoves /\ UNCHANGED <<owner, session, tool>> /\ t \in Nat /\ t <= fresh'
      /\ \A j \in Installs \ {r.inst} : row'[j] = row[j]
      /\ \/ row'[r.inst] = row[r.inst] /\ row[r.inst].state = "active" /\ row[r.inst].token = t
         \/ row'[r.inst] # row[r.inst] /\ row'[r.inst].state = "disabled"
            /\ row'[r.inst].generation = fresh + 1 /\ row'[r.inst] \in KnownRow
      /\ row' = [row EXCEPT ![r.inst] = Prepared(r.inst, r.want, t)] /\ fresh' = fresh + 1
  BY <1>0, <1>1, InstallPrepareMoves
<1>3. PICK i \in Installs : i = r.inst
  BY <1>1 DEF Installing
<1>4. row'[i] = Prepared(i, r.want, t)
  BY <1>0, <1>2, <1>3 DEF StoreTypeOK
<1>5. PICK x, u : /\ u \in BOOLEAN /\ x = mgr'[m]
                  /\ x = [r EXCEPT !.pc = "write", !.token = t, !.owner = owner.generation,
                            !.generation = Prepared(i, r.want, t).generation, !.unchanged = u, !.revoked = {}]
  <2> DEFINE gone == IF Prepared(r.inst, r.want, t) = row[r.inst] THEN {} ELSE {r.inst}
  <2>1. Goes(m, ManagersRevoked(gone), [r EXCEPT !.pc = "write", !.token = t, !.owner = owner.generation,
              !.generation = Prepared(r.inst, r.want, t).generation, !.unchanged = gone = {}, !.revoked = {}])
    BY <1>1 DEF InstallPrepare
  <2> HIDE DEF gone
  <2>2. PICK u \in BOOLEAN : u = (gone = {})
    BY Zenon
  <2>3. PICK y : y = [r EXCEPT !.pc = "write", !.token = t, !.owner = owner.generation,
              !.generation = Prepared(r.inst, r.want, t).generation, !.unchanged = gone = {}, !.revoked = {}]
    BY Zenon
  <2>4. mgr'[m] = y
    BY <2>1, <2>3 DEF Goes, ManagersRevoked
  <2> QED
    BY Zenon, <1>3, <2>2, <2>3, <2>4
<1>6. PICK g : g = row'[i].generation
  OBVIOUS
<1>7. x.inst = i /\ x.token = t /\ x.owner = owner.generation /\ x.generation = g /\ x.revoked = {}
  BY <1>1, <1>3, <1>4, <1>5, <1>6 DEF Installing
<1>8. \A j \in Installs : row[j].generation \in Nat /\ row[j].generation <= fresh
  BY <1>0 DEF StoreTypeOK, GenerationsDrawn, Row, KnownRow, NoRow
<1>9. fresh \in Nat /\ owner.generation \in Nat /\ owner.generation <= fresh
  BY <1>0 DEF StoreTypeOK, GenerationsDrawn
<1>10. g \in 1 .. fresh' /\ \A j \in Installs \ {i} : row'[j].generation # g
  <2>1. CASE row'[i] = row[i] /\ row[i].state = "active"
    <3>1. Stored(i) /\ g = row[i].generation /\ g > 0
      BY <1>6, <2>1 DEF Stored, GenerationsDrawn
    <3>2. ASSUME NEW j \in Installs \ {i} PROVE row[j].generation # g
      <4>1. CASE Stored(j)
        BY <3>1, <4>1 DEF GenerationsDrawn
      <4>2. CASE ~Stored(j)
        <5>1. row[j] = NoRow
          BY <1>0, <4>2 DEF Stored, StoreTypeOK, Row, KnownRow
        <5> QED
          BY <3>1, <5>1 DEF NoRow
      <4> QED
        BY <4>1, <4>2
    <3> QED
      BY <1>2, <1>3, <1>8, <1>9, <3>1, <3>2
  <2>2. CASE row'[i].generation = fresh + 1
    BY <1>2, <1>3, <1>6, <1>8, <1>9, <2>2
  <2> QED
    BY <1>2, <1>3, <2>1, <2>2
<1>11. Sound(i, g, owner.generation, FALSE)'
  BY <1>2, <1>9, <1>10 DEF Sound
<1>12. x.token <= fresh' /\ Sound(x.inst, x.generation, x.owner, x.inst \in x.revoked)'
  BY <1>2, <1>7, <1>11 DEF Sound
<1> QED
  BY <1>5, <1>12 DEF InstallSound

\* The credentials an activation has drawn.
LEMMA PlannedSound ==
  ASSUME StoreTypeOK, GenerationsDrawn, NEW S \in SUBSET Installs, Plannable(S),
         row' = [i \in Installs |-> IF i \in S THEN [Fenced(row[i], fresh + i) EXCEPT !.version = 2] ELSE row[i]],
         owner' = [owner EXCEPT !.generation = fresh + 1], fresh' = fresh + NInstalls,
         NEW x, x.sel = S, x.before = row, x.owner = fresh + 1, x.revoked = {}
  PROVE  ActivateSound(x)'
<1>1. /\ \A i \in Installs \ S : row'[i] = row[i]
      /\ \A i \in S : row[i] # NoRow /\ row'[i].generation = fresh + i
  BY ActivateStartMoves
<1>2. /\ fresh \in Nat /\ NInstalls \in Nat /\ NInstalls > 0
      /\ \A i \in Installs : i \in 1 .. NInstalls /\ Drawn(x, i) = fresh + i
  <2>1. fresh \in Nat /\ NInstalls \in Nat /\ NInstalls > 0 /\ \A i \in Installs : i \in 1 .. NInstalls
    BY HookAssumption DEF StoreTypeOK, Installs
  <2>2. ASSUME NEW i \in Installs PROVE Drawn(x, i) = fresh + i
    <3>1. i \in Nat
      BY <2>1
    <3> QED
      BY <2>1, <3>1 DEF Drawn
  <2> QED
    BY <2>1, <2>2
<1>3. \A j \in Installs : row[j].generation \in Nat /\ row[j].generation <= fresh
  BY DEF StoreTypeOK, GenerationsDrawn, Row, KnownRow, NoRow
<1>4. ASSUME NEW i \in Installs, i \in S
      PROVE  Sound(i, Drawn(x, i), x.owner, FALSE)'
  <2>1. \A j \in Installs \ {i} : row'[j].generation # Drawn(x, i)
    BY <1>1, <1>2, <1>3, <1>4
  <2>2. Drawn(x, i) \in 1 .. fresh' /\ x.owner \in 0 .. fresh'
    BY <1>2
  <2> QED
    BY <2>1, <2>2 DEF Sound
<1>5. ASSUME NEW i \in Installs, i \notin S, row[i].state = "active"
      PROVE  Sound(i, x.before[i].generation, x.owner, FALSE)'
  <2>1. Stored(i) /\ row[i].generation > 0
    BY <1>5 DEF Stored, GenerationsDrawn
  <2>2. ASSUME NEW j \in Installs \ {i} PROVE row'[j].generation # row[i].generation
    <3>1. CASE j \in S
      <4>1. row'[j].generation = fresh + j /\ row[i].generation <= fresh /\ row[i].generation \in Nat
        BY Zenon, <1>1, <1>3, <3>1
      <4>2. fresh \in Nat /\ j \in Nat /\ j > 0
        BY <1>2
      <4> QED
        BY <4>1, <4>2
    <3>2. CASE j \notin S /\ Stored(j)
      BY <1>1, <2>1, <3>2 DEF GenerationsDrawn
    <3>3. CASE j \notin S /\ ~Stored(j)
      <4>1. row[j] = NoRow
        BY <3>3 DEF Stored, StoreTypeOK, Row, KnownRow
      <4> QED
        BY <1>1, <2>1, <3>3, <4>1 DEF NoRow
    <3> QED
      BY <3>1, <3>2, <3>3
  <2>3. x.before[i].generation \in 1 .. fresh' /\ x.owner \in 0 .. fresh'
    BY <1>2, <1>3, <2>1
  <2>4. \A j \in Installs \ {i} : row'[j].generation # x.before[i].generation
    BY <2>2
  <2> QED
    BY <2>3, <2>4 DEF Sound
<1>6. \A i \in Installs : /\ i \in x.sel => x.before[i] # NoRow /\ Sound(i, Drawn(x, i), x.owner, i \in x.revoked)'
                          /\ i \notin x.sel /\ x.before[i].state = "active" =>
                               Sound(i, x.before[i].generation, x.owner, i \in x.revoked)'
  BY Zenon, <1>1, <1>2, <1>4, <1>5 DEF Sound
<1> QED
  BY <1>6 DEF ActivateSound

\* What a request knows is drawn when it goes on.
LEMMA OwnGoes ==
  ASSUME mgr \in [Managers -> ManagerType], NEW m \in Managers, NEW S, NEW next
  PROVE  /\ Goes(m, mgr, next) \/ Goes(m, ManagersRevoked(S), next) => mgr'[m] = next
         /\ Done(m, mgr) \/ Done(m, ManagersRevoked(S)) => mgr'[m] = Idle
BY DEF Goes, Done, ManagersRevoked

LEMMA InstallGoesOn ==
  ASSUME NEW r \in Installing
  PROVE  /\ \A b : [r EXCEPT !.pc = "lock", !.data = b].pc = "lock"
         /\ \A b : [r EXCEPT !.pc = "prepare", !.before = b].pc = "prepare"
         /\ LET x == [r EXCEPT !.pc = "commit"]
            IN  /\ x.op = "install" /\ x.inst = r.inst /\ x.token = r.token /\ x.generation = r.generation
                /\ x.owner = r.owner /\ x.revoked = r.revoked \cup {}
BY DEF Installing

\* An activation keeps its plan.
KeepsPlan(r, x) ==
  x.op = "activate" /\ x.sel = r.sel /\ x.before = r.before /\ x.owner = r.owner /\ x.revoked = r.revoked \cup {}

LEMMA ActivationGoesOn ==
  ASSUME HooksTypeOK, NEW m \in Managers,
         \/ ActivateDrain(m) \/ ActivateLock(m) \/ ActivateDisable(m) \/ ActivateCommit(m) \/ ActivateEnable(m)
         \/ ActivateFails(m)
  PROVE  mgr[m] \in Activating /\ KeepsPlan(mgr[m], mgr'[m])
<1>0. ServiceTypeOK /\ mgr \in [Managers -> ManagerType]
  BY TypesTogether DEF HooksTypeOK, RestTyped
<1>1. PICK r \in Activating : r = mgr[m]
  BY Zenon, <1>0, ManagerKinds DEF ActivateDrain, ActivateLock, ActivateDisable, ActivateCommit, ActivateEnable, ActivateFails
<1>2. ASSUME NEW pc PROVE KeepsPlan(r, [r EXCEPT !.pc = pc])
  BY DEF KeepsPlan, Activating
<1>3. ASSUME NEW i PROVE KeepsPlan(r, [r EXCEPT !.held = @ \cup {i}]) /\ KeepsPlan(r, [r EXCEPT !.written = @ \cup {i}])
  BY DEF KeepsPlan, Activating
<1>4. KeepsPlan(r, [r EXCEPT !.pc = "enable", !.written = {}]) /\ KeepsPlan(r, [r EXCEPT !.pc = "fail", !.held = {}])
  BY DEF KeepsPlan, Activating
<1>5. PICK i, j, k : /\ i = Foremost(Required(r) \ r.held) /\ j = Foremost(Required(r) \ r.written)
                     /\ k = Foremost(Reenabled(r) \ r.written)
  OBVIOUS
<1>6. \E x : Goes(m, mgr, x) /\ KeepsPlan(r, x)
  <2>1. CASE ActivateDrain(m)
    <3>1. Goes(m, mgr, [r EXCEPT !.pc = "lock"])
      BY <1>1, <2>1 DEF ActivateDrain
    <3> QED
      BY Zenon, <1>2, <3>1
  <2>2. CASE ActivateLock(m)
    <3>1. Goes(m, mgr, [r EXCEPT !.pc = "disable"]) \/ Goes(m, mgr, [r EXCEPT !.held = @ \cup {i}])
      BY <1>1, <1>5, <2>2 DEF ActivateLock
    <3> QED
      BY Zenon, <1>2, <1>3, <3>1
  <2>3. CASE ActivateDisable(m)
    <3>1. Goes(m, mgr, [r EXCEPT !.pc = "commit"]) \/ Goes(m, mgr, [r EXCEPT !.written = @ \cup {j}])
      BY <1>1, <1>5, <2>3 DEF ActivateDisable
    <3> QED
      BY Zenon, <1>2, <1>3, <3>1
  <2>4. CASE ActivateCommit(m)
    <3>1. Goes(m, mgr, [r EXCEPT !.pc = "enable", !.written = {}])
      BY <1>1, <2>4 DEF ActivateCommit
    <3> QED
      BY <1>4, <3>1
  <2>5. CASE ActivateEnable(m)
    <3>1. Goes(m, mgr, [r EXCEPT !.pc = "resume"]) \/ Goes(m, mgr, [r EXCEPT !.written = @ \cup {k}])
      BY <1>1, <1>5, <2>5 DEF ActivateEnable
    <3> QED
      BY Zenon, <1>2, <1>3, <3>1
  <2>6. CASE ActivateFails(m)
    <3>1. Goes(m, mgr, [r EXCEPT !.pc = "fail", !.held = {}])
      BY <1>1, <2>6 DEF ActivateFails
    <3> QED
      BY <1>4, <3>1
  <2> QED
    BY <2>1, <2>2, <2>3, <2>4, <2>5, <2>6
<1>7. PICK x : Goes(m, mgr, x) /\ KeepsPlan(r, x)
  BY <1>6
<1>8. mgr'[m] = x
  BY <1>0, <1>7, OwnGoes
<1> QED
  BY <1>1, <1>7, <1>8

\* What becomes of a request that installs or removes, and of one that ends.
Begun(r) == r = Idle \/ (r.op = "install" /\ r.pc \in {"check", "lock"})

\* An install that looks at the lock is busy, or takes it and reads the row.
LEMMA InstallLocks ==
  ASSUME HooksTypeOK, NEW m \in Managers, InstallLock(m), NEW r, NEW x, r = mgr[m], x = mgr'[m]
  PROVE  /\ r \in Installing /\ r.pc = "lock"
         /\ \/ x = Idle /\ lock' = lock
            \/ /\ x.op = "install" /\ x.pc = "prepare" /\ x.inst = r.inst /\ x.before = row[r.inst]
               /\ ~lock[r.inst] /\ lock' = [lock EXCEPT ![r.inst] = TRUE]
<1>0. ServiceTypeOK /\ mgr \in [Managers -> ManagerType]
  BY TypesTogether DEF HooksTypeOK, RestTyped
<1>1. r \in Installing /\ r.pc = "lock"
  BY <1>0, ManagerKinds DEF InstallLock
<1>2. PICK b : b = row[r.inst]
  OBVIOUS
<1>3. \/ Done(m, mgr) /\ lock' = lock
      \/ /\ ~lock[r.inst] /\ lock' = [lock EXCEPT ![r.inst] = TRUE]
         /\ Goes(m, mgr, [r EXCEPT !.pc = "prepare", !.before = b])
  BY <1>2 DEF InstallLock
<1>4. PICK y : y = [r EXCEPT !.pc = "prepare", !.before = b]
  OBVIOUS
<1>5. y.op = "install" /\ y.pc = "prepare" /\ y.inst = r.inst /\ y.before = b
  BY <1>1, <1>4 DEF Installing
<1>6. (Done(m, mgr) => x = Idle) /\ (Goes(m, mgr, y) => x = y)
  BY Zenon, <1>0, OwnGoes
<1> QED
  BY Zenon, <1>1, <1>2, <1>3, <1>4, <1>5, <1>6

\* An install that finds the owner gone goes on under its lock with the row disabled.
LEMMA InactiveGoes ==
  ASSUME HooksTypeOK, NEW m \in Managers, InstallInactive(m) \/ InstallDisabled(m), NEW r, NEW x, r = mgr[m], x = mgr'[m]
  PROVE  /\ r.op = "install" /\ r.inst \in Installs
         /\ InstallInactive(m) => r.pc = "prepare" /\ DisableInstallation(r.inst)
         /\ InstallDisabled(m) => r.pc = "inactive" /\ row' = row
         /\ x.op = "install" /\ x.inst = r.inst /\ x.pc \in {"inactive", "settle"}
         /\ lock' = lock
<1>0. ServiceTypeOK /\ mgr \in [Managers -> ManagerType]
  BY TypesTogether DEF HooksTypeOK, RestTyped
<1>1. r \in Installing /\ r.op = "install" /\ r.inst \in Installs
  BY <1>0, ManagerKinds DEF InstallInactive, InstallDisabled, Installing
<1>2. PICK pc : /\ pc \in {"inactive", "settle"}
                /\ \/ Goes(m, mgr, [r EXCEPT !.pc = pc])
                   \/ Goes(m, ManagersRevoked({r.inst}), [r EXCEPT !.pc = pc])
  BY Zenon DEF InstallInactive, InstallDisabled, Disables
<1>3. PICK y : y = [r EXCEPT !.pc = pc]
  OBVIOUS
<1>4. y.op = "install" /\ y.inst = r.inst /\ y.pc = pc
  BY <1>1, <1>3 DEF Installing
<1>5. x = y
  BY Zenon, <1>0, <1>2, <1>3, OwnGoes
<1> QED
  BY <1>1, <1>2, <1>4, <1>5 DEF InstallInactive, InstallDisabled, Disables, store

LEMMA OwnKinds ==
  ASSUME HooksTypeOK, NEW m \in Managers
  PROVE  /\ InstallStart(m) \/ InstallCheck(m) => Begun(mgr'[m])
         /\ InstallPrepare(m) \/ InstallWrite(m) => mgr'[m].op = "install"
         /\ UninstallStart(m) \/ UninstallLock(m) => mgr'[m] = Idle \/ mgr'[m].op = "uninstall"
         /\ InstallSettled(m) \/ InstallFails(m) \/ InstallCommit(m) \/ UninstallRemove(m) \/ Abandoned(m)
            \/ ActivateResume(m) \/ ActivateFail(m) => mgr'[m] = Idle
<1>0. ServiceTypeOK /\ mgr \in [Managers -> ManagerType]
  BY TypesTogether DEF HooksTypeOK, RestTyped
<1>1. ASSUME InstallStart(m) PROVE Begun(mgr'[m])
  <2> DEFINE start(i, want) ==
               [op |-> "install", inst |-> i, want |-> want, pc |-> "check", expected |-> 0, data |-> NoRow,
                before |-> NoRow, token |-> 0, owner |-> 0, generation |-> 0, unchanged |-> FALSE, revoked |-> {}]
  <2>1. PICK i, want :
          \/ Goes(m, mgr, start(i, want))
          \/ Goes(m, ManagersRevoked({i}), [start(i, want) EXCEPT !.expected = fresh + 1])
    BY Zenon, <1>1 DEF InstallStart
  <2>2. /\ start(i, want).op = "install" /\ start(i, want).pc = "check"
        /\ [start(i, want) EXCEPT !.expected = fresh + 1].op = "install"
        /\ [start(i, want) EXCEPT !.expected = fresh + 1].pc = "check"
    OBVIOUS
  <2>3. PICK x, y : x = start(i, want) /\ y = [start(i, want) EXCEPT !.expected = fresh + 1]
    BY Zenon
  <2> HIDE DEF start
  <2>4. Goes(m, mgr, x) \/ Goes(m, ManagersRevoked({i}), y)
    BY <2>1, <2>3
  <2>5. mgr'[m] = x \/ mgr'[m] = y
    BY Zenon, <1>0, <2>4, OwnGoes
  <2>6. x.op = "install" /\ x.pc = "check" /\ y.op = "install" /\ y.pc = "check"
    BY <2>2, <2>3
  <2> QED
    BY <2>5, <2>6 DEF Begun
<1>2. ASSUME InstallCheck(m) PROVE Begun(mgr'[m])
  <2>1. PICK r, d : r \in Installing /\ r = mgr[m] /\ (Goes(m, mgr, [r EXCEPT !.pc = "lock", !.data = d]) \/ Done(m, mgr))
    BY Zenon, <1>0, <1>2, ManagerKinds DEF InstallCheck
  <2>2. [r EXCEPT !.pc = "lock", !.data = d].pc = "lock" /\ [r EXCEPT !.pc = "lock", !.data = d].op = "install"
    BY <2>1 DEF Installing
  <2> QED
    BY Zenon, <1>0, <2>1, <2>2, OwnGoes DEF Begun
<1>3. ASSUME InstallPrepare(m) PROVE mgr'[m].op = "install"
  <2> DEFINE r == mgr[m]
             t == IF Repeats(r) THEN file[r.inst].token ELSE fresh + 1
             gone == IF Prepared(r.inst, r.want, t) = row[r.inst] THEN {} ELSE {r.inst}
             next == [r EXCEPT !.pc = "write", !.token = t, !.owner = owner.generation,
                        !.generation = Prepared(r.inst, r.want, t).generation, !.unchanged = gone = {}, !.revoked = {}]
  <2>1. Goes(m, ManagersRevoked(gone), next)
    BY <1>3 DEF InstallPrepare
  <2>2. r \in Installing
    BY <1>0, <1>3, ManagerKinds DEF InstallPrepare
  <2> HIDE DEF t, gone
  <2>3. next.op = "install"
    BY <2>2 DEF Installing
  <2> HIDE DEF next
  <2>4. mgr'[m] = next
    BY <1>0, <2>1, OwnGoes
  <2> QED
    BY <2>3, <2>4
<1>4. ASSUME InstallWrite(m) PROVE mgr'[m].op = "install"
  <2>1. PICK r \in Installing : r = mgr[m] /\ Goes(m, mgr, [r EXCEPT !.pc = "commit"])
    BY Zenon, <1>0, <1>4, ManagerKinds DEF InstallWrite
  <2>2. [r EXCEPT !.pc = "commit"].op = "install"
    BY DEF Installing
  <2> QED
    BY Zenon, <1>0, <2>1, <2>2, OwnGoes
<1>5. ASSUME UninstallStart(m) \/ UninstallLock(m) PROVE mgr'[m] = Idle \/ mgr'[m].op = "uninstall"
  <2>1. ASSUME UninstallStart(m) PROVE \E x : mgr'[m] = x /\ x.op = "uninstall"
    <3>1. PICK i \in Installs : Goes(m, ManagersRevoked({i}), [op |-> "uninstall", inst |-> i, pc |-> "lock", token |-> 0, revoked |-> {}])
      BY Zenon, <2>1 DEF UninstallStart, Disables
    <3> QED
      BY <1>0, <3>1, OwnGoes
  <2>2. ASSUME UninstallLock(m) PROVE mgr'[m] = Idle \/ \E x : mgr'[m] = x /\ x.op = "uninstall"
    <3>1. PICK r \in Uninstalling : r = mgr[m]
      BY <1>0, <2>2, ManagerKinds DEF UninstallLock
    <3>2. PICK t, S : t = row[r.inst].token /\ S = {r.inst}
      BY Zenon
    <3>3. Goes(m, ManagersRevoked(S), [r EXCEPT !.pc = "remove", !.token = t]) \/ Done(m, mgr)
      BY <2>2, <3>1, <3>2 DEF UninstallLock, Disables
    <3>4. [r EXCEPT !.pc = "remove", !.token = t].op = "uninstall"
      BY <3>1 DEF Uninstalling
    <3> QED
      BY Zenon, <1>0, <3>3, <3>4, OwnGoes
  <2> QED
    BY <1>5, <2>1, <2>2
<1>6. ASSUME \/ InstallSettled(m) \/ InstallFails(m) \/ InstallCommit(m) \/ UninstallRemove(m) \/ Abandoned(m)
             \/ ActivateResume(m) \/ ActivateFail(m)
      PROVE  mgr'[m] = Idle
  <2>1. \E S : Done(m, mgr) \/ Done(m, ManagersRevoked(S))
    BY <1>6 DEF InstallSettled, InstallFails, InstallCommit, UninstallRemove, Abandoned, ActivateResume, ActivateFail
  <2> QED
    BY <1>0, <2>1, OwnGoes
<1> QED
  BY <1>1, <1>2, <1>3, <1>4, <1>5, <1>6

\* The request that acts is fine after its step.
LEMMA OwnFine ==
  ASSUME HooksTypeOK, GenerationsDrawn, CredentialsSound, NEW m \in Managers, ManagerActs(m), StoreMoves
  PROVE  ManagerFine(m)'
<1>0. StoreTypeOK /\ ServiceTypeOK /\ mgr \in [Managers -> ManagerType] /\ ManagerFine(m)
  BY TypesTogether DEF HooksTypeOK, RestTyped, CredentialsSound, ManagersSound, ManagerFine
<1>1. ASSUME mgr'[m] = Idle \/ mgr'[m] = mgr[m]
      PROVE  ManagerFine(m)'
  <2>1. PICK S \in SUBSET Installs : S = {}
    BY Zenon
  <2> QED
    BY <1>0, <1>1, <2>1, ManagerCarried
<1>2. ASSUME NEW x, mgr'[m] = x, x.op = "uninstall" \/ (x.op = "install" /\ x.pc \notin {"write", "commit"})
      PROVE  ManagerFine(m)'
  BY <1>2 DEF ManagerFine, InstallSound
<1>3. CASE InstallStart(m) \/ InstallCheck(m) \/ InstallLock(m)
  <2>1. PICK x : x = mgr'[m]
    OBVIOUS
  <2>2. x = Idle \/ (x.op = "install" /\ x.pc \in {"check", "lock", "prepare"})
    BY <1>3, <2>1, OwnKinds, InstallLocks DEF Begun
  <2> QED
    BY <1>1, <1>2, <2>1, <2>2
<1>4. CASE UninstallStart(m) \/ UninstallLock(m)
  BY <1>1, <1>2, <1>4, OwnKinds
<1>5. CASE InstallPrepare(m)
  BY <1>5, OwnKinds, PreparedSound DEF ManagerFine
<1>6. CASE InstallWrite(m)
  <2>1. PICK r \in Installing : r = mgr[m] /\ r.pc = "write" /\ Goes(m, mgr, [r EXCEPT !.pc = "commit"])
    BY Zenon, <1>0, <1>6, ManagerKinds DEF InstallWrite
  <2>2. PICK x : x = [r EXCEPT !.pc = "commit"]
    BY Zenon
  <2>3. mgr'[m] = x
    BY <1>0, <2>1, <2>2, OwnGoes
  <2>4. PICK S : S = {}
    BY Zenon
  <2>5. /\ x.op = "install" /\ x.inst = r.inst /\ x.token = r.token /\ x.generation = r.generation
        /\ x.owner = r.owner /\ x.revoked = r.revoked \cup S
    BY <2>2, <2>4, InstallGoesOn
  <2>6. InstallSound(r) /\ r.inst \notin S
    BY <1>0, <1>6, <2>1, <2>4 DEF ManagerFine, InstallWrite
  <2>7. InstallSound(x)'
    BY <1>0, <2>1, <2>5, <2>6, InstallSoundStays
  <2> QED
    BY <2>3, <2>5, <2>7 DEF ManagerFine, InstallSound
<1>7. CASE \/ InstallSettled(m) \/ InstallFails(m) \/ InstallCommit(m) \/ UninstallRemove(m) \/ Abandoned(m)
           \/ ActivateResume(m) \/ ActivateFail(m)
  BY <1>1, <1>7, OwnKinds
<1>8. CASE ActivateBusy(m)
  BY <1>1, <1>8 DEF ActivateBusy
<1>9. CASE ActivateStart(m)
  <2>1. PICK S \in SUBSET Installs :
       /\ Plannable(S)
       /\ row' = [i \in Installs |-> IF i \in S THEN [Fenced(row[i], fresh + i) EXCEPT !.version = 2] ELSE row[i]]
       /\ owner' = [owner EXCEPT !.generation = fresh + 1] /\ fresh' = fresh + NInstalls
       /\ Goes(m, ManagersRevoked(Installs),
            [op |-> "activate", ctl |-> Cur, sel |-> S, before |-> row, pc |-> "drain", owner |-> fresh + 1,
             owned |-> owner.generation, held |-> {}, written |-> {}, revoked |-> {}])
    BY Zenon, <1>9 DEF ActivateStart
  <2>2. PICK x : x = [op |-> "activate", ctl |-> Cur, sel |-> S, before |-> row, pc |-> "drain", owner |-> fresh + 1,
             owned |-> owner.generation, held |-> {}, written |-> {}, revoked |-> {}]
    BY Zenon
  <2>3. mgr'[m] = x
    BY <1>0, <2>1, <2>2, OwnGoes
  <2>4. x.op = "activate" /\ x.sel = S /\ x.before = row /\ x.owner = fresh + 1 /\ x.revoked = {}
    BY <2>2
  <2>5. ActivateSound(x)'
    BY <1>0, <2>1, <2>4, PlannedSound
  <2> QED
    BY <2>3, <2>4, <2>5 DEF ManagerFine, ActivateSound, Drawn
<1>10. CASE \/ ActivateDrain(m) \/ ActivateLock(m) \/ ActivateDisable(m) \/ ActivateCommit(m) \/ ActivateEnable(m)
            \/ ActivateFails(m)
  <2>1. PICK r, x, S : r = mgr[m] /\ x = mgr'[m] /\ S = {}
    BY Zenon
  <2>2. r \in Activating /\ KeepsPlan(r, x)
    BY <1>10, <2>1, ActivationGoesOn
  <2>3. /\ x.op = "activate" /\ x.sel = r.sel /\ x.before = r.before /\ x.owner = r.owner
        /\ x.revoked = r.revoked \cup S /\ r.op = "activate"
    BY <2>1, <2>2 DEF KeepsPlan, Activating
  <2>4. ActivateSound(r) /\ \A i \in Installs : i \in S => Revokes(i)
    BY <1>0, <2>1, <2>3 DEF ManagerFine
  <2>5. ActivateSound(x)'
    BY <1>0, <2>3, <2>4, ActivateSoundStays
  <2> QED
    BY <2>1, <2>3, <2>5 DEF ManagerFine, ActivateSound, Drawn
<1>11. CASE InstallInactive(m) \/ InstallDisabled(m)
  <2>1. PICK r, x : r = mgr[m] /\ x = mgr'[m]
    OBVIOUS
  <2>2. x.op = "install" /\ x.pc \notin {"write", "commit"}
    BY <1>11, <2>1, InactiveGoes
  <2> QED
    BY <1>2, <2>1, <2>2
<1> QED
  BY <1>3, <1>4, <1>5, <1>6, <1>7, <1>8, <1>9, <1>10, <1>11 DEF ManagerActs, ManagerWaits, ManagerDisables, ManagerCommits

\* Every credential stays sound.
LEMMA NextFiles ==
  ASSUME HooksTypeOK, GenerationsDrawn, CredentialsSound, PlansFollowed, Next, StoreMoves
  PROVE  FilesSound'
<1>0. \A i \in Installs : FileFine(i)
  BY DEF CredentialsSound, FilesSound, FileFine
<1>1. ASSUME NEW S, \A i \in Installs : i \in S => Revokes(i), file' = file \/ file' = FilesRevoked(S)
      PROVE  FilesSound'
  <2>1. ASSUME NEW i \in Installs PROVE FileFine(i)'
    <3>1. FileFine(i) /\ (i \in S => Revokes(i)) /\ (file'[i] = file[i] \/ file'[i] = FilesRevoked(S)[i])
      BY <1>0, <1>1
    <3> QED
      BY <3>1, FileCarried
  <2> QED
    BY <2>1 DEF FilesSound, FileFine
<1>2. CASE file' = file
  <2>1. PICK S : S = {}
    BY Zenon
  <2>2. \A i \in Installs : i \in S => Revokes(i)
    BY <2>1
  <2> QED
    BY <1>1, <1>2, <2>2
<1>3. CASE \E c \in Callbacks : CallbackActs(c)
  <2>1. file' = file
    BY <1>3, CallbackRests
  <2> QED
    BY <1>2, <2>1
<1>4. CASE \E k \in scenario.sessions : Write(k) \/ DeleteCaptured(k)
  <2>1. file' = file
    BY <1>4 DEF Write, DeleteCaptured
  <2> QED
    BY <1>2, <2>1
<1>5. CASE OwnerActs
  <2>1. PICK S : OwnerCarries(S)
    BY <1>5, OwnerStepCarries
  <2>2. (\A i \in Installs : i \in S => Revokes(i)) /\ (file' = file \/ file' = FilesRevoked(S))
    BY <2>1 DEF OwnerCarries
  <2> QED
    BY <1>1, <2>2
<1>6. ASSUME NEW m \in Managers, ManagerActs(m) PROVE FilesSound'
  <2>1. PICK S : ManagerCarries(m, S)
    BY <1>6, ManagerStepCarries
  <2>2. CASE Writes(m)
    BY <2>2, WritesFine DEF FilesSound, FileFine
  <2>3. CASE ~Writes(m)
    <3>1. (\A i \in Installs : i \in S => Revokes(i)) /\ (file' = file \/ file' = FilesRevoked(S))
      BY <2>1, <2>3 DEF ManagerCarries, Revoking
    <3> QED
      BY <1>1, <3>1
  <2> QED
    BY <2>2, <2>3
<1> QED
  BY <1>3, <1>4, <1>5, <1>6, StepKinds

LEMMA NextManagers ==
  ASSUME HooksTypeOK, GenerationsDrawn, CredentialsSound, Next, StoreMoves
  PROVE  ManagersSound'
<1>0. \A n \in Managers : ManagerFine(n)
  BY DEF CredentialsSound, ManagersSound, ManagerFine
<1>1. ASSUME NEW n \in Managers, NEW S \in SUBSET Installs, \A i \in S : Revokes(i),
             mgr'[n] = mgr[n] \/ mgr'[n] = Idle \/ mgr'[n] = ManagersRevoked(S)[n]
      PROVE  ManagerFine(n)'
  BY <1>0, <1>1, ManagerCarried
<1>2. CASE mgr' = mgr
  <2>1. PICK S \in SUBSET Installs : S = {}
    BY Zenon
  <2>2. ASSUME NEW n \in Managers PROVE ManagerFine(n)'
    <3>1. (\A i \in S : Revokes(i)) /\ mgr'[n] = mgr[n]
      BY <1>2, <2>1
    <3> QED
      BY <1>1, <3>1
  <2> QED
    BY <2>2 DEF ManagersSound, ManagerFine
<1>3. CASE \E c \in Callbacks : CallbackActs(c)
  <2>1. mgr' = mgr
    BY <1>3, CallbackRests
  <2> QED
    BY <1>2, <2>1
<1>4. CASE \E k \in scenario.sessions : Write(k) \/ DeleteCaptured(k)
  <2>1. mgr' = mgr
    BY <1>4 DEF Write, DeleteCaptured
  <2> QED
    BY <1>2, <2>1
<1>5. CASE OwnerActs
  <2>1. PICK S : OwnerCarries(S)
    BY <1>5, OwnerStepCarries
  <2>2. ASSUME NEW n \in Managers PROVE ManagerFine(n)'
    <3>1. /\ S \in SUBSET Installs /\ \A i \in S : Revokes(i)
          /\ mgr'[n] = mgr[n] \/ mgr'[n] = Idle \/ mgr'[n] = ManagersRevoked(S)[n]
      BY <2>1 DEF OwnerCarries
    <3> QED
      BY <1>1, <3>1
  <2> QED
    BY <2>2 DEF ManagersSound, ManagerFine
<1>6. ASSUME NEW m \in Managers, ManagerActs(m) PROVE ManagersSound'
  <2>1. PICK S : ManagerCarries(m, S)
    BY <1>6, ManagerStepCarries
  <2>2. ASSUME NEW n \in Managers PROVE ManagerFine(n)'
    <3>1. CASE n = m
      BY <1>6, <3>1, OwnFine
    <3>2. CASE n # m
      <4>1. /\ S \in SUBSET Installs /\ \A i \in S : Revokes(i)
            /\ mgr'[n] = mgr[n] \/ mgr'[n] = Idle \/ mgr'[n] = ManagersRevoked(S)[n]
        BY <2>1, <3>2 DEF ManagerCarries, Revoking
      <4> QED
        BY <1>1, <4>1
    <3> QED
      BY <3>1, <3>2
  <2> QED
    BY <2>2 DEF ManagersSound, ManagerFine
<1> QED
  BY <1>3, <1>4, <1>5, <1>6, StepKinds

\* What revokes does not disturb a plan.
LEMMA PlanRevoked ==
  ASSUME NEW r \in Activating, NEW S, PlanFollowed(r)
  PROVE  PlanFollowed([r EXCEPT !.revoked = @ \cup S])
<1>1. PICK x : x = [r EXCEPT !.revoked = @ \cup S]
  BY Zenon
<1>2. x.sel = r.sel /\ x.before = r.before /\ x.held = r.held /\ x.written = r.written /\ x.pc = r.pc
  BY <1>1 DEF Activating
<1>3. Required(x) = Required(r) /\ Reenabled(x) = Reenabled(r)
  BY <1>2 DEF Required, Reenabled
<1>4. PlanFollowed(x)
  BY <1>2, <1>3 DEF PlanFollowed
<1> QED
  BY <1>1, <1>4

LEMMA OwnPlan ==
  ASSUME HooksTypeOK, PlansFollowed, NEW m \in Managers,
         \/ ActivateDrain(m) \/ ActivateLock(m) \/ ActivateDisable(m) \/ ActivateCommit(m) \/ ActivateEnable(m)
         \/ ActivateFails(m)
  PROVE  PlanFollowed(mgr'[m])
<1>0. ServiceTypeOK /\ mgr \in [Managers -> ManagerType]
  BY TypesTogether DEF HooksTypeOK, RestTyped
<1>1. PICK r \in Activating : r = mgr[m]
  BY Zenon, <1>0, ManagerKinds DEF ActivateDrain, ActivateLock, ActivateDisable, ActivateCommit, ActivateEnable, ActivateFails
<1>2. PlanFollowed(r) /\ Required(r) \in SUBSET Installs /\ Reenabled(r) \in SUBSET Installs
  BY <1>1, PlanTyped DEF PlansFollowed, Activating
<1>3. PICK x : x = mgr'[m]
  OBVIOUS
<1>4. Required(x) = Required(r) /\ Reenabled(x) = Reenabled(r)
  BY <1>1, <1>3, ActivationGoesOn DEF KeepsPlan, Required, Reenabled
<1>5. ASSUME NEW y, Goes(m, mgr, y) PROVE x = y
  BY <1>0, <1>3, <1>5, OwnGoes
<1>6. CASE ActivateDrain(m)
  <2>1. r.pc = "drain" /\ Goes(m, mgr, [r EXCEPT !.pc = "lock"])
    BY <1>1, <1>6 DEF ActivateDrain
  <2>2. x = [r EXCEPT !.pc = "lock"]
    BY <1>5, <2>1
  <2>3. x.pc = "lock" /\ x.held = r.held /\ x.written = r.written
    BY <2>2 DEF Activating
  <2> QED
    BY <1>2, <1>3, <1>4, <2>1, <2>3 DEF PlanFollowed
<1>7. CASE ActivateLock(m)
  <2>1. PICK i : i = Foremost(Required(r) \ r.held)
    OBVIOUS
  <2>2. /\ r.pc = "lock"
        /\ \/ r.held = Required(r) /\ Goes(m, mgr, [r EXCEPT !.pc = "disable"])
           \/ r.held # Required(r) /\ Goes(m, mgr, [r EXCEPT !.held = @ \cup {i}])
    BY <1>1, <1>7, <2>1 DEF ActivateLock
  <2>3. CASE r.held = Required(r) /\ Goes(m, mgr, [r EXCEPT !.pc = "disable"])
    <3>1. x = [r EXCEPT !.pc = "disable"]
      BY <1>5, <2>3
    <3>2. x.pc = "disable" /\ x.held = r.held /\ x.written = r.written
      BY <3>1 DEF Activating
    <3> QED
      BY <1>2, <1>3, <1>4, <2>2, <2>3, <3>2 DEF PlanFollowed
  <2>4. CASE r.held # Required(r) /\ Goes(m, mgr, [r EXCEPT !.held = @ \cup {i}])
    <3>1. x = [r EXCEPT !.held = @ \cup {i}]
      BY <1>5, <2>4
    <3>2. x.pc = "lock" /\ x.held = r.held \cup {i} /\ x.written = r.written
      BY <2>2, <3>1 DEF Activating
    <3>3. i \in Required(r)
      <4>1. Required(r) \ r.held # {}
        BY <1>2, <2>4 DEF PlanFollowed
      <4> QED
        BY <1>2, <2>1, <4>1, ForemostOne
    <3> QED
      BY <1>2, <1>3, <1>4, <2>2, <3>2, <3>3 DEF PlanFollowed
  <2> QED
    BY <2>2, <2>3, <2>4
<1>8. CASE ActivateDisable(m)
  <2>1. PICK i : i = Foremost(Required(r) \ r.written)
    OBVIOUS
  <2>2. /\ r.pc = "disable"
        /\ \/ r.written = Required(r) /\ Goes(m, mgr, [r EXCEPT !.pc = "commit"])
           \/ r.written # Required(r) /\ Goes(m, mgr, [r EXCEPT !.written = @ \cup {i}])
    BY <1>1, <1>8, <2>1 DEF ActivateDisable
  <2>3. CASE r.written = Required(r) /\ Goes(m, mgr, [r EXCEPT !.pc = "commit"])
    <3>1. x = [r EXCEPT !.pc = "commit"]
      BY <1>5, <2>3
    <3>2. x.pc = "commit" /\ x.held = r.held /\ x.written = r.written
      BY <3>1 DEF Activating
    <3> QED
      BY <1>2, <1>3, <1>4, <2>2, <2>3, <3>2 DEF PlanFollowed
  <2>4. CASE r.written # Required(r) /\ Goes(m, mgr, [r EXCEPT !.written = @ \cup {i}])
    <3>1. x = [r EXCEPT !.written = @ \cup {i}]
      BY <1>5, <2>4
    <3>2. x.pc = "disable" /\ x.held = r.held /\ x.written = r.written \cup {i}
      BY <2>2, <3>1 DEF Activating
    <3>3. i \in Required(r)
      <4>1. Required(r) \ r.written # {}
        BY Zenon, <1>2, <2>2, <2>4 DEF PlanFollowed
      <4> QED
        BY <1>2, <2>1, <4>1, ForemostOne
    <3> QED
      BY <1>2, <1>3, <1>4, <2>2, <3>2, <3>3 DEF PlanFollowed
  <2> QED
    BY <2>2, <2>3, <2>4
<1>9. CASE ActivateCommit(m)
  <2>1. r.pc = "commit" /\ Goes(m, mgr, [r EXCEPT !.pc = "enable", !.written = {}])
    BY <1>1, <1>9 DEF ActivateCommit
  <2>2. x = [r EXCEPT !.pc = "enable", !.written = {}]
    BY <1>5, <2>1
  <2>3. x.pc = "enable" /\ x.held = r.held /\ x.written = {}
    BY <2>2 DEF Activating
  <2> QED
    BY <1>2, <1>3, <1>4, <2>1, <2>3 DEF PlanFollowed
<1>10. CASE ActivateEnable(m)
  <2>1. PICK i : i = Foremost(Reenabled(r) \ r.written)
    OBVIOUS
  <2>2. /\ r.pc = "enable"
        /\ \/ r.written = Reenabled(r) /\ Goes(m, mgr, [r EXCEPT !.pc = "resume"])
           \/ r.written # Reenabled(r) /\ Goes(m, mgr, [r EXCEPT !.written = @ \cup {i}])
    BY <1>1, <1>10, <2>1 DEF ActivateEnable
  <2>3. CASE r.written = Reenabled(r) /\ Goes(m, mgr, [r EXCEPT !.pc = "resume"])
    <3>1. x = [r EXCEPT !.pc = "resume"]
      BY <1>5, <2>3
    <3>2. x.pc = "resume" /\ x.held = r.held /\ x.written = r.written
      BY <3>1 DEF Activating
    <3> QED
      BY <1>2, <1>3, <1>4, <2>2, <2>3, <3>2 DEF PlanFollowed
  <2>4. CASE r.written # Reenabled(r) /\ Goes(m, mgr, [r EXCEPT !.written = @ \cup {i}])
    <3>1. x = [r EXCEPT !.written = @ \cup {i}]
      BY <1>5, <2>4
    <3>2. x.pc = "enable" /\ x.held = r.held /\ x.written = r.written \cup {i}
      BY <2>2, <3>1 DEF Activating
    <3>3. i \in Reenabled(r)
      <4>1. Reenabled(r) \ r.written # {}
        BY <1>2, <2>2, <2>4 DEF PlanFollowed
      <4> QED
        BY <1>2, <2>1, <4>1, ForemostOne
    <3> QED
      BY <1>2, <1>3, <1>4, <2>2, <3>2, <3>3 DEF PlanFollowed
  <2> QED
    BY <2>2, <2>3, <2>4
<1>11. CASE ActivateFails(m)
  <2>1. Goes(m, mgr, [r EXCEPT !.pc = "fail", !.held = {}])
    BY <1>1, <1>11 DEF ActivateFails
  <2>2. x = [r EXCEPT !.pc = "fail", !.held = {}]
    BY <1>5, <2>1
  <2>3. x.pc = "fail" /\ x.held = {}
    BY <2>2 DEF Activating
  <2> QED
    BY <1>3, <2>3 DEF PlanFollowed
<1> QED
  BY <1>6, <1>7, <1>8, <1>9, <1>10, <1>11

LEMMA NextPlans ==
  ASSUME HooksTypeOK, GenerationsDrawn, CredentialsSound, PlansFollowed, Next
  PROVE  PlansFollowed'
<1>0. ServiceTypeOK
  BY DEF HooksTypeOK
<1>1. ASSUME NEW n \in Managers, NEW S, mgr'[n] = mgr[n] \/ mgr'[n] = Idle \/ mgr'[n] = ManagersRevoked(S)[n],
             mgr'[n].op = "activate"
      PROVE  PlanFollowed(mgr'[n])
  <2>1. mgr[n] # Idle /\ mgr'[n] # Idle
    BY <1>1 DEF Idle, ManagersRevoked
  <2>2. PICK r : r = mgr[n]
    OBVIOUS
  <2>3. mgr'[n] = r \/ mgr'[n] = [r EXCEPT !.revoked = @ \cup S]
    BY <1>1, <2>1, <2>2 DEF ManagersRevoked
  <2>4. r.op = "activate"
    BY <1>0, <1>1, <2>1, <2>2, <2>3, ManagerKinds DEF Installing, Uninstalling, Activating
  <2>5. r \in Activating /\ PlanFollowed(r)
    BY <1>0, <2>2, <2>4, ManagerKinds DEF PlansFollowed
  <2> QED
    BY <2>3, <2>5, PlanRevoked
<1>2. CASE mgr' = mgr
  BY <1>2 DEF PlansFollowed
<1>3. CASE \E c \in Callbacks : CallbackActs(c)
  <2>1. mgr' = mgr
    BY <1>3, CallbackRests
  <2> QED
    BY <1>2, <2>1
<1>4. CASE \E k \in scenario.sessions : Write(k) \/ DeleteCaptured(k)
  <2>1. mgr' = mgr
    BY <1>4 DEF Write, DeleteCaptured
  <2> QED
    BY <1>2, <2>1
<1>5. CASE OwnerActs
  <2>1. PICK S : OwnerCarries(S)
    BY <1>5, OwnerStepCarries
  <2> QED
    BY <1>1, <2>1 DEF OwnerCarries, PlansFollowed
<1>6. ASSUME NEW m \in Managers, ManagerActs(m) PROVE PlansFollowed'
  <2>1. PICK S : ManagerCarries(m, S)
    BY <1>6, ManagerStepCarries
  <2>2. ASSUME NEW n \in Managers \ {m}, mgr'[n].op = "activate" PROVE PlanFollowed(mgr'[n])
    BY <1>1, <2>1, <2>2 DEF ManagerCarries
  <2>3. ASSUME mgr'[m].op = "activate" PROVE PlanFollowed(mgr'[m])
    <3>1. CASE ActivateStart(m)
      <4>1. PICK S2 \in SUBSET Installs :
              Goes(m, ManagersRevoked(Installs),
                [op |-> "activate", ctl |-> Cur, sel |-> S2, before |-> row, pc |-> "drain", owner |-> fresh + 1,
                 owned |-> owner.generation, held |-> {}, written |-> {}, revoked |-> {}])
        BY Zenon, <3>1 DEF ActivateStart
      <4>2. PICK x : x = [op |-> "activate", ctl |-> Cur, sel |-> S2, before |-> row, pc |-> "drain", owner |-> fresh + 1,
                          owned |-> owner.generation, held |-> {}, written |-> {}, revoked |-> {}]
        BY Zenon
      <4>3. mgr'[m] = x
        BY <4>1, <4>2 DEF Goes, ManagersRevoked
      <4> QED
        BY <4>2, <4>3 DEF PlanFollowed
    <3>2. CASE ActivateBusy(m)
      BY <2>3, <3>2 DEF ActivateBusy, PlansFollowed
    <3>3. CASE \/ ActivateDrain(m) \/ ActivateLock(m) \/ ActivateDisable(m) \/ ActivateCommit(m) \/ ActivateEnable(m)
               \/ ActivateFails(m)
      BY <3>3, OwnPlan
    <3>4. ~\/ InstallStart(m) \/ InstallCheck(m) \/ InstallLock(m) \/ InstallPrepare(m) \/ InstallWrite(m)
           \/ UninstallStart(m) \/ UninstallLock(m) \/ InstallInactive(m) \/ InstallDisabled(m) \/ InstallSettled(m)
           \/ InstallFails(m) \/ InstallCommit(m) \/ UninstallRemove(m) \/ Abandoned(m) \/ ActivateResume(m) \/ ActivateFail(m)
      BY <2>3, OwnKinds, InstallLocks, InactiveGoes DEF Begun, Idle
    <3> QED
      BY <1>6, <3>1, <3>2, <3>3, <3>4 DEF ManagerActs, ManagerWaits, ManagerDisables, ManagerCommits
  <2> QED
    BY <2>2, <2>3 DEF PlansFollowed
<1> QED
  BY <1>3, <1>4, <1>5, <1>6, StepKinds

-----------------------------------------------------------------------------
(* Nothing revoked captures. *)

\* A tool of a session is captured only by the publication of a callback for it.
LEMMA CapturesPublish ==
  ASSUME HooksTypeOK, GenerationsDrawn, CredentialsSound, Next, NEW k \in Roots, tool'[k] # tool[k], tool'[k] # NoEntity
  PROVE  \E c \in Callbacks : Publication(c) /\ cb[c].root = k
<1>1. ASSUME NEW c \in Callbacks, CallbackActs(c)
      PROVE  Publication(c) /\ cb[c].root = k
  <2>1. CASE Publication(c)
    <3>1. \E x : tool' = [tool EXCEPT ![cb[c].root] = x]
      BY Zenon, <2>1 DEF Publication, Publish
    <3>2. tool \in [Roots -> Entity \cup {NoEntity}]
      BY DEF HooksTypeOK, StoreTypeOK
    <3> QED
      BY <2>1, <3>1, <3>2
  <2>2. CASE ~Publication(c)
    BY Zenon, <1>1, <2>2 DEF CallbackActs, Begin, Handle, Refuse, GiveUp, Transport, Reread, Acquire, Admission, store
  <2> QED
    BY <2>1, <2>2
<1>2. ASSUME NEW s \in scenario.sessions PROVE ~(Write(s) \/ DeleteCaptured(s))
  <2>1. ~Write(s)
    BY DEF Write, store
  <2>2. ~DeleteCaptured(s)
    BY DEF DeleteCaptured, DeleteRun, HooksTypeOK, StoreTypeOK
  <2> QED
    BY <2>1, <2>2
<1>3. ~OwnerActs
  BY DEF OwnerActs, ClearStart, ClearFinish, ClearAll, ClearFails, Shutdown, Gone, Boot, store
<1>4. \A m \in Managers : ~ManagerActs(m)
  BY ManagerMoves
<1> QED
  BY <1>1, <1>2, <1>3, <1>4, StepKinds

LEMMA CaptureAuthorized ==
  ASSUME HooksTypeOK, RepliesInOrder, CredentialsSound, NEW c \in Callbacks, Publication(c)
  PROVE  Alive(c) /\ cb[c].pc = "publish" /\ ~cb[c].cap.old /\ cb'[c] = Over
<1>0. ServiceTypeOK /\ CallbackFine(c)
  BY CallbacksFine DEF HooksTypeOK, CredentialsSound
<1>1. PICK i \in Installs :
        /\ cb[c].pc = "publish" /\ cb[c].reply.owner = owner.generation /\ cb[c].reply.generation = row[i].generation
        /\ Answered(c, Over)
  BY DEF Publication, Serves
<1>2. cb[c] \in Working /\ Alive(c) /\ cb[c].inst \in Installs
  BY <1>0, <1>1, ReplyKinds, WorksAlive DEF Reads
<1>3. /\ cb[c].reply.generation = cb[c].cap.generation /\ cb[c].reply.owner = cb[c].cap.owner
      /\ Sound(cb[c].inst, cb[c].cap.generation, cb[c].cap.owner, cb[c].cap.old)
  BY <1>0, <1>1, <1>2 DEF CallbackFine
<1>4. i = cb[c].inst
  BY Zenon, <1>1, <1>2, <1>3 DEF Sound
<1>5. ~cb[c].cap.old
  BY Zenon, <1>1, <1>3, <1>4 DEF Sound
<1>6. cb'[c] = Over
  BY <1>0, <1>1, ReleaseCarries DEF Answered
<1> QED
  BY <1>1, <1>2, <1>5, <1>6

LEMMA InitCaptures ==
  ASSUME Init
  PROVE  CaptureInv
<1>0. /\ scenario \in Scenarios /\ row = scenario.rows /\ row \in [Installs -> Row] /\ fresh = NInstalls
      /\ owner = [active |-> TRUE, generation |-> 1] /\ NInstalls \in Nat /\ NInstalls > 0
      /\ \A i \in Installs : i \in 1 .. NInstalls
      /\ \A i \in Installs : row[i] # NoRow => row[i].generation = i /\ row[i].token = i
  <2>1. /\ scenario \in Scenarios /\ row = scenario.rows /\ fresh = NInstalls
        /\ owner = [active |-> TRUE, generation |-> 1]
    BY DEF Init
  <2>2. /\ scenario.rows \in [Installs -> Row]
        /\ \A i \in Installs : scenario.rows[i] # NoRow => scenario.rows[i].generation = i /\ scenario.rows[i].token = i
    BY Zenon, <2>1, ScenarioAssumption
  <2>3. NInstalls \in Nat /\ NInstalls > 0 /\ \A i \in Installs : i \in 1 .. NInstalls
    BY HookAssumption DEF Installs
  <2> QED
    BY <2>1, <2>2, <2>3
<1>1. \A i \in Installs : IF Stored(i) THEN row[i] \in KnownRow /\ row[i].generation = i /\ row[i].token = i
                          ELSE row[i] = NoRow
  BY <1>0 DEF Stored, Row, KnownRow, NoRow
<1>2. GenerationsDrawn
  <2>1. \A i \in Installs : row[i].generation <= fresh /\ row[i].token <= fresh
    BY <1>0, <1>1 DEF NoRow
  <2>2. \A i \in Installs : Stored(i) => row[i].generation > 0
    BY <1>0, <1>1
  <2>3. \A i, j \in Installs : Stored(i) /\ Stored(j) /\ i # j => row[i].generation # row[j].generation
    BY <1>1
  <2> QED
    BY <1>0, <2>1, <2>2, <2>3 DEF GenerationsDrawn
<1>3. StoreTypeOK
  BY <1>0 DEF Init, StoreTypeOK, Session, NoSession
<1>4. ScenarioTypeOK
  BY <1>0, ScenarioAssumption DEF ScenarioTypeOK
<1>5. \A i \in Installs :
        /\ row[i].state = "active" =>
             file[i] = [state |-> "active", token |-> row[i].token, generation |-> row[i].generation, owner |-> 1, old |-> FALSE]
        /\ row[i].state # "active" => file[i] = DisabledFile \/ file[i] = NoFile
  BY DEF Init
<1>6. ServiceTypeOK
  <2>1. \A i \in Installs : file[i] \in ActiveFile \cup {NoFile, DisabledFile}
    <3>1. ASSUME NEW i \in Installs, row[i].state = "active" PROVE file[i] \in ActiveFile
      <4>1. row[i].token \in Nat /\ row[i].generation \in Nat
        BY <1>0, <1>1, <3>1 DEF Stored
      <4>2. PICK t \in Nat, g \in Nat : t = row[i].token /\ g = row[i].generation
        BY <4>1
      <4>3. file[i] = [state |-> "active", token |-> t, generation |-> g, owner |-> 1, old |-> FALSE]
        BY <1>5, <3>1, <4>2
      <4> QED
        BY <4>3 DEF ActiveFile
    <3> QED
      BY Zenon, <1>5, <3>1
  <2>2. file \in [Installs -> ActiveFile \cup {NoFile, DisabledFile}]
    BY <2>1 DEF Init
  <2>3. ctl \in Seq(Controller)
    BY NewControllerTyped DEF Init
  <2>4. transcript \in [Roots -> [inc : Nat \ {0}, lines : Seq(Outcomes)]]
    BY DEF Init
  <2> QED
    BY <2>2, <2>3, <2>4 DEF Init, ServiceTypeOK
<1>7. SessionsInOrder
  BY DEF Init, SessionsInOrder, NoSession, NoEntity
<1>8. RepliesInOrder /\ CallbacksSound
  BY DEF Init, RepliesInOrder, CallbacksSound, Quiet, Alive
<1>9. ManagersSound /\ PlansFollowed
  BY DEF Init, ManagersSound, PlansFollowed, Idle
<1>10. FilesSound
  <2>1. ASSUME NEW i \in Installs, file[i].state = "active"
        PROVE  file[i].token <= fresh /\ Sound(i, file[i].generation, file[i].owner, file[i].old)
    <3>0. DisabledFile.state # "active" /\ NoFile.state # "active"
      BY DEF DisabledFile, NoFile
    <3>1. row[i].state = "active"
      BY Zenon, <1>5, <2>1, <3>0
    <3>2. Stored(i) /\ row[i].generation = i /\ row[i].token = i
      BY <1>1, <3>1 DEF Stored
    <3>3. file[i].token = i /\ file[i].generation = i /\ file[i].owner = 1 /\ ~file[i].old
      <4>1. PICK t, g : t = row[i].token /\ g = row[i].generation
        OBVIOUS
      <4>2. file[i] = [state |-> "active", token |-> t, generation |-> g, owner |-> 1, old |-> FALSE]
        BY <1>5, <3>1, <4>1
      <4> QED
        BY <3>2, <4>1, <4>2
    <3>4. \A j \in Installs \ {i} : row[j].generation # i
      BY <1>0, <1>1 DEF NoRow
    <3>5. Sound(i, i, 1, FALSE)
      BY <1>0, <3>4 DEF Sound
    <3> QED
      BY <1>0, <3>3, <3>5 DEF Sound
  <2> QED
    BY <2>1 DEF FilesSound
<1> QED
  BY <1>2, <1>3, <1>4, <1>6, <1>7, <1>8, <1>9, <1>10 DEF CaptureInv, HooksTypeOK, CredentialsSound

LEMMA NextCaptures ==
  ASSUME CaptureInv, [Next]_vars
  PROVE  CaptureInv'
<1>0. HooksTypeOK /\ GenerationsDrawn /\ SessionsInOrder /\ RepliesInOrder /\ CredentialsSound /\ PlansFollowed
      /\ StoreTypeOK
  BY DEF CaptureInv, HooksTypeOK
<1>1. StoreMoves /\ SessionsMove
  BY <1>0, NextMoves, NextSessions
<1>2. HooksTypeOK'
  BY <1>0, NextTyped
<1>3. GenerationsDrawn' /\ SessionsInOrder'
  BY <1>0, <1>1, GenerationsStay DEF SessionsMove
<1>4. RepliesInOrder' /\ CallbacksSound'
  BY <1>0, NextCallbacks
<1>5. FilesSound' /\ ManagersSound' /\ PlansFollowed'
  <2>1. CASE Next
    BY <1>0, <1>1, <2>1, NextFiles, NextManagers, NextPlans
  <2>2. CASE UNCHANGED vars
    BY <1>0, <2>2 DEF vars, store, CredentialsSound, FilesSound, ManagersSound, PlansFollowed, InstallSound,
       ActivateSound, Sound
  <2> QED
    BY <2>1, <2>2
<1> QED
  BY <1>2, <1>3, <1>4, <1>5 DEF CaptureInv, CredentialsSound

LEMMA CapturesInvariant == Spec => []CaptureInv
<1>1. Init => CaptureInv
  BY InitCaptures
<1>2. CaptureInv /\ [Next]_vars => CaptureInv'
  BY NextCaptures
<1> QED
  BY <1>1, <1>2, PTL DEF Spec

\* Types: rows, private files, controllers with their lines, callbacks and management
\* requests stay of their shapes, for every number of installations, roots, callbacks,
\* managers, every limit of the service and every scenario.
THEOREM HooksTypeCorrect == Spec => []HooksTypeOK
<1>1. CaptureInv => HooksTypeOK
  BY DEF CaptureInv
<1> QED
  BY <1>1, CapturesInvariant, PTL

\* What was captured is not taken back by a callback that was overtaken, and what was
\* cleared or deleted is not captured again (store.ts publish, the tombstones of 0010).
THEOREM EvidenceIsKept == Spec => EvidenceKept
<1>1. CaptureInv /\ [Next]_vars => [\A k \in Roots : EvidenceStays(k)]_<<session, tool>>
  BY NextSessions DEF CaptureInv, SessionsMove
<1> QED
  BY <1>1, CapturesInvariant, PTL DEF Spec, EvidenceKept

\* No callback captures under a credential that was revoked after it read it, although
\* its token may have been issued anew meanwhile.
THEOREM RevokedNeverCaptures == Spec => RevokedCapturesNothing
<1>1. ASSUME CaptureInv, Next, NEW k \in Roots, tool'[k] # tool[k], tool'[k] # NoEntity
      PROVE  \E c \in Callbacks : Alive(c) /\ cb[c].pc = "publish" /\ cb[c].root = k /\ ~cb[c].cap.old
                                  /\ cb'[c] = Over
  <2>1. PICK c \in Callbacks : Publication(c) /\ cb[c].root = k
    BY <1>1, CapturesPublish DEF CaptureInv
  <2>2. Alive(c) /\ cb[c].pc = "publish" /\ ~cb[c].cap.old /\ cb'[c] = Over
    BY <1>1, <2>1, CaptureAuthorized DEF CaptureInv
  <2> QED
    BY <2>1, <2>2
<1>2. CaptureInv /\ [Next]_vars =>
        [\A k \in Roots : tool'[k] # tool[k] /\ tool'[k] # NoEntity =>
           \E c \in Callbacks : Alive(c) /\ cb[c].pc = "publish" /\ cb[c].root = k /\ ~cb[c].cap.old
                                /\ cb'[c] = Over]_vars
  BY <1>1
<1> QED
  BY <1>2, CapturesInvariant, PTL DEF Spec, RevokedCapturesNothing

-----------------------------------------------------------------------------
(* Leases, and what a step leaves alone. *)

RowKept(i) == row'[i] = row[i] \/ row'[i].state # "active"

FileKept(i) ==
  /\ file'[i].state = file[i].state
  /\ file[i].state = "active" => file'[i].generation = file[i].generation /\ file'[i].token = file[i].token

Untouched(i) == RowKept(i) /\ FileKept(i)

\* Two requests that differ at most in what was revoked from them.
Alike(r, x) ==
  /\ x.op = r.op /\ x.pc = r.pc
  /\ r.op = "install" => /\ x.inst = r.inst /\ x.before = r.before /\ x.token = r.token
                         /\ x.generation = r.generation /\ x.unchanged = r.unchanged
  /\ r.op = "uninstall" => x.inst = r.inst
  /\ r.op = "activate" => /\ x.sel = r.sel /\ x.before = r.before /\ x.owner = r.owner
                          /\ x.held = r.held /\ x.written = r.written

LEMMA RevokedAlike ==
  ASSUME NEW r \in Installing \cup Uninstalling \cup Activating, NEW S
  PROVE  Alike(r, [r EXCEPT !.revoked = @ \cup S])
<1>1. CASE r \in Installing
  BY <1>1 DEF Installing, Alike
<1>2. CASE r \in Uninstalling
  BY <1>2 DEF Uninstalling, Alike
<1>3. CASE r \in Activating
  BY <1>3 DEF Activating, Alike
<1> QED
  BY <1>1, <1>2, <1>3

LEMMA OthersAlike ==
  ASSUME ServiceTypeOK, NEW n \in Managers, NEW S,
         mgr'[n] = mgr[n] \/ mgr'[n] = Idle \/ mgr'[n] = ManagersRevoked(S)[n]
  PROVE  mgr'[n] = Idle \/ Alike(mgr[n], mgr'[n])
<1>1. CASE mgr'[n] = Idle
  BY <1>1
<1>2. CASE mgr'[n] = mgr[n]
  BY <1>2 DEF Alike
<1>3. CASE mgr'[n] # Idle /\ mgr'[n] = ManagersRevoked(S)[n]
  <2>1. mgr[n] # Idle /\ mgr'[n] = [mgr[n] EXCEPT !.revoked = @ \cup S]
    BY <1>3 DEF ManagersRevoked
  <2>2. mgr[n] \in Installing \cup Uninstalling \cup Activating
    BY <2>1 DEF ServiceTypeOK
  <2> QED
    BY <2>1, <2>2, RevokedAlike
<1> QED
  BY <1>1, <1>2, <1>3

LEMMA AlikeHolds ==
  ASSUME NEW r, NEW x, Alike(r, x), NEW i
  PROVE  (Leased(x, i) <=> Leased(r, i)) /\ (Revives(x, i) <=> Revives(r, i))
<1>1. Leased(x, i) <=> Leased(r, i)
  BY DEF Alike, Leased
<1>2. Revives(x, i) <=> Revives(r, i)
  BY DEF Alike, Revives
<1> QED
  BY <1>1, <1>2

LEMMA IdleHolds ==
  ASSUME NEW i
  PROVE  ~Leased(Idle, i) /\ ~Revives(Idle, i) /\ Knows(Idle)
BY DEF Idle, Leased, Revives, Knows

LEMMA FilesRevokedKept ==
  ASSUME ServiceTypeOK, NEW i \in Installs, NEW S, file'[i] = file[i] \/ file'[i] = FilesRevoked(S)[i]
  PROVE  FileKept(i)
<1>1. CASE file'[i] = file[i]
  BY <1>1 DEF FileKept
<1>2. CASE file[i].state = "active" /\ file'[i] = [file[i] EXCEPT !.old = TRUE]
  <2>1. file[i] \in ActiveFile
    BY <1>2, FileKinds
  <2> QED
    BY <1>2, <2>1 DEF ActiveFile, FileKept
<1> QED
  BY <1>1, <1>2 DEF FilesRevoked

LEMMA RowsKept ==
  ASSUME HooksTypeOK, GenerationsDrawn, CredentialsSound, NEW m \in Managers, ManagerActs(m), NEW i \in Installs
  PROVE  \/ RowKept(i)
         \/ InstallCommit(m) /\ i = mgr[m].inst
         \/ ActivateCommit(m) /\ i \in mgr[m].sel
<1>0. StoreTypeOK /\ FilesSound /\ ManagersSound
  BY DEF HooksTypeOK, CredentialsSound
<1>1. CASE ManagerWaits(m)
  BY <1>1, ManagerRests DEF store, RowKept
<1>2. ASSUME NEW j \in Installs, DisableInstallation(j) PROVE RowKept(i)
  BY <1>0, <1>2, DisableMoves DEF RowKept
<1>3. CASE ManagerDisables(m)
  BY <1>2, <1>3, ManagerDisablesMoves DEF store, RowKept
<1>4. CASE InstallStart(m)
  <2>1. row' = row \/ \E j \in Installs : Stored(j) /\ row' = [row EXCEPT ![j] = Fenced(@, fresh + 1)]
    BY <1>4 DEF InstallStart, store
  <2>2. ASSUME NEW j \in Installs, Stored(j), row' = [row EXCEPT ![j] = Fenced(@, fresh + 1)] PROVE RowKept(i)
    <3>1. CASE i = j
      <4>1. row[j] \in Row /\ row[j] # NoRow /\ fresh + 1 \in Nat
        BY <1>0, <2>2 DEF StoreTypeOK, Stored, NoRow
      <4>2. Fenced(row[j], fresh + 1).state = "disabled"
        BY Zenon, <4>1, FencedRow
      <4>3. row'[i] = Fenced(row[j], fresh + 1)
        BY <1>0, <2>2, <3>1 DEF StoreTypeOK
      <4> QED
        BY <4>2, <4>3 DEF RowKept
    <3>2. CASE i # j
      BY <1>0, <2>2, <3>2 DEF StoreTypeOK, RowKept
    <3> QED
      BY <3>1, <3>2
  <2> QED
    BY <2>1, <2>2 DEF RowKept
<1>5. CASE InstallPrepare(m)
  BY <1>0, <1>5, InstallPrepareMoves DEF RowKept
<1>6. CASE InstallCommit(m)
  <2>1. CASE i # mgr[m].inst
    BY Zenon, <1>0, <1>6, <2>1, InstallCommitMoves DEF RowKept, StoreTypeOK
  <2> QED
    BY <1>6, <2>1
<1>7. CASE ActivateStart(m)
  <2>1. PICK S \in SUBSET Installs :
          /\ Plannable(S)
          /\ row' = [j \in Installs |-> IF j \in S THEN [Fenced(row[j], fresh + j) EXCEPT !.version = 2] ELSE row[j]]
          /\ owner' = [owner EXCEPT !.generation = fresh + 1] /\ fresh' = fresh + NInstalls
    BY <1>7 DEF ActivateStart
  <2>2. /\ \A j \in Installs \ S : row'[j] = row[j]
        /\ \A j \in S : row'[j].state = "disabled"
    BY <1>0, <2>1, ActivateStartMoves
  <2> QED
    BY <2>2 DEF RowKept
<1>8. CASE ActivateCommit(m)
  BY <1>0, <1>8, ActivateCommitMoves DEF RowKept
<1>9. CASE ActivateFail(m)
  <2>1. CASE owner.active
    <3>1. PICK S \in SUBSET Installs : S = mgr[m].sel
      BY <1>9, ManagerKinds DEF HooksTypeOK, ActivateFail, Activating
    <3>2. /\ row' = [j \in Installs |-> IF j \in S THEN Fenced(row[j], fresh + j) ELSE row[j]]
          /\ owner' = [owner EXCEPT !.generation = fresh + 1] /\ fresh' = fresh + NInstalls
      BY <1>9, <2>1, <3>1 DEF ActivateFail
    <3>3. /\ \A j \in Installs \ S : row'[j] = row[j]
          /\ \A j \in S : row'[j].state # "active"
      BY <1>0, <3>2, ActivateFailMoves
    <3> QED
      BY <3>3 DEF RowKept
  <2>2. CASE ~owner.active
    BY <1>9, <2>2 DEF ActivateFail, store, RowKept
  <2> QED
    BY <2>1, <2>2
<1> QED
  BY <1>1, <1>3, <1>4, <1>5, <1>6, <1>7, <1>8, <1>9 DEF ManagerActs, ManagerCommits

\* The Descriptor an activation writes for a file it only hands over keeps its credential.
LEMMA WritesKept ==
  ASSUME HooksTypeOK, PlansFollowed, NEW m \in Managers, Writes(m), NEW i \in Installs
  PROVE  \/ FileKept(i)
         \/ Leased(mgr[m], i) /\ mgr[m].op \in {"install", "uninstall"} /\ mgr[m].inst = i
            /\ (InstallDisabled(m) \/ InstallWrite(m) \/ UninstallRemove(m))
         \/ /\ Leased(mgr[m], i) /\ i \in mgr[m].sel /\ ActivateDisable(m) /\ mgr[m].written # Required(mgr[m])
            /\ AsPlanned(mgr[m], i) /\ file'[i] = DisabledFile
         \/ /\ Leased(mgr[m], i) /\ i \in Reenabled(mgr[m]) /\ ActivateEnable(m)
            /\ mgr'[m].written = mgr[m].written \cup {i} /\ mgr'[m].pc = "enable"
            /\ file'[i] = Descriptor(mgr[m], i, Drawn(mgr[m], i), Drawn(mgr[m], i), mgr[m].owner)
<1>0. ServiceTypeOK /\ file \in [Installs -> FileType] /\ mgr \in [Managers -> ManagerType]
  BY TypesTogether DEF HooksTypeOK, RestTyped
<1>1. file'[i] = file[i] => FileKept(i)
  BY DEF FileKept
<1>2. CASE InstallDisabled(m) \/ InstallWrite(m)
  <2>1. mgr[m].op = "install" /\ mgr[m].pc \in {"inactive", "write"} /\ mgr[m].inst \in Installs
    BY <1>0, <1>2, ManagerKinds DEF InstallDisabled, InstallWrite, Installing
  <2>2. i # mgr[m].inst => file'[i] = file[i]
    BY <1>0, <1>2, <2>1 DEF InstallDisabled, InstallWrite
  <2> QED
    BY <1>1, <1>2, <2>1, <2>2 DEF Leased
<1>3. CASE UninstallRemove(m)
  <2>1. mgr[m].op = "uninstall" /\ mgr[m].pc = "remove" /\ mgr[m].inst \in Installs
    BY <1>0, <1>3, ManagerKinds DEF UninstallRemove, Uninstalling
  <2>2. i # mgr[m].inst => file'[i] = file[i]
    BY <1>0, <1>3, <2>1 DEF UninstallRemove
  <2> QED
    BY <1>1, <1>3, <2>1, <2>2 DEF Leased
<1>4. CASE ActivateDisable(m)
  <2>1. PICK r \in Activating : r = mgr[m]
    BY <1>0, <1>4, ManagerKinds DEF ActivateDisable
  <2>2. r.op = "activate" /\ r.pc = "disable" /\ PlanFollowed(r) /\ Required(r) \in SUBSET Installs
    BY <1>4, <2>1, PlanTyped DEF ActivateDisable, PlansFollowed, Activating
  <2>3. PICK j : j = Foremost(Required(r) \ r.written)
    OBVIOUS
  <2>4. \/ file' = file
        \/ /\ r.written # Required(r) /\ AsPlanned(r, j)
           /\ file' = [file EXCEPT ![j] = IF j \in r.sel THEN DisabledFile
                            ELSE Descriptor(r, j, @.generation, @.token, r.owner)]
    BY Zenon, <1>4, <2>1, <2>3 DEF ActivateDisable
  <2>5. CASE /\ r.written # Required(r) /\ AsPlanned(r, j)
             /\ file' = [file EXCEPT ![j] = IF j \in r.sel THEN DisabledFile
                            ELSE Descriptor(r, j, @.generation, @.token, r.owner)]
    <3>1. Required(r) \ r.written # {}
      BY <2>2, <2>5 DEF PlanFollowed
    <3>2. j \in Required(r) \ r.written
      BY <2>2, <2>3, <3>1, ForemostOne
    <3>3. Leased(r, j) /\ j \in Installs
      BY <2>2, <3>2 DEF PlanFollowed, Leased
    <3>4. CASE i # j
      BY <1>0, <1>1, <2>5, <3>4
    <3>5. CASE i = j /\ j \in r.sel
      BY <1>0, <1>4, <2>1, <2>5, <3>3, <3>5
    <3>6. CASE i = j /\ j \notin r.sel
      <4>1. file[j].state = "active"
        BY <2>5, <3>2, <3>6 DEF AsPlanned, Required
      <4>2. file'[j] = Descriptor(r, j, file[j].generation, file[j].token, r.owner)
        BY <1>0, <2>5, <3>3, <3>6
      <4> QED
        BY <3>6, <4>1, <4>2 DEF FileKept, Descriptor
    <3> QED
      BY <3>4, <3>5, <3>6
  <2> QED
    BY <1>1, <2>4, <2>5
<1>5. CASE ActivateEnable(m)
  <2>1. PICK r \in Activating : r = mgr[m]
    BY <1>0, <1>5, ManagerKinds DEF ActivateEnable
  <2>2. r.op = "activate" /\ r.pc = "enable" /\ PlanFollowed(r) /\ Reenabled(r) \in SUBSET Installs
    BY <1>5, <2>1, PlanTyped DEF ActivateEnable, PlansFollowed, Activating
  <2>3. PICK j : j = Foremost(Reenabled(r) \ r.written)
    OBVIOUS
  <2>4. \/ file' = file
        \/ /\ r.written # Reenabled(r)
           /\ file' = [file EXCEPT ![j] = Descriptor(r, j, Drawn(r, j), Drawn(r, j), r.owner)]
           /\ Goes(m, mgr, [r EXCEPT !.written = @ \cup {j}])
    BY <1>5, <2>1, <2>3 DEF ActivateEnable
  <2>5. CASE /\ r.written # Reenabled(r)
             /\ file' = [file EXCEPT ![j] = Descriptor(r, j, Drawn(r, j), Drawn(r, j), r.owner)]
             /\ Goes(m, mgr, [r EXCEPT !.written = @ \cup {j}])
    <3>1. Reenabled(r) \ r.written # {}
      BY Zenon, <2>2, <2>5 DEF PlanFollowed
    <3>2. j \in Reenabled(r) \ r.written
      BY <2>2, <2>3, <3>1, ForemostOne
    <3>3. Leased(r, j) /\ j \in Installs
      BY <2>2, <3>2 DEF PlanFollowed, Leased, Reenabled, Required
    <3>4. CASE i # j
      BY <1>0, <1>1, <2>5, <3>4
    <3>5. CASE i = j
      <4>1. mgr'[m] = [r EXCEPT !.written = @ \cup {j}]
        BY <1>0, <2>5, OwnGoes
      <4>2. mgr'[m].written = r.written \cup {j} /\ mgr'[m].pc = "enable"
        BY <2>2, <4>1 DEF Activating
      <4>3. file'[j] = Descriptor(r, j, Drawn(r, j), Drawn(r, j), r.owner)
        BY <1>0, <2>5, <3>3
      <4> QED
        BY <1>5, <2>1, <3>2, <3>3, <3>5, <4>2, <4>3
    <3> QED
      BY <3>4, <3>5
  <2> QED
    BY <1>1, <2>4, <2>5
<1> QED
  BY <1>2, <1>3, <1>4, <1>5 DEF Writes

LEMMA FilesKept ==
  ASSUME HooksTypeOK, GenerationsDrawn, CredentialsSound, NEW m \in Managers, ManagerActs(m), ~Writes(m),
         NEW i \in Installs
  PROVE  FileKept(i)
<1>1. PICK S : ManagerCarries(m, S)
  BY ManagerStepCarries
<1> QED
  BY <1>1, FilesRevokedKept DEF ManagerCarries, HooksTypeOK

\* What a request has no lease of it leaves alone.
LEMMA LeaseGuards ==
  ASSUME HooksTypeOK, GenerationsDrawn, CredentialsSound, PlansFollowed, NEW m \in Managers, ManagerActs(m),
         NEW i \in Installs, ~Leased(mgr[m], i)
  PROVE  Untouched(i)
<1>1. FileKept(i)
  BY FilesKept, WritesKept
<1>2. InstallCommit(m) => i # mgr[m].inst
  BY DEF InstallCommit, Leased
<1>3. ActivateCommit(m) => i \notin mgr[m].sel
  BY DEF ActivateCommit, Leased, PlansFollowed, PlanFollowed, Required
<1> QED
  BY <1>1, <1>2, <1>3, RowsKept DEF Untouched

LEMMA RequestKinds ==
  ASSUME NEW r \in ManagerType
  PROVE  /\ r.op = "install" => r \in Installing /\ r.inst \in Installs
         /\ r.op = "uninstall" => r \in Uninstalling /\ r.inst \in Installs
         /\ r.op = "activate" => r \in Activating
<1>1. r \in Installing => r.op = "install" /\ r.inst \in Installs
  BY DEF Installing
<1>2. r \in Uninstalling => r.op = "uninstall" /\ r.inst \in Installs
  BY DEF Uninstalling
<1>3. r \in Activating => r.op = "activate"
  BY DEF Activating
<1>4. r = Idle => r.op = "idle"
  BY DEF Idle
<1> QED
  BY <1>1, <1>2, <1>3, <1>4 DEF ManagerType

LEMMA KnowsStays ==
  ASSUME StoreTypeOK, GenerationsDrawn, StoreMoves, NEW r \in ManagerType, NEW x, Alike(r, x), Knows(r),
         r.op = "activate" => PlanFollowed(r),
         \A i \in Installs : Leased(r, i) => Untouched(i)
  PROVE  Knows(x)'
<1>1. ASSUME x.op = "install" PROVE InstallKnows(x)'
  <2>1. r.op = "install" /\ r.inst \in Installs /\ InstallKnows(r)
    BY Zenon, <1>1, RequestKinds DEF Alike, Knows
  <2>2. /\ x.inst = r.inst /\ x.before = r.before /\ x.token = r.token /\ x.pc = r.pc
        /\ x.generation = r.generation /\ x.unchanged = r.unchanged
    BY <2>1 DEF Alike
  <2>3. r.pc \in {"prepare", "inactive", "settle", "write", "commit"} => Untouched(r.inst)
    BY <2>1 DEF Leased
  <2> QED
    BY <2>1, <2>2, <2>3 DEF InstallKnows, Serving, Untouched, RowKept, FileKept
<1>2. ASSUME x.op = "uninstall", x.pc = "remove" PROVE row'[x.inst].state # "active"
  <2>1. r.op = "uninstall" /\ r.pc = "remove" /\ x.inst = r.inst /\ r.inst \in Installs
    BY Zenon, <1>2, RequestKinds DEF Alike
  <2>2. Untouched(r.inst)
    BY <2>1 DEF Leased
  <2> QED
    BY <2>1, <2>2 DEF Knows, Untouched, RowKept
<1>3. ASSUME x.op = "activate" PROVE ActivateKnows(x)'
  <2>1. r \in Activating /\ r.op = "activate" /\ ActivateKnows(r) /\ PlanFollowed(r)
    BY Zenon, <1>3, RequestKinds DEF Alike, Knows
  <2>2. x.sel = r.sel /\ x.before = r.before /\ x.owner = r.owner /\ x.written = r.written /\ x.pc = r.pc
    BY <2>1 DEF Alike
  <2>3. r.sel \in SUBSET Installs /\ Required(r) \in SUBSET Installs /\ \A i \in Installs : Drawn(r, i) \in Nat
    BY <2>1, PlanTyped
  <2>4. \A i \in Installs : Drawn(x, i) = Drawn(r, i)
    BY <2>2 DEF Drawn
  <2>5. r.pc \in {"disable", "commit", "enable", "resume"} => \A i \in Required(r) : Untouched(i)
    BY <2>1, <2>3 DEF PlanFollowed, Leased
  <2>6. r.sel \subseteq Required(r)
    BY DEF Required
  <2>7. ASSUME NEW i \in x.sel
        PROVE  x.before[i] # NoRow /\ row'[i].generation >= Drawn(x, i) /\ Drawn(x, i) > x.before[i].generation
    <3>1. i \in Installs /\ Drawn(r, i) \in Nat /\ row[i].generation >= Drawn(r, i)
      BY <2>1, <2>2, <2>3, <2>7 DEF ActivateKnows
    <3>2. row[i].generation <= fresh /\ fresh \in Nat /\ row[i].generation \in Nat
      BY <3>1 DEF GenerationsDrawn, StoreTypeOK, Row, KnownRow, NoRow
    <3>3. row'[i].generation >= row[i].generation
      BY <3>1, <3>2 DEF StoreMoves, RowsMove, Redrawn, Restated
    <3>4. row'[i].generation \in Nat
      BY <3>1 DEF StoreMoves, RowsMove, Row, KnownRow, NoRow
    <3> QED
      BY <2>1, <2>2, <2>4, <2>7, <3>1, <3>2, <3>3, <3>4 DEF ActivateKnows
  <2>8. ASSUME x.pc \in {"disable", "commit"}, NEW i \in x.written \cap x.sel PROVE file'[i].state = "disabled"
    BY <2>1, <2>2, <2>5, <2>6, <2>8 DEF ActivateKnows, Untouched, FileKept
  <2>9. ASSUME x.pc \in {"enable", "resume"}, NEW i \in x.sel, row'[i].state = "active"
        PROVE  x.before[i].state = "active" /\ row'[i].generation = Drawn(x, i) /\ row'[i].token = Drawn(x, i)
    BY <2>1, <2>2, <2>3, <2>4, <2>5, <2>6, <2>9 DEF ActivateKnows, Untouched, RowKept
  <2> QED
    BY <2>7, <2>8, <2>9 DEF ActivateKnows, Drawn
<1> QED
  BY <1>1, <1>2, <1>3 DEF Knows

-----------------------------------------------------------------------------
(* What the request that acts knows after its step. *)

LEMMA PrepareKnows ==
  ASSUME HooksTypeOK, GenerationsDrawn, CredentialsSound, ManagersKnow, NEW m \in Managers, InstallPrepare(m),
         NEW x, x = mgr'[m]
  PROVE  x.op = "install" /\ x.pc = "write" /\ x.inst = mgr[m].inst /\ Knows(x)'
<1>0. StoreTypeOK /\ ServiceTypeOK /\ FilesSound /\ mgr \in [Managers -> ManagerType]
  BY TypesTogether DEF HooksTypeOK, CredentialsSound, RestTyped
<1>1. PICK r, t :
        /\ r \in Installing /\ r = mgr[m] /\ t = (IF Repeats(r) THEN file[r.inst].token ELSE fresh + 1)
        /\ r.pc = "prepare" /\ (Repeats(r) => Held(r))
  BY <1>0, ManagerKinds DEF InstallPrepare
<1>2. PICK i \in Installs : i = r.inst
  BY <1>1 DEF Installing
<1>3. /\ \/ row'[i] = row[i] /\ row[i].state = "active" /\ row[i].token = t
         \/ row'[i] # row[i] /\ row'[i].state = "disabled" /\ row'[i] \in KnownRow
      /\ row' = [row EXCEPT ![i] = Prepared(i, r.want, t)] /\ fresh' = fresh + 1
  BY <1>0, <1>1, <1>2, InstallPrepareMoves
<1>4. PICK p : p = Prepared(i, r.want, t)
  OBVIOUS
<1>5. row'[i] = p
  BY <1>0, <1>3, <1>4 DEF StoreTypeOK
<1>6. PICK g, u : g = p.generation /\ u = (p = row[i])
  OBVIOUS
<1>7. PICK S, v : S = (IF u THEN {} ELSE {i}) /\ v = (S = {})
  BY Zenon
<1>8. /\ file' = FilesRevoked(S)
      /\ Goes(m, ManagersRevoked(S), [r EXCEPT !.pc = "write", !.token = t, !.owner = owner.generation,
                                        !.generation = g, !.unchanged = v, !.revoked = {}])
  BY Zenon, <1>1, <1>2, <1>4, <1>6, <1>7 DEF InstallPrepare
<1>9. x = [r EXCEPT !.pc = "write", !.token = t, !.owner = owner.generation,
             !.generation = g, !.unchanged = v, !.revoked = {}]
  BY <1>0, <1>8 DEF Goes, ManagersRevoked
<1>10. /\ x.op = "install" /\ x.pc = "write" /\ x.inst = i /\ x.token = t /\ x.generation = g /\ x.unchanged = v
  BY <1>1, <1>2, <1>9 DEF Installing
<1>11. FileKept(i)
  BY <1>0, <1>8, FilesRevokedKept
<1>12. ASSUME x.unchanged
       PROVE  file[i].state = "active" /\ file[i].generation = g /\ file[i].token = t
  <2>1. p = row[i] /\ row[i].state = "active" /\ row[i].token = t
    BY Zenon, <1>3, <1>5, <1>6, <1>7, <1>10, <1>12
  <2>2. row[i] = r.before
    BY <1>1, <1>2, <2>1 DEF ManagersKnow, Knows, InstallKnows, Installing
  <2>3. row[i].token \in Nat /\ row[i].token <= fresh /\ fresh \in Nat
    BY <1>0 DEF StoreTypeOK, GenerationsDrawn, Row, KnownRow, NoRow
  <2>4. Repeats(r)
    BY <1>1, <2>1, <2>3
  <2> QED
    BY <1>1, <1>2, <1>6, <2>1, <2>2, <2>4 DEF Held
<1>13. ASSUME row'[i].state = "active" PROVE row'[i].generation = g /\ row'[i].token = t
  BY <1>3, <1>5, <1>6, <1>13
<1> QED
  BY <1>1, <1>2, <1>10, <1>11, <1>12, <1>13 DEF Knows, InstallKnows, Serving, FileKept

LEMMA WriteKnows ==
  ASSUME HooksTypeOK, ManagersKnow, NEW m \in Managers, InstallWrite(m), NEW x, x = mgr'[m]
  PROVE  x.op = "install" /\ x.pc = "commit" /\ x.inst = mgr[m].inst /\ Knows(x)'
<1>0. ServiceTypeOK /\ file \in [Installs -> FileType] /\ mgr \in [Managers -> ManagerType]
  BY TypesTogether DEF HooksTypeOK, RestTyped
<1>1. PICK r \in Installing : r = mgr[m] /\ r.op = "install" /\ r.pc = "write"
  BY <1>0, ManagerKinds DEF InstallWrite
<1>2. PICK i \in Installs : i = r.inst
  BY DEF Installing
<1>3. /\ row' = row
      /\ \/ r.unchanged /\ file' = file
         \/ file' = [file EXCEPT ![i] = Descriptor(r, i, r.generation, r.token, r.owner)]
      /\ Goes(m, mgr, [r EXCEPT !.pc = "commit"])
  BY <1>1, <1>2 DEF InstallWrite, store
<1>4. x = [r EXCEPT !.pc = "commit"]
  BY <1>0, <1>3, OwnGoes
<1>5. x.op = "install" /\ x.pc = "commit" /\ x.inst = i /\ x.token = r.token /\ x.generation = r.generation
  BY <1>2, <1>4 DEF Installing
<1>6. InstallKnows(r)
  BY <1>1 DEF ManagersKnow, Knows
<1>7. file'[i].state = "active" /\ file'[i].generation = r.generation /\ file'[i].token = r.token
  <2>1. CASE r.unchanged /\ file' = file
    BY <1>1, <1>2, <1>6, <2>1 DEF InstallKnows, Serving
  <2>2. CASE file' = [file EXCEPT ![i] = Descriptor(r, i, r.generation, r.token, r.owner)]
    BY <1>0, <2>2 DEF Descriptor
  <2> QED
    BY <1>3, <2>1, <2>2
<1>8. InstallKnows(x)'
  BY <1>1, <1>2, <1>3, <1>5, <1>6, <1>7 DEF InstallKnows, Serving
<1> QED
  BY <1>1, <1>2, <1>5, <1>8 DEF Knows

\* An uninstall that looks at the lock is busy, or takes it and disables the row.
LEMMA UninstallLocks ==
  ASSUME HooksTypeOK, GenerationsDrawn, NEW m \in Managers, UninstallLock(m), NEW r, NEW x, r = mgr[m], x = mgr'[m]
  PROVE  /\ r \in Uninstalling /\ r.pc = "lock"
         /\ \/ x = Idle /\ lock' = lock
            \/ /\ x.op = "uninstall" /\ x.pc = "remove" /\ x.inst = r.inst /\ row'[r.inst].state # "active"
               /\ ~lock[r.inst] /\ lock' = [lock EXCEPT ![r.inst] = TRUE]
<1>0. StoreTypeOK /\ ServiceTypeOK /\ mgr \in [Managers -> ManagerType]
  BY TypesTogether DEF HooksTypeOK, RestTyped
<1>1. r \in Uninstalling /\ r.pc = "lock"
  BY <1>0, ManagerKinds DEF UninstallLock
<1>2. PICK i, t, S : i = r.inst /\ t = row[r.inst].token /\ S = {r.inst}
  BY Zenon
<1>3. \/ Done(m, mgr) /\ lock' = lock
      \/ /\ DisableInstallation(i) /\ ~lock[i] /\ lock' = [lock EXCEPT ![i] = TRUE]
         /\ Goes(m, ManagersRevoked(S), [r EXCEPT !.pc = "remove", !.token = t])
  BY <1>2 DEF UninstallLock, Disables
<1>4. CASE Done(m, mgr) /\ lock' = lock
  BY <1>0, <1>1, <1>4, OwnGoes
<1>5. CASE /\ DisableInstallation(i) /\ ~lock[i] /\ lock' = [lock EXCEPT ![i] = TRUE]
           /\ Goes(m, ManagersRevoked(S), [r EXCEPT !.pc = "remove", !.token = t])
  <2>1. x = [r EXCEPT !.pc = "remove", !.token = t]
    BY <1>0, <1>5, OwnGoes
  <2>2. x.op = "uninstall" /\ x.pc = "remove" /\ x.inst = i /\ i \in Installs
    BY <1>1, <1>2, <2>1 DEF Uninstalling
  <2>3. row'[i].state # "active"
    BY <1>0, <1>5, <2>2, DisableMoves
  <2> QED
    BY <1>1, <1>2, <1>5, <2>2, <2>3
<1> QED
  BY <1>3, <1>4, <1>5

LEMMA UninstallStarts ==
  ASSUME ServiceTypeOK, NEW m \in Managers, UninstallStart(m), NEW x, x = mgr'[m]
  PROVE  x.op = "uninstall" /\ x.pc = "lock"
<1>1. mgr \in [Managers -> ManagerType]
  BY DEF ServiceTypeOK, ManagerType
<1>2. PICK i \in Installs : Goes(m, ManagersRevoked({i}), [op |-> "uninstall", inst |-> i, pc |-> "lock", token |-> 0, revoked |-> {}])
  BY Zenon DEF UninstallStart, Disables
<1> QED
  BY <1>1, <1>2, OwnGoes

\* The plan of an activation that starts draws generations past those of its rows.
LEMMA StartKnows ==
  ASSUME StoreTypeOK, ServiceTypeOK, GenerationsDrawn, NEW m \in Managers, ActivateStart(m), NEW x, x = mgr'[m]
  PROVE  x.op = "activate" /\ x.held = {} /\ x.pc = "drain" /\ Knows(x)'
<1>1. mgr \in [Managers -> ManagerType]
  BY DEF ServiceTypeOK, ManagerType
<1>2. PICK S \in SUBSET Installs :
       /\ Plannable(S)
       /\ row' = [i \in Installs |-> IF i \in S THEN [Fenced(row[i], fresh + i) EXCEPT !.version = 2] ELSE row[i]]
       /\ owner' = [owner EXCEPT !.generation = fresh + 1] /\ fresh' = fresh + NInstalls
       /\ Goes(m, ManagersRevoked(Installs),
            [op |-> "activate", ctl |-> Cur, sel |-> S, before |-> row, pc |-> "drain", owner |-> fresh + 1,
             owned |-> owner.generation, held |-> {}, written |-> {}, revoked |-> {}])
  BY Zenon DEF ActivateStart
<1>3. x = [op |-> "activate", ctl |-> Cur, sel |-> S, before |-> row, pc |-> "drain", owner |-> fresh + 1,
           owned |-> owner.generation, held |-> {}, written |-> {}, revoked |-> {}]
  BY <1>1, <1>2, OwnGoes
<1>4. /\ x.op = "activate" /\ x.sel = S /\ x.before = row /\ x.pc = "drain" /\ x.owner = fresh + 1
      /\ x.held = {} /\ x.written = {}
  BY <1>3
<1>5. \A i \in S : row[i] # NoRow /\ row'[i].generation = fresh + i
  BY Zenon, <1>2, ActivateStartMoves
<1>6. ASSUME NEW i \in S
      PROVE  x.before[i] # NoRow /\ row'[i].generation >= x.owner + i - 1 /\ x.owner + i - 1 > x.before[i].generation
  <2>1. i \in Nat \ {0} /\ fresh \in Nat /\ row[i].generation \in Nat /\ row[i].generation <= fresh
    BY HookAssumption DEF Installs, StoreTypeOK, GenerationsDrawn, Row, KnownRow, NoRow
  <2> QED
    BY <1>4, <1>5, <2>1
<1>7. ActivateKnows(x)'
  BY <1>4, <1>6 DEF ActivateKnows, Drawn
<1> QED
  BY <1>4, <1>7 DEF Knows

\* Where an activation goes: its leases one by one, then its files, the commit and its
\* files again; or it gives its leases back.
LEMMA LockGoes ==
  ASSUME HooksTypeOK, PlansFollowed, NEW m \in Managers, ActivateLock(m), NEW r, NEW x, r = mgr[m], x = mgr'[m]
  PROVE  /\ r.pc = "lock" /\ x.written = r.written
         /\ \/ x.pc = "disable" /\ x.held = r.held /\ lock' = lock
            \/ x.pc = "lock" /\ \E i \in Installs : /\ x.held = r.held \cup {i} /\ ~lock[i]
                                                    /\ lock' = [lock EXCEPT ![i] = TRUE]
<1>0. ServiceTypeOK /\ mgr \in [Managers -> ManagerType]
  BY TypesTogether DEF HooksTypeOK, RestTyped
<1>1. r \in Activating /\ r.op = "activate" /\ r.pc = "lock" /\ PlanFollowed(r)
  BY <1>0, ManagerKinds DEF ActivateLock, PlansFollowed
<1>2. PICK i : i = Foremost(Required(r) \ r.held)
  OBVIOUS
<1>3. \/ Goes(m, mgr, [r EXCEPT !.pc = "disable"]) /\ lock' = lock
      \/ /\ r.held # Required(r) /\ ~lock[i] /\ lock' = [lock EXCEPT ![i] = TRUE]
         /\ Goes(m, mgr, [r EXCEPT !.held = @ \cup {i}])
  BY <1>2 DEF ActivateLock
<1>4. CASE Goes(m, mgr, [r EXCEPT !.pc = "disable"]) /\ lock' = lock
  <2>1. x = [r EXCEPT !.pc = "disable"]
    BY <1>0, <1>4, OwnGoes
  <2> QED
    BY <1>1, <1>4, <2>1 DEF Activating
<1>5. CASE /\ r.held # Required(r) /\ ~lock[i] /\ lock' = [lock EXCEPT ![i] = TRUE]
           /\ Goes(m, mgr, [r EXCEPT !.held = @ \cup {i}])
  <2>1. x = [r EXCEPT !.held = @ \cup {i}]
    BY <1>0, <1>5, OwnGoes
  <2>2. x.pc = "lock" /\ x.held = r.held \cup {i} /\ x.written = r.written
    BY <1>1, <2>1 DEF Activating
  <2>3. Required(r) \in SUBSET Installs /\ Required(r) \ r.held # {}
    BY Zenon, <1>1, <1>5, PlanTyped DEF PlanFollowed
  <2>4. i \in Installs
    BY <1>2, <2>3, ForemostOne
  <2> QED
    BY Zenon, <1>1, <1>5, <2>2, <2>4
<1> QED
  BY <1>3, <1>4, <1>5

LEMMA DisableGoes ==
  ASSUME HooksTypeOK, PlansFollowed, NEW m \in Managers, ActivateDisable(m), NEW r, NEW x, r = mgr[m], x = mgr'[m]
  PROVE  /\ r.pc = "disable" /\ x.held = r.held
         /\ \/ x.pc = "commit" /\ x.written = r.written
            \/ x.pc = "disable" /\ \E i \in Installs : /\ x.written = r.written \cup {i}
                                                       /\ i \in r.sel => file'[i].state = "disabled"
<1>0. ServiceTypeOK /\ file \in [Installs -> FileType] /\ mgr \in [Managers -> ManagerType]
  BY TypesTogether DEF HooksTypeOK, RestTyped
<1>1. r \in Activating /\ r.op = "activate" /\ r.pc = "disable" /\ PlanFollowed(r)
  BY <1>0, ManagerKinds DEF ActivateDisable, PlansFollowed
<1>2. PICK i : i = Foremost(Required(r) \ r.written)
  OBVIOUS
<1>3. \/ Goes(m, mgr, [r EXCEPT !.pc = "commit"])
      \/ /\ r.written # Required(r)
         /\ file' = [file EXCEPT ![i] = IF i \in r.sel THEN DisabledFile
                            ELSE Descriptor(r, i, @.generation, @.token, r.owner)]
         /\ Goes(m, mgr, [r EXCEPT !.written = @ \cup {i}])
  BY <1>2 DEF ActivateDisable
<1>4. CASE Goes(m, mgr, [r EXCEPT !.pc = "commit"])
  <2>1. x = [r EXCEPT !.pc = "commit"]
    BY Zenon, <1>0, <1>4, OwnGoes
  <2> QED
    BY <1>1, <2>1 DEF Activating
<1>5. CASE /\ r.written # Required(r)
           /\ file' = [file EXCEPT ![i] = IF i \in r.sel THEN DisabledFile
                            ELSE Descriptor(r, i, @.generation, @.token, r.owner)]
           /\ Goes(m, mgr, [r EXCEPT !.written = @ \cup {i}])
  <2>1. x = [r EXCEPT !.written = @ \cup {i}]
    BY Zenon, <1>0, <1>5, OwnGoes
  <2>2. x.pc = "disable" /\ x.written = r.written \cup {i} /\ x.held = r.held
    BY <1>1, <2>1 DEF Activating
  <2>3. Required(r) \in SUBSET Installs /\ Required(r) \ r.written # {}
    BY Zenon, <1>1, <1>5, PlanTyped DEF PlanFollowed
  <2>4. i \in Installs
    BY <1>2, <2>3, ForemostOne
  <2>5. i \in r.sel => file'[i].state = "disabled"
    BY <1>0, <1>5, <2>4 DEF DisabledFile
  <2> QED
    BY <1>1, <2>2, <2>4, <2>5
<1> QED
  BY <1>3, <1>4, <1>5

LEMMA EnableGoes ==
  ASSUME HooksTypeOK, PlansFollowed, NEW m \in Managers, ActivateEnable(m), NEW r, NEW x, r = mgr[m], x = mgr'[m]
  PROVE  /\ r.pc = "enable" /\ x.held = r.held
         /\ \/ x.pc = "resume" /\ x.written = r.written /\ r.written = Reenabled(r)
            \/ x.pc = "enable" /\ \E i \in Installs :
                 /\ x.written = r.written \cup {i}
                 /\ file'[i] = Descriptor(r, i, Drawn(r, i), Drawn(r, i), r.owner)
<1>0. ServiceTypeOK /\ file \in [Installs -> FileType] /\ mgr \in [Managers -> ManagerType]
  BY TypesTogether DEF HooksTypeOK, RestTyped
<1>1. r \in Activating /\ r.op = "activate" /\ r.pc = "enable" /\ PlanFollowed(r)
  BY <1>0, ManagerKinds DEF ActivateEnable, PlansFollowed
<1>2. PICK i : i = Foremost(Reenabled(r) \ r.written)
  OBVIOUS
<1>3. \/ r.written = Reenabled(r) /\ Goes(m, mgr, [r EXCEPT !.pc = "resume"])
      \/ /\ r.written # Reenabled(r)
         /\ file' = [file EXCEPT ![i] = Descriptor(r, i, Drawn(r, i), Drawn(r, i), r.owner)]
         /\ Goes(m, mgr, [r EXCEPT !.written = @ \cup {i}])
  BY Zenon, <1>2 DEF ActivateEnable
<1>4. CASE r.written = Reenabled(r) /\ Goes(m, mgr, [r EXCEPT !.pc = "resume"])
  <2>1. x = [r EXCEPT !.pc = "resume"]
    BY Zenon, <1>0, <1>4, OwnGoes
  <2> QED
    BY <1>1, <1>4, <2>1 DEF Activating
<1>5. CASE /\ r.written # Reenabled(r)
           /\ file' = [file EXCEPT ![i] = Descriptor(r, i, Drawn(r, i), Drawn(r, i), r.owner)]
           /\ Goes(m, mgr, [r EXCEPT !.written = @ \cup {i}])
  <2>1. x = [r EXCEPT !.written = @ \cup {i}]
    BY Zenon, <1>0, <1>5, OwnGoes
  <2>2. x.pc = "enable" /\ x.written = r.written \cup {i} /\ x.held = r.held
    BY <1>1, <2>1 DEF Activating
  <2>3. Reenabled(r) \in SUBSET Installs /\ Reenabled(r) \ r.written # {}
    BY Zenon, <1>1, <1>5, PlanTyped DEF PlanFollowed
  <2>4. i \in Installs
    BY <1>2, <2>3, ForemostOne
  <2>5. file'[i] = Descriptor(r, i, Drawn(r, i), Drawn(r, i), r.owner)
    BY <1>0, <1>5, <2>4
  <2> QED
    BY <1>1, <2>2, <2>4, <2>5
<1> QED
  BY <1>3, <1>4, <1>5

LEMMA OtherwiseGoes ==
  ASSUME HooksTypeOK, NEW m \in Managers, NEW r, NEW x, r = mgr[m], x = mgr'[m]
  PROVE  /\ ActivateDrain(m) => r.pc = "drain" /\ x.pc = "lock" /\ x.held = r.held /\ x.written = r.written
         /\ ActivateCommit(m) => r.pc = "commit" /\ x.pc = "enable" /\ x.held = r.held /\ x.written = {}
         /\ ActivateFails(m) => x.pc = "fail" /\ x.held = {} /\ lock' = Unlocked(r.held)
<1>0. ServiceTypeOK /\ mgr \in [Managers -> ManagerType]
  BY TypesTogether DEF HooksTypeOK, RestTyped
<1>1. ASSUME ActivateDrain(m)
      PROVE  r.pc = "drain" /\ x.pc = "lock" /\ x.held = r.held /\ x.written = r.written
  <2>1. r \in Activating /\ r.pc = "drain" /\ Goes(m, mgr, [r EXCEPT !.pc = "lock"])
    BY <1>0, <1>1, ManagerKinds DEF ActivateDrain
  <2>2. x = [r EXCEPT !.pc = "lock"]
    BY <1>0, <2>1, OwnGoes
  <2> QED
    BY <2>1, <2>2 DEF Activating
<1>2. ASSUME ActivateCommit(m)
      PROVE  r.pc = "commit" /\ x.pc = "enable" /\ x.held = r.held /\ x.written = {}
  <2>1. r \in Activating /\ r.pc = "commit" /\ Goes(m, mgr, [r EXCEPT !.pc = "enable", !.written = {}])
    BY <1>0, <1>2, ManagerKinds DEF ActivateCommit
  <2>2. x = [r EXCEPT !.pc = "enable", !.written = {}]
    BY Zenon, <1>0, <2>1, OwnGoes
  <2> QED
    BY <2>1, <2>2 DEF Activating
<1>3. ASSUME ActivateFails(m)
      PROVE  x.pc = "fail" /\ x.held = {} /\ lock' = Unlocked(r.held)
  <2>1. r \in Activating /\ Goes(m, mgr, [r EXCEPT !.pc = "fail", !.held = {}]) /\ lock' = Unlocked(r.held)
    BY <1>0, <1>3, ManagerKinds DEF ActivateFails
  <2>2. x = [r EXCEPT !.pc = "fail", !.held = {}]
    BY <1>0, <2>1, OwnGoes
  <2> QED
    BY <2>1, <2>2 DEF Activating
<1> QED
  BY <1>1, <1>2, <1>3

LEMMA ActivationKnows ==
  ASSUME HooksTypeOK, GenerationsDrawn, CredentialsSound, PlansFollowed, ManagersKnow, NEW m \in Managers,
         \/ ActivateDrain(m) \/ ActivateLock(m) \/ ActivateDisable(m) \/ ActivateCommit(m) \/ ActivateEnable(m)
         \/ ActivateFails(m),
         NEW x, x = mgr'[m]
  PROVE  Knows(x)'
<1>0. ServiceTypeOK /\ StoreTypeOK /\ ManagersSound
  BY DEF HooksTypeOK, CredentialsSound
<1>1. PICK r : r = mgr[m]
  OBVIOUS
<1>2. r \in Activating /\ KeepsPlan(r, x)
  BY <1>1, ActivationGoesOn
<1>3. r.op = "activate" /\ x.op = "activate" /\ x.sel = r.sel /\ x.before = r.before /\ x.owner = r.owner
  BY <1>2 DEF KeepsPlan, Activating
<1>4. ActivateKnows(r) /\ PlanFollowed(r)
  BY <1>1, <1>3 DEF ManagersKnow, Knows, PlansFollowed
<1>5. r.sel \in SUBSET Installs /\ r.sel \subseteq Required(r)
  BY <1>2, PlanTyped DEF Required
<1>6. /\ \A i \in Installs : row'[i].generation = row[i].generation /\ row'[i].token = row[i].token
      /\ \/ row' = row
         \/ ActivateCommit(m) /\ \A i \in r.sel : row'[i].state = r.before[i].state
                                 /\ row[i].generation = Drawn(r, i) /\ row[i].token = Drawn(r, i)
  <2>1. CASE ActivateCommit(m)
    BY <1>0, <1>1, <2>1, ActivateCommitMoves
  <2>2. CASE ~ActivateCommit(m)
    BY <2>2, ManagerRests DEF ManagerWaits, store
  <2> QED
    BY <2>1, <2>2
<1>7. \A i \in r.sel : /\ x.before[i] # NoRow /\ row'[i].generation >= Drawn(x, i)
                       /\ Drawn(x, i) > x.before[i].generation
  BY <1>3, <1>4, <1>5, <1>6 DEF ActivateKnows, Drawn
<1>8. ASSUME x.pc \in {"disable", "commit"}, NEW i \in x.written \cap x.sel PROVE file'[i].state = "disabled"
  <2>1. CASE ActivateLock(m)
    BY <1>1, <1>4, <1>8, <2>1, LockGoes DEF PlanFollowed
  <2>2. CASE ActivateDisable(m)
    <3>1. /\ r.pc = "disable"
          /\ \/ x.written = r.written
             \/ \E j \in Installs : x.written = r.written \cup {j} /\ (j \in r.sel => file'[j].state = "disabled")
      BY <1>1, <2>2, DisableGoes
    <3>2. CASE i \in r.written
      <4>1. file[i].state = "disabled" /\ i \in Installs
        BY <1>3, <1>4, <1>5, <1>8, <3>1, <3>2 DEF ActivateKnows
      <4>2. FileKept(i) \/ file'[i] = DisabledFile
        BY Zenon, <2>2, <4>1, WritesKept DEF Writes, InstallDisabled, InstallWrite, UninstallRemove, ActivateDisable, ActivateEnable
      <4> QED
        BY <4>1, <4>2 DEF FileKept, DisabledFile
    <3>3. CASE i \notin r.written
      BY <1>3, <1>8, <3>1, <3>3
    <3> QED
      BY <3>2, <3>3
  <2>3. x.pc \notin {"disable", "commit"} \/ ActivateLock(m) \/ ActivateDisable(m)
    BY <1>1, OtherwiseGoes, EnableGoes
  <2> QED
    BY <1>8, <2>1, <2>2, <2>3
<1>9. ASSUME x.pc \in {"enable", "resume"}, NEW i \in x.sel, row'[i].state = "active"
      PROVE  x.before[i].state = "active" /\ row'[i].generation = Drawn(x, i) /\ row'[i].token = Drawn(x, i)
  <2>1. CASE ActivateCommit(m)
    <3>1. row'[i].state = r.before[i].state /\ row[i].generation = Drawn(r, i) /\ row[i].token = Drawn(r, i)
      BY <1>0, <1>1, <1>3, <1>9, <2>1, ActivateCommitMoves
    <3> QED
      BY <1>3, <1>5, <1>6, <1>9, <3>1 DEF Drawn
  <2>2. CASE ActivateEnable(m)
    <3>1. r.pc = "enable" /\ row' = row
      BY <1>1, <2>2, ManagerRests, EnableGoes DEF ManagerWaits, store
    <3> QED
      BY <1>3, <1>4, <1>9, <3>1 DEF ActivateKnows, Drawn
  <2>3. x.pc \notin {"enable", "resume"} \/ ActivateCommit(m) \/ ActivateEnable(m)
    BY <1>1, OtherwiseGoes, LockGoes, DisableGoes
  <2> QED
    BY <1>9, <2>1, <2>2, <2>3
<1>10. ActivateKnows(x)'
  BY <1>3, <1>7, <1>8, <1>9 DEF ActivateKnows, Drawn
<1> QED
  BY <1>3, <1>10 DEF Knows

LEMMA OwnKnows ==
  ASSUME HooksTypeOK, GenerationsDrawn, CredentialsSound, PlansFollowed, ManagersKnow, NEW m \in Managers,
         ManagerActs(m), NEW x, x = mgr'[m]
  PROVE  Knows(x)'
<1>0. StoreTypeOK /\ ServiceTypeOK
  BY DEF HooksTypeOK
<1>1. CASE x = Idle
  BY <1>1 DEF Knows, Idle
<1>2. CASE InstallStart(m) \/ InstallCheck(m)
  <2>1. x = Idle \/ (x.op = "install" /\ x.pc \in {"check", "lock"})
    BY <1>2, OwnKinds DEF Begun
  <2> QED
    BY <1>1, <2>1 DEF Knows, InstallKnows
<1>3. CASE InstallLock(m)
  <2>1. PICK r : r = mgr[m]
    OBVIOUS
  <2>2. x = Idle \/ (x.op = "install" /\ x.pc = "prepare" /\ x.inst = r.inst /\ x.before = row[r.inst])
    BY <1>3, <2>1, InstallLocks
  <2>3. row' = row
    BY <1>3, ManagerRests DEF ManagerWaits, store
  <2> QED
    BY <1>1, <2>2, <2>3 DEF Knows, InstallKnows
<1>4. CASE UninstallStart(m)
  BY <1>0, <1>4, UninstallStarts DEF Knows
<1>5. CASE UninstallLock(m)
  <2>1. PICK r : r = mgr[m]
    OBVIOUS
  <2>2. x = Idle \/ (x.op = "uninstall" /\ x.pc = "remove" /\ x.inst = r.inst /\ row'[r.inst].state # "active")
    BY <1>5, <2>1, UninstallLocks
  <2> QED
    BY <1>1, <2>2 DEF Knows
<1>6. CASE ActivateBusy(m)
  BY <1>1, <1>6 DEF ActivateBusy, Free
<1>7. CASE \/ InstallSettled(m) \/ InstallFails(m) \/ InstallCommit(m) \/ UninstallRemove(m) \/ Abandoned(m)
           \/ ActivateResume(m) \/ ActivateFail(m)
  BY <1>1, <1>7, OwnKinds
<1>8. InstallPrepare(m) => Knows(x)'
  BY PrepareKnows
<1>9. InstallWrite(m) => Knows(x)'
  BY WriteKnows
<1>10. ActivateStart(m) => Knows(x)'
  BY <1>0, StartKnows
<1>11. \/ ActivateDrain(m) \/ ActivateLock(m) \/ ActivateDisable(m) \/ ActivateCommit(m) \/ ActivateEnable(m)
       \/ ActivateFails(m)
       => Knows(x)'
  BY ActivationKnows
<1>12. CASE InstallInactive(m) \/ InstallDisabled(m)
  <2>1. PICK r : r = mgr[m]
    OBVIOUS
  <2>2. /\ x.op = "install" /\ x.inst = r.inst /\ x.pc \in {"inactive", "settle"}
        /\ r.op = "install" /\ r.inst \in Installs
    BY <1>12, <2>1, InactiveGoes
  <2>3. row'[r.inst].state # "active"
    <3>1. CASE InstallInactive(m)
      BY <1>0, <2>1, <2>2, <3>1, InactiveGoes, DisableMoves
    <3>2. CASE InstallDisabled(m)
      BY <2>1, <2>2, <3>2, InactiveGoes DEF ManagersKnow, Knows, InstallKnows
    <3> QED
      BY <1>12, <3>1, <3>2
  <2> QED
    BY <2>2, <2>3 DEF Knows, InstallKnows
<1> QED
  BY <1>2, <1>3, <1>4, <1>5, <1>6, <1>7, <1>8, <1>9, <1>10, <1>11, <1>12 DEF ManagerActs, ManagerWaits, ManagerDisables, ManagerCommits

\* Callbacks, the agent and the owner leave rows as they are, and leases and what is
\* known under them.
QuietActs ==
  \/ \E c \in Callbacks : CallbackActs(c)
  \/ \E k \in scenario.sessions : Write(k) \/ DeleteCaptured(k)
  \/ OwnerActs

LEMMA QuietKeeps ==
  ASSUME HooksTypeOK, GenerationsDrawn, QuietActs
  PROVE  /\ row' = row /\ lock' = lock
         /\ \A i \in Installs : Untouched(i)
         /\ \A n \in Managers : mgr'[n] = Idle \/ Alike(mgr[n], mgr'[n])
         /\ ~Gone => \A n \in Managers : Alike(mgr[n], mgr'[n])
<1>0. ServiceTypeOK
  BY DEF HooksTypeOK
<1>1. CASE ~OwnerActs
  <2>1. UNCHANGED <<row, file, lock, mgr>>
    BY <1>1, CallbackRests DEF QuietActs, Write, DeleteCaptured, DeleteRun, store
  <2> QED
    BY <2>1 DEF Untouched, RowKept, FileKept, Alike
<1>2. CASE OwnerActs
  <2>1. row' = row /\ lock' = lock
    BY <1>2 DEF OwnerActs, ClearStart, ClearFinish, ClearFails, Shutdown, Gone, Boot, ClearAll, store
  <2>2. PICK S : OwnerCarries(S)
    BY <1>2, OwnerStepCarries
  <2>3. \A i \in Installs : Untouched(i)
    BY <1>0, <2>1, <2>2, FilesRevokedKept DEF OwnerCarries, Untouched, RowKept
  <2>4. \A n \in Managers : mgr'[n] = Idle \/ Alike(mgr[n], mgr'[n])
    BY <1>0, <2>2, OthersAlike DEF OwnerCarries
  <2>5. ASSUME ~Gone, NEW n \in Managers PROVE Alike(mgr[n], mgr'[n])
    <3>1. mgr[n] = Idle => Alike(mgr[n], Idle)
      BY DEF Alike
    <3>2. mgr' = mgr \/ \E T : mgr' = ManagersRevoked(T)
      BY <1>2, <2>5 DEF OwnerActs, ClearStart, ClearFinish, ClearFails, Shutdown, Boot
    <3>3. mgr[n] # Idle => mgr'[n] # Idle
      <4>1. CASE mgr' = mgr
        BY <4>1
      <4>2. ASSUME NEW T, mgr' = ManagersRevoked(T), mgr[n] # Idle, mgr'[n] = Idle PROVE FALSE
        <5>1. mgr'[n] = [mgr[n] EXCEPT !.revoked = @ \cup T]
          BY <4>2 DEF ManagersRevoked
        <5>2. mgr[n] \in Installing \cup Uninstalling \cup Activating
          BY <1>0, <4>2 DEF ServiceTypeOK
        <5>3. Alike(mgr[n], Idle)
          BY <4>2, <5>1, <5>2, RevokedAlike
        <5>4. mgr[n].op = "idle"
          BY <5>3 DEF Alike, Idle
        <5> QED
          BY <5>2, <5>4 DEF Installing, Uninstalling, Activating
      <4> QED
        BY <3>2, <4>1, <4>2
    <3> QED
      BY <2>4, <3>1, <3>3
  <2> QED
    BY <2>1, <2>3, <2>4, <2>5
<1> QED
  BY <1>1, <1>2

LEMMA OtherRequests ==
  ASSUME HooksTypeOK, GenerationsDrawn, CredentialsSound, NEW m \in Managers, ManagerActs(m), NEW n \in Managers \ {m}
  PROVE  Alike(mgr[n], mgr'[n])
<1>0. ServiceTypeOK
  BY DEF HooksTypeOK
<1>1. PICK S : ManagerCarries(m, S)
  BY ManagerStepCarries
<1>2. mgr'[n] = mgr[n] \/ mgr'[n] = ManagersRevoked(S)[n]
  BY <1>1 DEF ManagerCarries
<1>3. CASE mgr[n] = Idle
  BY <1>2, <1>3 DEF ManagersRevoked, Alike
<1>4. CASE mgr[n] # Idle
  <2>1. mgr[n] \in Installing \cup Uninstalling \cup Activating
    BY <1>0, <1>4 DEF ServiceTypeOK
  <2>2. mgr'[n] = mgr[n] \/ mgr'[n] = [mgr[n] EXCEPT !.revoked = @ \cup S]
    BY <1>2, <1>4 DEF ManagersRevoked
  <2>3. Alike(mgr[n], mgr[n])
    BY DEF Alike
  <2> QED
    BY <2>1, <2>2, <2>3, RevokedAlike
<1> QED
  BY <1>3, <1>4

LEMMA NextKnows ==
  ASSUME HooksTypeOK, GenerationsDrawn, CredentialsSound, PlansFollowed, LocksHeld, ManagersKnow, Next, StoreMoves
  PROVE  ManagersKnow'
<1>0. StoreTypeOK /\ ServiceTypeOK /\ mgr \in [Managers -> ManagerType]
  BY TypesTogether DEF HooksTypeOK, RestTyped
<1>1. ASSUME NEW n \in Managers, NEW x, x = mgr'[n], x = Idle \/ Alike(mgr[n], x),
             \A i \in Installs : Leased(mgr[n], i) => Untouched(i)
      PROVE  Knows(x)'
  <2>1. CASE x = Idle
    BY <2>1 DEF Knows, Idle
  <2>2. CASE Alike(mgr[n], x)
    <3>1. PICK r \in ManagerType : r = mgr[n]
      BY <1>0
    <3>2. Knows(r) /\ (r.op = "activate" => PlanFollowed(r))
      BY <3>1 DEF ManagersKnow, PlansFollowed
    <3> QED
      BY <1>0, <1>1, <2>2, <3>1, <3>2, KnowsStays
  <2> QED
    BY <1>1, <2>1, <2>2
<1>2. ASSUME NEW n \in Managers, NEW x, x = mgr'[n] PROVE Knows(x)'
  <2>1. CASE QuietActs
    BY <1>1, <1>2, <2>1, QuietKeeps
  <2>2. ASSUME NEW m \in Managers, ManagerActs(m) PROVE Knows(x)'
    <3>1. CASE n = m
      BY <1>2, <2>2, <3>1, OwnKnows
    <3>2. CASE n # m
      <4>1. Alike(mgr[n], x)
        BY <1>2, <2>2, <3>2, OtherRequests
      <4>2. \A i \in Installs : Leased(mgr[n], i) => Untouched(i)
        BY <2>2, <3>2, LeaseGuards DEF LocksHeld
      <4> QED
        BY <1>1, <1>2, <4>1, <4>2
    <3> QED
      BY <3>1, <3>2
  <2> QED
    BY <2>1, <2>2, StepKinds DEF QuietActs
<1>3. ASSUME NEW n \in Managers PROVE Knows(mgr[n])'
  <2>1. PICK x : x = mgr'[n]
    OBVIOUS
  <2>2. Knows(x)'
    BY <1>2, <2>1
  <2> QED
    BY <2>1, <2>2 DEF Knows, InstallKnows, ActivateKnows, Serving, Drawn
<1> QED
  BY <1>3 DEF ManagersKnow

LEMMA LockSteps ==
  ASSUME HooksTypeOK, GenerationsDrawn, CredentialsSound, PlansFollowed, LocksHeld, ManagersKnow,
         NEW m \in Managers, ManagerActs(m), NEW i \in Installs
  PROVE  /\ Leased(mgr'[m], i) => lock'[i] /\ (Leased(mgr[m], i) \/ ~lock[i])
         /\ lock[i] /\ ~lock'[i] => Leased(mgr[m], i)
<1>0. StoreTypeOK /\ ServiceTypeOK /\ lock \in [Installs -> BOOLEAN] /\ mgr \in [Managers -> ManagerType]
  BY TypesTogether DEF HooksTypeOK, RestTyped
<1>1. PICK r, x : r = mgr[m] /\ x = mgr'[m]
  OBVIOUS
<1>2. Leased(r, i) => lock[i]
  BY <1>1 DEF LocksHeld
<1>3. SUFFICES /\ Leased(x, i) => lock'[i] /\ (Leased(r, i) \/ ~lock[i])
               /\ lock[i] /\ ~lock'[i] => Leased(r, i)
  BY <1>1
<1>4. ASSUME lock' = lock, Leased(x, i) => Leased(r, i)
      PROVE  /\ Leased(x, i) => lock'[i] /\ (Leased(r, i) \/ ~lock[i])
             /\ lock[i] /\ ~lock'[i] => Leased(r, i)
  BY <1>2, <1>4
<1>5. ASSUME NEW S, lock' = Unlocked(S), ~Leased(x, i), i \in S => Leased(r, i)
      PROVE  /\ Leased(x, i) => lock'[i] /\ (Leased(r, i) \/ ~lock[i])
             /\ lock[i] /\ ~lock'[i] => Leased(r, i)
  BY Zenon, <1>5 DEF Unlocked
<1>6. ASSUME NEW j \in Installs, ~lock[j], lock' = [lock EXCEPT ![j] = TRUE], Leased(x, i) => Leased(r, i) \/ i = j
      PROVE  /\ Leased(x, i) => lock'[i] /\ (Leased(r, i) \/ ~lock[i])
             /\ lock[i] /\ ~lock'[i] => Leased(r, i)
  BY <1>0, <1>2, <1>6
<1>7. CASE InstallStart(m) \/ InstallCheck(m)
  <2>1. lock' = lock
    BY <1>7 DEF InstallStart, InstallCheck
  <2>2. ~Leased(x, i)
    BY <1>1, <1>7, OwnKinds, IdleHolds DEF Begun, Leased
  <2> QED
    BY <1>4, <2>1, <2>2
<1>8. CASE InstallLock(m)
  <2>1. CASE x = Idle /\ lock' = lock
    BY <1>4, <2>1, IdleHolds
  <2>2. CASE /\ x.op = "install" /\ x.inst = r.inst /\ r \in Installing
             /\ ~lock[r.inst] /\ lock' = [lock EXCEPT ![r.inst] = TRUE]
    BY Zenon, <1>6, <2>2 DEF Leased, Installing
  <2> QED
    BY <1>1, <1>8, <2>1, <2>2, InstallLocks
<1>9. CASE UninstallLock(m)
  <2>1. CASE x = Idle /\ lock' = lock
    BY <1>4, <2>1, IdleHolds
  <2>2. CASE /\ x.op = "uninstall" /\ x.inst = r.inst /\ r \in Uninstalling
             /\ ~lock[r.inst] /\ lock' = [lock EXCEPT ![r.inst] = TRUE]
    BY Zenon, <1>6, <2>2 DEF Leased, Uninstalling
  <2> QED
    BY <1>1, <1>9, <2>1, <2>2, UninstallLocks
<1>10. CASE InstallPrepare(m) \/ InstallWrite(m)
  <2>1. lock' = lock /\ r.op = "install" /\ r.pc \in {"prepare", "write"}
    BY <1>1, <1>10 DEF InstallPrepare, InstallWrite
  <2>2. x.op = "install" /\ x.inst = r.inst
    BY <1>1, <1>10, PrepareKnows, WriteKnows
  <2> QED
    BY <1>4, <2>1, <2>2 DEF Leased
<1>11. CASE InstallSettled(m) \/ InstallFails(m) \/ InstallCommit(m) \/ UninstallRemove(m)
  <2>1. PICK S : S = {r.inst}
    BY Zenon
  <2>2. lock' = Unlocked(S)
    BY <1>1, <1>11, <2>1 DEF InstallSettled, InstallFails, InstallCommit, UninstallRemove
  <2>3. i \in S => Leased(r, i)
    BY <1>1, <1>11, <2>1 DEF InstallSettled, InstallFails, InstallCommit, UninstallRemove, Leased
  <2>4. x = Idle
    BY <1>1, <1>11, OwnKinds
  <2> QED
    BY <1>5, <2>2, <2>3, <2>4, IdleHolds
<1>12. CASE UninstallStart(m)
  <2>1. lock' = lock
    BY <1>12 DEF UninstallStart
  <2>2. x.op = "uninstall" /\ x.pc = "lock"
    BY <1>0, <1>1, <1>12, UninstallStarts
  <2> QED
    BY <1>4, <2>1, <2>2 DEF Leased
<1>13. CASE Abandoned(m)
  <2>1. x = Idle
    BY <1>1, <1>13, OwnKinds
  <2>2. CASE r.pc # "remove"
    BY <1>1, <1>4, <1>13, <2>1, <2>2, IdleHolds DEF Abandoned
  <2>3. CASE r.pc = "remove"
    <3>1. r.op = "uninstall"
      BY <1>0, <1>1, <1>13, <2>3, ManagerKinds DEF Abandoned, Installing
    <3>2. PICK S : S = {r.inst}
      BY Zenon
    <3>3. lock' = Unlocked(S) /\ (i \in S => Leased(r, i))
      BY <1>1, <1>13, <2>3, <3>1, <3>2 DEF Abandoned, Leased
    <3> QED
      BY <1>5, <2>1, <3>3, IdleHolds
  <2> QED
    BY <2>2, <2>3
<1>14. CASE ActivateStart(m)
  <2>1. lock' = lock
    BY <1>14 DEF ActivateStart
  <2>2. x.op = "activate" /\ x.held = {}
    BY <1>0, <1>1, <1>14, StartKnows
  <2> QED
    BY <1>4, <2>1, <2>2 DEF Leased
<1>15. CASE ActivateBusy(m) \/ ActivateFail(m)
  <2>1. lock' = lock /\ x = Idle
    BY <1>1, <1>15, OwnKinds DEF ActivateBusy, ActivateFail, Free
  <2> QED
    BY <1>4, <2>1, IdleHolds
<1>16. CASE ActivateDrain(m) \/ ActivateDisable(m) \/ ActivateCommit(m) \/ ActivateEnable(m)
  <2>1. lock' = lock
    BY Zenon, <1>16 DEF ActivateDrain, ActivateDisable, ActivateCommit, ActivateEnable
  <2>2. x.op = "activate" /\ r.op = "activate"
    BY <1>1, <1>16, ActivationGoesOn DEF KeepsPlan, Activating
  <2>3. x.held = r.held
    BY <1>1, <1>16, OtherwiseGoes, DisableGoes, EnableGoes
  <2> QED
    BY <1>4, <2>1, <2>2, <2>3 DEF Leased
<1>17. CASE ActivateLock(m)
  <2>1. x.op = "activate" /\ r.op = "activate"
    BY <1>1, <1>17, ActivationGoesOn DEF KeepsPlan, Activating
  <2>2. CASE x.held = r.held /\ lock' = lock
    BY <1>4, <2>1, <2>2 DEF Leased
  <2>3. ASSUME NEW j \in Installs, x.held = r.held \cup {j}, ~lock[j], lock' = [lock EXCEPT ![j] = TRUE]
        PROVE  /\ Leased(x, i) => lock'[i] /\ (Leased(r, i) \/ ~lock[i])
               /\ lock[i] /\ ~lock'[i] => Leased(r, i)
    BY Zenon, <1>6, <2>1, <2>3 DEF Leased
  <2> QED
    BY <1>1, <1>17, <2>2, <2>3, LockGoes
<1>18. CASE ActivateResume(m) \/ ActivateFails(m)
  <2>1. r.op = "activate"
    BY <1>1, <1>18 DEF ActivateResume, ActivateFails
  <2>2. PICK S : S = r.held
    OBVIOUS
  <2>3. lock' = Unlocked(S) /\ (i \in S => Leased(r, i))
    BY <1>1, <1>18, <2>1, <2>2 DEF ActivateResume, ActivateFails, Leased
  <2>4. ~Leased(x, i)
    <3>1. CASE ActivateResume(m)
      BY <1>1, <3>1, OwnKinds, IdleHolds
    <3>2. CASE ActivateFails(m)
      <4>1. x.op = "activate" /\ x.held = {}
        BY <1>1, <3>2, ActivationGoesOn, OtherwiseGoes DEF KeepsPlan
      <4> QED
        BY <4>1 DEF Leased
    <3> QED
      BY <1>18, <3>1, <3>2
  <2> QED
    BY <1>5, <2>3, <2>4
<1>19. CASE InstallInactive(m) \/ InstallDisabled(m)
  <2>1. /\ lock' = lock /\ r.op = "install" /\ r.pc \in {"prepare", "inactive"}
        /\ x.op = "install" /\ x.inst = r.inst
    BY <1>1, <1>19, InactiveGoes
  <2> QED
    BY <1>4, <2>1 DEF Leased
<1> QED
  BY <1>7, <1>8, <1>9, <1>10, <1>11, <1>12, <1>13, <1>14, <1>15, <1>16, <1>17, <1>18, <1>19
     DEF ManagerActs, ManagerWaits, ManagerDisables, ManagerCommits

LEMMA NextLocks ==
  ASSUME HooksTypeOK, GenerationsDrawn, CredentialsSound, PlansFollowed, LocksHeld, ManagersKnow, Next
  PROVE  LocksHeld'
<1>1. CASE QuietActs
  <2>1. lock' = lock
    BY <1>1, QuietKeeps
  <2>2. ASSUME NEW n \in Managers, NEW i \in Installs, Leased(mgr'[n], i) PROVE Leased(mgr[n], i)
    BY <1>1, <2>2, QuietKeeps, AlikeHolds, IdleHolds
  <2> QED
    BY <2>1, <2>2 DEF LocksHeld, Leased
<1>2. ASSUME NEW m \in Managers, ManagerActs(m) PROVE LocksHeld'
  <2>1. ASSUME NEW n \in Managers \ {m}, NEW i \in Installs PROVE Leased(mgr'[n], i) <=> Leased(mgr[n], i)
    BY <1>2, <2>1, OtherRequests, AlikeHolds
  <2>2. \A i \in Installs : /\ Leased(mgr'[m], i) => lock'[i] /\ (Leased(mgr[m], i) \/ ~lock[i])
                            /\ lock[i] /\ ~lock'[i] => Leased(mgr[m], i)
    BY <1>2, LockSteps
  <2>3. ASSUME NEW n \in Managers, NEW i \in Installs, Leased(mgr'[n], i) PROVE lock'[i]
    BY <2>1, <2>2, <2>3 DEF LocksHeld
  <2>4. ASSUME NEW n \in Managers, NEW k \in Managers, NEW i \in Installs, Leased(mgr'[n], i), Leased(mgr'[k], i)
        PROVE  n = k
    BY <2>1, <2>2, <2>4 DEF LocksHeld
  <2> QED
    BY <2>3, <2>4 DEF LocksHeld, Leased
<1> QED
  BY <1>1, <1>2, StepKinds DEF QuietActs

-----------------------------------------------------------------------------
(* The end of a daemon, and the files of active rows. *)

LEMMA StoppedStays ==
  ASSUME HooksTypeOK, Next, ~Gone
  PROVE  scenario'.stopped = scenario.stopped
<1>0. ScenarioTypeOK
  BY DEF HooksTypeOK
<1>1. ASSUME scenario' = scenario \/ \E what \in Countable : Spend(what)
      PROVE  scenario'.stopped = scenario.stopped
  BY <1>0, <1>1, SpendKeeps
<1>2. ASSUME NEW c \in Callbacks, CallbackActs(c) PROVE scenario' = scenario \/ \E what \in Countable : Spend(what)
  BY Zenon, <1>2 DEF CallbackActs, Begin, Handle, Refuse, GiveUp, Transport, Serves, Reread, Admission, Acquire, Publication, Countable
<1>3. ASSUME NEW k \in scenario.sessions, Write(k) \/ DeleteCaptured(k)
      PROVE  scenario' = scenario \/ \E what \in Countable : Spend(what)
  BY <1>3 DEF Write, DeleteCaptured, Countable
<1>4. ASSUME OwnerActs PROVE scenario' = scenario \/ \E what \in Countable : Spend(what)
  BY <1>4 DEF OwnerActs, ClearStart, ClearFinish, ClearFails, Shutdown, Boot, Countable
<1>5. ASSUME NEW m \in Managers, ManagerActs(m) PROVE scenario' = scenario \/ \E what \in Countable : Spend(what)
  <2>1. CASE ManagerWaits(m)
    BY <2>1 DEF ManagerWaits, InstallCheck, InstallLock, InstallDisabled, InstallSettled, InstallWrite,
           UninstallRemove, Abandoned, ActivateBusy,
       ActivateDrain, ActivateLock, ActivateDisable, ActivateEnable, ActivateResume, ActivateFails, Countable
  <2>2. CASE ManagerDisables(m)
    BY <2>2 DEF ManagerDisables, InstallInactive, InstallFails, UninstallStart, UninstallLock, Disables, Countable
  <2>3. CASE ManagerCommits(m)
    BY Zenon, <2>3 DEF ManagerCommits, InstallStart, InstallPrepare, InstallCommit, ActivateStart, ActivateCommit, ActivateFail, Countable
  <2> QED
    BY <1>5, <2>1, <2>2, <2>3 DEF ManagerActs
<1> QED
  BY <1>1, <1>2, <1>3, <1>4, <1>5, StepKinds

LEMMA ManagerControllers ==
  ASSUME HooksTypeOK, GenerationsDrawn, CredentialsSound, PlansFollowed, NEW m \in Managers, ManagerActs(m)
  PROVE  Len(ctl') = Len(ctl) /\ ctl' \in Seq(Controller)
<1>1. CASE \/ InstallStart(m) \/ InstallCheck(m) \/ InstallLock(m) \/ InstallPrepare(m) \/ InstallInactive(m)
           \/ InstallDisabled(m) \/ InstallSettled(m) \/ InstallWrite(m) \/ InstallCommit(m) \/ InstallFails(m)
  BY <1>1, InstallsTyped DEF CallbacksTyped
<1>2. CASE UninstallStart(m) \/ UninstallLock(m) \/ UninstallRemove(m) \/ Abandoned(m)
  BY <1>2, UninstallsTyped DEF CallbacksTyped
<1>3. CASE \/ ActivateStart(m) \/ ActivateBusy(m) \/ ActivateDrain(m) \/ ActivateLock(m) \/ ActivateDisable(m)
           \/ ActivateCommit(m) \/ ActivateEnable(m) \/ ActivateResume(m) \/ ActivateFails(m) \/ ActivateFail(m)
  BY <1>3, ActivatesTyped DEF CallbacksTyped
<1> QED
  BY <1>1, <1>2, <1>3 DEF ManagerActs, ManagerWaits, ManagerDisables, ManagerCommits

LEMMA NextEnded ==
  ASSUME HooksTypeOK, GenerationsDrawn, SessionsInOrder, RepliesInOrder, CredentialsSound, PlansFollowed, Ended, Next
  PROVE  Ended'
<1>0. ctl \in Seq(Controller) /\ SessionsTyped'
  BY NextSessions DEF HooksTypeOK, ServiceTypeOK, SessionsMove
<1>1. CASE Gone
  BY <1>1, GoneKeeps DEF HooksTypeOK, Gone, Ended
<1>2. CASE ~Gone
  <2>1. scenario'.stopped = scenario.stopped
    BY <1>2, StoppedStays
  <2>2. ASSUME Len(ctl') = Len(ctl), ctl' = <<>> PROVE ctl = <<>>
    BY <1>0, <2>2, EmptySeq
  <2>3. CASE Len(ctl') = Len(ctl)
    BY <2>1, <2>2, <2>3 DEF Ended
  <2>4. ASSUME NEW c \in Callbacks, CallbackActs(c) PROVE Len(ctl') = Len(ctl)
    BY <1>0, <2>4, CallbackActsTyped
  <2>5. ASSUME NEW k \in scenario.sessions, Write(k) \/ DeleteCaptured(k) PROVE Len(ctl') = Len(ctl)
    BY <2>5, WritesTyped
  <2>6. ASSUME NEW m \in Managers, ManagerActs(m) PROVE Len(ctl') = Len(ctl)
    BY <2>6, ManagerControllers
  <2>7. CASE ClearStart \/ Shutdown
    BY <1>0, <2>3, <2>7, ControllersTyped DEF ClearStart, Shutdown
  <2>8. CASE ClearFails
    BY <2>3, <2>8 DEF ClearFails
  <2>9. CASE ClearFinish
    <3>1. ctl' = Append(ctl, NewController)
      BY <2>9 DEF ClearFinish
    <3>2. ctl' # <<>>
      BY <1>0, <3>1, NewControllerTyped, AppendProperties
    <3> QED
      BY <3>2 DEF Ended
  <2>10. CASE Boot
    BY <2>10 DEF Boot, Ended
  <2> QED
    BY <1>2, <2>3, <2>4, <2>5, <2>6, <2>7, <2>8, <2>9, <2>10, StepKinds DEF OwnerActs
<1> QED
  BY <1>1, <1>2

\* Why the disabled file of an active row may stay disabled, when an activation is not
\* the reason.
LEMMA ReasonStays ==
  ASSUME HooksTypeOK, Ended, Next, scenario.stopped \/ ~owner.active
  PROVE  scenario'.stopped \/ ~owner'.active
<1>0. HooksTypeOK /\ owner \in [active : BOOLEAN, generation : Nat]
  BY DEF HooksTypeOK, StoreTypeOK
<1>1. CASE Gone
  BY <1>1, GoneKeeps DEF HooksTypeOK, Gone
<1>2. CASE ~Gone
  <2>1. scenario'.stopped = scenario.stopped
    BY <1>2, StoppedStays
  <2>2. ASSUME ~owner.active, owner'.active PROVE scenario.stopped
    <3>1. \A c \in Callbacks : ~CallbackActs(c)
      BY <2>2, CallbackRests
    <3>2. \A k \in scenario.sessions : ~(Write(k) \/ DeleteCaptured(k))
      BY <2>2 DEF Write, DeleteCaptured, DeleteRun, store
    <3>3. \A m \in Managers : ~ManagerWaits(m)
      BY <2>2, ManagerRests DEF store
    <3>4. \A m \in Managers : ~ManagerDisables(m)
      BY Zenon, <2>2 DEF ManagerDisables, InstallInactive, InstallFails, UninstallStart, UninstallLock, Disables,
         DisableInstallation, store
    <3>5. \A m \in Managers : ~ManagerCommits(m)
      BY Zenon, <1>0, <2>2 DEF ManagerCommits, InstallStart, Free, InstallPrepare, InstallCommit, ActivateStart, ActivateCommit,
         ActivateFail, store
    <3>6. Boot
      BY Zenon, <1>0, <1>2, <2>2, <3>1, <3>2, <3>3, <3>4, <3>5, StepKinds
         DEF ManagerActs, OwnerActs, ClearStart, ClearFinish, ClearAll, RotateOwner, ClearFails, Shutdown, store
    <3>7. ctl = <<>>
      BY <3>6, EmptySeq DEF Boot, Cur, HooksTypeOK, ServiceTypeOK
    <3> QED
      BY <3>7 DEF Ended
  <2> QED
    BY <2>1, <2>2
<1> QED
  BY <1>1, <1>2

\* What FileServes says after a step, of the next state's row, file and requests.
Served(i) ==
  \/ file'[i].state = "active" /\ file'[i].generation = row'[i].generation /\ file'[i].token = row'[i].token
  \/ /\ file'[i].state = "disabled"
     /\ scenario'.stopped \/ ~owner'.active \/ \E n \in Managers : Revives(mgr'[n], i)

\* An activation that was on its way to the file of i has come there or given up.
LEMMA RevivingServes ==
  ASSUME HooksInv, Next, NEW m \in Managers, ManagerActs(m), NEW i \in Installs, row'[i].state = "active",
         Revives(mgr[m], i), FileKept(i) => file'[i].state = "disabled"
  PROVE  Served(i)
<1>0. /\ HooksTypeOK /\ GenerationsDrawn /\ CredentialsSound /\ PlansFollowed /\ LocksHeld /\ ManagersKnow
      /\ ServiceTypeOK /\ StoreTypeOK
  BY DEF HooksInv, CaptureInv, HooksTypeOK
<1>1. PICK r, x : r = mgr[m] /\ x = mgr'[m]
  OBVIOUS
<1>2. r \in Activating /\ i \in r.sel /\ (r.pc = "fail" \/ (r.pc = "enable" /\ i \notin r.written))
  BY <1>0, <1>1, ManagerKinds DEF Revives
<1>3. ActivateEnable(m) \/ ActivateFails(m) \/ ActivateFail(m)
  <2>1. r.op = "activate" /\ r # Idle
    BY <1>2 DEF Activating, Idle
  <2> QED
    BY Zenon, <1>1, <1>2, <2>1 DEF ManagerActs, ManagerWaits, ManagerDisables, ManagerCommits,
       InstallCheck, InstallLock, InstallDisabled, InstallSettled, InstallWrite,
       UninstallRemove, Abandoned, ActivateBusy, ActivateDrain, ActivateLock, ActivateDisable, ActivateResume,
       InstallInactive, InstallFails, UninstallStart, UninstallLock, InstallStart, InstallPrepare, InstallCommit,
       ActivateStart, ActivateCommit, Free
<1>4. CASE ActivateFail(m)
  <2>1. CASE owner.active
    <3>1. PICK S \in SUBSET Installs : S = r.sel
      BY <1>2 DEF Activating
    <3>2. /\ row' = [j \in Installs |-> IF j \in S THEN Fenced(row[j], fresh + j) ELSE row[j]]
          /\ owner' = [owner EXCEPT !.generation = fresh + 1] /\ fresh' = fresh + NInstalls
      BY <1>1, <1>4, <2>1, <3>1 DEF ActivateFail
    <3>3. row'[i].state # "active"
      BY Zenon, <1>0, <1>2, <3>1, <3>2, ActivateFailMoves
    <3> QED
      BY <3>3
  <2>2. CASE ~owner.active
    <3>1. ~owner'.active /\ file' = file
      BY <1>4, <2>2 DEF ActivateFail, store
    <3> QED
      BY <3>1 DEF FileKept, Served
  <2> QED
    BY <2>1, <2>2
<1>5. CASE ActivateFails(m)
  <2>1. file' = file
    BY <1>5 DEF ActivateFails
  <2>2. x.op = "activate" /\ x.sel = r.sel /\ x.pc = "fail"
    BY <1>1, <1>5, <1>0, ActivationGoesOn, OtherwiseGoes DEF KeepsPlan
  <2>3. Revives(mgr'[m], i)
    BY <1>1, <1>2, <2>2 DEF Revives
  <2> QED
    BY <2>1, <2>3 DEF FileKept, Served
<1>6. CASE ActivateEnable(m)
  <2>1. row' = row
    BY <1>6, ManagerRests DEF ManagerWaits, store
  <2>2. r.pc = "enable" /\ r.op = "activate" /\ i \notin r.written
    BY <1>1, <1>2, <1>6 DEF ActivateEnable
  <2>3. r.before[i].state = "active" /\ row[i].generation = Drawn(r, i) /\ row[i].token = Drawn(r, i)
    BY <1>0, <1>1, <1>2, <2>1, <2>2 DEF ManagersKnow, Knows, ActivateKnows
  <2>4. i \in Reenabled(r)
    BY <1>2, <2>3 DEF Reenabled
  <2>5. PICK j \in Installs : /\ x.pc = "enable" /\ x.written = r.written \cup {j}
                              /\ file'[j] = Descriptor(r, j, Drawn(r, j), Drawn(r, j), r.owner)
    BY <1>0, <1>1, <1>6, <2>2, <2>4, EnableGoes
  <2>6. CASE i = j
    BY <2>1, <2>3, <2>5, <2>6 DEF Descriptor, Served
  <2>7. CASE i # j
    <3>1. x.op = "activate" /\ x.sel = r.sel
      BY <1>0, <1>1, <1>6, ActivationGoesOn DEF KeepsPlan
    <3>2. Revives(mgr'[m], i)
      BY <1>1, <1>2, <2>2, <2>5, <2>7, <3>1 DEF Revives
    <3>3. FileKept(i) \/ mgr'[m].written = mgr[m].written \cup {i}
      BY Zenon, <1>0, <1>6, WritesKept DEF Writes, InstallDisabled, InstallWrite, UninstallRemove, ActivateDisable, ActivateEnable
    <3>4. FileKept(i)
      BY <1>1, <2>2, <2>5, <2>7, <3>3
    <3> QED
      BY <3>2, <3>4 DEF Served
  <2> QED
    BY <2>6, <2>7
<1> QED
  BY <1>3, <1>4, <1>5, <1>6

LEMMA UntouchedServes ==
  ASSUME HooksInv, Next, NEW m \in Managers, ManagerActs(m), NEW i \in Installs, row'[i].state = "active", Untouched(i)
  PROVE  Served(i)
<1>0. HooksTypeOK /\ GenerationsDrawn /\ CredentialsSound /\ FileServes(i) /\ Ended
  BY DEF HooksInv, CaptureInv, FilesServe
<1>1. row'[i] = row[i] /\ FileKept(i)
  BY DEF Untouched, RowKept
<1>2. CASE Serving(i, row[i].generation, row[i].token)
  BY <1>1, <1>2 DEF Serving, FileKept, Served
<1>3. CASE /\ file[i].state = "disabled"
           /\ scenario.stopped \/ ~owner.active \/ \E n \in Managers : Revives(mgr[n], i)
  <2>1. file'[i].state = "disabled"
    BY <1>1, <1>3 DEF FileKept
  <2>2. CASE scenario.stopped \/ ~owner.active
    BY <1>0, <2>1, <2>2, ReasonStays DEF Served
  <2>3. ASSUME NEW n \in Managers, Revives(mgr[n], i) PROVE Served(i)
    <3>1. CASE n = m
      BY <2>1, <2>3, <3>1, RevivingServes
    <3>2. CASE n # m
      <4>1. Revives(mgr'[n], i)
        BY <1>0, <2>3, <3>2, OtherRequests, AlikeHolds
      <4> QED
        BY <2>1, <4>1 DEF Served
    <3> QED
      BY <3>1, <3>2
  <2> QED
    BY <1>3, <2>2, <2>3
<1> QED
  BY <1>0, <1>1, <1>2, <1>3 DEF FileServes

LEMMA CommitServes ==
  ASSUME HooksInv, NEW m \in Managers, NEW i \in Installs, row'[i].state = "active",
         (InstallCommit(m) /\ i = mgr[m].inst) \/ (ActivateCommit(m) /\ i \in mgr[m].sel)
  PROVE  Served(i)
<1>0. /\ HooksTypeOK /\ GenerationsDrawn /\ CredentialsSound /\ PlansFollowed /\ ManagersKnow
      /\ ServiceTypeOK /\ StoreTypeOK /\ ManagersSound
  BY DEF HooksInv, CaptureInv, HooksTypeOK, CredentialsSound
<1>1. PICK r, x : r = mgr[m] /\ x = mgr'[m]
  OBVIOUS
<1>2. CASE InstallCommit(m) /\ i = r.inst
  <2>1. r.op = "install" /\ r.pc = "commit" /\ file' = file /\ row[i].generation = r.generation /\ row[i].token = r.token
    BY <1>1, <1>2 DEF InstallCommit
  <2>2. Serving(i, r.generation, r.token)
    BY <1>0, <1>1, <1>2, <2>1 DEF ManagersKnow, Knows, InstallKnows
  <2>3. row'[i].generation = row[i].generation /\ row'[i].token = row[i].token
    BY Zenon, <1>0, <1>1, <1>2, InstallCommitMoves
  <2> QED
    BY <2>1, <2>2, <2>3 DEF Serving, Served
<1>3. CASE ActivateCommit(m) /\ i \in r.sel
  <2>1. r.op = "activate" /\ r.pc = "commit" /\ file' = file
    BY <1>1, <1>3 DEF ActivateCommit
  <2>2. i \in r.written
    BY <1>0, <1>1, <1>3, <2>1 DEF PlansFollowed, PlanFollowed, Required
  <2>3. file[i].state = "disabled"
    BY <1>0, <1>1, <1>3, <2>1, <2>2 DEF ManagersKnow, Knows, ActivateKnows
  <2>4. x.op = "activate" /\ x.sel = r.sel /\ x.pc = "enable" /\ x.written = {}
    BY <1>0, <1>1, <1>3, ActivationGoesOn, OtherwiseGoes DEF KeepsPlan
  <2>5. Revives(mgr'[m], i)
    BY <1>1, <1>3, <2>4 DEF Revives
  <2> QED
    BY <2>1, <2>3, <2>5 DEF Served
<1> QED
  BY <1>1, <1>2, <1>3

LEMMA WriteServes ==
  ASSUME HooksInv, Next, NEW m \in Managers, Writes(m), NEW i \in Installs, row'[i].state = "active", RowKept(i), ~FileKept(i)
  PROVE  Served(i)
<1>0. /\ HooksTypeOK /\ GenerationsDrawn /\ CredentialsSound /\ PlansFollowed /\ ManagersKnow /\ FileServes(i)
      /\ ServiceTypeOK /\ StoreTypeOK /\ file \in [Installs -> FileType]
  BY TypesTogether DEF HooksInv, CaptureInv, HooksTypeOK, FilesServe, RestTyped
<1>1. PICK r : r = mgr[m]
  OBVIOUS
<1>2. row'[i] = row[i]
  BY DEF RowKept
<1>3. CASE InstallDisabled(m) /\ r.inst = i
  BY <1>0, <1>1, <1>2, <1>3 DEF InstallDisabled, ManagersKnow, Knows, InstallKnows
<1>4. CASE InstallWrite(m) /\ r.inst = i
  <2>1. r.op = "install" /\ r.pc = "write"
    BY <1>1, <1>4 DEF InstallWrite
  <2>2. row[i].generation = r.generation /\ row[i].token = r.token
    BY <1>0, <1>1, <1>2, <1>4, <2>1 DEF ManagersKnow, Knows, InstallKnows
  <2>3. file' = file \/ file' = [file EXCEPT ![i] = Descriptor(r, i, r.generation, r.token, r.owner)]
    BY <1>1, <1>4 DEF InstallWrite
  <2>4. file'[i] = Descriptor(r, i, r.generation, r.token, r.owner)
    BY <1>0, <2>3 DEF FileKept
  <2> QED
    BY <1>2, <2>2, <2>4 DEF Descriptor, Served
<1>5. CASE UninstallRemove(m) /\ r.inst = i
  BY <1>0, <1>1, <1>2, <1>5 DEF UninstallRemove, ManagersKnow, Knows
<1>6. CASE ActivateDisable(m) /\ i \in r.sel /\ AsPlanned(r, i) /\ file'[i] = DisabledFile
  <2>1. r \in Activating /\ r.op = "activate"
    BY <1>0, <1>1, <1>6, ManagerKinds DEF ActivateDisable
  <2>2. file[i].state = "active"
    BY <1>6 DEF FileKept, DisabledFile, AsPlanned
  <2>3. file[i].generation = row[i].generation
    BY <1>0, <1>2, <2>2 DEF FileServes, Serving
  <2>4. file[i].generation = r.before[i].generation
    BY <1>6, <2>2 DEF AsPlanned
  <2>5. row[i].generation >= Drawn(r, i) /\ Drawn(r, i) > r.before[i].generation
    BY <1>0, <1>1, <1>6, <2>1 DEF ManagersKnow, Knows, ActivateKnows
  <2>6. Drawn(r, i) \in Nat /\ row[i].generation \in Nat
    BY <1>0, <2>1, PlanTyped DEF StoreTypeOK, Row, KnownRow, NoRow
  <2> QED
    BY <2>3, <2>4, <2>5, <2>6
<1>7. CASE /\ ActivateEnable(m) /\ i \in Reenabled(r)
           /\ file'[i] = Descriptor(r, i, Drawn(r, i), Drawn(r, i), r.owner)
  <2>1. r.op = "activate" /\ r.pc = "enable"
    BY <1>1, <1>7 DEF ActivateEnable
  <2>2. row[i].generation = Drawn(r, i) /\ row[i].token = Drawn(r, i)
    BY <1>0, <1>1, <1>2, <1>7, <2>1 DEF ManagersKnow, Knows, ActivateKnows, Reenabled
  <2> QED
    BY <1>2, <1>7, <2>2 DEF Descriptor, Served
<1> QED
  BY <1>0, <1>1, <1>3, <1>4, <1>5, <1>6, <1>7, WritesKept

LEMMA NextServes ==
  ASSUME HooksInv, Next
  PROVE  FilesServe'
<1>0. /\ HooksTypeOK /\ GenerationsDrawn /\ CredentialsSound /\ PlansFollowed /\ Ended /\ FilesServe
  BY DEF HooksInv, CaptureInv
<1>1. ASSUME NEW i \in Installs, row'[i].state = "active" PROVE Served(i)
  <2>1. CASE QuietActs
    <3>1. row'[i] = row[i] /\ FileKept(i)
      BY <1>0, <2>1, QuietKeeps DEF Untouched
    <3>2. CASE Serving(i, row[i].generation, row[i].token)
      BY <3>1, <3>2 DEF Serving, FileKept, Served
    <3>3. CASE /\ file[i].state = "disabled"
               /\ scenario.stopped \/ ~owner.active \/ \E n \in Managers : Revives(mgr[n], i)
      <4>1. file'[i].state = "disabled"
        BY <3>1, <3>3 DEF FileKept
      <4>2. CASE scenario.stopped \/ ~owner.active
        BY <1>0, <4>1, <4>2, ReasonStays DEF Served
      <4>3. CASE Gone
        BY <1>0, <4>1, <4>3, GoneKeeps DEF HooksTypeOK, Gone, Served
      <4>4. ASSUME ~Gone, NEW n \in Managers, Revives(mgr[n], i) PROVE Revives(mgr'[n], i)
        BY <1>0, <2>1, <4>4, QuietKeeps, AlikeHolds
      <4> QED
        BY <3>3, <4>1, <4>2, <4>3, <4>4 DEF Served
    <3> QED
      BY <1>0, <1>1, <3>1, <3>2, <3>3 DEF FilesServe, FileServes
  <2>2. ASSUME NEW m \in Managers, ManagerActs(m) PROVE Served(i)
    <3>1. CASE Untouched(i)
      BY <1>1, <2>2, <3>1, UntouchedServes
    <3>2. CASE ~RowKept(i)
      BY <1>0, <1>1, <2>2, <3>2, RowsKept, CommitServes
    <3>3. CASE RowKept(i) /\ ~FileKept(i)
      BY <1>0, <1>1, <2>2, <3>3, FilesKept, WriteServes
    <3> QED
      BY <3>1, <3>2, <3>3 DEF Untouched
  <2> QED
    BY <2>1, <2>2, StepKinds DEF QuietActs
<1> QED
  BY <1>1 DEF FilesServe, FileServes, Serving, Served, Revives

LEMMA NextHooks ==
  ASSUME HooksInv, [Next]_vars
  PROVE  HooksInv'
<1>0. /\ CaptureInv /\ HooksTypeOK /\ GenerationsDrawn /\ SessionsInOrder /\ RepliesInOrder /\ CredentialsSound
      /\ PlansFollowed /\ LocksHeld /\ ManagersKnow /\ FilesServe /\ Ended
  BY DEF HooksInv, CaptureInv
<1>1. CaptureInv' /\ StoreMoves
  BY <1>0, NextCaptures, NextMoves
<1>2. CASE Next
  BY <1>0, <1>1, <1>2, NextLocks, NextKnows, NextServes, NextEnded DEF HooksInv
<1>3. CASE UNCHANGED vars
  BY <1>0, <1>1, <1>3 DEF HooksInv, vars, store, LocksHeld, ManagersKnow, Knows, InstallKnows, ActivateKnows, Serving,
     FilesServe, FileServes, Ended
<1> QED
  BY <1>2, <1>3

LEMMA InitHooks ==
  ASSUME Init
  PROVE  HooksInv
<1>1. CaptureInv
  BY InitCaptures
<1>2. \A m \in Managers : mgr[m] = Idle
  BY DEF Init
<1>3. LocksHeld /\ ManagersKnow
  BY <1>2, IdleHolds DEF LocksHeld, ManagersKnow
<1>4. FilesServe
  BY DEF Init, FilesServe, FileServes, Serving
<1>5. Ended
  BY DEF Init, Ended
<1> QED
  BY <1>1, <1>3, <1>4, <1>5 DEF HooksInv

LEMMA HooksInvariant == Spec => []HooksInv
<1>1. Init => HooksInv
  BY InitHooks
<1>2. HooksInv /\ [Next]_vars => HooksInv'
  BY NextHooks
<1> QED
  BY <1>1, <1>2, PTL DEF Spec

\* An installation whose policy is active has the credential that serves it in its
\* private file once no management request is at work on it, whatever installs,
\* removals and activations ran together, failed or were cut short: only a daemon that
\* ended in the middle of an activation leaves an active row with a disabled file
\* (management.ts install and uninstall, context-transition.ts).
THEOREM ActiveHasItsCapability == Spec => []ActiveHasCapability
<1>1. ASSUME HooksInv PROVE ActiveHasCapability
  <2>1. ASSUME NEW i \in Installs, row[i].state = "active", owner.active, \A m \in Managers : ~AtWork(m, i)
        PROVE  \/ file[i].state = "active" /\ file[i].token = row[i].token /\ file[i].generation = row[i].generation
               \/ file[i].state = "disabled" /\ scenario.stopped
    <3>1. \A m \in Managers : ~Revives(mgr[m], i)
      BY <2>1 DEF AtWork, Revives, Required
    <3> QED
      BY <1>1, <2>1, <3>1 DEF HooksInv, FilesServe, FileServes, Serving
  <2> QED
    BY <2>1 DEF ActiveHasCapability
<1>2. HooksInv => ActiveHasCapability
  BY <1>1
<1> QED
  BY <1>2, HooksInvariant, PTL
===============================================================================
