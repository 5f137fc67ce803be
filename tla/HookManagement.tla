----------------------------- MODULE HookManagement -----------------------------
(***************************************************************************)
(* The management of the coding hooks through the daemon (server.ts        *)
(* /manage, management.ts, context-transition.ts): installing and removing *)
(* a hook, and the transition of a catalog to context v2, each under the   *)
(* installation's lock file and stopping at its awaits, any of which may   *)
(* fail.                                                                   *)
(* Left out: settings files (what they may refuse is a failure; they are   *)
(* those of the row), executables, unregistering one workspace of several, *)
(* doctor, and management by a command while no daemon runs.               *)
(***************************************************************************)
EXTENDS CodingHooks

mgmt == <<cb, ctl, clearing, transcript>>

\* The guard of the route, for a manager that is free.
Free(m) == Cur > 0 /\ ~clearing /\ owner.active /\ mgr[m] = Idle

\* The request is answered; a Clear that waits for it goes on.
Done(m, managers) ==
  /\ mgr' = [managers EXCEPT ![m] = Idle]
  /\ clears' = {[w EXCEPT !.managers = @ \ {m}] : w \in clears}
Goes(m, managers, next) ==
  /\ mgr' = [managers EXCEPT ![m] = next]
  /\ UNCHANGED clears

Unlocked(S) == [i \in Installs |-> lock[i] /\ i \notin S]
Wanted(w, i) == [mode |-> w.mode, roots |-> w.roots, version |-> SharedVersion(i, w.roots)]

-----------------------------------------------------------------------------
(* install() *)

\* Before its first await: a catalog that differs from the retained one is fenced,
\* and the fenced generation is then expected.
InstallStart(m) ==
  /\ Free(m) /\ Spend("installs")
  /\ \E i \in Installs, want \in scenario.wants :
       /\ Shareable(i, want.roots)
       /\ LET next == [op |-> "install", inst |-> i, want |-> want, pc |-> "check", expected |-> 0, data |-> NoRow,
                       before |-> NoRow, token |-> 0, owner |-> 0, generation |-> 0, unchanged |-> FALSE, revoked |-> {}]
          IN  IF Stored(i) /\ Data(row[i]) # Wanted(want, i)
              THEN /\ row' = [row EXCEPT ![i] = Fenced(@, fresh + 1)] /\ fresh' = fresh + 1
                   /\ UNCHANGED <<owner, session, tool>>
                   /\ file' = FilesRevoked({i}) /\ cb' = CallbacksRevoked({i})
                   /\ Goes(m, ManagersRevoked({i}), [next EXCEPT !.expected = fresh + 1])
              ELSE UNCHANGED <<store, file, cb>> /\ Goes(m, mgr, next)
  /\ UNCHANGED <<lock, ctl, clearing, transcript>>

\* The directories were looked at; the catalog is encoded as it would be now.
InstallCheck(m) ==
  /\ mgr[m].op = "install" /\ mgr[m].pc = "check"
  /\ LET r == mgr[m]
     IN  IF Shareable(r.inst, r.want.roots)
         THEN Goes(m, mgr, [r EXCEPT !.pc = "lock", !.data = Wanted(r.want, r.inst)])
         ELSE Done(m, mgr)
  /\ UNCHANGED <<store, file, lock, mgmt, scenario>>

\* lease(): busy when the lock file exists.  The row is read under the lock.
InstallLock(m) ==
  /\ mgr[m].op = "install" /\ mgr[m].pc = "lock"
  /\ LET r == mgr[m]
     IN  IF lock[r.inst] \/ (r.expected # 0 /\ row[r.inst].generation # r.expected)
         THEN Done(m, mgr) /\ UNCHANGED lock
         ELSE /\ lock' = [lock EXCEPT ![r.inst] = TRUE]
              /\ Goes(m, mgr, [r EXCEPT !.pc = "prepare", !.before = row[r.inst]])
  /\ UNCHANGED <<store, file, mgmt, scenario>>

\* The policy and its private file are as the row before says, and stay.
Repeats(r) == r.before.state = "active" /\ Data(r.before) = r.data
Held(r) == file[r.inst].state = "active" /\ file[r.inst].token = r.before.token
           /\ file[r.inst].generation = r.before.generation

\* prepareInstallation(): the row is disabled under the generation to commit, or unchanged.
InstallPrepare(m) ==
  /\ mgr[m].op = "install" /\ mgr[m].pc = "prepare"
  /\ LET r    == mgr[m]
         i    == r.inst
         t    == IF Repeats(r) THEN file[i].token ELSE fresh + 1
         next == Prepared(i, r.want, t)
         gone == IF next = row[i] THEN {} ELSE {i}
     IN  /\ owner.active /\ (Repeats(r) => Held(r)) /\ Shareable(i, r.want.roots)
         /\ row' = [row EXCEPT ![i] = next] /\ fresh' = fresh + 1
         /\ UNCHANGED <<owner, session, tool>>
         /\ file' = FilesRevoked(gone) /\ cb' = CallbacksRevoked(gone)
         /\ Goes(m, ManagersRevoked(gone), [r EXCEPT !.pc = "write", !.token = t, !.owner = owner.generation,
              !.generation = next.generation, !.unchanged = gone = {}, !.revoked = {}])
  /\ UNCHANGED <<lock, ctl, clearing, transcript, scenario>>

\* The row is disabled, and the request goes on.
Disables(m, i, next) ==
  /\ DisableInstallation(i)
  /\ file' = FilesRevoked({i}) /\ cb' = CallbacksRevoked({i})
  /\ Goes(m, ManagersRevoked({i}), next)

\* The owner went away: the installation is disabled,
InstallInactive(m) ==
  /\ mgr[m].op = "install" /\ mgr[m].pc = "prepare" /\ ~owner.active
  /\ Disables(m, mgr[m].inst, [mgr[m] EXCEPT !.pc = "inactive"])
  /\ UNCHANGED <<lock, ctl, clearing, transcript, scenario>>

\* its private file is written down as disabled,
InstallDisabled(m) ==
  /\ mgr[m].op = "install" /\ mgr[m].pc = "inactive"
  /\ file' = [file EXCEPT ![mgr[m].inst] = DisabledFile]
  /\ Goes(m, mgr, [mgr[m] EXCEPT !.pc = "settle"])
  /\ UNCHANGED <<store, lock, mgmt, scenario>>

\* and once the settings are in place too, the lock is released.
InstallSettled(m) ==
  /\ mgr[m].op = "install" /\ mgr[m].pc = "settle"
  /\ lock' = Unlocked({mgr[m].inst})
  /\ Done(m, mgr)
  /\ UNCHANGED <<store, file, mgmt, scenario>>

Descriptor(r, i, generation, token, ownerGeneration) ==
  [state |-> "active", token |-> token, generation |-> generation, owner |-> ownerGeneration, old |-> i \in r.revoked]

InstallWrite(m) ==
  /\ mgr[m].op = "install" /\ mgr[m].pc = "write"
  /\ LET r == mgr[m]
         kept == r.unchanged /\ file[r.inst].owner = r.owner
     IN  file' = IF kept THEN file
                 ELSE [file EXCEPT ![r.inst] = Descriptor(r, r.inst, r.generation, r.token, r.owner)]
  /\ Goes(m, mgr, [mgr[m] EXCEPT !.pc = "commit"])
  /\ UNCHANGED <<store, lock, mgmt, scenario>>

\* Mutant of InstallCommit: the row is committed whoever disabled it.
InstallCommitBlindly(m) ==
  /\ mgr[m].op = "install" /\ mgr[m].pc = "commit"
  /\ owner.active /\ owner.generation = mgr[m].owner
  /\ row' = [row EXCEPT ![mgr[m].inst].state = "active"]
  /\ lock' = Unlocked({mgr[m].inst})
  /\ Done(m, mgr)
  /\ UNCHANGED <<owner, session, tool, fresh, file, mgmt, scenario>>

\* commitInstallation(), when neither the owner nor the row has moved.
InstallCommit(m) ==
  /\ mgr[m].op = "install" /\ mgr[m].pc = "commit"
  /\ LET r == mgr[m]
     IN  /\ owner.active /\ owner.generation = r.owner
         /\ row[r.inst].generation = r.generation /\ row[r.inst].token = r.token
         /\ row' = [row EXCEPT ![r.inst].state = "active"]
         /\ lock' = Unlocked({r.inst})
  /\ Done(m, mgr)
  /\ UNCHANGED <<owner, session, tool, fresh, file, mgmt, scenario>>

\* What it could not do, what it found stale, or a file that could not be written:
\* the installation is disabled before the lock is released.
InstallBlocked(r) ==
  \/ r.pc = "prepare" /\ owner.active /\ ((Repeats(r) /\ ~Held(r)) \/ ~Shareable(r.inst, r.want.roots))
  \/ r.pc = "commit" /\ ~(owner.active /\ owner.generation = r.owner
                          /\ row[r.inst].generation = r.generation /\ row[r.inst].token = r.token)

InstallFails(m) ==
  /\ mgr[m].op = "install" /\ mgr[m].pc \in {"prepare", "inactive", "settle", "write", "commit"}
  /\ IF InstallBlocked(mgr[m]) THEN UNCHANGED scenario ELSE Spend("failures")
  /\ DisableInstallation(mgr[m].inst)
  /\ file' = FilesRevoked({mgr[m].inst}) /\ cb' = CallbacksRevoked({mgr[m].inst})
  /\ lock' = Unlocked({mgr[m].inst})
  /\ Done(m, ManagersRevoked({mgr[m].inst}))
  /\ UNCHANGED <<ctl, clearing, transcript>>

-----------------------------------------------------------------------------
(* uninstall() *)

\* The row is disabled before the lock is asked for, and again under it.
UninstallStart(m) ==
  /\ Free(m) /\ Spend("uninstalls")
  /\ \E i \in Installs :
       Disables(m, i, [op |-> "uninstall", inst |-> i, pc |-> "lock", token |-> 0, revoked |-> {}])
  /\ UNCHANGED <<lock, ctl, clearing, transcript>>

UninstallLock(m) ==
  /\ mgr[m].op = "uninstall" /\ mgr[m].pc = "lock"
  /\ LET i == mgr[m].inst
     IN  IF lock[i] \/ ~Stored(i) THEN Done(m, mgr) /\ UNCHANGED <<store, file, cb, lock>>
         ELSE /\ Disables(m, i, [mgr[m] EXCEPT !.pc = "remove", !.token = row[i].token])
              /\ lock' = [lock EXCEPT ![i] = TRUE]
  /\ UNCHANGED <<ctl, clearing, transcript, scenario>>

\* The private file goes when it is disabled or holds the token of the row before.
UninstallRemove(m) ==
  /\ mgr[m].op = "uninstall" /\ mgr[m].pc = "remove"
  /\ LET r == mgr[m]
         f == file[r.inst]
         known == f.state = "disabled" \/ (f.state = "active" /\ f.token = r.token)
     IN  /\ file' = IF known THEN [file EXCEPT ![r.inst] = NoFile] ELSE file
         /\ lock' = Unlocked({r.inst})
  /\ Done(m, mgr)
  /\ UNCHANGED <<store, mgmt, scenario>>

\* An operation that has not taken its lock, or a removal, may fail and change nothing.
Abandoned(m) ==
  /\ mgr[m].op \in {"install", "uninstall"} /\ mgr[m].pc \in {"check", "lock", "remove"}
  /\ Spend("failures")
  /\ lock' = IF mgr[m].pc = "remove" THEN Unlocked({mgr[m].inst}) ELSE lock
  /\ Done(m, mgr)
  /\ UNCHANGED <<store, file, mgmt>>

-----------------------------------------------------------------------------
(* transitionContextV2() *)

\* plan(): an active installation is selected, nobody else shares its roots, and
\* some selected catalog is not of version 2 yet.
Plannable(S) ==
  /\ S # {} /\ \A i \in S : Stored(i)
  /\ \E i \in S : row[i].state = "active"
  /\ \A i \in S, j \in Installs \ S : Stored(j) => row[i].roots \cap row[j].roots = {}
  /\ \E i \in S : row[i].version # 2

\* The gate pauses, and SQL is fenced in the same turn; a busy database refuses the
\* fence after the pause.
ActivateStart(m) ==
  /\ Free(m) /\ Spend("activations") /\ ~ctl[Cur].closed
  /\ \E S \in SUBSET Installs :
       /\ Plannable(S)
       /\ row' = [i \in Installs |-> IF i \in S THEN [Fenced(row[i], fresh + i) EXCEPT !.version = 2] ELSE row[i]]
       /\ owner' = [owner EXCEPT !.generation = fresh + 1] /\ fresh' = fresh + NInstalls
       /\ UNCHANGED <<session, tool>>
       /\ Goes(m, ManagersRevoked(Installs),
            [op |-> "activate", ctl |-> Cur, sel |-> S, before |-> row, pc |-> "drain", owner |-> fresh + 1,
             owned |-> owner.generation, held |-> {}, written |-> {}, revoked |-> {}])
  /\ file' = FilesRevoked(Installs)
  /\ ctl' = Paused(Cur) /\ cb' = Aborted(Cur, CallbacksRevoked(Installs))
  /\ UNCHANGED <<lock, clearing, transcript>>

ActivateBusy(m) ==
  /\ Free(m) /\ Spend("activations") /\ ~ctl[Cur].closed
  /\ \E S \in SUBSET Installs : Plannable(S)
  /\ ctl' = Paused(Cur) /\ cb' = Aborted(Cur, cb)
  /\ UNCHANGED <<store, file, mgr, clears, lock, clearing, transcript>>

ActivateDrain(m) ==
  /\ mgr[m].op = "activate" /\ mgr[m].pc = "drain" /\ Pending(mgr[m].ctl) = {}
  /\ Goes(m, mgr, [mgr[m] EXCEPT !.pc = "lock"])
  /\ UNCHANGED <<store, file, lock, mgmt, scenario>>

Required(r) == r.sel \cup {i \in Installs : r.before[i].state = "active"}
\* The generation and the token fence() drew for a selected installation.
Drawn(r, i) == r.owner + i - 1

Foremost(S) == CHOOSE i \in S : \A j \in S : i <= j

\* The leases are nested in the order of the plan.
ActivateLock(m) ==
  /\ mgr[m].op = "activate" /\ mgr[m].pc = "lock"
  /\ LET r == mgr[m]
         i == Foremost(Required(r) \ r.held)
     IN  IF r.held = Required(r)
         THEN Goes(m, mgr, [r EXCEPT !.pc = "disable"]) /\ UNCHANGED lock
         ELSE /\ ~lock[i]
              /\ lock' = [lock EXCEPT ![i] = TRUE] /\ Goes(m, mgr, [r EXCEPT !.held = @ \cup {i}])
  /\ UNCHANGED <<store, file, mgmt, scenario>>

\* The private file is what the plan saw.
AsPlanned(r, i) ==
  IF r.before[i].state = "active"
  THEN /\ file[i].state = "active" /\ file[i].token = r.before[i].token
       /\ file[i].generation = r.before[i].generation /\ file[i].owner = r.owned
  ELSE file[i].state = "disabled"

\* A selected file is disabled, another active one follows the owner.
ActivateDisable(m) ==
  /\ mgr[m].op = "activate" /\ mgr[m].pc = "disable"
  /\ LET r == mgr[m]
         i == Foremost(Required(r) \ r.written)
     IN  IF r.written = Required(r)
         THEN Goes(m, mgr, [r EXCEPT !.pc = "commit"]) /\ UNCHANGED file
         ELSE /\ AsPlanned(r, i)
              /\ file' = [file EXCEPT ![i] = IF i \in r.sel THEN DisabledFile
                            ELSE Descriptor(r, i, @.generation, @.token, r.owner)]
              /\ Goes(m, mgr, [r EXCEPT !.written = @ \cup {i}])
  /\ UNCHANGED <<store, lock, mgmt, scenario>>

\* checkpoint(): the owner and every planned row are as the fence, or the commit, left them.
Checkpoint(r, committed) ==
  /\ owner.active /\ owner.generation = r.owner
  /\ \A i \in Installs : r.before[i] # NoRow =>
       row[i] = IF i \notin r.sel THEN r.before[i]
                ELSE [Fenced(r.before[i], Drawn(r, i)) EXCEPT !.version = 2,
                        !.state = IF committed THEN r.before[i].state ELSE "disabled"]

ActivateCommit(m) ==
  /\ mgr[m].op = "activate" /\ mgr[m].pc = "commit" /\ Checkpoint(mgr[m], FALSE)
  /\ LET r == mgr[m]
     IN  row' = [i \in Installs |-> IF i \in r.sel THEN [row[i] EXCEPT !.state = r.before[i].state] ELSE row[i]]
  /\ Goes(m, mgr, [mgr[m] EXCEPT !.pc = "enable", !.written = {}])
  /\ UNCHANGED <<owner, session, tool, fresh, file, lock, mgmt, scenario>>

Reenabled(r) == {i \in r.sel : r.before[i].state = "active"}

ActivateEnable(m) ==
  /\ mgr[m].op = "activate" /\ mgr[m].pc = "enable"
  /\ LET r == mgr[m]
         i == Foremost(Reenabled(r) \ r.written)
     IN  IF r.written = Reenabled(r)
         THEN Goes(m, mgr, [r EXCEPT !.pc = "resume"]) /\ UNCHANGED file
         ELSE /\ file' = [file EXCEPT ![i] = Descriptor(r, i, Drawn(r, i), Drawn(r, i), r.owner)]
              /\ Goes(m, mgr, [r EXCEPT !.written = @ \cup {i}])
  /\ UNCHANGED <<store, lock, mgmt, scenario>>

\* resume(): the gate opens when it is still paused, drained and of the same owner.
Resumable(r) ==
  ctl[r.ctl].paused /\ ~ctl[r.ctl].closed /\ Pending(r.ctl) = {} /\ Checkpoint(r, TRUE)

ActivateResume(m) ==
  /\ mgr[m].op = "activate" /\ mgr[m].pc = "resume" /\ Resumable(mgr[m])
  /\ ctl' = [ctl EXCEPT ![mgr[m].ctl].paused = FALSE]
  /\ lock' = Unlocked(mgr[m].held)
  /\ Done(m, mgr)
  /\ UNCHANGED <<store, file, cb, clearing, transcript, scenario>>

ActivateBlocked(r) ==
  \/ r.pc = "lock" /\ r.held # Required(r) /\ lock[Foremost(Required(r) \ r.held)]
  \/ r.pc = "disable" /\ r.written # Required(r) /\ ~AsPlanned(r, Foremost(Required(r) \ r.written))
  \/ r.pc = "commit" /\ ~Checkpoint(r, FALSE)
  \/ r.pc = "resume" /\ ~Resumable(r)

\* Whatever goes wrong, the leases unwind first,
ActivateFails(m) ==
  /\ mgr[m].op = "activate" /\ mgr[m].pc \in {"lock", "disable", "commit", "enable", "resume"}
  /\ IF ActivateBlocked(mgr[m]) THEN UNCHANGED scenario ELSE Spend("failures")
  /\ lock' = Unlocked(mgr[m].held)
  /\ Goes(m, mgr, [mgr[m] EXCEPT !.pc = "fail", !.held = {}])
  /\ UNCHANGED <<store, file, mgmt>>

\* and then fail() rotates the owner and disables what was selected, if it still may.
ActivateFail(m) ==
  /\ mgr[m].op = "activate" /\ mgr[m].pc = "fail"
  /\ IF owner.active
     THEN /\ owner' = [owner EXCEPT !.generation = fresh + 1] /\ fresh' = fresh + NInstalls
          /\ row' = [i \in Installs |-> IF i \in mgr[m].sel THEN Fenced(row[i], fresh + i) ELSE row[i]]
          /\ UNCHANGED <<session, tool>>
          /\ file' = FilesRevoked(Installs) /\ cb' = CallbacksRevoked(Installs)
          /\ Done(m, ManagersRevoked(Installs))
     ELSE UNCHANGED <<store, file, cb>> /\ Done(m, mgr)
  /\ UNCHANGED <<lock, ctl, clearing, transcript, scenario>>

-----------------------------------------------------------------------------
(* The whole. *)

ManagerNext ==
  \E m \in Managers :
    \/ InstallStart(m) \/ InstallCheck(m) \/ InstallLock(m) \/ InstallPrepare(m) \/ InstallInactive(m)
    \/ InstallDisabled(m) \/ InstallSettled(m) \/ InstallWrite(m) \/ InstallCommit(m) \/ InstallFails(m)
    \/ UninstallStart(m) \/ UninstallLock(m) \/ UninstallRemove(m) \/ Abandoned(m)
    \/ ActivateStart(m) \/ ActivateBusy(m) \/ ActivateDrain(m) \/ ActivateLock(m) \/ ActivateDisable(m)
    \/ ActivateCommit(m) \/ ActivateEnable(m) \/ ActivateResume(m) \/ ActivateFails(m) \/ ActivateFail(m)

\* The daemon runs, the scenario's installations are in place, nothing was captured.
Init ==
  /\ scenario \in Scenarios
  /\ owner = [active |-> TRUE, generation |-> 1] /\ fresh = NInstalls
  /\ row = scenario.rows
  /\ file = [i \in Installs |-> IF row[i].state = "active"
                THEN [state |-> "active", token |-> row[i].token, generation |-> row[i].generation, owner |-> 1, old |-> FALSE]
                ELSE IF row[i].state = "disabled" THEN DisabledFile ELSE NoFile]
  /\ session = [k \in Roots |-> NoSession] /\ tool = [k \in Roots |-> NoEntity]
  /\ lock = [i \in Installs |-> FALSE]
  /\ ctl = <<NewController>> /\ clears = {} /\ clearing = FALSE
  /\ cb = [c \in Callbacks |-> Quiet] /\ mgr = [m \in Managers |-> Idle]
  /\ transcript = [k \in Roots |-> [inc |-> 1, lines |-> <<>>]]

Next == CallbackNext \/ ManagerNext

Spec == Init /\ [][Next]_vars

-----------------------------------------------------------------------------
(* Correctness. *)

\* What a callback captures was authorized when it was read and has not been revoked
\* since: after an uninstall, a reinstallation, a Clear, an activation or a restart of
\* the daemon, no callback that still runs under the earlier credential changes the
\* evidence, although the token may have been issued anew meanwhile.
RevokedCapturesNothing ==
  [][\A k \in Roots : tool'[k] # tool[k] /\ tool'[k] # NoEntity =>
       \E c \in Callbacks : Alive(c) /\ cb[c].pc = "publish" /\ cb[c].root = k /\ ~cb[c].cap.old
                            /\ cb'[c] = Over]_vars

\* An installation whose policy is active has the credential that serves it in its
\* private file, whatever installs, removals and activations ran together, failed or
\* found each other's locks, once none of them is at work on it.  Only a daemon that
\* ended in the middle of an activation leaves an active row with a disabled file.
AtWork(m, i) ==
  \/ mgr[m].op \in {"install", "uninstall"} /\ mgr[m].inst = i
  \/ mgr[m].op = "activate" /\ i \in Required(mgr[m])

ActiveHasCapability ==
  \A i \in Installs :
    row[i].state = "active" /\ owner.active /\ (\A m \in Managers : ~AtWork(m, i)) =>
      \/ file[i].state = "active" /\ file[i].token = row[i].token /\ file[i].generation = row[i].generation
      \/ file[i].state = "disabled" /\ scenario.stopped
===============================================================================
