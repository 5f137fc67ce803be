------------------------------- MODULE HookStore -------------------------------
(***************************************************************************)
(* The tables of the coding hooks (drizzle/0010) and the transactions of   *)
(* CodingHookStore, ContextHookStore and ContextTransitionStore over them. *)
(* Random generations and tokens are numbers drawn from `fresh', which     *)
(* never repeat; a token stands for its digest.  A session is the one      *)
(* session id whose transcript lies under a root, with one tool in it: its *)
(* transcript is the sequence of that tool's results, "unknown" where one   *)
(* does not say whether it is an error, and a cursor counts its lines.     *)
(* The frozen prefix is part of the incarnation.                           *)
(* Left out: agents' own transcripts, assistants, prompts and usage,       *)
(* session closure, coverage reasons, projections and their witnesses,     *)
(* quotas.                                                                 *)
(***************************************************************************)
EXTENDS Integers, Sequences

CONSTANTS
  NInstalls,  \* installations; an id is a number, ids are ordered
  Roots       \* registered workspaces with their project directories

ASSUME HookAssumption == NInstalls \in Nat \ {0}

VARIABLES
  owner,    \* the owner row and ownerActive(): [active, generation]
  row,      \* installation -> its row, or NoRow
  session,  \* root -> the row of its session
  tool,     \* root -> the session's entity for the tool, or NoEntity
  fresh     \* the last random value drawn

store == <<owner, row, session, tool, fresh>>

Installs == 1 .. NInstalls
Versions == {1, 2}
Modes == {"metadata", "full"}
NoRow == [state |-> "absent", generation |-> 0, token |-> 0, mode |-> "metadata", roots |-> {}, version |-> 1]
KnownRow == [state : {"active", "disabled"}, generation : Nat, token : Nat, mode : Modes,
             roots : SUBSET Roots, version : Versions]
Row == KnownRow \cup {NoRow}
NoSession == [state |-> "absent", kind |-> "initial", inc |-> 0, cursor |-> 0, revision |-> 0]
NoEntity == [phase |-> "absent"]

Stored(i) == row[i].state # "absent"
Terminal(phase) == phase \in {"success", "failure", "interrupted", "conflict"}

\* The session's run is in the database.
HasRun(k) == session[k].state = "open" /\ session[k].kind # "initial"

-----------------------------------------------------------------------------
(* Installations. *)

\* What the catalog column encodes, and the states a disable leaves it in.
Data(r) == [mode |-> r.mode, roots |-> r.roots, version |-> r.version]

Disabled(r, n) ==
  IF r = NoRow THEN r
  ELSE [r EXCEPT !.state = "disabled", !.generation = n, !.token = n, !.mode = "metadata"]

\* The policy survives, the credential does not.
Fenced(r, n) ==
  IF r = NoRow THEN r ELSE [r EXCEPT !.state = "disabled", !.generation = n, !.token = n]

DisableInstallation(i) ==
  /\ row' = [row EXCEPT ![i] = Disabled(@, fresh + 1)]
  /\ fresh' = fresh + 1
  /\ UNCHANGED <<owner, session, tool>>

\* Catalog versions of the installations that i would share a root with.
SharedVersions(i, roots) ==
  {row[j].version : j \in {j \in Installs : Stored(j) /\ (j = i \/ row[j].roots \cap roots # {})}}

\* sharedCatalogVersion, which refuses two versions
Shareable(i, roots) == SharedVersions(i, roots) # Versions
SharedVersion(i, roots) == IF 2 \in SharedVersions(i, roots) THEN 2 ELSE 1

\* The row prepareInstallation leaves, unchanged or disabled under a new generation.
Prepared(i, want, token) ==
  LET data == [mode |-> want.mode, roots |-> want.roots, version |-> SharedVersion(i, want.roots)]
  IN  IF row[i].state = "active" /\ Data(row[i]) = data /\ row[i].token = token THEN row[i]
      ELSE [state |-> "disabled", generation |-> fresh + 1, token |-> token, mode |-> want.mode,
            roots |-> want.roots, version |-> data.version]

\* The installation authenticate() finds for a token, when it may capture.
Authentic(i, token) == row[i].state = "active" /\ row[i].token = token /\ owner.active

-----------------------------------------------------------------------------
(* Owner. *)

RotateOwner ==
  /\ owner' = [owner EXCEPT !.generation = fresh + 1]
  /\ fresh' = fresh + 1

-----------------------------------------------------------------------------
(* Sessions: admission, publication, deletion of the run. *)

\* Which protocol serves root k under a catalog version; only a first sight chooses.
Dispatch(k, version) ==
  CASE session[k].state = "suppressed" -> "refused"
    [] session[k].state = "absent" -> IF version = 2 THEN "v2" ELSE "v1"
    [] OTHER -> IF session[k].kind = "v2" THEN "v2" ELSE "v1"

\* The session after an admission: a first sight stores it, v2 with its run.
Admitted(k, via) ==
  IF session[k].state # "absent" THEN session[k]
  ELSE IF via = "v1" THEN [NoSession EXCEPT !.state = "open"]
  ELSE [NoSession EXCEPT !.state = "open", !.kind = "v2", !.revision = 1]

\* Mutant of SourceChanged: a batch that goes back is taken.
SourceChangedElsewhere(s, batch) == s.inc # 0 /\ batch.inc # s.inc

\* The batch goes back in the transcript, or comes from another one.
SourceChanged(s, batch) == s.inc # 0 /\ (batch.inc # s.inc \/ batch.cursor < s.cursor)

\* Another reading of a line than the one retained.  A retained entity is what was
\* observed last, under seen, with the outcome and the body that came of it.
Contradicts(prior, observed, mode) ==
  /\ mode = "full" /\ prior # NoEntity
  /\ observed.offset # 0 /\ observed.offset = prior.offset /\ observed # prior.seen

\* The observation is not news: it is of an older line, or of the same line under
\* metadata, it reopens what ended, or a hook repeats what the transcript told.
Superseded(prior, observed, mode) ==
  \/ /\ prior.offset # 0 /\ observed.offset # 0
     /\ observed.offset < prior.offset \/ (observed.offset = prior.offset /\ mode = "metadata")
  \/ Terminal(prior.phase) /\ observed.phase = "pending"
  \/ prior.source = "transcript" /\ observed.source = "hook"

Conflicting(prior, observed) ==
  Terminal(prior.phase) /\ Terminal(observed.phase) /\ prior.phase # observed.phase

\* What is retained once an observation is published under a capture mode.  A result
\* that does not say how it ended is no outcome, yet it takes the place of one.
Merged(prior, observed, mode) ==
  IF prior = NoEntity THEN [phase |-> observed.phase, source |-> observed.source,
                            offset |-> observed.offset, body |-> observed.body, seen |-> observed]
  ELSE IF Superseded(prior, observed, mode) THEN prior
  ELSE IF /\ observed.source = "hook" /\ Terminal(prior.phase)
          /\ ~Conflicting(prior, observed) /\ observed # prior.seen THEN prior
  ELSE [phase |-> IF Conflicting(prior, observed) THEN "conflict" ELSE observed.phase,
        source |-> observed.source, offset |-> observed.offset,
        body |-> IF mode = "metadata" /\ prior.body THEN TRUE ELSE observed.body,
        seen |-> observed]

\* The entity of root k after a batch; a batch need not observe the tool.
Retained(k, batch, mode) ==
  IF batch.observed = NoEntity THEN tool[k] ELSE Merged(tool[k], batch.observed, mode)

\* The session a publication leaves; a v2 batch that says nothing new is no revision.
Published(s, k, batch, mode) ==
  LET news == batch.inc # s.inc \/ batch.cursor # s.cursor \/ Retained(k, batch, mode) # tool[k]
  IN  [s EXCEPT !.inc = batch.inc, !.cursor = batch.cursor,
                !.kind = IF s.kind = "v2" THEN "v2" ELSE "v1",
                !.revision = IF s.kind = "v2" /\ news THEN s.revision + 1 ELSE s.revision]

\* The transaction of publish(), under the mode of the installation it authenticated.
Publish(k, batch, mode) ==
  /\ session[k].state = "open" /\ ~SourceChanged(session[k], batch)
  /\ batch.observed # NoEntity => ~Contradicts(tool[k], batch.observed, mode)
  /\ tool' = [tool EXCEPT ![k] = Retained(k, batch, mode)]
  /\ session' = [session EXCEPT ![k] = Published(session[k], k, batch, mode)]
  /\ UNCHANGED <<owner, row, fresh>>

\* The triggers on deleted runs and spans leave a tombstone, for ever.
Suppressed(k) ==
  IF HasRun(k) THEN [NoSession EXCEPT !.state = "suppressed"] ELSE session[k]

DeleteRun(k) ==
  /\ HasRun(k)
  /\ session' = [session EXCEPT ![k] = Suppressed(k)]
  /\ tool' = [tool EXCEPT ![k] = NoEntity]
  /\ UNCHANGED <<owner, row, fresh>>

\* clearAll() rotates the generation before it deletes the canonical rows.
ClearAll ==
  /\ RotateOwner
  /\ session' = [k \in Roots |-> Suppressed(k)]
  /\ tool' = [k \in Roots |-> NoEntity]
  /\ UNCHANGED row

-----------------------------------------------------------------------------
(* Correctness. *)

\* A retained entity with a body, and whether a policy for the root captures bodies.
HasBody(entity) == entity # NoEntity /\ entity.body
FullCapture(k) == \E i \in Installs : row[i].state = "active" /\ row[i].mode = "full" /\ k \in row[i].roots

\* "Late callbacks cannot recreate cleared/deleted runs", and what was captured is
\* not taken back by a callback that was overtaken: a session stays with one
\* transcript and reads it forwards, what ended is not pending again, only a
\* contradiction, or a later result that does not say how it ended, takes the place
\* of an outcome, a hook does not displace the transcript, and only full capture
\* retains a body, or erases one, by an observation that had to leave its own out.
EvidenceStays(k) ==
  /\ session[k].state = "suppressed" => session'[k] = session[k] /\ tool'[k] = NoEntity
  /\ session[k].state = "open" /\ session'[k].state = "open" =>
       /\ session[k].inc # 0 => session'[k].inc = session[k].inc
       /\ session'[k].cursor >= session[k].cursor
       /\ session[k].kind # "initial" => session'[k].kind = session[k].kind
       /\ HasBody(tool'[k]) # HasBody(tool[k]) => FullCapture(k)
       /\ tool[k] # NoEntity =>
            /\ tool'[k] # NoEntity
            /\ tool'[k].phase = "pending" => tool[k].phase = "pending"
            /\ Terminal(tool[k].phase) /\ tool'[k].phase # tool[k].phase =>
                 tool'[k].phase = "conflict" \/ (tool'[k].phase = "unknown" /\ tool'[k].offset > tool[k].offset)
            /\ tool[k].source = "transcript" => tool'[k].source = "transcript"
            /\ tool'[k].offset >= tool[k].offset

EvidenceKept == [][\A k \in Roots : EvidenceStays(k)]_<<session, tool>>
===============================================================================
