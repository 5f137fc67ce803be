------------------------- MODULE ComparisonLedgerProofs -------------------------
(***************************************************************************)
(* What holds of the comparison ledger for every number of operations,     *)
(* positions, scopes and providers, every limit, ceiling and request, and  *)
(* every usage a provider may report.                                      *)
(***************************************************************************)
EXTENDS ComparisonLedger, FiniteSetTheorems, TLAPS

(***************************************************************************)
(* Types.                                                                  *)
(***************************************************************************)

LEMMA StoredHead ==
    ASSUME TypeOK, NEW o \in Ops, head[o] # None
    PROVE  head[o] \in HeadRecord
BY DEF TypeOK

LEMMA WithdrawnType ==
    ASSUME NEW r \in RowRecord
    PROVE  Withdrawn(r) \in RowRecord
<1> DEFINE status == IF r.status \in Live THEN "authority_lost" ELSE r.status
           hold == IF r.status = "queued" THEN 0 ELSE r.hold
<1>1. status \in Live \cup Terminal \cup {"absent"}
  BY DEF RowRecord, Live, Terminal
<1>2. hold \in 0 .. ChargeCap
  BY LimitAssumption DEF RowRecord
<1>3. Withdrawn(r) = [r EXCEPT !.payload = FALSE, !.status = status, !.hold = hold]
  BY DEF Withdrawn, RowRecord
<1> HIDE DEF status, hold
<1>4. QED BY <1>1, <1>2, <1>3 DEF RowRecord

LEMMA OverType ==
    ASSUME NEW r \in RowRecord, NEW status \in Live \cup Terminal
    PROVE  [r EXCEPT !.status = status, !.hold = 0] \in RowRecord
<1>1. 0 \in 0 .. ChargeCap
  BY LimitAssumption
<1>2. QED BY <1>1 DEF RowRecord

LEMMA EndedType ==
    ASSUME TypeOK, NEW S, NEW status \in Terminal
    PROVE  Ended(S, status) \in [Attempts -> RowRecord]
<1>1. row \in [Attempts -> RowRecord]
  BY DEF TypeOK
<1>2. \A a \in Attempts : [row[a] EXCEPT !.status = status, !.hold = 0] \in RowRecord
  BY <1>1, OverType
<1>3. QED BY <1>1, <1>2 DEF Ended

LEMMA TombstoneType ==
    ASSUME TypeOK, NEW S \in SUBSET Stored, Tombstone(S)
    PROVE  /\ head' \in [Ops -> HeadRecord \cup {None}]
           /\ row' \in [Attempts -> RowRecord]
<1>1. ASSUME NEW o \in S
      PROVE  [head[o] EXCEPT !.tombstone = TRUE] \in HeadRecord
  BY StoredHead DEF Stored, HeadRecord
<1>2. head' \in [Ops -> HeadRecord \cup {None}]
  BY <1>1 DEF Tombstone, TypeOK, Stored
<1>3. row' \in [Attempts -> RowRecord]
  BY WithdrawnType DEF Tombstone, TypeOK
<1>4. QED BY <1>2, <1>3

LEMMA InsertedType ==
    ASSUME NEW target \in Target, NEW refused \in BOOLEAN
    PROVE  Inserted(target, refused) \in RowRecord
BY LimitAssumption DEF Inserted, Target, RowRecord, Live, Terminal, Accounting

LEMMA MeasuredType ==
    ASSUME NEW r \in RowRecord, NEW usage \in Usage, NEW room \in Room
    PROVE  Measured(r, usage, room) \in RowRecord
<1> DEFINE fits == usage.known /\ usage.amount <= ChargeCap
           status == IF room = "kept" THEN "completed" ELSE "failed"
           charge == IF fits THEN usage.amount ELSE r.reserve
           accounting == IF fits THEN "measured_estimate"
                         ELSE IF usage.known THEN "unrepresentable_overage"
                         ELSE "conservative"
           breach == \/ usage.tokensExceeded
                     \/ usage.known /\ usage.amount > r.reserve
           payload == room = "kept"
<1>1. status \in Live \cup Terminal \cup {"absent"}
  BY DEF Terminal
<1>2. charge \in 0 .. ChargeCap
  BY LimitAssumption DEF RowRecord, Usage
<1>3. accounting \in Accounting
  BY DEF Accounting
<1>4. breach \in BOOLEAN /\ payload \in BOOLEAN
  OBVIOUS
<1>5. Measured(r, usage, room) =
        [r EXCEPT !.status = status, !.payload = payload, !.charge = charge,
                  !.accounting = accounting, !.breach = breach]
  BY DEF Measured
<1> HIDE DEF status, charge, accounting, breach, payload
<1>6. QED BY <1>1, <1>2, <1>3, <1>4, <1>5 DEF RowRecord

LEMMA PublishType ==
    ASSUME TypeOK, NEW a \in Attempts, NEW r \in RowRecord, NEW room,
           head[a[1]] # None, Publish(a, r, room)
    PROVE  /\ head' \in [Ops -> HeadRecord \cup {None}]
           /\ row' \in [Attempts -> RowRecord]
<1>1. a[1] \in Ops BY DEF Attempts
<1>2. [head[a[1]] EXCEPT !.tombstone = TRUE] \in HeadRecord
  BY <1>1, StoredHead DEF HeadRecord
<1>3. head' \in [Ops -> HeadRecord \cup {None}]
  BY <1>1, <1>2 DEF Publish, TypeOK
<1>4. row' \in [Attempts -> RowRecord]
  BY WithdrawnType DEF Publish, TypeOK
<1>5. QED BY <1>3, <1>4

(***************************************************************************)
(* Every action keeps the types.                                           *)
(***************************************************************************)

LEMMA TypeInit == Init => TypeOK
<1>1. SUFFICES ASSUME Init PROVE TypeOK
  OBVIOUS
<1>2. Absent \in RowRecord
  BY LimitAssumption DEF Absent, RowRecord, Accounting
<1>3. QED BY <1>1, <1>2, LimitAssumption DEF Init, TypeOK, ScopeState, Roles

LEMMA SubmitType ==
    ASSUME TypeOK, NEW o \in Ops, NEW s \in Scopes, NEW r \in Requests,
           Submit(o, s, r)
    PROVE  TypeOK'
<1>1. scope[s] \in ScopeState
  BY DEF TypeOK
<1>2. head' \in [Ops -> HeadRecord \cup {None}]
  BY <1>1 DEF Submit, TypeOK, HeadRecord, ScopeState
<1>3. BudgetRefused(o, r) \in BOOLEAN
  BY DEF BudgetRefused
<1>4. ASSUME NEW a \in Attempts, a[2] \in DOMAIN r.targets
      PROVE  Inserted(r.targets[a[2]], BudgetRefused(o, r)) \in RowRecord
  BY <1>3, <1>4, InsertedType, RequestAssumption
<1>5. row' \in [Attempts -> RowRecord]
  BY <1>4 DEF Submit, TypeOK
<1>6. QED BY <1>2, <1>5 DEF Submit, TypeOK

LEMMA StartType ==
    ASSUME TypeOK, NEW a \in Attempts, StartRefused(a) \/ Start(a)
    PROVE  TypeOK'
<1>1. row[a] \in RowRecord
  BY DEF TypeOK
<1>2. 0 \in 0 .. ChargeCap /\ row[a].reserve \in 0 .. ChargeCap
  BY <1>1, LimitAssumption DEF RowRecord
<1>3. CASE StartRefused(a)
  <2>1. StartRefusal(a) \in Terminal
    BY <1>3 DEF StartRefused, StartRefusal, Terminal
  <2>2. row' \in [Attempts -> RowRecord]
    BY <1>1, <1>3, <2>1, OverType DEF StartRefused, TypeOK
  <2>3. QED BY <1>3, <2>2 DEF StartRefused, TypeOK
<1>4. CASE Start(a)
  <2>1. "running" \in Live \cup Terminal \cup {"absent"} /\ "conservative" \in Accounting
    BY DEF Live, Accounting
  <2>2. [row[a] EXCEPT !.status = "running", !.hold = 0, !.charge = row[a].reserve,
                       !.accounting = "conservative"] \in RowRecord
    BY <1>1, <1>2, <2>1 DEF RowRecord
  <2>3. row' \in [Attempts -> RowRecord]
    BY <1>4, <2>2 DEF Start, TypeOK
  <2>4. QED BY <1>4, <2>3 DEF Start, TypeOK
<1>5. QED BY <1>3, <1>4

LEMMA FinishCompletedType ==
    ASSUME TypeOK, NEW a \in Attempts, NEW usage \in Usages, NEW room \in Room,
           FinishCompleted(a, usage, room)
    PROVE  TypeOK'
<1>1. row[a] \in RowRecord /\ head[a[1]] # None
  BY DEF TypeOK, FinishCompleted, Finishable
<1>2. Measured(row[a], usage, room) \in RowRecord
  BY <1>1, MeasuredType, UsageAssumption
<1>3. /\ head' \in [Ops -> HeadRecord \cup {None}]
      /\ row' \in [Attempts -> RowRecord]
  BY <1>1, <1>2, PublishType DEF FinishCompleted
<1>4. QED BY <1>3 DEF TypeOK, FinishCompleted

LEMMA FinishFailedType ==
    ASSUME TypeOK, NEW a \in Attempts, NEW room,
           NEW status \in {"failed", "timeout", "cancelled"},
           FinishFailed(a, status, room)
    PROVE  TypeOK'
<1>1. row[a] \in RowRecord /\ head[a[1]] # None
  BY DEF TypeOK, FinishFailed, Finishable
<1>2. status \in Live \cup Terminal \cup {"absent"}
  BY DEF Terminal
<1>3. [row[a] EXCEPT !.status = status] \in RowRecord
  BY <1>1, <1>2 DEF RowRecord
<1>4. /\ head' \in [Ops -> HeadRecord \cup {None}]
      /\ row' \in [Attempts -> RowRecord]
  BY <1>1, <1>3, PublishType DEF FinishFailed
<1>5. QED BY <1>4 DEF TypeOK, FinishFailed

LEMMA CleanupType ==
    ASSUME TypeOK, NEW o, Cancel(o) \/ TerminatePending(o) \/ RecoverPending
    PROVE  TypeOK'
<1>1. {"cancelled", "authority_lost", "interrupted"} \subseteq Terminal
  BY DEF Terminal
<1>2. /\ Ended({o}, "cancelled") \in [Attempts -> RowRecord]
      /\ Ended({o}, "authority_lost") \in [Attempts -> RowRecord]
      /\ Ended(Ops, "interrupted") \in [Attempts -> RowRecord]
  BY <1>1, EndedType
<1>3. ASSUME NEW r \in RowRecord, NEW gone
      PROVE  [r EXCEPT !.payload = IF gone THEN FALSE ELSE @] \in RowRecord
  BY DEF RowRecord
<1>4. row' \in [Attempts -> RowRecord]
  <2>1. CASE Cancel(o)
    BY <1>2, <2>1 DEF Cancel
  <2>2. CASE RecoverPending
    BY <1>2, <2>2 DEF RecoverPending
  <2>3. CASE TerminatePending(o)
    BY <1>2, <1>3, <2>3 DEF TerminatePending
  <2>4. QED BY <2>1, <2>2, <2>3
<1>5. UNCHANGED <<head, scope, expired, owner, births>>
  BY DEF Cancel, TerminatePending, RecoverPending
<1>6. QED BY <1>4, <1>5 DEF TypeOK

LEMMA RemovalType ==
    ASSUME TypeOK, NEW s \in Scopes, NEW p,
           Clear(s) \/ ClearPrompts(s) \/ DeletePrompt(s, p) \/ DestroyScope(s)
    PROVE  TypeOK'
<1>1. PICK S \in SUBSET Stored : Tombstone(S)
  BY DEF Clear, ClearPrompts, DeletePrompt, DestroyScope, Retained
<1>2. /\ head' \in [Ops -> HeadRecord \cup {None}]
      /\ row' \in [Attempts -> RowRecord]
  BY <1>1, TombstoneType
<1>3. scope' \in [Scopes -> ScopeState]
  <2>1. scope[s] \in ScopeState /\ scope \in [Scopes -> ScopeState]
    BY DEF TypeOK
  <2>2. [scope[s] EXCEPT !.comparisonGeneration = @ + 1] \in ScopeState
    BY <2>1 DEF ScopeState
  <2>3. [scope[s] EXCEPT !.promptGeneration = @ + 1, !.prompts = {}] \in ScopeState
    <3>1. scope[s].promptGeneration + 1 \in Nat /\ {} \in SUBSET Prompts
      BY <2>1 DEF ScopeState
    <3>2. QED BY <2>1, <3>1 DEF ScopeState
  <2>4. [scope[s] EXCEPT !.prompts = @ \ {p}] \in ScopeState
    BY <2>1 DEF ScopeState
  <2>5. [scope[s] EXCEPT !.active = FALSE, !.prompts = {}] \in ScopeState
    BY <2>1 DEF ScopeState
  <2>6. QED BY <2>1, <2>2, <2>3, <2>4, <2>5
           DEF Clear, ClearPrompts, DeletePrompt, DestroyScope
<1>4. UNCHANGED <<expired, owner, births>>
  BY DEF Clear, ClearPrompts, DeletePrompt, DestroyScope
<1>5. QED BY <1>2, <1>3, <1>4 DEF TypeOK

LEMMA TypeStep ==
    ASSUME TypeOK, [Next]_vars
    PROVE  TypeOK'
<1>1. ASSUME NEW o \in Ops, NEW s \in Scopes, NEW r \in Requests, Submit(o, s, r)
      PROVE  TypeOK'
  BY <1>1, SubmitType
<1>2. ASSUME NEW a \in Attempts, StartRefused(a) \/ Start(a)
      PROVE  TypeOK'
  BY <1>2, StartType
<1>3. ASSUME NEW a \in Attempts, NEW usage \in Usages, NEW room \in Room,
             FinishCompleted(a, usage, room)
      PROVE  TypeOK'
  BY <1>3, FinishCompletedType
<1>4. ASSUME NEW a \in Attempts, NEW room \in {"kept", "purged"},
             NEW status \in {"failed", "timeout", "cancelled"},
             FinishFailed(a, status, room)
      PROVE  TypeOK'
  BY <1>4, FinishFailedType
<1>5. ASSUME NEW o \in Ops, Cancel(o) \/ TerminatePending(o)
      PROVE  TypeOK'
  BY <1>5, CleanupType
<1>6. CASE RecoverPending
  BY <1>6, CleanupType
<1>7. ASSUME NEW s \in Scopes, Clear(s) \/ ClearPrompts(s) \/ DestroyScope(s)
      PROVE  TypeOK'
  BY <1>7, RemovalType
<1>8. ASSUME NEW s \in Scopes, NEW p \in Prompts, DeletePrompt(s, p)
      PROVE  TypeOK'
  BY <1>8, RemovalType
<1>9. ASSUME NEW s \in Scopes, PurgeEvidence(s)
      PROVE  TypeOK'
  BY <1>9 DEF TypeOK, ScopeState, PurgeEvidence
<1>10. ASSUME NEW s \in Scopes, NEW role \in MemberRoles, SetRole(s, role)
       PROVE  TypeOK'
  BY <1>10, LimitAssumption DEF TypeOK, ScopeState, SetRole
<1>11. ASSUME NEW o \in Ops, DeadlinePasses(o)
       PROVE  TypeOK'
  BY <1>11 DEF TypeOK, DeadlinePasses
<1>12. CASE AcquireOwner \/ LoseOwner
  BY <1>12, LimitAssumption DEF TypeOK, AcquireOwner, LoseOwner
<1>13. CASE UNCHANGED vars
  BY <1>13 DEF TypeOK, vars
<1>14. QED
  BY <1>1, <1>2, <1>3, <1>4, <1>5, <1>6, <1>7, <1>8, <1>9, <1>10, <1>11, <1>12, <1>13
     DEF Next

\* Every stored operation, attempt and scope keeps the shape its table declares,
\* and authority belongs to a lease that was taken.
THEOREM TypeCorrect == Spec => []TypeOK
<1>1. Init => TypeOK
  BY TypeInit
<1>2. TypeOK /\ [Next]_vars => TypeOK'
  BY TypeStep
<1>3. QED BY <1>1, <1>2, PTL DEF Spec

(***************************************************************************)
(* What a step may do to one attempt: r before, q after.  Every invariant  *)
(* about money follows from these moves.                                   *)
(***************************************************************************)
SameTarget(r, q) == q.provider = r.provider /\ q.reserve = r.reserve

Opened(r, q) ==
    /\ r = Absent
    /\ q.status = "queued" /\ q.hold = q.reserve /\ q.charge = 0
    /\ q.accounting = "not_started" /\ ~q.breach /\ ~q.payload

Refused(r, q) ==
    /\ r = Absent
    /\ q.status \in Terminal /\ q.hold = 0 /\ q.charge = 0
    /\ q.accounting = "not_started" /\ ~q.breach /\ ~q.payload

Released(r, q) ==
    /\ r.status = "queued"
    /\ q.status \in Terminal /\ q.hold = 0 /\ q.charge = r.charge
    /\ q.accounting = r.accounting /\ ~q.breach /\ ~q.payload
    /\ SameTarget(r, q)

Charged(r, q) ==
    /\ r.status = "queued"
    /\ q.status = "running" /\ q.hold = 0 /\ q.charge = r.reserve
    /\ q.accounting = "conservative" /\ ~q.breach /\ ~q.payload
    /\ SameTarget(r, q)

Settled(r, q) ==
    /\ r.status = "running"
    /\ q.status \in Terminal /\ q.hold = 0
    /\ q.accounting # "not_started"
    /\ q.charge # r.charge => q.accounting = "measured_estimate"
    /\ q.charge > q.reserve => q.breach
    /\ SameTarget(r, q)

Erased(r, q) ==
    /\ r.status \in Terminal
    /\ q = [r EXCEPT !.payload = q.payload]
    /\ q.payload => r.payload

\* What any number of rows may do at once: none starts, none is answered.
Quiet(r, q) ==
    \/ q = r
    \/ Released(r, q)
    \/ Settled(r, q) /\ q.charge = r.charge
    \/ Erased(r, q)

\* What every transaction but submit may do to a row, and what any may.
Advanced(r, q) == Quiet(r, q) \/ Charged(r, q) \/ Settled(r, q)

Moved(r, q) == Advanced(r, q) \/ Opened(r, q) \/ Refused(r, q)

\* A move leaves a well accounted row behind.
LEMMA MovedAccounted ==
    ASSUME NEW r \in RowRecord, NEW q \in RowRecord, Accounted(r), Moved(r, q)
    PROVE  Accounted(q)
<1> USE LimitAssumption DEF RowRecord, Accounted, Absent, Live, Terminal, SameTarget
<1>1. CASE q = r
  BY <1>1
<1>2. CASE Opened(r, q)
  BY <1>2 DEF Opened
<1>3. CASE Refused(r, q)
  BY <1>3 DEF Refused
<1>4. CASE Released(r, q)
  BY <1>4 DEF Released
<1>5. CASE Charged(r, q)
  BY <1>5 DEF Charged
<1>6. CASE Settled(r, q)
  BY <1>6 DEF Settled
<1>7. CASE Erased(r, q)
  BY <1>7 DEF Erased
<1>8. QED BY <1>1, <1>2, <1>3, <1>4, <1>5, <1>6, <1>7 DEF Moved, Advanced, Quiet

LEMMA WithdrawnQuiet ==
    ASSUME NEW r \in RowRecord, Accounted(r)
    PROVE  Quiet(r, Withdrawn(r))
<1> DEFINE q == Withdrawn(r)
<1>1. CASE r.status = "absent"
  <2>1. r = Absent
    BY <1>1 DEF Accounted
  <2>2. q = [r EXCEPT !.payload = FALSE, !.status = r.status, !.hold = r.hold]
    BY <1>1 DEF Withdrawn, Live
  <2>3. q = r
    BY <2>1, <2>2 DEF Absent
  <2>4. QED BY <2>3 DEF Quiet
<1>2. CASE r.status = "queued"
  <2>1. Released(r, q)
    BY <1>2 DEF Released, Withdrawn, RowRecord, Accounted, Live, Terminal, SameTarget
  <2>2. QED BY <2>1 DEF Quiet
<1>3. CASE r.status = "running"
  <2>1. Settled(r, q) /\ q.charge = r.charge
    BY <1>3 DEF Settled, Withdrawn, RowRecord, Accounted, Live, Terminal, SameTarget
  <2>2. QED BY <2>1 DEF Quiet
<1>4. CASE r.status \in Terminal
  <2>1. Erased(r, q)
    BY <1>4 DEF Erased, Withdrawn, RowRecord, Live, Terminal
  <2>2. QED BY <2>1 DEF Quiet
<1>5. QED BY <1>1, <1>2, <1>3, <1>4 DEF RowRecord, Live

LEMMA OverQuiet ==
    ASSUME NEW r \in RowRecord, Accounted(r), r.status \in Live,
           NEW status \in Terminal
    PROVE  Quiet(r, [r EXCEPT !.status = status, !.hold = 0])
<1> DEFINE q == [r EXCEPT !.status = status, !.hold = 0]
<1>1. CASE r.status = "queued"
  <2>1. Released(r, q)
    BY <1>1 DEF Released, RowRecord, Accounted, Live, SameTarget
  <2>2. QED BY <2>1 DEF Quiet
<1>2. CASE r.status = "running"
  <2>1. Settled(r, q) /\ q.charge = r.charge
    BY <1>2 DEF Settled, RowRecord, Accounted, Live, SameTarget
  <2>2. QED BY <2>1 DEF Quiet
<1>3. QED BY <1>1, <1>2 DEF Live

LEMMA StartCharges ==
    ASSUME NEW r \in RowRecord, Accounted(r), r.status = "queued"
    PROVE  Charged(r, [r EXCEPT !.status = "running", !.hold = 0, !.charge = r.reserve,
                              !.accounting = "conservative"])
BY DEF Charged, RowRecord, Accounted, Live, SameTarget

LEMMA FailedAdvances ==
    ASSUME NEW r \in RowRecord, Accounted(r), r.status = "running",
           NEW status \in {"failed", "timeout", "cancelled"}
    PROVE  /\ Settled(r, [r EXCEPT !.status = status])
           /\ Settled(r, Withdrawn([r EXCEPT !.status = status]))
<1> DEFINE f == [r EXCEPT !.status = status]
<1>1. status \in Terminal /\ status \notin Live
  BY DEF Terminal, Live
<1>2. Settled(r, f)
  BY <1>1 DEF Settled, RowRecord, Accounted, Live, SameTarget
<1>3. Settled(r, Withdrawn(f))
  BY <1>1 DEF Settled, Withdrawn, RowRecord, Accounted, Live, SameTarget
<1>4. QED BY <1>2, <1>3

LEMMA MeasuredAdvances ==
    ASSUME NEW r \in RowRecord, Accounted(r), r.status = "running",
           NEW usage \in Usage, NEW room \in Room
    PROVE  /\ Settled(r, Measured(r, usage, room))
           /\ Settled(r, Withdrawn(Measured(r, usage, room)))
<1> DEFINE m == Measured(r, usage, room)
<1>1. m \in RowRecord
  BY MeasuredType
<1>2. /\ m.status \in {"completed", "failed"}
      /\ m.hold = 0
      /\ m.provider = r.provider /\ m.reserve = r.reserve
      /\ m.accounting # "not_started"
      /\ m.charge # r.charge => m.accounting = "measured_estimate"
      /\ m.charge > m.reserve => m.breach
  BY DEF Measured, RowRecord, Accounted, Usage
<1>3. m.status \in Terminal /\ m.status \notin Live
  BY <1>2 DEF Terminal, Live
<1>4. Settled(r, m)
  BY <1>2, <1>3 DEF Settled, SameTarget
<1>5. /\ Withdrawn(m).status = m.status
      /\ Withdrawn(m).hold = m.hold
      /\ Withdrawn(m).provider = m.provider /\ Withdrawn(m).reserve = m.reserve
      /\ Withdrawn(m).charge = m.charge /\ Withdrawn(m).breach = m.breach
      /\ Withdrawn(m).accounting = m.accounting
  BY <1>1, <1>3 DEF Withdrawn, RowRecord, Live
<1>6. Settled(r, Withdrawn(m))
  BY <1>4, <1>5 DEF Settled, SameTarget
<1>7. QED BY <1>4, <1>6

LEMMA InsertedMoved ==
    ASSUME NEW target \in Target, NEW refused \in BOOLEAN
    PROVE  /\ Moved(Absent, Inserted(target, refused))
           /\ SameTarget(target, Inserted(target, refused))
           /\ Inserted(target, refused).status # "absent"
<1> DEFINE q == Inserted(target, refused)
<1>1. CASE target.provider \in Available /\ ~refused
  BY <1>1 DEF Moved, Opened, Inserted, SameTarget
<1>2. CASE target.provider \notin Available \/ refused
  BY <1>2 DEF Moved, Refused, Inserted, SameTarget, Terminal
<1>3. QED BY <1>1, <1>2

LEMMA EndedQuiet ==
    ASSUME TypeOK, AccountingShape, NEW S, NEW status \in Terminal,
           NEW a \in Attempts
    PROVE  /\ Quiet(row[a], Ended(S, status)[a])
           /\ row[a].status \in Live =>
                 [Ended(S, status)[a] EXCEPT !.payload = FALSE] = Ended(S, status)[a]
<1>1. row[a] \in RowRecord /\ Accounted(row[a])
  BY DEF TypeOK, AccountingShape
<1>2. Ended(S, status)[a] =
        IF a[1] \in S /\ row[a].status \in Live
        THEN [row[a] EXCEPT !.status = status, !.hold = 0] ELSE row[a]
  BY DEF Ended
<1>3. Quiet(row[a], Ended(S, status)[a])
  <2>1. CASE a[1] \in S /\ row[a].status \in Live
    BY <1>1, <1>2, <2>1, OverQuiet
  <2>2. CASE ~(a[1] \in S /\ row[a].status \in Live)
    BY <1>2, <2>2 DEF Quiet
  <2>3. QED BY <2>1, <2>2
<1>4. ASSUME row[a].status \in Live
      PROVE  [Ended(S, status)[a] EXCEPT !.payload = FALSE] = Ended(S, status)[a]
  <2>1. Ended(S, status)[a] \in RowRecord
    BY EndedType
  <2>2. row[a].payload = FALSE
    BY <1>1, <1>4 DEF Accounted, RowRecord
  <2>3. Ended(S, status)[a].payload = FALSE
    BY <1>1, <1>2, <2>2 DEF RowRecord
  <2>4. QED BY <2>1, <2>3 DEF RowRecord
<1>5. QED BY <1>3, <1>4

LEMMA TombstoneQuiet ==
    ASSUME TypeOK, AccountingShape, NEW S, Tombstone(S), NEW a \in Attempts
    PROVE  Quiet(row[a], row'[a])
<1>1. row[a] \in RowRecord /\ Accounted(row[a])
  BY DEF TypeOK, AccountingShape
<1>2. row'[a] = IF a[1] \in S THEN Withdrawn(row[a]) ELSE row[a]
  BY DEF Tombstone
<1>3. QED BY <1>1, <1>2, WithdrawnQuiet DEF Quiet

LEMMA PublishSettles ==
    ASSUME TypeOK, AccountingShape, NEW b \in Attempts, NEW r, NEW room,
           Settled(row[b], r), Settled(row[b], Withdrawn(r)), Publish(b, r, room),
           NEW a \in Attempts
    PROVE  IF a = b THEN Settled(row[a], row'[a]) ELSE Quiet(row[a], row'[a])
<1>1. row[a] \in RowRecord /\ Accounted(row[a])
  BY DEF TypeOK, AccountingShape
<1>2. CASE a = b
  <2>1. row'[a] = r \/ row'[a] = Withdrawn(r)
    BY <1>2 DEF Publish, TypeOK
  <2>2. QED BY <1>2, <2>1
<1>3. CASE a # b
  <2>1. row'[a] = row[a] \/ row'[a] = Withdrawn(row[a])
    BY <1>3 DEF Publish, TypeOK
  <2>2. QED BY <1>1, <1>3, <2>1, WithdrawnQuiet DEF Quiet
<1>4. QED BY <1>2, <1>3

\* What a tombstone leaves of an attempt.
Removed(q) == ~q.payload /\ q.status \notin Live

LEMMA PublishRemoves ==
    ASSUME TypeOK, NEW b \in Attempts, NEW r \in RowRecord, NEW room,
           head[b[1]] # None, Publish(b, r, room), NEW o \in Ops, head'[o] # head[o]
    PROVE  /\ head'[o] = [head[o] EXCEPT !.tombstone = TRUE]
           /\ head[o] # None
           /\ \A a \in Attempts : a[1] = o => Removed(row'[a])
<1>1. ASSUME NEW q \in RowRecord
      PROVE  Removed(Withdrawn(q))
  BY DEF Removed, Withdrawn, RowRecord, Live
<1>2. room = "purged" /\ o = b[1]
  BY DEF Publish, TypeOK
<1>3. head' = [head EXCEPT ![o] = [head[o] EXCEPT !.tombstone = TRUE]]
  BY <1>2 DEF Publish
<1>4. ASSUME NEW a \in Attempts, a[1] = o
      PROVE  Removed(row'[a])
  <2>1. row'[a] = Withdrawn(r) \/ row'[a] = Withdrawn(row[a])
    BY <1>2, <1>4 DEF Publish
  <2>2. row[a] \in RowRecord
    BY DEF TypeOK
  <2>3. QED BY <1>1, <2>1, <2>2
<1>5. QED BY <1>2, <1>3, <1>4 DEF TypeOK

LEMMA TombstoneRemoves ==
    ASSUME TypeOK, NEW S \in SUBSET Stored, Tombstone(S), NEW o \in Ops
    PROVE  \/ head'[o] = head[o]
           \/ /\ head'[o] = [head[o] EXCEPT !.tombstone = TRUE]
              /\ head[o] # None
              /\ \A a \in Attempts : a[1] = o => Removed(row'[a])
<1>1. ASSUME NEW q \in RowRecord
      PROVE  Removed(Withdrawn(q))
  BY DEF Removed, Withdrawn, RowRecord, Live
<1>2. CASE o \notin S
  BY <1>2 DEF Tombstone
<1>3. CASE o \in S
  <2>1. head'[o] = [head[o] EXCEPT !.tombstone = TRUE] /\ head[o] # None
    BY <1>3 DEF Tombstone, Stored
  <2>2. ASSUME NEW a \in Attempts, a[1] = o
        PROVE  Removed(row'[a])
    <3>1. row'[a] = Withdrawn(row[a]) /\ row[a] \in RowRecord
      BY <1>3, <2>2 DEF Tombstone, TypeOK
    <3>2. QED BY <1>1, <3>1
  <2>3. QED BY <2>1, <2>2
<1>4. QED BY <1>2, <1>3

LEMMA SubmitMoved ==
    ASSUME TypeOK, AccountingShape, RowsMatchHeads,
           NEW o \in Ops, NEW s, NEW r \in Requests, Submit(o, s, r),
           NEW a \in Attempts
    PROVE  Moved(row[a], row'[a])
<1>1. CASE a[1] = o /\ a[2] \in DOMAIN r.targets
  <2>1. row[a] = Absent
    <3>1. row[a].status = "absent"
      BY <1>1 DEF RowsMatchHeads, Submit
    <3>2. QED BY <3>1 DEF AccountingShape, Accounted
  <2>2. r.targets[a[2]] \in Target
    BY <1>1, RequestAssumption
  <2>3. BudgetRefused(o, r) \in BOOLEAN
    BY DEF BudgetRefused
  <2>4. row'[a] = Inserted(r.targets[a[2]], BudgetRefused(o, r))
    BY <1>1 DEF Submit
  <2>5. QED BY <2>1, <2>2, <2>3, <2>4, InsertedMoved
<1>2. CASE ~(a[1] = o /\ a[2] \in DOMAIN r.targets)
  <2>1. row'[a] = row[a]
    BY <1>2 DEF Submit
  <2>2. QED BY <2>1 DEF Moved, Advanced, Quiet
<1>3. QED BY <1>1, <1>2

\* Everything but submit, in one place: what it does to rows and to heads.
AttemptsMove ==
    /\ \A a \in Attempts :
          \/ Quiet(row[a], row'[a])
          \/ Settled(row[a], row'[a])
          \/ Start(a) /\ Charged(row[a], row'[a])
    /\ \A a, b \in Attempts :
          a # b => Quiet(row[a], row'[a]) \/ Quiet(row[b], row'[b])

HeadsMove ==
    \A o \in Ops :
        \/ head'[o] = head[o]
        \/ /\ head'[o] = [head[o] EXCEPT !.tombstone = TRUE]
           /\ head[o] # None
           /\ \A a \in Attempts : a[1] = o => Removed(row'[a])

LEMMA Steps ==
    ASSUME TypeOK, AccountingShape, [Next]_vars,
           ~ \E o \in Ops, s \in Scopes, r \in Requests : Submit(o, s, r)
    PROVE  AttemptsMove /\ HeadsMove
<1>1. \A a \in Attempts : row[a] \in RowRecord /\ Accounted(row[a])
  BY DEF TypeOK, AccountingShape
<1>2. ASSUME NEW b \in Attempts, StartRefused(b)
      PROVE  AttemptsMove /\ HeadsMove
  <2>1. StartRefusal(b) \in Terminal /\ row[b].status \in Live
    BY <1>2 DEF StartRefused, StartRefusal, Startable, Terminal, Live
  <2>2. Quiet(row[b], [row[b] EXCEPT !.status = StartRefusal(b), !.hold = 0])
    BY <1>1, <2>1, OverQuiet
  <2>3. AttemptsMove
    BY <1>2, <2>2 DEF StartRefused, TypeOK, Quiet, AttemptsMove
  <2>4. QED BY <1>2, <2>3 DEF StartRefused, HeadsMove
<1>3. ASSUME NEW b \in Attempts, Start(b)
      PROVE  AttemptsMove /\ HeadsMove
  <2>1. Charged(row[b], [row[b] EXCEPT !.status = "running", !.hold = 0,
                             !.charge = row[b].reserve, !.accounting = "conservative"])
    BY <1>1, <1>3, StartCharges DEF Start, Startable
  <2>2. \A a \in Attempts :
          row'[a] = IF a = b THEN [row[b] EXCEPT !.status = "running", !.hold = 0,
                             !.charge = row[b].reserve, !.accounting = "conservative"]
                    ELSE row[a]
    BY <1>3 DEF Start, TypeOK
  <2>3. AttemptsMove
    BY <1>3, <2>1, <2>2 DEF Quiet, AttemptsMove
  <2>4. QED BY <1>3, <2>3 DEF Start, HeadsMove
<1>4. ASSUME NEW b \in Attempts, NEW usage \in Usages, NEW room \in Room,
             FinishCompleted(b, usage, room)
      PROVE  AttemptsMove /\ HeadsMove
  <2>1. row[b].status = "running" /\ head[b[1]] # None
    BY <1>4 DEF FinishCompleted, Finishable
  <2>2. Publish(b, Measured(row[b], usage, room), room)
    BY <1>4 DEF FinishCompleted
  <2>3. AttemptsMove
    <3>1. \A a \in Attempts :
            IF a = b THEN Settled(row[a], row'[a]) ELSE Quiet(row[a], row'[a])
      BY <1>1, <2>1, <2>2, MeasuredAdvances, PublishSettles, UsageAssumption
    <3>2. QED BY <3>1 DEF AttemptsMove
  <2>4. HeadsMove
    <3>1. Measured(row[b], usage, room) \in RowRecord
      BY <1>1, MeasuredType, UsageAssumption
    <3>2. QED BY <2>1, <2>2, <3>1, PublishRemoves DEF HeadsMove
  <2>5. QED BY <2>3, <2>4
<1>5. ASSUME NEW b \in Attempts, NEW room \in {"kept", "purged"},
             NEW status \in {"failed", "timeout", "cancelled"},
             FinishFailed(b, status, room)
      PROVE  AttemptsMove /\ HeadsMove
  <2>1. row[b].status = "running" /\ head[b[1]] # None
    BY <1>5 DEF FinishFailed, Finishable
  <2>2. Publish(b, [row[b] EXCEPT !.status = status], room)
    BY <1>5 DEF FinishFailed
  <2>3. AttemptsMove
    <3>1. \A a \in Attempts :
            IF a = b THEN Settled(row[a], row'[a]) ELSE Quiet(row[a], row'[a])
      BY <1>1, <2>1, <2>2, FailedAdvances, PublishSettles
    <3>2. QED BY <3>1 DEF AttemptsMove
  <2>4. HeadsMove
    <3>1. [row[b] EXCEPT !.status = status] \in RowRecord
      BY <1>1 DEF RowRecord, Terminal
    <3>2. QED BY <2>1, <2>2, <3>1, PublishRemoves DEF HeadsMove
  <2>5. QED BY <2>3, <2>4
<1>6. ASSUME NEW S, NEW status \in {"cancelled", "interrupted"},
             row' = Ended(S, status), UNCHANGED head
      PROVE  AttemptsMove /\ HeadsMove
  BY <1>6, EndedQuiet DEF Terminal, AttemptsMove, HeadsMove
<1>7. ASSUME NEW o \in Ops, TerminatePending(o)
      PROVE  AttemptsMove /\ HeadsMove
  <2>1. "authority_lost" \in Terminal
    BY DEF Terminal
  <2>2. ASSUME NEW a \in Attempts
        PROVE  row'[a] = Ended({o}, "authority_lost")[a]
    <3>1. Ended({o}, "authority_lost")[a] \in RowRecord
      BY <2>1, EndedType
    <3>2. CASE a[1] = o /\ row[a].status \in Live
      <4>1. row'[a] = [Ended({o}, "authority_lost")[a] EXCEPT !.payload = FALSE]
        BY <1>7, <3>2 DEF TerminatePending
      <4>2. [Ended({o}, "authority_lost")[a] EXCEPT !.payload = FALSE]
              = Ended({o}, "authority_lost")[a]
        BY <2>1, <3>2, EndedQuiet
      <4>3. QED BY <4>1, <4>2
    <3>3. CASE ~(a[1] = o /\ row[a].status \in Live)
      BY <1>7, <3>1, <3>3 DEF TerminatePending, RowRecord
    <3>4. QED BY <3>2, <3>3
  <2>3. AttemptsMove
    <3>1. ASSUME NEW a \in Attempts
          PROVE  Quiet(row[a], row'[a])
      <4>1. Quiet(row[a], Ended({o}, "authority_lost")[a])
        BY <2>1, EndedQuiet
      <4>2. QED BY <2>2, <4>1
    <3>2. QED BY <3>1 DEF AttemptsMove
  <2>4. QED BY <1>7, <2>3 DEF TerminatePending, HeadsMove
<1>8. ASSUME NEW S \in SUBSET Stored, Tombstone(S)
      PROVE  AttemptsMove /\ HeadsMove
  BY <1>8, TombstoneQuiet, TombstoneRemoves DEF AttemptsMove, HeadsMove
<1>9. ASSUME NEW s \in Scopes, Clear(s) \/ ClearPrompts(s) \/ DestroyScope(s)
      PROVE  AttemptsMove /\ HeadsMove
  BY <1>8, <1>9 DEF Clear, ClearPrompts, DestroyScope, Retained
<1>10. ASSUME UNCHANGED <<head, row>>
       PROVE  AttemptsMove /\ HeadsMove
  BY <1>10 DEF Quiet, AttemptsMove, HeadsMove
<1>11. ASSUME NEW o \in Ops, Cancel(o)
       PROVE  AttemptsMove /\ HeadsMove
  BY <1>6, <1>11 DEF Cancel
<1>12. CASE RecoverPending
  BY <1>6, <1>12 DEF RecoverPending
<1>13. ASSUME NEW s \in Scopes, NEW p \in Prompts, DeletePrompt(s, p)
       PROVE  AttemptsMove /\ HeadsMove
  BY <1>8, <1>13 DEF DeletePrompt, Retained
<1>14. ASSUME NEW s \in Scopes, PurgeEvidence(s)
       PROVE  AttemptsMove /\ HeadsMove
  BY <1>10, <1>14 DEF PurgeEvidence
<1>15. ASSUME NEW s \in Scopes, NEW role \in MemberRoles, SetRole(s, role)
       PROVE  AttemptsMove /\ HeadsMove
  BY <1>10, <1>15 DEF SetRole
<1>16. ASSUME NEW o \in Ops, DeadlinePasses(o)
       PROVE  AttemptsMove /\ HeadsMove
  BY <1>10, <1>16 DEF DeadlinePasses
<1>17. CASE AcquireOwner \/ LoseOwner \/ UNCHANGED vars
  BY <1>10, <1>17 DEF AcquireOwner, LoseOwner, vars
<1>18. CASE Next
  <2>1. CASE \E a \in Attempts : StartRefused(a) \/ Start(a)
    BY <1>2, <1>3, <2>1
  <2>2. CASE \E a \in Attempts, usage \in Usages, room \in Room :
                FinishCompleted(a, usage, room)
    BY <1>4, <2>2
  <2>3. CASE \E a \in Attempts, status \in {"failed", "timeout", "cancelled"},
                room \in {"kept", "purged"} : FinishFailed(a, status, room)
    BY <1>5, <2>3
  <2>4. CASE \E o \in Ops : Cancel(o) \/ TerminatePending(o) \/ DeadlinePasses(o)
    BY <1>7, <1>11, <1>16, <2>4
  <2>5. CASE \E s \in Scopes :
                Clear(s) \/ ClearPrompts(s) \/ PurgeEvidence(s) \/ DestroyScope(s)
    BY <1>9, <1>14, <2>5
  <2>6. CASE \E s \in Scopes, p \in Prompts : DeletePrompt(s, p)
    BY <1>13, <2>6
  <2>7. CASE \E s \in Scopes, role \in MemberRoles : SetRole(s, role)
    BY <1>15, <2>7
  <2>8. CASE RecoverPending \/ AcquireOwner \/ LoseOwner
    BY <1>12, <1>17, <2>8
  <2>9. QED
    BY <1>18, <2>1, <2>2, <2>3, <2>4, <2>5, <2>6, <2>7, <2>8 DEF Next
<1>19. QED BY <1>17, <1>18

(***************************************************************************)
(* The inductive invariant.  AccountingShape alone is not inductive: that  *)
(* submit finds the rows it inserts absent is what RowsMatchHeads says.    *)
(***************************************************************************)
LedgerInv == TypeOK /\ AccountingShape /\ RowsMatchHeads

LEMMA AdvancedKeeps ==
    ASSUME NEW r \in RowRecord, NEW q \in RowRecord, Advanced(r, q)
    PROVE  SameTarget(r, q) /\ (q.status = "absent" <=> r.status = "absent")
BY DEF Advanced, Quiet, Released, Charged, Settled, Erased, SameTarget, Terminal,
       RowRecord

LEMMA RowMoves ==
    ASSUME LedgerInv, [Next]_vars, NEW a \in Attempts
    PROVE  Moved(row[a], row'[a])
<1>1. ASSUME NEW o \in Ops, NEW s \in Scopes, NEW r \in Requests, Submit(o, s, r)
      PROVE  Moved(row[a], row'[a])
  BY <1>1, SubmitMoved DEF LedgerInv
<1>2. CASE ~ \E o \in Ops, s \in Scopes, r \in Requests : Submit(o, s, r)
  BY <1>2, Steps DEF LedgerInv, Moved, Advanced, AttemptsMove
<1>3. QED BY <1>1, <1>2

LEMMA SubmitMatches ==
    ASSUME LedgerInv, NEW o \in Ops, NEW s \in Scopes, NEW r \in Requests,
           Submit(o, s, r)
    PROVE  RowsMatchHeads'
<1>1. SUFFICES ASSUME NEW a \in Attempts
               PROVE  IF head'[a[1]] # None /\ a[2] \in DOMAIN head'[a[1]].request.targets
                      THEN /\ row'[a].status # "absent"
                           /\ SameTarget(head'[a[1]].request.targets[a[2]], row'[a])
                      ELSE row'[a].status = "absent"
  BY DEF RowsMatchHeads, SameTarget
<1>2. CASE a[1] = o
  <2>1. head'[o].request = r
    BY DEF Submit, LedgerInv, TypeOK
  <2>2. row[a].status = "absent"
    BY <1>2 DEF Submit, LedgerInv, RowsMatchHeads
  <2>3. CASE a[2] \in DOMAIN r.targets
    <3>1. r.targets[a[2]] \in Target /\ BudgetRefused(o, r) \in BOOLEAN
      BY <2>3, RequestAssumption DEF BudgetRefused
    <3>2. row'[a] = Inserted(r.targets[a[2]], BudgetRefused(o, r))
      BY <1>2, <2>3 DEF Submit
    <3>3. head'[o] # None
      <4>1. head'[o] \in HeadRecord
        <5>1. scope[s] \in ScopeState
          BY DEF LedgerInv, TypeOK
        <5>2. QED BY <5>1 DEF Submit, LedgerInv, TypeOK, ScopeState, HeadRecord
      <4>2. QED BY <4>1, NoneAssumption DEF HeadRecord
    <3>4. QED BY <1>2, <2>1, <2>3, <3>1, <3>2, <3>3, InsertedMoved
  <2>4. CASE a[2] \notin DOMAIN r.targets
    BY <1>2, <2>1, <2>2, <2>4 DEF Submit
  <2>5. QED BY <2>3, <2>4
<1>3. CASE a[1] # o
  <2>1. head'[a[1]] = head[a[1]] /\ row'[a] = row[a]
    BY <1>3 DEF Submit, LedgerInv, TypeOK, Attempts
  <2>2. QED BY <2>1 DEF LedgerInv, RowsMatchHeads, SameTarget
<1>4. QED BY <1>2, <1>3

LEMMA OthersMatch ==
    ASSUME LedgerInv, [Next]_vars, TypeOK',
           ~ \E o \in Ops, s \in Scopes, r \in Requests : Submit(o, s, r)
    PROVE  RowsMatchHeads'
<1>1. SUFFICES ASSUME NEW a \in Attempts
               PROVE  IF head'[a[1]] # None /\ a[2] \in DOMAIN head'[a[1]].request.targets
                      THEN /\ row'[a].status # "absent"
                           /\ SameTarget(head'[a[1]].request.targets[a[2]], row'[a])
                      ELSE row'[a].status = "absent"
  BY DEF RowsMatchHeads, SameTarget
<1>2. Advanced(row[a], row'[a])
  BY Steps DEF LedgerInv, Advanced, AttemptsMove
<1>3. row[a] \in RowRecord /\ row'[a] \in RowRecord
  BY DEF LedgerInv, TypeOK
<1>4. SameTarget(row[a], row'[a]) /\ (row'[a].status = "absent" <=> row[a].status = "absent")
  BY <1>2, <1>3, AdvancedKeeps
<1>5. a[1] \in Ops
  BY DEF Attempts
<1>6. (head'[a[1]] = None <=> head[a[1]] = None)
        /\ (head[a[1]] # None => head'[a[1]].request = head[a[1]].request)
  <2>1. CASE head'[a[1]] = head[a[1]]
    BY <2>1
  <2>2. CASE head[a[1]] # None /\ head'[a[1]] = [head[a[1]] EXCEPT !.tombstone = TRUE]
    <3>1. head[a[1]] \in HeadRecord
      BY <1>5, <2>2, StoredHead DEF LedgerInv
    <3>2. head'[a[1]] \in HeadRecord
      BY <2>2, <3>1 DEF HeadRecord
    <3>3. QED BY <2>2, <3>1, <3>2, NoneAssumption DEF HeadRecord
  <2>3. QED BY <1>5, <2>1, <2>2, Steps DEF LedgerInv, HeadsMove
<1>7. QED BY <1>4, <1>6 DEF LedgerInv, RowsMatchHeads, SameTarget

LEMMA LedgerInit == Init => LedgerInv
<1>1. SUFFICES ASSUME Init PROVE LedgerInv
  OBVIOUS
<1>2. TypeOK
  BY <1>1, TypeInit
<1>3. \A a \in Attempts : row[a] = Absent
  BY <1>1 DEF Init
<1>4. Absent.hold = 0 /\ Absent.charge = 0 /\ Absent.reserve = 0
        /\ Absent.status = "absent"
  BY DEF Absent
<1>5. Accounted(Absent)
  BY <1>4 DEF Accounted, Live
<1>6. AccountingShape
  BY <1>3, <1>5 DEF AccountingShape
<1>7. \A a \in Attempts : head[a[1]] = None
  BY <1>1 DEF Init, Attempts
<1>8. RowsMatchHeads
  BY <1>3, <1>4, <1>7 DEF RowsMatchHeads
<1>9. QED BY <1>2, <1>6, <1>8 DEF LedgerInv

LEMMA LedgerStep ==
    ASSUME LedgerInv, [Next]_vars
    PROVE  LedgerInv'
<1>1. TypeOK'
  BY TypeStep DEF LedgerInv
<1>2. ASSUME NEW a \in Attempts
      PROVE  Accounted(row'[a])
  <2>1. row[a] \in RowRecord /\ row'[a] \in RowRecord /\ Accounted(row[a])
    BY <1>1 DEF LedgerInv, TypeOK, AccountingShape
  <2>2. Moved(row[a], row'[a])
    BY RowMoves
  <2>3. QED BY <2>1, <2>2, MovedAccounted
<1>3. AccountingShape'
  BY <1>2 DEF AccountingShape
<1>4. RowsMatchHeads'
  <2>1. CASE \E o \in Ops, s \in Scopes, r \in Requests : Submit(o, s, r)
    BY <2>1, SubmitMatches
  <2>2. CASE ~ \E o \in Ops, s \in Scopes, r \in Requests : Submit(o, s, r)
    BY <1>1, <2>2, OthersMatch
  <2>3. QED BY <2>1, <2>2
<1>5. QED BY <1>1, <1>3, <1>4 DEF LedgerInv

LEMMA LedgerInvariant == Spec => []LedgerInv
<1>1. LedgerInv /\ [Next]_vars => LedgerInv'
  BY LedgerStep
<1>2. QED BY <1>1, LedgerInit, PTL DEF Spec

\* What every attempt holds and is charged fits its state, whatever cancellation,
\* removal, recovery, refusals and late answers came between.
THEOREM AccountingHolds == Spec => []AccountingShape
<1>1. LedgerInv => AccountingShape
  BY DEF LedgerInv
<1>2. QED BY <1>1, LedgerInvariant, PTL

(***************************************************************************)
(* The action properties about single attempts.                            *)
(***************************************************************************)

\* Once an attempt is over, nothing that comes later changes its outcome or its
\* accounting, and its output can only go.
THEOREM FinalAccountingHolds == Spec => FinalAccounting
<1>1. ASSUME LedgerInv, [Next]_vars, NEW a \in Attempts, row[a].status \in Terminal
      PROVE  /\ row'[a] = [row[a] EXCEPT !.payload = row'[a].payload]
             /\ row'[a].payload => row[a].payload
  <2>1. row[a] \in RowRecord
    BY <1>1 DEF LedgerInv, TypeOK
  <2>2. Moved(row[a], row'[a])
    BY <1>1, RowMoves
  <2>3. row[a].status \notin {"absent", "queued", "running"}
    BY <1>1 DEF Terminal
  <2>4. row'[a] = row[a] \/ Erased(row[a], row'[a])
    BY <2>2, <2>3 DEF Moved, Advanced, Quiet, Opened, Refused, Released, Charged, Settled, Absent
  <2>5. QED BY <2>1, <2>4 DEF Erased, RowRecord
<1>2. LedgerInv /\ [Next]_vars
        => [\A a \in Attempts : row[a].status \in Terminal =>
              /\ row'[a] = [row[a] EXCEPT !.payload = row'[a].payload]
              /\ row'[a].payload => row[a].payload]_vars
  BY <1>1
<1>3. QED BY <1>2, LedgerInvariant, PTL DEF Spec, FinalAccounting

\* No step but the measured answer of a running attempt lowers a charge:
\* cancellation, removal, clear and restart refund nothing.
THEOREM NoRefundHolds == Spec => NoRefund
<1>1. ASSUME LedgerInv, [Next]_vars, NEW a \in Attempts, row'[a].charge < row[a].charge
      PROVE  /\ row[a].status = "running"
             /\ row'[a].accounting = "measured_estimate"
  <2>1. /\ row[a] \in RowRecord /\ Accounted(row[a])
        /\ row'[a] \in RowRecord
    BY <1>1, TypeStep DEF LedgerInv, TypeOK, AccountingShape
  <2>2. Moved(row[a], row'[a])
    BY <1>1, RowMoves
  <2>3. row'[a].charge # row[a].charge /\ row[a].charge # 0
    BY <1>1, <2>1, LimitAssumption DEF RowRecord
  <2>4. row[a] # Absent /\ row[a].status # "queued"
    BY <2>1, <2>3 DEF Absent, Accounted
  <2>5. row'[a] # row[a] /\ ~Erased(row[a], row'[a])
    BY <2>1, <2>3 DEF Erased, RowRecord
  <2>6. Settled(row[a], row'[a])
    BY <2>2, <2>4, <2>5 DEF Moved, Advanced, Quiet, Opened, Refused, Released, Charged
  <2>7. QED BY <2>3, <2>6 DEF Settled
<1>2. LedgerInv /\ [Next]_vars
        => [\A a \in Attempts : row'[a].charge < row[a].charge =>
              /\ row[a].status = "running"
              /\ row'[a].accounting = "measured_estimate"]_vars
  BY <1>1
<1>3. QED BY <1>2, LedgerInvariant, PTL DEF Spec, NoRefund

(***************************************************************************)
(* Money.  What a provider's rows commit is a finite set of units, so its  *)
(* size compares as the sets do.                                           *)
(***************************************************************************)
LEMMA UnitsFinite ==
    /\ IsFiniteSet(Units)
    /\ \A S \in SUBSET Units : IsFiniteSet(S) /\ Cardinality(S) \in Nat
<1>1. IsFiniteSet(Attempts)
  BY FiniteAssumption, FS_Product DEF Attempts
<1>2. IsFiniteSet(1 .. 2 * ChargeCap)
  BY LimitAssumption, FS_Interval
<1>3. IsFiniteSet(Units)
  BY <1>1, <1>2, FS_Product DEF Units
<1>4. QED BY <1>3, FS_Subset, FS_CardinalityType

\* A blown fuse stays blown.
LEMMA BreachPersists ==
    ASSUME LedgerInv, [Next]_vars, NEW p \in Providers, Breached(p)
    PROVE  Breached(p)'
<1>1. PICK a \in Attempts : row[a].provider = p /\ row[a].breach
  BY DEF Breached
<1>2. row[a] \in RowRecord /\ Accounted(row[a])
  BY DEF LedgerInv, TypeOK, AccountingShape
<1>3. row[a] # Absent /\ row[a].status \notin {"queued", "running"}
  BY <1>1, <1>2 DEF Absent, Accounted, Live
<1>4. row'[a] = row[a] \/ Erased(row[a], row'[a])
  BY <1>3, RowMoves DEF Moved, Advanced, Quiet, Opened, Refused, Released, Charged, Settled
<1>5. row'[a].provider = p /\ row'[a].breach
  BY <1>1, <1>2, <1>4 DEF Erased, RowRecord
<1>6. QED BY <1>5 DEF Breached

\* Unless it blows the fuse, an advance commits nothing that was not committed.
LEMMA AdvancedCommits ==
    ASSUME NEW r \in RowRecord, NEW q \in RowRecord, Accounted(r), Advanced(r, q),
           ~q.breach
    PROVE  q.hold + q.charge <= r.hold + r.charge
<1> USE LimitAssumption DEF RowRecord, Accounted, Live, SameTarget
<1>1. CASE q = r
  BY <1>1
<1>2. CASE Released(r, q)
  BY <1>2 DEF Released
<1>3. CASE Charged(r, q)
  BY <1>3 DEF Charged
<1>4. CASE Settled(r, q)
  BY <1>4 DEF Settled
<1>5. CASE Erased(r, q)
  BY <1>5 DEF Erased
<1>6. QED BY <1>1, <1>2, <1>3, <1>4, <1>5 DEF Advanced, Quiet

LEMMA AdvancesCommit ==
    ASSUME LedgerInv, TypeOK', NEW p \in Providers, ~Breached(p)', NEW u \in Units,
           Advanced(row[u[1]], row'[u[1]]), u \in CommittedUnits(p)'
    PROVE  u \in CommittedUnits(p)
<1> DEFINE a == u[1]
<1>1. a \in Attempts /\ u[2] \in Int
  BY DEF Units
<1>2. row[a] \in RowRecord /\ Accounted(row[a]) /\ row'[a] \in RowRecord
  BY <1>1 DEF LedgerInv, TypeOK, AccountingShape
<1>3. row'[a].provider = p /\ u[2] <= row'[a].hold + row'[a].charge
  BY DEF CommittedUnits
<1>4. ~row'[a].breach
  BY <1>1, <1>3 DEF Breached
<1>5. row[a].provider = p
  BY <1>2, <1>3, AdvancedKeeps DEF SameTarget
<1>6. row'[a].hold + row'[a].charge <= row[a].hold + row[a].charge
  BY <1>2, <1>4, AdvancedCommits
<1>7. u[2] <= row[a].hold + row[a].charge
  BY <1>1, <1>2, <1>3, <1>6, LimitAssumption DEF RowRecord
<1>8. QED BY <1>5, <1>7 DEF CommittedUnits

LEMMA OthersWithinCeiling ==
    ASSUME LedgerInv, TypeOK', [Next]_vars, NEW p \in Providers, ~Breached(p)',
           ~ \E o \in Ops, s \in Scopes, r \in Requests : Submit(o, s, r)
    PROVE  Exposure(p)' <= Exposure(p)
<1>1. \A a \in Attempts : Advanced(row[a], row'[a])
  BY Steps DEF LedgerInv, Advanced, AttemptsMove
<1>2. CommittedUnits(p)' \subseteq Units /\ CommittedUnits(p) \subseteq Units
  BY DEF CommittedUnits
<1>3. \A u \in Units : u[1] \in Attempts
  BY DEF Units
<1>4. CommittedUnits(p)' \subseteq CommittedUnits(p)
  BY <1>1, <1>2, <1>3, AdvancesCommit
<1>5. Cardinality(CommittedUnits(p)') <= Cardinality(CommittedUnits(p))
  BY <1>2, <1>4, UnitsFinite, FS_Subset
<1>6. QED BY <1>5 DEF Exposure

LEMMA SubmitWithinCeiling ==
    ASSUME LedgerInv, TypeOK', NEW p \in Providers, ~Breached(p),
           Exposure(p) <= Ceiling[p],
           NEW o \in Ops, NEW s \in Scopes, NEW r \in Requests, Submit(o, s, r)
    PROVE  Exposure(p)' <= Ceiling[p]
<1> DEFINE Before == CommittedUnits(p)
           After == CommittedUnits(p)'
           Wanted == RequestedUnits(o, r, p)
<1>1. /\ Before \subseteq Units /\ After \subseteq Units /\ Wanted \subseteq Units
      /\ p # None
  BY NoneAssumption DEF CommittedUnits, RequestedUnits
<1>2. /\ IsFiniteSet(Before) /\ IsFiniteSet(After) /\ IsFiniteSet(Wanted)
      /\ Cardinality(Before) \in Nat /\ Cardinality(After) \in Nat
      /\ Cardinality(Wanted) \in Nat
  BY <1>1, UnitsFinite
<1>3. Ceiling[p] \in Nat
  BY LimitAssumption
<1>4. ASSUME NEW u \in After
      PROVE  u \in Before \/ (u \in Wanted /\ ~BudgetRefused(o, r))
  <2>1. /\ u \in Units /\ u[1] \in Attempts /\ u[2] \in 1 .. 2 * ChargeCap
        /\ row'[u[1]].provider = p
        /\ u[2] <= row'[u[1]].hold + row'[u[1]].charge
    BY <1>4 DEF CommittedUnits, Units
  <2>2. CASE u[1][1] = o /\ u[1][2] \in DOMAIN r.targets
    <3> DEFINE target == r.targets[u[1][2]]
    <3>1. target \in Target
      BY <2>2, RequestAssumption
    <3>2. row'[u[1]] = Inserted(target, BudgetRefused(o, r))
      BY <2>1, <2>2 DEF Submit
    <3>3. row'[u[1]].charge = 0 /\ row'[u[1]].provider = target.provider
      BY <3>2 DEF Inserted
    <3>4. row'[u[1]].hold \in Int /\ row'[u[1]].hold # 0
      BY <2>1, <3>3, LimitAssumption DEF TypeOK, RowRecord
    <3>5. target.provider \in Available /\ ~BudgetRefused(o, r)
            /\ row'[u[1]].hold = target.reserve
      BY <3>2, <3>4 DEF Inserted
    <3>6. u[2] <= target.reserve
      BY <2>1, <3>1, <3>3, <3>5 DEF Target
    <3>7. QED BY <1>1, <2>1, <2>2, <3>3, <3>5, <3>6 DEF RequestedUnits
  <2>3. CASE ~(u[1][1] = o /\ u[1][2] \in DOMAIN r.targets)
    <3>1. row'[u[1]] = row[u[1]]
      BY <2>1, <2>3 DEF Submit
    <3>2. QED BY <2>1, <3>1 DEF CommittedUnits
  <2>4. QED BY <2>2, <2>3
<1> HIDE DEF Before, After, Wanted
<1>5. CASE After \subseteq Before
  <2>1. Cardinality(After) <= Cardinality(Before)
    BY <1>2, <1>5, FS_Subset
  <2>2. QED BY <1>2, <1>3, <2>1 DEF Exposure, Before, After
<1>6. CASE ~(After \subseteq Before)
  <2>1. After \subseteq Before \cup Wanted /\ Wanted # {} /\ ~BudgetRefused(o, r)
    BY <1>4, <1>6
  <2>2. Exposure(p) + Cardinality(Wanted) <= Ceiling[p]
    BY <1>2, <1>3, <2>1 DEF BudgetRefused, Wanted, Exposure, Before
  <2>3. /\ IsFiniteSet(Before \cup Wanted)
        /\ Cardinality(Before \cup Wanted) <= Cardinality(Before) + Cardinality(Wanted)
    <3>1. Cardinality(Before \cup Wanted) =
            Cardinality(Before) + Cardinality(Wanted) - Cardinality(Before \cap Wanted)
      BY <1>2, FS_Union
    <3>2. Cardinality(Before \cap Wanted) \in Nat
      BY <1>2, FS_Subset, FS_CardinalityType
    <3>3. QED BY <1>2, <3>1, <3>2, FS_Union
  <2>4. Cardinality(After) <= Cardinality(Before \cup Wanted)
    BY <2>1, <2>3, FS_Subset
  <2>5. Cardinality(Before \cup Wanted) \in Nat
    BY <2>3, FS_CardinalityType
  <2>6. QED BY <1>2, <1>3, <2>2, <2>3, <2>4, <2>5 DEF Exposure, Before, After
<1>7. QED BY <1>5, <1>6

\* No provider's attempts hold and cost more than its ceiling before the provider
\* itself reports an overage, over every scope and every history of the ledger.
THEOREM BudgetCeilingHolds == Spec => []BudgetCeiling
<1>1. Init => BudgetCeiling
  <2>1. ASSUME Init, NEW p \in Providers
        PROVE  Exposure(p) <= Ceiling[p]
    <3>1. \A u \in Units : u[1] \in Attempts
      BY DEF Units
    <3>2. CommittedUnits(p) = {}
      BY <2>1, <3>1, NoneAssumption DEF CommittedUnits, Init, Absent
    <3>3. Exposure(p) = 0
      BY <3>2, FS_EmptySet DEF Exposure
    <3>4. QED BY <3>3, LimitAssumption
  <2>2. QED BY <2>1 DEF BudgetCeiling
<1>2. ASSUME LedgerInv, [Next]_vars, BudgetCeiling
      PROVE  BudgetCeiling'
  <2>1. TypeOK'
    BY <1>2, TypeStep DEF LedgerInv
  <2>2. ASSUME NEW p \in Providers, ~Breached(p)'
        PROVE  Exposure(p)' <= Ceiling[p]
    <3>1. ~Breached(p) /\ Exposure(p) <= Ceiling[p]
      BY <1>2, <2>2, BreachPersists DEF BudgetCeiling
    <3>2. CASE \E o \in Ops, s \in Scopes, r \in Requests : Submit(o, s, r)
      BY <1>2, <2>1, <2>2, <3>1, <3>2, SubmitWithinCeiling
    <3>3. CASE ~ \E o \in Ops, s \in Scopes, r \in Requests : Submit(o, s, r)
      <4>1. Exposure(p)' <= Exposure(p)
        BY <1>2, <2>1, <2>2, <3>3, OthersWithinCeiling
      <4>2. Exposure(p)' \in Nat /\ Exposure(p) \in Nat /\ Ceiling[p] \in Nat
        BY UnitsFinite, LimitAssumption DEF Exposure, CommittedUnits
      <4>3. QED BY <3>1, <4>1, <4>2
    <3>4. QED BY <3>2, <3>3
  <2>3. QED BY <2>2 DEF BudgetCeiling
<1>3. LedgerInv /\ BudgetCeiling /\ [Next]_vars => BudgetCeiling'
  BY <1>2
<1>4. QED BY <1>1, <1>3, LedgerInvariant, PTL DEF Spec

(***************************************************************************)
(* Admission: what submit opens, it may open.                              *)
(***************************************************************************)
LEMMA SubmitOpens ==
    ASSUME LedgerInv, NEW o \in Ops, NEW s \in Scopes, NEW r \in Requests,
           Submit(o, s, r), NEW a \in Attempts
    PROVE  \/ row'[a] = row[a]
           \/ /\ Refused(row[a], row'[a])
           \/ /\ Opened(row[a], row'[a])
              /\ a[1] = o
              /\ ~BudgetRefused(o, r)
              /\ row'[a].provider \in Providers
              /\ RequestedUnits(o, r, row'[a].provider) # {}
<1>1. CASE ~(a[1] = o /\ a[2] \in DOMAIN r.targets)
  BY <1>1 DEF Submit
<1>2. CASE a[1] = o /\ a[2] \in DOMAIN r.targets
  <2> DEFINE target == r.targets[a[2]]
             q == Inserted(target, BudgetRefused(o, r))
  <2>1. row[a] = Absent
    BY <1>2 DEF RowsMatchHeads, Submit, LedgerInv, AccountingShape, Accounted
  <2>2. target \in Target
    BY <1>2, RequestAssumption
  <2>3. row'[a] = q
    BY <1>2 DEF Submit
  <2>4. q.provider = target.provider /\ q.provider \in Providers
    BY <2>2 DEF Inserted, Target
  <2>5. CASE target.provider \in Available /\ ~BudgetRefused(o, r)
    <3>1. Opened(Absent, q)
      BY <2>5 DEF Opened, Inserted
    <3>2. <<a, 1>> \in Units /\ 1 <= target.reserve
      BY <2>2, LimitAssumption DEF Units, Target
    <3>3. <<a, 1>> \in RequestedUnits(o, r, q.provider)
      BY <1>2, <2>4, <2>5, <3>2 DEF RequestedUnits
    <3>4. QED BY <1>2, <2>1, <2>3, <2>4, <2>5, <3>1, <3>3
  <2>6. CASE target.provider \notin Available \/ BudgetRefused(o, r)
    <3>1. Refused(Absent, q)
      BY <2>6 DEF Refused, Inserted, Terminal
    <3>2. QED BY <2>1, <2>3, <3>1
  <2>7. QED BY <2>5, <2>6
<1>3. QED BY <1>1, <1>2

\* A provider that once cost more than was reserved for it gets no further work.
THEOREM OverageFuseHolds == Spec => OverageFuse
<1>1. ASSUME LedgerInv, [Next]_vars, NEW a \in Attempts,
             row'[a].status \in Live, row'[a].status # row[a].status
      PROVE  ~Breached(row'[a].provider)
  <2>1. CASE \E o \in Ops, s \in Scopes, r \in Requests : Submit(o, s, r)
    <3>1. PICK o \in Ops, s \in Scopes, r \in Requests : Submit(o, s, r)
      BY <2>1
    <3>2. ~Refused(row[a], row'[a])
      BY <1>1 DEF Refused, Live, Terminal
    <3>3. /\ ~BudgetRefused(o, r)
          /\ row'[a].provider \in Providers
          /\ RequestedUnits(o, r, row'[a].provider) # {}
      BY <1>1, <3>1, <3>2, SubmitOpens
    <3>4. QED BY <3>3 DEF BudgetRefused
  <2>2. CASE ~ \E o \in Ops, s \in Scopes, r \in Requests : Submit(o, s, r)
    <3>1. row[a] \in RowRecord
      BY <1>1 DEF LedgerInv, TypeOK
    <3>2. ~Quiet(row[a], row'[a]) /\ ~Settled(row[a], row'[a])
      BY <1>1, <3>1 DEF Quiet, Released, Settled, Erased, Live, Terminal, RowRecord
    <3>3. Start(a) /\ Charged(row[a], row'[a])
      BY <1>1, <2>2, <3>2, Steps DEF LedgerInv, AttemptsMove
    <3>4. ~Breached(row[a].provider)
      BY <3>3 DEF Start, StartRefusal
    <3>5. QED BY <3>3, <3>4 DEF Charged, SameTarget
  <2>3. QED BY <2>1, <2>2
<1>2. LedgerInv /\ [Next]_vars
        => [\A a \in Attempts : row'[a].status \in Live /\ row'[a].status # row[a].status
              => ~Breached(row'[a].provider)]_vars
  BY <1>1
<1>3. QED BY <1>2, LedgerInvariant, PTL DEF Spec, OverageFuse

(***************************************************************************)
(* Dispatch slots and the queue.                                           *)
(***************************************************************************)
LEMMA RunningBound ==
    ASSUME LedgerInv, [Next]_vars, Cardinality(WithStatus("running")) <= ActiveLimit
    PROVE  Cardinality(WithStatus("running")') <= ActiveLimit
<1> DEFINE Before == WithStatus("running")
           After == WithStatus("running")'
<1>1. IsFiniteSet(Attempts) /\ Before \subseteq Attempts /\ After \subseteq Attempts
  BY FiniteAssumption, FS_Product DEF Attempts, WithStatus
<1>2. /\ IsFiniteSet(Before) /\ IsFiniteSet(After)
      /\ Cardinality(Before) \in Nat /\ Cardinality(After) \in Nat /\ ActiveLimit \in Nat
  BY <1>1, FS_Subset, FS_CardinalityType, LimitAssumption
<1>3. ASSUME NEW a \in After \ Before
      PROVE  Start(a) /\ Charged(row[a], row'[a]) /\ ~Quiet(row[a], row'[a])
  <2>1. a \in Attempts /\ row'[a].status = "running" /\ row[a].status # "running"
    BY <1>3 DEF WithStatus
  <2>2. row[a] \in RowRecord
    BY <2>1 DEF LedgerInv, TypeOK
  <2>3. ~Quiet(row[a], row'[a]) /\ ~Settled(row[a], row'[a])
    BY <2>1, <2>2 DEF Quiet, Released, Settled, Erased, Terminal, RowRecord
  <2>4. ~Opened(row[a], row'[a]) /\ ~Refused(row[a], row'[a])
    BY <2>1 DEF Opened, Refused, Terminal
  <2>5. ~ \E o \in Ops, s \in Scopes, r \in Requests : Submit(o, s, r)
    BY <2>1, <2>4, SubmitOpens
  <2>6. QED BY <2>1, <2>3, <2>5, Steps DEF LedgerInv, AttemptsMove
<1>4. CASE After \subseteq Before
  BY <1>2, <1>4, FS_Subset
<1>5. CASE ~(After \subseteq Before)
  <2>1. PICK a \in After \ Before : TRUE
    BY <1>5
  <2>2. Start(a) /\ Cardinality(Before) < ActiveLimit
    <3>1. Start(a)
      BY <1>3, <2>1
    <3>2. ~(Cardinality(WithStatus("running")) >= ActiveLimit)
      BY <3>1 DEF Start, SlotsTaken
    <3>3. QED BY <1>2, <3>1, <3>2
  <2>3. After \subseteq Before \cup {a}
    <3>1. ASSUME NEW b \in After \ Before
          PROVE  b = a
      <4>1. ~ \E o \in Ops, s \in Scopes, r \in Requests : Submit(o, s, r)
        BY <1>1, <1>3, <2>1, SubmitOpens DEF Charged, Opened, Refused, Absent, Quiet
      <4>2. ~Quiet(row[a], row'[a]) /\ ~Quiet(row[b], row'[b])
        BY <1>3, <2>1, <3>1
      <4>3. QED BY <1>1, <2>1, <3>1, <4>1, <4>2, Steps DEF LedgerInv, AttemptsMove
    <3>2. QED BY <3>1
  <2>4. /\ IsFiniteSet(Before \cup {a})
        /\ Cardinality(Before \cup {a}) = Cardinality(Before) + 1
    BY <1>2, <2>1, FS_AddElement
  <2>5. Cardinality(After) <= Cardinality(Before \cup {a})
    BY <2>3, <2>4, FS_Subset
  <2>6. QED BY <1>2, <2>2, <2>4, <2>5
<1>6. QED BY <1>4, <1>5

LEMMA QueueBound ==
    ASSUME LedgerInv, TypeOK', [Next]_vars, Cardinality(QueuedOperations) <= QueueLimit
    PROVE  Cardinality(QueuedOperations') <= QueueLimit
<1> DEFINE Before == QueuedOperations
           After == QueuedOperations'
<1>1. Before \subseteq Ops /\ After \subseteq Ops
  BY DEF QueuedOperations, WithStatus, Attempts
<1>2. /\ IsFiniteSet(Before) /\ IsFiniteSet(After)
      /\ Cardinality(Before) \in Nat /\ Cardinality(After) \in Nat /\ QueueLimit \in Nat
  BY <1>1, FiniteAssumption, FS_Subset, FS_CardinalityType, LimitAssumption
<1>3. ASSUME NEW a \in Attempts, row'[a].status = "queued", row[a].status # "queued"
      PROVE  Opened(row[a], row'[a])
  <2>1. row[a] \in RowRecord
    BY <1>3 DEF LedgerInv, TypeOK
  <2>2. QED
    BY <1>3, <2>1, RowMoves DEF Moved, Advanced, Quiet, Released, Charged, Settled, Erased,
       Refused, Terminal, RowRecord
<1>4. CASE After \subseteq Before
  BY <1>2, <1>4, FS_Subset
<1>5. CASE ~(After \subseteq Before)
  <2>1. PICK a \in Attempts : row'[a].status = "queued" /\ a[1] \notin Before
    BY <1>5 DEF QueuedOperations, WithStatus
  <2>2. row[a].status # "queued"
    BY <2>1 DEF QueuedOperations, WithStatus
  <2>3. row[a] = Absent /\ row'[a] # Absent
    BY <1>3, <2>1, <2>2 DEF Opened, Absent
  <2>4. PICK o \in Ops, s \in Scopes, r \in Requests : Submit(o, s, r)
    <3>1. row[a] \in RowRecord /\ row'[a] \in RowRecord
      BY DEF LedgerInv, TypeOK
    <3>2. ASSUME Advanced(row[a], row'[a])
          PROVE  FALSE
      BY <2>1, <2>3, <3>1, <3>2, AdvancedKeeps DEF Absent
    <3>3. QED BY <3>2, Steps DEF LedgerInv, AttemptsMove, Advanced
  <2>5. \A b \in Attempts : Opened(row[b], row'[b]) /\ row'[b] # row[b]
            => b[1] = o /\ ~BudgetRefused(o, r)
    BY <2>4, SubmitOpens DEF Opened, Refused, Terminal
  <2>6. Cardinality(Before) < QueueLimit
    BY <1>2, <1>3, <2>1, <2>2, <2>5 DEF BudgetRefused
  <2>7. After \subseteq Before \cup {o}
    BY <1>3, <2>5 DEF QueuedOperations, WithStatus
  <2>8. /\ IsFiniteSet(Before \cup {o})
        /\ Cardinality(Before \cup {o}) \in Nat
        /\ Cardinality(Before \cup {o}) <= Cardinality(Before) + 1
    <3>1. /\ IsFiniteSet(Before \cup {o})
          /\ Cardinality(Before \cup {o}) =
                IF o \in Before THEN Cardinality(Before) ELSE Cardinality(Before) + 1
      BY <1>2, FS_AddElement
    <3> HIDE DEF Before
    <3>2. QED BY <1>2, <3>1
  <2>9. Cardinality(After) <= Cardinality(Before \cup {o})
    BY <2>7, <2>8, FS_Subset
  <2>10. QED BY <1>2, <2>6, <2>8, <2>9
<1>6. QED BY <1>4, <1>5

\* Never more running attempts than dispatch slots, nor more queued operations
\* than the queue admits.
THEOREM DispatchBoundHolds == Spec => []DispatchBound
<1>1. Init => DispatchBound
  <2>1. SUFFICES ASSUME Init PROVE DispatchBound
    OBVIOUS
  <2>2. WithStatus("running") = {} /\ WithStatus("queued") = {}
    BY <2>1 DEF Init, WithStatus, Absent
  <2>3. QueuedOperations = {}
    BY <2>2 DEF QueuedOperations
  <2>4. QED BY <2>2, <2>3, FS_EmptySet, LimitAssumption DEF DispatchBound
<1>2. LedgerInv /\ DispatchBound /\ [Next]_vars => DispatchBound'
  <2>1. SUFFICES ASSUME LedgerInv, DispatchBound, [Next]_vars PROVE DispatchBound'
    OBVIOUS
  <2>2. TypeOK'
    BY <2>1, TypeStep DEF LedgerInv
  <2>3. Cardinality(WithStatus("running")') <= ActiveLimit
    BY <2>1, RunningBound DEF DispatchBound
  <2>4. Cardinality(QueuedOperations') <= QueueLimit
    BY <2>1, <2>2, QueueBound DEF DispatchBound
  <2>5. QED BY <2>3, <2>4 DEF DispatchBound
<1>3. QED BY <1>1, <1>2, LedgerInvariant, PTL DEF Spec

(***************************************************************************)
(* Content.                                                                *)
(***************************************************************************)

\* A removed operation keeps no output and no attempt that could produce one.
THEOREM ContentRemovedHolds == Spec => []ContentRemoved
<1>1. Init => ContentRemoved
  BY DEF Init, ContentRemoved, Attempts
<1>2. ASSUME LedgerInv, [Next]_vars, ContentRemoved
      PROVE  ContentRemoved'
  <2>1. ASSUME NEW a \in Attempts, head'[a[1]] # None, head'[a[1]].tombstone
        PROVE  Removed(row'[a])
    <3>1. a[1] \in Ops /\ row[a] \in RowRecord
      BY <1>2 DEF Attempts, LedgerInv, TypeOK
    <3>2. head[a[1]] # None /\ head[a[1]].tombstone => Removed(row[a])
      BY <1>2 DEF ContentRemoved, Removed
    <3>3. CASE \E o \in Ops, s \in Scopes, r \in Requests : Submit(o, s, r)
      <4>1. PICK o \in Ops, s \in Scopes, r \in Requests : Submit(o, s, r)
        BY <3>3
      <4>2. a[1] # o
        BY <1>2, <2>1, <4>1 DEF Submit, LedgerInv, TypeOK
      <4>3. head'[a[1]] = head[a[1]] /\ row'[a] = row[a]
        BY <3>1, <4>1, <4>2 DEF Submit
      <4>4. QED BY <2>1, <3>2, <4>3
    <3>4. CASE ~ \E o \in Ops, s \in Scopes, r \in Requests : Submit(o, s, r)
      <4>1. AttemptsMove /\ HeadsMove
        BY <1>2, <3>4, Steps DEF LedgerInv
      <4>2. CASE head'[a[1]] = head[a[1]]
        <5>1. Removed(row[a])
          BY <2>1, <3>2, <4>2
        <5>2. row'[a] = row[a] \/ Erased(row[a], row'[a])
          BY <4>1, <5>1 DEF AttemptsMove, Quiet, Released, Charged, Settled, Removed, Live
        <5>3. QED BY <3>1, <5>1, <5>2 DEF Erased, Removed, RowRecord
      <4>3. QED BY <3>1, <4>1, <4>2 DEF HeadsMove
    <3>5. QED BY <3>3, <3>4
  <2>2. QED BY <2>1 DEF ContentRemoved, Removed
<1>3. LedgerInv /\ ContentRemoved /\ [Next]_vars => ContentRemoved'
  BY <1>2
<1>4. QED BY <1>1, <1>3, LedgerInvariant, PTL DEF Spec

\* A prompt leaves its scope's registry only with the operations retained from it:
\* what a step takes from the live prompts it takes from no other operation.
RegistryMoves ==
    \A o \in Ops :
        head[o] # None /\ ~head[o].tombstone =>
            \/ head'[o].tombstone
            \/ head[o].request.prompt \in scope[head[o].scope].prompts
                  => head[o].request.prompt \in scope'[head[o].scope].prompts

LEMMA TombstoneKeepsPrompts ==
    ASSUME TypeOK, NEW s \in Scopes, NEW gone \in SUBSET Prompts,
           Tombstone({o \in Retained(s) : head[o].request.prompt \in gone}),
           \A t \in Scopes : t # s => scope'[t] = scope[t],
           scope[s].prompts \ gone \subseteq scope'[s].prompts
    PROVE  RegistryMoves
<1>1. ASSUME NEW o \in Ops, head[o] # None, ~head[o].tombstone, ~head'[o].tombstone,
             head[o].request.prompt \in scope[head[o].scope].prompts
      PROVE  head[o].request.prompt \in scope'[head[o].scope].prompts
  <2>1. head[o] \in HeadRecord /\ head[o].scope \in Scopes
    BY <1>1, StoredHead DEF HeadRecord
  <2>2. CASE head[o].scope # s
    BY <1>1, <2>1, <2>2
  <2>3. CASE head[o].scope = s
    <3>1. [head[o] EXCEPT !.tombstone = TRUE].tombstone
      BY <2>1 DEF HeadRecord
    <3>2. o \notin {q \in Retained(s) : head[q].request.prompt \in gone}
      BY <1>1, <3>1 DEF Tombstone
    <3>3. o \in Retained(s)
      BY <1>1, <2>3 DEF Retained, Stored
    <3>4. head[o].request.prompt \notin gone
      BY <3>2, <3>3
    <3>5. QED BY <1>1, <2>3, <3>4
  <2>4. QED BY <2>2, <2>3
<1>2. QED BY <1>1 DEF RegistryMoves

LEMMA RegistrySteps ==
    ASSUME TypeOK, [Next]_vars
    PROVE  RegistryMoves
<1>1. scope \in [Scopes -> ScopeState]
  BY DEF TypeOK
<1>2. ASSUME \A s \in Scopes : scope'[s].prompts = scope[s].prompts
      PROVE  RegistryMoves
  <2>1. ASSUME NEW o \in Ops, head[o] # None
        PROVE  head[o].scope \in Scopes
    BY <2>1, StoredHead DEF HeadRecord
  <2>2. QED BY <1>2, <2>1 DEF RegistryMoves
<1>3. ASSUME UNCHANGED scope
      PROVE  RegistryMoves
  BY <1>2, <1>3
<1>4. ASSUME NEW s \in Scopes, Clear(s) \/ PurgeEvidence(s)
      PROVE  RegistryMoves
  BY <1>1, <1>2, <1>4 DEF Clear, PurgeEvidence, ScopeState
<1>5. ASSUME NEW s \in Scopes, NEW role \in MemberRoles, SetRole(s, role)
      PROVE  RegistryMoves
  BY <1>1, <1>2, <1>5 DEF SetRole, ScopeState
<1>6. ASSUME NEW s \in Scopes, ClearPrompts(s) \/ DestroyScope(s)
      PROVE  RegistryMoves
  <2>1. ASSUME NEW o \in Retained(s)
        PROVE  head[o].request.prompt \in Prompts
    BY <2>1, StoredHead, RequestAssumption DEF Retained, Stored, HeadRecord
  <2>2. {o \in Retained(s) : head[o].request.prompt \in Prompts} = Retained(s)
    BY <2>1
  <2>3. Tombstone({o \in Retained(s) : head[o].request.prompt \in Prompts})
    BY <1>6, <2>2 DEF ClearPrompts, DestroyScope
  <2>4. \A t \in Scopes : t # s => scope'[t] = scope[t]
    BY <1>1, <1>6 DEF ClearPrompts, DestroyScope
  <2>5. scope[s].prompts \ Prompts \subseteq scope'[s].prompts
    BY <1>1 DEF ScopeState
  <2>6. QED BY <2>3, <2>4, <2>5, TombstoneKeepsPrompts
<1>7. ASSUME NEW s \in Scopes, NEW p \in Prompts, DeletePrompt(s, p)
      PROVE  RegistryMoves
  <2>1. {o \in Retained(s) : head[o].request.prompt \in {p}}
          = {o \in Retained(s) : head[o].request.prompt = p}
    OBVIOUS
  <2>2. Tombstone({o \in Retained(s) : head[o].request.prompt \in {p}})
    BY <1>7, <2>1 DEF DeletePrompt
  <2>3. \A t \in Scopes : t # s => scope'[t] = scope[t]
    BY <1>1, <1>7 DEF DeletePrompt
  <2>4. scope[s].prompts \ {p} \subseteq scope'[s].prompts
    BY <1>1, <1>7 DEF DeletePrompt, ScopeState
  <2>5. QED BY <2>2, <2>3, <2>4, TombstoneKeepsPrompts
<1>8. CASE UNCHANGED vars
  BY <1>3, <1>8 DEF vars
<1>9. CASE Next
  <2>1. CASE \/ \E o \in Ops, s \in Scopes, r \in Requests : Submit(o, s, r)
             \/ \E a \in Attempts : StartRefused(a) \/ Start(a)
             \/ \E a \in Attempts, usage \in Usages, room \in Room :
                   FinishCompleted(a, usage, room)
             \/ \E a \in Attempts, status \in {"failed", "timeout", "cancelled"},
                   room \in {"kept", "purged"} : FinishFailed(a, status, room)
             \/ \E o \in Ops : Cancel(o) \/ TerminatePending(o) \/ DeadlinePasses(o)
             \/ RecoverPending \/ AcquireOwner \/ LoseOwner
    BY <1>3, <2>1 DEF Submit, StartRefused, Start, FinishCompleted, FinishFailed, Cancel,
          TerminatePending, DeadlinePasses, RecoverPending, AcquireOwner, LoseOwner
  <2>2. CASE ~(\/ \E o \in Ops, s \in Scopes, r \in Requests : Submit(o, s, r)
               \/ \E a \in Attempts : StartRefused(a) \/ Start(a)
               \/ \E a \in Attempts, usage \in Usages, room \in Room :
                     FinishCompleted(a, usage, room)
               \/ \E a \in Attempts, status \in {"failed", "timeout", "cancelled"},
                     room \in {"kept", "purged"} : FinishFailed(a, status, room)
               \/ \E o \in Ops : Cancel(o) \/ TerminatePending(o) \/ DeadlinePasses(o)
               \/ RecoverPending \/ AcquireOwner \/ LoseOwner)
    BY <1>4, <1>5, <1>6, <1>7, <1>9, <2>2 DEF Next
  <2>3. QED BY <2>1, <2>2
<1>10. QED BY <1>8, <1>9

\* As long as an operation is retained, the registry still has the prompt its
\* frozen copy was taken from, so the lookup in start never fails for it.
THEOREM FrozenPromptHolds == Spec => []FrozenPromptLives
<1>1. Init => FrozenPromptLives
  BY DEF Init, FrozenPromptLives, Stored
<1>2. ASSUME LedgerInv, [Next]_vars, FrozenPromptLives
      PROVE  FrozenPromptLives'
  <2>1. ASSUME NEW o \in Ops, head'[o] # None, ~head'[o].tombstone
        PROVE  head'[o].request.prompt \in scope'[head'[o].scope].prompts
    <3>1. head[o] # None /\ ~head[o].tombstone =>
            head[o].request.prompt \in scope[head[o].scope].prompts
      BY <1>2 DEF FrozenPromptLives, Stored
    <3>2. ASSUME head'[o] = head[o]
          PROVE  head'[o].request.prompt \in scope'[head'[o].scope].prompts
      <4>1. RegistryMoves
        BY <1>2, RegistrySteps DEF LedgerInv
      <4>2. QED BY <2>1, <3>1, <3>2, <4>1 DEF RegistryMoves
    <3>3. CASE \E q \in Ops, s \in Scopes, r \in Requests : Submit(q, s, r)
      <4>1. PICK q \in Ops, s \in Scopes, r \in Requests : Submit(q, s, r)
        BY <3>3
      <4>2. CASE q = o
        <5>1. head'[o].request = r /\ head'[o].scope = s
          BY <1>2, <4>1, <4>2 DEF Submit, LedgerInv, TypeOK
        <5>2. r.prompt \in scope'[s].prompts
          BY <4>1 DEF Submit
        <5>3. QED BY <5>1, <5>2
      <4>3. CASE q # o
        <5>1. head'[o] = head[o]
          BY <4>1, <4>3, <1>2 DEF Submit, LedgerInv, TypeOK
        <5>2. QED BY <3>2, <5>1
      <4>4. QED BY <4>2, <4>3
    <3>4. CASE ~ \E q \in Ops, s \in Scopes, r \in Requests : Submit(q, s, r)
      <4>1. HeadsMove
        BY <1>2, <3>4, Steps DEF LedgerInv
      <4>2. ASSUME head'[o] = [head[o] EXCEPT !.tombstone = TRUE], head[o] # None
            PROVE  FALSE
        <5>1. head[o] \in HeadRecord
          BY <1>2, <4>2, StoredHead DEF LedgerInv
        <5>2. QED BY <2>1, <4>2, <5>1 DEF HeadRecord
      <4>3. QED BY <3>2, <4>1, <4>2 DEF HeadsMove
    <3>5. QED BY <3>3, <3>4
  <2>2. QED BY <2>1 DEF FrozenPromptLives, Stored
<1>3. LedgerInv /\ FrozenPromptLives /\ [Next]_vars => FrozenPromptLives'
  BY <1>2
<1>4. QED BY <1>1, <1>3, LedgerInvariant, PTL DEF Spec

(***************************************************************************)
(* The ledger implements SpendPromise.                                     *)
(***************************************************************************)
LEMMA PromiseInit == Init => Promise!Init
<1>1. SUFFICES ASSUME Init PROVE Promise!Init
  OBVIOUS
<1>2. AccountOf(Absent) = Promise!Unopened
  <2>1. /\ Absent.status = "absent" /\ Absent.provider = None
        /\ Absent.hold + Absent.charge = 0
        /\ (Absent.accounting = "measured_estimate") = FALSE /\ Absent.breach = FALSE
    BY DEF Absent
  <2>2. QED BY <2>1 DEF AccountOf, Promise!Unopened
<1>3. \A a \in Attempts : row[a] = Absent
  BY <1>1 DEF Init
<1>4. QED BY <1>2, <1>3 DEF Promise!Init

\* The promise, said of the rows themselves.
LEMMA AccountFields ==
    ASSUME NEW a \in Attempts
    PROVE  /\ [b \in Attempts |-> AccountOf(row[b])][a] = AccountOf(row[a])
           /\ ([b \in Attempts |-> AccountOf(row[b])]')[a] = AccountOf(row'[a])
OBVIOUS

LEMMA AccountMoves ==
    ASSUME LedgerInv, TypeOK', [Next]_vars, NEW a \in Attempts
    PROVE  Promise!Moves(a)
<1> DEFINE r == row[a]
           q == row'[a]
<1>1. r \in RowRecord /\ q \in RowRecord /\ Accounted(r)
  BY DEF LedgerInv, TypeOK, AccountingShape
<1>2. CASE q = r
  BY <1>2 DEF Promise!Moves
<1>3. CASE Opened(r, q)
  <2>1. Promise!Opens(a)
    BY <1>3 DEF Opened, Absent, Promise!Opens, AccountOf
  <2>2. QED BY <2>1 DEF Promise!Moves
<1>4. CASE Refused(r, q)
  <2>1. Promise!Refuses(a)
    BY <1>4 DEF Refused, Absent, Terminal, Promise!Refuses, AccountOf
  <2>2. QED BY <2>1 DEF Promise!Moves
<1>5. CASE Released(r, q)
  <2>1. /\ r.status = "queued" /\ q.status \in Terminal
        /\ q.hold + q.charge = 0 /\ q.provider = r.provider
        /\ q.accounting = "not_started" /\ ~q.breach
    BY <1>1, <1>5 DEF Released, SameTarget, Accounted
  <2>2. AccountOf(r).state = "held" /\ AccountOf(q).state = "settled"
    BY <2>1 DEF AccountOf, Terminal
  <2>3. /\ AccountOf(q).amount = 0 /\ AccountOf(q).provider = AccountOf(r).provider
        /\ ~AccountOf(q).measured /\ ~AccountOf(q).overdrawn
    BY <2>1 DEF AccountOf
  <2>4. Promise!Releases(a)
    BY <2>2, <2>3 DEF Promise!Releases
  <2>5. QED BY <2>4 DEF Promise!Moves
<1>6. CASE Settled(r, q)
  <2>1. /\ r.status = "running" /\ q.status \in Terminal
        /\ q.provider = r.provider
        /\ r.hold = 0 /\ q.hold = 0 /\ r.charge = q.reserve
        /\ q.charge # r.charge => q.accounting = "measured_estimate"
        /\ q.charge > q.reserve => q.breach
    BY <1>1, <1>6 DEF Settled, SameTarget, Accounted
  <2>2. r.charge \in Int /\ q.charge \in Int
    BY <1>1, LimitAssumption DEF RowRecord
  <2>3. AccountOf(r).state = "spent" /\ AccountOf(q).state = "settled"
    BY <2>1 DEF AccountOf, Terminal
  <2>4. AccountOf(r).amount = r.charge /\ AccountOf(q).amount = q.charge
    BY <2>1, <2>2 DEF AccountOf
  <2>5. /\ AccountOf(q).provider = AccountOf(r).provider
        /\ q.accounting = "measured_estimate" => AccountOf(q).measured
        /\ q.breach => AccountOf(q).overdrawn
    BY <2>1 DEF AccountOf
  <2>6. Promise!Settles(a)
    BY <2>1, <2>3, <2>4, <2>5 DEF Promise!Settles
  <2>7. QED BY <2>6 DEF Promise!Moves
<1>7. CASE Erased(r, q)
  <2>1. AccountOf(q) = AccountOf(r)
    BY <1>1, <1>7 DEF Erased, RowRecord, AccountOf
  <2>2. QED BY <2>1 DEF Promise!Moves
<1>8. CASE Charged(r, q)
  <2>1. Start(a)
    <3>1. ~Quiet(r, q) /\ ~Settled(r, q)
      BY <1>1, <1>8 DEF Charged, Quiet, Released, Settled, Erased, Terminal, RowRecord
    <3>2. ~ \E o \in Ops, s \in Scopes, x \in Requests : Submit(o, s, x)
      BY <1>8, SubmitOpens DEF Charged, Opened, Refused, Absent
    <3>3. QED BY <3>1, <3>2, Steps DEF LedgerInv, AttemptsMove
  <2>2. ~Breached(r.provider)
    BY <2>1 DEF Start, StartRefusal
  <2>3. ~Promise!Overdrawn(r.provider)
    BY <2>2 DEF Promise!Overdrawn, Breached, AccountOf
  <2>4. Promise!Spends(a)
    BY <1>1, <1>8, <2>3, LimitAssumption DEF Charged, SameTarget, Accounted, RowRecord,
       Live, Promise!Spends, AccountOf
  <2>5. QED BY <2>4 DEF Promise!Moves
<1>9. QED
  BY <1>2, <1>3, <1>4, <1>5, <1>6, <1>7, <1>8, RowMoves DEF Moved, Advanced, Quiet

LEMMA PromiseExposure ==
    ASSUME NEW p
    PROVE  /\ Promise!Exposure(p) = Exposure(p)
           /\ Promise!Exposure(p)' = Exposure(p)'
<1>1. \A u \in Units : u[1] \in Attempts
  BY DEF Units
<1>2. {u \in Attempts \X (1 .. 2 * ChargeCap) :
          /\ [b \in Attempts |-> AccountOf(row[b])][u[1]].provider = p
          /\ u[2] <= [b \in Attempts |-> AccountOf(row[b])][u[1]].amount}
        = CommittedUnits(p)
  BY <1>1 DEF CommittedUnits, AccountOf, Units
<1>3. ({u \in Attempts \X (1 .. 2 * ChargeCap) :
          /\ [b \in Attempts |-> AccountOf(row[b])][u[1]].provider = p
          /\ u[2] <= [b \in Attempts |-> AccountOf(row[b])][u[1]].amount})'
        = CommittedUnits(p)'
  BY <1>1 DEF CommittedUnits, AccountOf, Units
<1>4. Promise!Exposure(p) = Exposure(p)
  BY <1>2 DEF Promise!Exposure, Exposure, Promise!Cardinality, Cardinality
<1>5. Promise!Exposure(p)' = Exposure(p)'
  BY <1>3 DEF Promise!Exposure, Exposure, Promise!Cardinality, Cardinality
<1>6. QED BY <1>4, <1>5

LEMMA PromiseBudget ==
    ASSUME LedgerInv, TypeOK', [Next]_vars, NEW p \in Providers
    PROVE  Promise!WithinBudget(p)
<1>1. SUFFICES ASSUME NEW a \in Attempts, Promise!Opens(a), row'[a].provider = p
               PROVE  ~Breached(p) /\ Exposure(p)' <= Ceiling[p]
  <2>1. Promise!Overdrawn(p) <=> Breached(p)
    BY DEF Promise!Overdrawn, Breached, AccountOf
  <2>2. QED BY <2>1, PromiseExposure DEF Promise!WithinBudget, AccountOf
<1>2. row[a] \in RowRecord /\ row'[a] \in RowRecord
  BY DEF LedgerInv, TypeOK
<1>3. row[a].status = "absent" /\ row'[a].status = "queued"
  BY <1>1, <1>2 DEF Promise!Opens, AccountOf
<1>4. ~Advanced(row[a], row'[a])
  BY <1>2, <1>3, AdvancedKeeps
<1>5. PICK o \in Ops, s \in Scopes, r \in Requests : Submit(o, s, r)
  BY <1>4, Steps DEF LedgerInv, AttemptsMove, Advanced
<1>6. ~BudgetRefused(o, r) /\ RequestedUnits(o, r, p) # {}
  BY <1>1, <1>3, <1>5, SubmitOpens DEF Refused, Terminal
<1>7. /\ Exposure(p) \in Nat /\ Cardinality(RequestedUnits(o, r, p)) \in Nat
      /\ Ceiling[p] \in Nat
  BY UnitsFinite, LimitAssumption DEF Exposure, CommittedUnits, RequestedUnits
<1>8. /\ ~Breached(p)
      /\ ~(Exposure(p) + Cardinality(RequestedUnits(o, r, p)) > Ceiling[p])
  BY <1>6 DEF BudgetRefused
<1>9. Exposure(p) <= Ceiling[p]
  BY <1>7, <1>8
<1>10. QED BY <1>5, <1>8, <1>9, SubmitWithinCeiling

LEMMA PromiseOneAtATime ==
    ASSUME LedgerInv, TypeOK', [Next]_vars
    PROVE  Promise!OneAtATime
<1>1. ASSUME NEW a \in Attempts, Promise!Spends(a) \/ Promise!Answered(a)
      PROVE  /\ ~Quiet(row[a], row'[a])
             /\ row[a].status \in Live
             /\ row'[a] # row[a]
  <2>1. row[a] \in RowRecord /\ row'[a] \in RowRecord /\ Accounted(row[a])
    BY DEF LedgerInv, TypeOK, AccountingShape
  <2>2. CASE Promise!Spends(a)
    <3>1. row[a].status = "queued"
      BY <2>1, <2>2 DEF Promise!Spends, AccountOf
    <3>2. AccountOf(row'[a]).state = "spent"
      BY <2>2 DEF Promise!Spends, AccountOf
    <3>3. row'[a].status = "running"
      BY <2>1, <3>2 DEF AccountOf
    <3>4. QED
      BY <2>1, <3>1, <3>3 DEF Quiet, Released, Settled, Erased, Terminal, Live
  <2>3. CASE Promise!Answered(a)
    <3>1. row[a].status = "running"
      BY <2>1, <2>3 DEF Promise!Answered, Promise!Settles, AccountOf
    <3>2. row'[a].hold + row'[a].charge # row[a].hold + row[a].charge
      BY <2>3 DEF Promise!Answered, AccountOf
    <3>3. row[a].hold = 0
      BY <2>1, <3>1 DEF Accounted
    <3>4. QED
      BY <2>1, <3>1, <3>2, <3>3 DEF Quiet, Released, Settled, Erased, Terminal, Live
  <2>4. QED BY <1>1, <2>2, <2>3
<1>2. ASSUME NEW a \in Attempts, NEW b \in Attempts, a # b,
             Promise!Spends(a) \/ Promise!Answered(a),
             Promise!Spends(b) \/ Promise!Answered(b)
      PROVE  FALSE
  <2>1. ~Quiet(row[a], row'[a]) /\ ~Quiet(row[b], row'[b])
    BY <1>1, <1>2
  <2>2. row'[a] # row[a] /\ row[a].status \in Live
    BY <1>1, <1>2
  <2>3. ~ \E o \in Ops, s \in Scopes, r \in Requests : Submit(o, s, r)
    BY <2>2, SubmitOpens DEF Opened, Refused, Absent, Live
  <2>4. QED BY <1>2, <2>1, <2>3, Steps DEF LedgerInv, AttemptsMove
<1>3. QED BY <1>2 DEF Promise!OneAtATime

\* The ledger keeps the promise about money: one account per attempt, opened under
\* the ceiling, spent in full, settled once, never refunded but by a measurement.
THEOREM PromiseHolds == Spec => PromiseKept
<1>1. ASSUME LedgerInv, [Next]_vars
      PROVE  Promise!Next
  <2>1. TypeOK'
    BY <1>1, TypeStep DEF LedgerInv
  <2>2. QED
    BY <1>1, <2>1, AccountMoves, PromiseBudget, PromiseOneAtATime DEF Promise!Next
<1>2. LedgerInv /\ [Next]_vars
        => [Promise!Next]_([a \in Attempts |-> AccountOf(row[a])])
  BY <1>1
<1>3. QED BY <1>2, PromiseInit, LedgerInvariant, PTL
         DEF Spec, PromiseKept, Promise!Spec
=============================================================================
