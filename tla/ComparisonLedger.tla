---------------------------- MODULE ComparisonLedger ----------------------------
(***************************************************************************)
(* The durable half of model comparisons: the two SQLite tables            *)
(* prompt_comparisons (here `head') and prompt_comparison_attempts (here   *)
(* `row'), the counters that fence access to them, and the transactions of *)
(* ComparisonStore that read and write them, with the triggers those       *)
(* transactions fire.  Every action is one immediate transaction that      *)
(* commits; a transaction that throws changes nothing and is no step.      *)
(*                                                                         *)
(* An operation is named by its operation key, unique in a scope, so Ops   *)
(* stands for keys and for the receipts stored under them.  Request digests *)
(* are the requests themselves, money is in micro-USD, and the compiled    *)
(* prompt, the model output and the frozen rate are only present or gone.  *)
(***************************************************************************)
EXTENDS Integers, FiniteSets

CONSTANTS
    Ops,             \* operation keys a client may submit
    Positions,       \* target positions of one operation
    Scopes,          \* local:local, or one scope per Team project
    Prompts,         \* saved prompts
    Providers,       \* openai, anthropic
    Requests,        \* the requests clients submit, see RequestAssumption
    Available,       \* providers with usable credentials at startup
    Ceiling,         \* configured budget of each provider
    ChargeCap,       \* chargeCap of comparison-store.ts
    ActiveLimit,     \* COMPARISON_LIMITS.active
    QueueLimit,      \* COMPARISON_LIMITS.queued
    GlobalLimit,     \* COMPARISON_LIMITS.operationsGlobal
    ScopeLimit,      \* COMPARISON_LIMITS.operationsPerScope
    AttemptLimit,    \* COMPARISON_LIMITS.attemptsGlobal
    MaxGeneration,   \* Number.MAX_SAFE_INTEGER, where a counter refuses to move
    MaxOwners,       \* model bound: leases taken over the life of the database
    Usages,          \* what providers report, see UsageAssumption
    MemberRoles,     \* roles the member acting in a scope may be given
    None             \* no stored request, no provider

Attempts == Ops \X Positions

Roles == {"none", "viewer", "editor", "admin"}

Target == [provider : Providers, reserve : 1 .. ChargeCap]

ASSUME FiniteAssumption ==
    IsFiniteSet(Ops) /\ IsFiniteSet(Positions) /\ IsFiniteSet(Scopes)

ASSUME LimitAssumption ==
    /\ ChargeCap \in Nat /\ MaxGeneration \in Nat /\ MaxOwners \in Nat
    /\ ActiveLimit \in Nat /\ QueueLimit \in Nat
    /\ GlobalLimit \in Nat /\ ScopeLimit \in Nat /\ AttemptLimit \in Nat
    /\ Ceiling \in [Providers -> Nat]
    /\ Available \subseteq Providers
    /\ MemberRoles \subseteq Roles

ASSUME RequestAssumption ==
    \A r \in Requests :
        /\ r.prompt \in Prompts
        /\ r.budget \in Nat
        /\ DOMAIN r.targets \in (SUBSET Positions) \ {{}}
        /\ r.targets \in [DOMAIN r.targets -> Target]

\* Token usage priced by the frozen rate: unpriced, or an amount that may exceed
\* every representable charge; and whether the token ceilings were exceeded.
Usage == [known : BOOLEAN, amount : 0 .. ChargeCap + 1, tokensExceeded : BOOLEAN]

ASSUME UsageAssumption == Usages \subseteq Usage

ASSUME NoneAssumption ==
    /\ None \notin Providers
    /\ None \notin [scope : Scopes, request : Requests, promptGeneration : Nat,
                    evidenceGeneration : Nat, comparisonGeneration : Nat,
                    tombstone : BOOLEAN]

VARIABLES
    head,      \* Ops -> stored request, or None
    row,       \* Attempts -> stored attempt, status "absent" before insertion
    scope,     \* Scopes -> generations, activity, the member's role, live prompts
    expired,   \* operations whose attempt deadline (admission + attemptMs) passed
    owner,     \* birth of the lease that holds authority, 0 when nobody does
    births     \* leases taken so far

vars == <<head, row, scope, expired, owner, births>>

(***************************************************************************)
(* Types.                                                                  *)
(***************************************************************************)
Live == {"queued", "running"}

Terminal == {"completed", "failed", "timeout", "cancelled", "unavailable",
             "budget_refused", "interrupted", "authority_lost"}

Accounting == {"not_started", "measured_estimate", "conservative",
               "unrepresentable_overage"}

HeadRecord == [scope : Scopes, request : Requests, promptGeneration : Nat,
               evidenceGeneration : Nat, comparisonGeneration : Nat,
               tombstone : BOOLEAN]

RowRecord == [status : Live \cup Terminal \cup {"absent"},
              provider : Providers \cup {None}, reserve : 0 .. ChargeCap,
              hold : 0 .. ChargeCap, charge : 0 .. ChargeCap,
              accounting : Accounting, breach : BOOLEAN, payload : BOOLEAN]

ScopeState == [promptGeneration : Nat, evidenceGeneration : Nat,
               comparisonGeneration : Nat, active : BOOLEAN, role : Roles,
               prompts : SUBSET Prompts]

TypeOK ==
    /\ head \in [Ops -> HeadRecord \cup {None}]
    /\ row \in [Attempts -> RowRecord]
    /\ scope \in [Scopes -> ScopeState]
    /\ expired \in SUBSET Ops
    /\ owner \in 0 .. MaxOwners
    /\ births \in 0 .. MaxOwners
    /\ owner <= births

(***************************************************************************)
(* Reads.                                                                  *)
(***************************************************************************)
Stored == {o \in Ops : head[o] # None}

Retained(s) == {o \in Stored : head[o].scope = s /\ ~head[o].tombstone}

WithStatus(status) == {a \in Attempts : row[a].status = status}

\* The generations a request handler captures and every transaction compares.
Current(s) ==
    [promptGeneration |-> scope[s].promptGeneration,
     evidenceGeneration |-> scope[s].evidenceGeneration,
     comparisonGeneration |-> scope[s].comparisonGeneration,
     owner |-> owner]

Can(role, capability) ==
    \/ role = "admin"
    \/ role = "editor" /\ capability \in {"read", "edit"}
    \/ role = "viewer" /\ capability = "read"

\* #generation: the caller is authorized, the lease is live, the scope active.
Authorized(s, capability) ==
    /\ owner # 0
    /\ scope[s].active
    /\ Can(scope[s].role, capability)

\* The generations an operation was admitted under are still the scope's.
Admissible(o) ==
    LET s == head[o].scope
    IN  /\ head[o].promptGeneration = scope[s].promptGeneration
        /\ head[o].evidenceGeneration = scope[s].evidenceGeneration
        /\ head[o].comparisonGeneration = scope[s].comparisonGeneration

(***************************************************************************)
(* The sum over a provider's rows of hold and charge, as the number of     *)
(* micro-USD units those rows commit: unit i of attempt a is committed     *)
(* when i does not exceed the row's hold plus its charge.                  *)
(***************************************************************************)
Units == Attempts \X (1 .. 2 * ChargeCap)

CommittedUnits(p) ==
    {u \in Units : /\ row[u[1]].provider = p
                   /\ u[2] <= row[u[1]].hold + row[u[1]].charge}

Exposure(p) == Cardinality(CommittedUnits(p))

Breached(p) == \E a \in Attempts : row[a].provider = p /\ row[a].breach

\* The units request r would hold for provider p, of any provider if p is None.
RequestedUnits(o, r, p) ==
    {u \in Units :
        /\ u[1][1] = o
        /\ u[1][2] \in DOMAIN r.targets
        /\ r.targets[u[1][2]].provider \in Available
        /\ p # None => r.targets[u[1][2]].provider = p
        /\ u[2] <= r.targets[u[1][2]].reserve}

QueuedOperations == {a[1] : a \in WithStatus("queued")}

(***************************************************************************)
(* The privacy triggers: a tombstoned operation loses its content, its     *)
(* unfinished attempts lose their authority, and no charge changes.        *)
(***************************************************************************)
\* Mutant of Withdrawn: the trigger ends only what waits in the queue.
WithdrawnQueuedOnly(r) ==
    [r EXCEPT !.payload = FALSE,
              !.status = IF @ = "queued" THEN "authority_lost" ELSE @,
              !.hold = IF r.status = "queued" THEN 0 ELSE @]

Withdrawn(r) ==
    [r EXCEPT !.payload = FALSE,
              !.status = IF @ \in Live THEN "authority_lost" ELSE @,
              !.hold = IF r.status = "queued" THEN 0 ELSE @]

Tombstone(S) ==
    /\ head' = [o \in Ops |-> IF o \in S THEN [head[o] EXCEPT !.tombstone = TRUE]
                              ELSE head[o]]
    /\ row' = [a \in Attempts |-> IF a[1] \in S THEN Withdrawn(row[a]) ELSE row[a]]

(***************************************************************************)
(* submit: admits the whole operation or refuses every available target.   *)
(***************************************************************************)
\* Mutant of BudgetRefused: compares what is committed already, without the request.
BudgetRefusedLate(o, r) ==
    \/ Cardinality(QueuedOperations) >= QueueLimit
    \/ Cardinality(RequestedUnits(o, r, None)) > r.budget
    \/ \E p \in Providers :
          /\ RequestedUnits(o, r, p) # {}
          /\ Breached(p) \/ Exposure(p) >= Ceiling[p]

BudgetRefused(o, r) ==
    \/ Cardinality(QueuedOperations) >= QueueLimit
    \/ Cardinality(RequestedUnits(o, r, None)) > r.budget
    \/ \E p \in Providers :
          /\ RequestedUnits(o, r, p) # {}
          /\ \/ Breached(p)
             \/ Exposure(p) + Cardinality(RequestedUnits(o, r, p)) > Ceiling[p]

Inserted(target, refused) ==
    LET status == IF target.provider \notin Available THEN "unavailable"
                  ELSE IF refused THEN "budget_refused" ELSE "queued"
    IN  [status |-> status, provider |-> target.provider,
         reserve |-> target.reserve,
         hold |-> IF status = "queued" THEN target.reserve ELSE 0,
         charge |-> 0, accounting |-> "not_started",
         breach |-> FALSE, payload |-> FALSE]

HasCapacity(s, r) ==
    /\ Cardinality(Stored) < GlobalLimit
    /\ Cardinality({o \in Stored : head[o].scope = s}) < ScopeLimit
    /\ Cardinality(Attempts \ WithStatus("absent"))
          + Cardinality(DOMAIN r.targets) <= AttemptLimit

Submit(o, s, r) ==
    /\ Authorized(s, "edit")
    /\ head[o] = None
    /\ HasCapacity(s, r)
    /\ r.prompt \in scope[s].prompts
    /\ head' = [head EXCEPT ![o] =
          [scope |-> s, request |-> r,
           promptGeneration |-> scope[s].promptGeneration,
           evidenceGeneration |-> scope[s].evidenceGeneration,
           comparisonGeneration |-> scope[s].comparisonGeneration,
           tombstone |-> FALSE]]
    /\ row' = [a \in Attempts |->
          IF a[1] = o /\ a[2] \in DOMAIN r.targets
          THEN Inserted(r.targets[a[2]], BudgetRefused(o, r))
          ELSE row[a]]
    /\ UNCHANGED <<scope, expired, owner, births>>

(***************************************************************************)
(* start: refuses a queued attempt whose authority, deadline or provider   *)
(* was lost meanwhile, or takes one of the dispatch slots and charges the  *)
(* whole reservation before the request is sent.                           *)
(***************************************************************************)
Startable(a) ==
    /\ head[a[1]] # None
    /\ ~head[a[1]].tombstone
    /\ Authorized(head[a[1]].scope, "edit")
    /\ row[a].status = "queued"

\* Mutant of StartRefusal: admission checked the fuse, so start does not.
StartRefusalWithoutFuse(a) ==
    IF ~Admissible(a[1]) THEN "authority_lost"
    ELSE IF a[1] \in expired THEN "timeout" ELSE "none"

\* Why start refuses a, "none" when it does not.
StartRefusal(a) ==
    IF ~Admissible(a[1]) THEN "authority_lost"
    ELSE IF a[1] \in expired THEN "timeout"
    ELSE IF Breached(row[a].provider) THEN "budget_refused"
    ELSE "none"

StartRefused(a) ==
    /\ Startable(a)
    /\ StartRefusal(a) # "none"
    /\ row' = [row EXCEPT ![a] = [@ EXCEPT !.status = StartRefusal(a), !.hold = 0]]
    /\ UNCHANGED <<head, scope, expired, owner, births>>

SlotsTaken == Cardinality(WithStatus("running")) >= ActiveLimit

Start(a) ==
    /\ Startable(a)
    /\ StartRefusal(a) = "none"
    /\ ~SlotsTaken
    /\ head[a[1]].request.prompt \in scope[head[a[1]].scope].prompts
    /\ row' = [row EXCEPT ![a] = [@ EXCEPT !.status = "running", !.hold = 0,
                                           !.charge = row[a].reserve,
                                           !.accounting = "conservative"]]
    /\ UNCHANGED <<head, scope, expired, owner, births>>

(***************************************************************************)
(* finish: the provider's answer replaces the conservative charge by the   *)
(* measured one, even above the reservation, which breaches the provider's *)
(* fuse; a failure keeps the charge.  `room' is what retention leaves for  *)
(* the content: all of it, none of the payload (which also stands for an   *)
(* oversized payload), or not even the operation's request.                *)
(***************************************************************************)
Room == {"kept", "dropped", "purged"}

Finishable(a) ==
    /\ head[a[1]] # None
    /\ ~head[a[1]].tombstone
    /\ Authorized(head[a[1]].scope, "edit")
    /\ row[a].status = "running"

\* Mutant of Measured: records the overage it cannot represent.
MeasuredUncapped(r, usage, room) ==
    [r EXCEPT !.status = IF room = "kept" THEN "completed" ELSE "failed",
              !.payload = room = "kept",
              !.charge = IF usage.known THEN usage.amount ELSE r.reserve,
              !.accounting = IF usage.known THEN "measured_estimate" ELSE "conservative",
              !.breach = \/ usage.tokensExceeded
                         \/ usage.known /\ usage.amount > r.reserve]

Measured(r, usage, room) ==
    LET fits == usage.known /\ usage.amount <= ChargeCap
    IN  [r EXCEPT !.status = IF room = "kept" THEN "completed" ELSE "failed",
                  !.payload = room = "kept",
                  !.charge = IF fits THEN usage.amount ELSE r.reserve,
                  !.accounting = IF fits THEN "measured_estimate"
                                 ELSE IF usage.known THEN "unrepresentable_overage"
                                 ELSE "conservative",
                  !.breach = \/ usage.tokensExceeded
                             \/ usage.known /\ usage.amount > r.reserve]

\* Stores r as attempt a's outcome and, when purging, tombstones its operation.
Publish(a, r, room) ==
    IF room = "purged"
    THEN /\ head' = [head EXCEPT ![a[1]] = [@ EXCEPT !.tombstone = TRUE]]
         /\ row' = [b \in Attempts |->
               IF b = a THEN Withdrawn(r)
               ELSE IF b[1] = a[1] THEN Withdrawn(row[b]) ELSE row[b]]
    ELSE /\ row' = [row EXCEPT ![a] = r]
         /\ UNCHANGED head

FinishCompleted(a, usage, room) ==
    /\ Finishable(a)
    /\ Publish(a, Measured(row[a], usage, room), room)
    /\ UNCHANGED <<scope, expired, owner, births>>

\* Mutant of FinishFailed: a failed request is not paid for.
FinishFailedRefunding(a, status, room) ==
    /\ Finishable(a)
    /\ Publish(a, [row[a] EXCEPT !.status = status, !.charge = 0], room)
    /\ UNCHANGED <<scope, expired, owner, births>>

FinishFailed(a, status, room) ==
    /\ Finishable(a)
    /\ Publish(a, [row[a] EXCEPT !.status = status], room)
    /\ UNCHANGED <<scope, expired, owner, births>>

(***************************************************************************)
(* cancel, clear, and the owner's two cleanups.  None touches a charge.    *)
(***************************************************************************)
\* Mutant of Ended: cancelling forgets the hold.
EndedKeepingHold(S, status) ==
    [a \in Attempts |->
        IF a[1] \in S /\ row[a].status \in Live
        THEN [row[a] EXCEPT !.status = status] ELSE row[a]]

\* Mutant of Ended: cancelling gives the money back.
EndedRefunding(S, status) ==
    [a \in Attempts |->
        IF a[1] \in S /\ row[a].status \in Live
        THEN [row[a] EXCEPT !.status = status, !.hold = 0, !.charge = 0]
        ELSE row[a]]

\* Mutant of Ended: the update has no condition on the status.
EndedEverything(S, status) ==
    [a \in Attempts |->
        IF a[1] \in S /\ row[a].status # "absent"
        THEN [row[a] EXCEPT !.status = status, !.hold = 0] ELSE row[a]]

Ended(S, status) ==
    [a \in Attempts |->
        IF a[1] \in S /\ row[a].status \in Live
        THEN [row[a] EXCEPT !.status = status, !.hold = 0]
        ELSE row[a]]

Cancel(o) ==
    /\ head[o] # None
    /\ Authorized(head[o].scope, "edit")
    /\ row' = Ended({o}, "cancelled")
    /\ UNCHANGED <<head, scope, expired, owner, births>>

Clear(s) ==
    /\ Authorized(s, "delete")
    /\ scope[s].comparisonGeneration < MaxGeneration
    /\ scope' = [scope EXCEPT ![s].comparisonGeneration = @ + 1]
    /\ Tombstone(Retained(s))
    /\ UNCHANGED <<expired, owner, births>>

TerminatePending(o) ==
    /\ owner # 0
    /\ row' = [a \in Attempts |-> [Ended({o}, "authority_lost")[a] EXCEPT
          !.payload = IF a[1] = o /\ row[a].status \in Live THEN FALSE ELSE @]]
    /\ UNCHANGED <<head, scope, expired, owner, births>>

\* Mutant of RecoverPending: what was running goes back to the queue.
RecoverPendingRequeueing ==
    /\ owner # 0
    /\ row' = [a \in Attempts |->
          IF row[a].status = "running"
          THEN [row[a] EXCEPT !.status = "queued", !.hold = row[a].reserve, !.charge = 0]
          ELSE row[a]]
    /\ UNCHANGED <<head, scope, expired, owner, births>>

RecoverPending ==
    /\ owner # 0
    /\ row' = Ended(Ops, "interrupted")
    /\ UNCHANGED <<head, scope, expired, owner, births>>

(***************************************************************************)
(* What other parts of the daemon do to the same database: the prompt      *)
(* registry removes prompts, the evidence store rotates or destroys a      *)
(* scope, membership changes, time passes.                                 *)
(***************************************************************************)
PromptCan(s, capability) == scope[s].active /\ Can(scope[s].role, capability)

\* Mutant of DeletePrompt: no trigger on the prompt's row.
DeletePromptQuietly(s, p) ==
    /\ PromptCan(s, "delete")
    /\ p \in scope[s].prompts
    /\ scope' = [scope EXCEPT ![s].prompts = @ \ {p}]
    /\ UNCHANGED <<head, row, expired, owner, births>>

DeletePrompt(s, p) ==
    /\ PromptCan(s, "delete")
    /\ p \in scope[s].prompts
    /\ scope' = [scope EXCEPT ![s].prompts = @ \ {p}]
    /\ Tombstone({o \in Retained(s) : head[o].request.prompt = p})
    /\ UNCHANGED <<expired, owner, births>>

ClearPrompts(s) ==
    /\ PromptCan(s, "delete")
    /\ scope[s].promptGeneration < MaxGeneration
    /\ scope' = [scope EXCEPT ![s].promptGeneration = @ + 1, ![s].prompts = {}]
    /\ Tombstone(Retained(s))
    /\ UNCHANGED <<expired, owner, births>>

PurgeEvidence(s) ==
    /\ PromptCan(s, "delete")
    /\ scope[s].evidenceGeneration < MaxGeneration
    /\ scope' = [scope EXCEPT ![s].evidenceGeneration = @ + 1]
    /\ UNCHANGED <<head, row, expired, owner, births>>

DestroyScope(s) ==
    /\ scope[s].active
    /\ scope' = [scope EXCEPT ![s].active = FALSE, ![s].prompts = {}]
    /\ Tombstone(Retained(s))
    /\ UNCHANGED <<expired, owner, births>>

SetRole(s, role) ==
    /\ scope[s].role # role
    /\ scope' = [scope EXCEPT ![s].role = role]
    /\ UNCHANGED <<head, row, expired, owner, births>>

DeadlinePasses(o) ==
    /\ head[o] # None
    /\ o \notin expired
    /\ expired' = expired \cup {o}
    /\ UNCHANGED <<head, row, scope, owner, births>>

\* The kernel lease: exclusive, and every acquisition has a birth of its own.
AcquireOwner ==
    /\ owner = 0
    /\ births < MaxOwners
    /\ births' = births + 1
    /\ owner' = births + 1
    /\ UNCHANGED <<head, row, scope, expired>>

LoseOwner ==
    /\ owner # 0
    /\ owner' = 0
    /\ UNCHANGED <<head, row, scope, expired, births>>

(***************************************************************************)
(* Specification.                                                          *)
(***************************************************************************)
Absent == [status |-> "absent", provider |-> None, reserve |-> 0, hold |-> 0,
           charge |-> 0, accounting |-> "not_started", breach |-> FALSE,
           payload |-> FALSE]

Init ==
    /\ head = [o \in Ops |-> None]
    /\ row = [a \in Attempts |-> Absent]
    /\ scope = [s \in Scopes |->
          [promptGeneration |-> 1, evidenceGeneration |-> 1,
           comparisonGeneration |-> 1, active |-> TRUE, role |-> "admin",
           prompts |-> Prompts]]
    /\ expired = {}
    /\ owner = 0
    /\ births = 0

Next ==
    \/ \E o \in Ops, s \in Scopes, r \in Requests : Submit(o, s, r)
    \/ \E a \in Attempts : StartRefused(a) \/ Start(a)
    \/ \E a \in Attempts, usage \in Usages, room \in Room :
          FinishCompleted(a, usage, room)
    \/ \E a \in Attempts, status \in {"failed", "timeout", "cancelled"},
          room \in {"kept", "purged"} : FinishFailed(a, status, room)
    \/ \E o \in Ops : Cancel(o) \/ TerminatePending(o) \/ DeadlinePasses(o)
    \/ \E s \in Scopes : \/ Clear(s) \/ ClearPrompts(s) \/ PurgeEvidence(s)
                         \/ DestroyScope(s)
    \/ \E s \in Scopes, p \in Prompts : DeletePrompt(s, p)
    \/ \E s \in Scopes, role \in MemberRoles : SetRole(s, role)
    \/ RecoverPending \/ AcquireOwner \/ LoseOwner

Spec == Init /\ [][Next]_vars

(***************************************************************************)
(* Correctness.                                                            *)
(***************************************************************************)

\* What databaseTotals and the table checks expect of one row.
Accounted(r) ==
    /\ r.status = "absent" => r = Absent
    /\ r.status = "queued" =>
          r.hold = r.reserve /\ r.charge = 0 /\ r.accounting = "not_started"
    /\ r.status # "queued" => r.hold = 0
    /\ r.status = "running" => r.charge = r.reserve /\ r.accounting = "conservative"
    /\ r.status \in Live => ~r.breach /\ ~r.payload
    /\ r.charge > r.reserve => r.breach

\* A queued attempt holds its whole reservation, a running one is charged it,
\* nothing else holds anything, and a charge above the reservation blows the
\* fuse, whatever cancellation, removal, recovery and late answers come between.
AccountingShape == \A a \in Attempts : Accounted(row[a])

\* Until a provider reports more than was reserved, what its attempts hold and
\* cost together never exceeds the configured ceiling, over every scope and
\* whatever was cancelled, cleared, removed or recovered meanwhile.
BudgetCeiling ==
    \A p \in Providers : ~Breached(p) => Exposure(p) <= Ceiling[p]

\* The table never shows more running attempts than there are dispatch slots,
\* nor more queued operations than the queue admits.
DispatchBound ==
    /\ Cardinality(WithStatus("running")) <= ActiveLimit
    /\ Cardinality(QueuedOperations) <= QueueLimit

\* Removed content stays removed: a tombstoned operation keeps no output and
\* has no attempt left that could still produce one.
ContentRemoved ==
    \A a \in Attempts :
        head[a[1]] # None /\ head[a[1]].tombstone =>
            ~row[a].payload /\ row[a].status \notin Live

\* A retained operation's frozen copy never outlives the prompt it was taken
\* from, so the registry lookup in start cannot fail for a retained operation.
FrozenPromptLives ==
    \A o \in Stored : ~head[o].tombstone =>
        head[o].request.prompt \in scope[head[o].scope].prompts

\* The rows of a stored operation are exactly those of its targets.
RowsMatchHeads ==
    \A a \in Attempts :
        IF head[a[1]] # None /\ a[2] \in DOMAIN head[a[1]].request.targets
        THEN /\ row[a].status # "absent"
             /\ row[a].provider = head[a[1]].request.targets[a[2]].provider
             /\ row[a].reserve = head[a[1]].request.targets[a[2]].reserve
        ELSE row[a].status = "absent"

\* Once an attempt is over, cancellation, removal, recovery and late provider
\* callbacks leave its outcome and its accounting alone; its output can only go.
FinalAccounting ==
    [][\A a \in Attempts : row[a].status \in Terminal =>
          /\ row'[a] = [row[a] EXCEPT !.payload = row'[a].payload]
          /\ row'[a].payload => row[a].payload]_vars

\* "Neither cancellation, removal, clear nor restart refunds uncertain started
\* work": a charge falls only when the running attempt's own answer is measured.
NoRefund ==
    [][\A a \in Attempts : row'[a].charge < row[a].charge =>
          /\ row[a].status = "running"
          /\ row'[a].accounting = "measured_estimate"]_vars

\* A provider that once reported more than was reserved gets no further work:
\* no attempt of it is queued or started after that, not even a queued one.
OverageFuse ==
    [][\A a \in Attempts : row'[a].status \in Live /\ row'[a].status # row[a].status
          => ~Breached(row'[a].provider)]_vars

\* The ledger keeps the promise of SpendPromise.
AccountOf(r) ==
    [state |-> IF r.status = "absent" THEN "unopened"
               ELSE IF r.status = "queued" THEN "held"
               ELSE IF r.status = "running" THEN "spent" ELSE "settled",
     provider |-> r.provider, amount |-> r.hold + r.charge,
     measured |-> r.accounting = "measured_estimate", overdrawn |-> r.breach]

Promise == INSTANCE SpendPromise
    WITH Accounts <- Attempts, MaxAmount <- 2 * ChargeCap,
         account <- [a \in Attempts |-> AccountOf(row[a])]

PromiseKept == Promise!Spec
=============================================================================
