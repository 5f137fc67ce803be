---------------------------- MODULE CoordinatorProofs ----------------------------
(***************************************************************************)
(* What holds of the daemons that run model comparisons for every number   *)
(* of daemons, operations and scopes, every limit, and every number of     *)
(* leases: that they only ever use the ledger as its specification allows, *)
(* and that no request is sent twice, sent unpaid, forgotten while it runs *)
(* or answered under an authority that has lapsed.                         *)
(***************************************************************************)
EXTENDS ComparisonCoordinator, ComparisonLedgerProofs, SequenceTheorems

(***************************************************************************)
(* Sorting.  The rank of a number in a finite set, how many of the set do  *)
(* not exceed it, numbers the set without gaps, so an ascending            *)
(* enumeration exists and Ascending chooses one.                           *)
(***************************************************************************)
LEMMA RankGrows ==
    ASSUME NEW S \in SUBSET Nat, IsFiniteSet(S), NEW x \in S, NEW y \in S, x < y
    PROVE  Cardinality({z \in S : z <= x}) < Cardinality({z \in S : z <= y})
<1> DEFINE X == {z \in S : z <= x}
           Y == {z \in S : z <= y}
<1>0. x \in Nat /\ y \in Nat /\ \A z \in S : z \in Nat
  OBVIOUS
<1>1. X \in SUBSET Y /\ Y \in SUBSET S
  <2>1. ASSUME NEW z \in S, z <= x
        PROVE  z <= y
    BY <1>0, <2>1
  <2>2. QED BY <2>1
<1>2. y \in Y /\ y \notin X
  BY <1>0
<1> HIDE DEF X, Y
<1>3. IsFiniteSet(Y)
  BY <1>1, FS_Subset
<1>4. /\ IsFiniteSet(X)
      /\ Cardinality(X) <= Cardinality(Y)
      /\ Cardinality(Y) = Cardinality(X) => Y = X
  BY <1>1, <1>3, FS_Subset
<1>5. Cardinality(X) \in Nat /\ Cardinality(Y) \in Nat
  BY <1>3, <1>4, FS_CardinalityType
<1>6. Cardinality(X) # Cardinality(Y)
  BY <1>2, <1>4
<1>7. Cardinality(X) < Cardinality(Y)
  BY <1>4, <1>5, <1>6
<1>8. QED BY <1>7 DEF X, Y

LEMMA AscendingExists ==
    ASSUME NEW S \in SUBSET Nat, IsFiniteSet(S)
    PROVE  \E f \in [1 .. Cardinality(S) -> S] :
              \A i, j \in 1 .. Cardinality(S) : i < j => f[i] < f[j]
<1> DEFINE n == Cardinality(S)
           rank == [x \in S |-> Cardinality({z \in S : z <= x})]
           f == [k \in 1 .. n |-> CHOOSE x \in S : rank[x] = k]
<1>1. n \in Nat
  BY FS_CardinalityType
<1>2. ASSUME NEW x \in S
      PROVE  Cardinality({z \in S : z <= x}) \in 1 .. n
  <2> DEFINE X == {z \in S : z <= x}
  <2>1. x \in X /\ X \in SUBSET S
    OBVIOUS
  <2> HIDE DEF X
  <2>2. IsFiniteSet(X) /\ Cardinality(X) <= n
    BY <2>1, FS_Subset
  <2>3. Cardinality(X) \in Nat
    BY <2>2, FS_CardinalityType
  <2>4. Cardinality(X) # 0
    BY <2>1, <2>2, FS_EmptySet
  <2>5. Cardinality(X) \in 1 .. n
    BY <1>1, <2>2, <2>3, <2>4
  <2>6. QED BY <2>5 DEF X
<1>3. rank \in [S -> 1 .. n]
  BY <1>2
<1>4. ASSUME NEW x \in S, NEW y \in S, x < y
      PROVE  rank[x] < rank[y]
  BY <1>4, RankGrows
<1> HIDE DEF rank
<1>5. ASSUME NEW x \in S, NEW y \in S, rank[x] = rank[y]
      PROVE  x = y
  <2>1. rank[x] \in Int /\ rank[y] \in Int /\ x \in Int /\ y \in Int
    BY <1>1, <1>3
  <2>2. QED BY <1>4, <1>5, <2>1
<1>6. rank \in Injection(S, 1 .. n)
  BY <1>3, <1>5 DEF Injection, IsInjective
<1>7. IsFiniteSet(1 .. n) /\ Cardinality(1 .. n) = n
  BY <1>1, FS_Interval
<1>8. rank \in Surjection(S, 1 .. n)
  BY <1>6, <1>7, FS_Injection
<1>9. \A k \in 1 .. n : \E x \in S : rank[x] = k
  BY <1>8 DEF Surjection
<1>10. \A k \in 1 .. n : f[k] \in S /\ rank[f[k]] = k
  BY <1>9
<1>11. f \in [1 .. n -> S]
  BY <1>10
<1> HIDE DEF f
<1>12. ASSUME NEW i \in 1 .. n, NEW j \in 1 .. n, i < j
       PROVE  f[i] < f[j]
  <2>0. i \in Nat /\ j \in Nat
    BY <1>1
  <2>1. f[i] \in S /\ f[j] \in S /\ rank[f[i]] = i /\ rank[f[j]] = j
    BY <1>10
  <2>2. f[i] # f[j]
    BY <1>12, <2>1
  <2>3. ASSUME f[j] < f[i]
        PROVE  FALSE
    <3>1. rank[f[j]] < rank[f[i]]
      BY <1>4, <2>1, <2>3
    <3>2. j < i
      BY <2>1, <3>1
    <3>3. QED BY <1>12, <2>0, <3>2
  <2>4. f[i] \in Nat /\ f[j] \in Nat
    BY <2>1
  <2>5. QED BY <2>2, <2>3, <2>4
<1>13. QED BY <1>11, <1>12

LEMMA AscendingSorts ==
    ASSUME NEW S \in SUBSET Nat, IsFiniteSet(S)
    PROVE  /\ Cardinality(S) \in Nat
           /\ Ascending(S) \in [1 .. Cardinality(S) -> S]
           /\ \A i, j \in 1 .. Cardinality(S) :
                 i # j => Ascending(S)[i] # Ascending(S)[j]
<1> DEFINE n == Cardinality(S)
           f == Ascending(S)
<1>1. n \in Nat
  BY FS_CardinalityType
<1>2. f \in [1 .. n -> S] /\ \A i, j \in 1 .. n : i < j => f[i] < f[j]
  BY AscendingExists DEF Ascending
<1> HIDE DEF f
<1>3. ASSUME NEW i \in 1 .. n, NEW j \in 1 .. n, i # j
      PROVE  f[i] # f[j]
  <2>1. i < j \/ j < i
    BY <1>1, <1>3
  <2>2. f[i] \in S /\ f[j] \in S
    BY <1>2
  <2>3. f[i] \in Nat /\ f[j] \in Nat
    BY <2>2
  <2>4. QED BY <1>2, <2>1, <2>3
<1>4. QED BY <1>1, <1>2, <1>3 DEF f

(***************************************************************************)
(* The parts of a daemon's memory: a queue q, dispatched entries S and the *)
(* operations K it has scheduled.                                          *)
(***************************************************************************)
OneEach(q) == \A i, j \in 1 .. Len(q) : q[i].attempt = q[j].attempt => i = j

Queued(q, K) ==
    /\ q \in Seq(Entry)
    /\ Len(q) <= PendingLimit
    /\ OneEach(q)
    /\ \A i \in 1 .. Len(q) : Op(q[i]) \in K

Dispatched(S) ==
    /\ S \in SUBSET Slot
    /\ IsFiniteSet(S)
    /\ Cardinality(S) <= ActiveLimit

LEMMA CurrentFence ==
    ASSUME TypeOK, NEW s \in Scopes
    PROVE  Current(s) \in [promptGeneration : Nat, evidenceGeneration : Nat,
                           comparisonGeneration : Nat, owner : Nat]
<1>1. scope[s] \in ScopeState /\ owner \in 0 .. MaxOwners
  BY DEF TypeOK
<1>2. owner \in Nat
  BY <1>1, LimitAssumption
<1>3. QED BY <1>1, <1>2 DEF Current, ScopeState

LEMMA EntriesOfReceipt ==
    ASSUME TypeOK, NEW o \in Ops, NEW s \in Scopes
    PROVE  /\ EntriesOf(o, s) \in Seq(Entry)
           /\ OneEach(EntriesOf(o, s))
           /\ \A i \in 1 .. Len(EntriesOf(o, s)) : Op(EntriesOf(o, s)[i]) = o
<1> DEFINE P == {p \in Positions : row'[<<o, p>>].status = "queued"}
           n == Cardinality(P)
           f == Ascending(P)
           E == [k \in 1 .. n |-> [attempt |-> <<o, f[k]>>, fence |-> Current(s)]]
<1>1. P \in SUBSET Nat /\ P \in SUBSET Positions
  BY PositionAssumption
<1>2. EntriesOf(o, s)
        = [k \in DOMAIN f |-> [attempt |-> <<o, f[k]>>, fence |-> Current(s)]]
  BY DEF EntriesOf
<1> HIDE DEF P
<1>3. IsFiniteSet(P)
  BY <1>1, FS_Subset, FiniteAssumption
<1>4. /\ n \in Nat
      /\ f \in [1 .. n -> P]
      /\ \A i, j \in 1 .. n : i # j => f[i] # f[j]
  BY <1>1, <1>3, AscendingSorts
<1> HIDE DEF f, n
<1>5. DOMAIN f = 1 .. n
  BY <1>4
<1>6. EntriesOf(o, s) = E
  BY <1>2, <1>5
<1>7. \A k \in 1 .. n : E[k] = [attempt |-> <<o, f[k]>>, fence |-> Current(s)]
  OBVIOUS
<1>8. \A k \in 1 .. n : E[k] \in Entry
  BY <1>1, <1>4, <1>7, CurrentFence DEF Entry, Attempts
<1>9. E \in [1 .. n -> Entry]
  BY <1>8
<1> HIDE DEF E
<1>10. E \in Seq(Entry) /\ Len(E) = n
  BY <1>4, <1>9, SeqDef
<1>11. OneEach(E)
  <2>1. ASSUME NEW i \in 1 .. n, NEW j \in 1 .. n, E[i].attempt = E[j].attempt
        PROVE  i = j
    <3>1. /\ E[i] = [attempt |-> <<o, f[i]>>, fence |-> Current(s)]
          /\ E[j] = [attempt |-> <<o, f[j]>>, fence |-> Current(s)]
      BY <1>7
    <3>2. <<o, f[i]>> = <<o, f[j]>>
      BY <2>1, <3>1
    <3>3. f[i] = f[j]
      BY <3>2
    <3>4. QED BY <1>4, <3>3
  <2>2. QED BY <1>10, <2>1 DEF OneEach
<1>12. \A i \in 1 .. Len(E) : Op(E[i]) = o
  BY <1>7, <1>10 DEF Op
<1>13. QED BY <1>6, <1>10, <1>11, <1>12

\* A filter keeps the order, so it repeats no attempt and lengthens no queue.
LEMMA WithoutKeeps ==
    ASSUME NEW q, NEW K, NEW S, Queued(q, K)
    PROVE  Queued(Without(q, S), K)
<1> DEFINE I == {i \in DOMAIN q : Op(q[i]) \notin S}
           n == Cardinality(I)
           f == Ascending(I)
           W == [k \in 1 .. n |-> q[f[k]]]
<1>1. /\ Len(q) \in Nat /\ q \in [1 .. Len(q) -> Entry] /\ DOMAIN q = 1 .. Len(q)
      /\ PendingLimit \in Nat
  BY LenProperties, PendingAssumption DEF Queued
<1>2. I \in SUBSET (1 .. Len(q)) /\ I \in SUBSET Nat
  BY <1>1
<1>3. Without(q, S) = [k \in DOMAIN f |-> q[f[k]]]
  BY DEF Without
<1> HIDE DEF I
<1>4. IsFiniteSet(1 .. Len(q)) /\ Cardinality(1 .. Len(q)) = Len(q)
  BY <1>1, FS_Interval
<1>5. IsFiniteSet(I) /\ n <= Len(q)
  BY <1>2, <1>4, FS_Subset
<1>6. /\ n \in Nat
      /\ f \in [1 .. n -> I]
      /\ \A i, j \in 1 .. n : i # j => f[i] # f[j]
  BY <1>2, <1>5, AscendingSorts
<1> HIDE DEF f, n
<1>7. Without(q, S) = W
  BY <1>3, <1>6
<1>8. \A k \in 1 .. n : W[k] = q[f[k]] /\ f[k] \in 1 .. Len(q)
  BY <1>2, <1>6
<1>9. W \in [1 .. n -> Entry]
  BY <1>1, <1>8
<1> HIDE DEF W
<1>10. W \in Seq(Entry) /\ Len(W) = n
  BY <1>6, <1>9, SeqDef
<1>11. OneEach(W)
  BY <1>6, <1>8, <1>10 DEF OneEach, Queued
<1>12. \A i \in 1 .. Len(W) : Op(W[i]) \in K
  BY <1>8, <1>10 DEF Queued
<1>13. Len(W) <= PendingLimit
  BY <1>1, <1>5, <1>6, <1>10 DEF Queued
<1>14. QED BY <1>7, <1>10, <1>11, <1>12, <1>13 DEF Queued

LEMMA TailKeeps ==
    ASSUME NEW q, NEW K, Queued(q, K), q # <<>>
    PROVE  Head(q) \in Entry /\ Op(Head(q)) \in K /\ Queued(Tail(q), K)
<1>1. /\ Head(q) \in Entry /\ Tail(q) \in Seq(Entry) /\ Len(Tail(q)) = Len(q) - 1
      /\ \A i \in 1 .. Len(Tail(q)) : Tail(q)[i] = q[i + 1]
  BY HeadTailProperties DEF Queued
<1>2. Len(q) \in Nat /\ Len(q) # 0 /\ PendingLimit \in Nat /\ Head(q) = q[1]
  BY LenProperties, EmptySeq, PendingAssumption DEF Queued
<1>3. \A i \in 1 .. Len(Tail(q)) : i + 1 \in 1 .. Len(q)
  BY <1>1, <1>2
<1>4. OneEach(Tail(q))
  BY <1>1, <1>3 DEF Queued, OneEach
<1>5. \A i \in 1 .. Len(Tail(q)) : Op(Tail(q)[i]) \in K
  BY <1>1, <1>3 DEF Queued
<1>6. 1 \in 1 .. Len(q)
  BY <1>2
<1>7. QED BY <1>1, <1>2, <1>4, <1>5, <1>6 DEF Queued

LEMMA EmptyQueued ==
    ASSUME NEW K
    PROVE  Queued(<<>>, K)
<1>1. <<>> \in Seq(Entry) /\ Len(<<>>) = 0
  BY EmptySeq
<1>2. QED BY <1>1, PendingAssumption DEF Queued, OneEach

\* The entries of an operation that was not scheduled repeat none of the queue.
LEMMA AppendKeeps ==
    ASSUME NEW q, NEW K, NEW r, NEW o, Queued(q, K), o \notin K,
           r \in Seq(Entry), OneEach(r), \A i \in 1 .. Len(r) : Op(r[i]) = o,
           Len(q) + Len(r) <= PendingLimit
    PROVE  Queued(q \o r, K \cup {o})
<1> DEFINE w == q \o r
<1>1. Len(q) \in Nat /\ Len(r) \in Nat /\ q \in Seq(Entry)
  BY LenProperties DEF Queued
<1>2. /\ w \in Seq(Entry) /\ Len(w) = Len(q) + Len(r)
      /\ \A i \in 1 .. Len(w) : w[i] = IF i <= Len(q) THEN q[i] ELSE r[i - Len(q)]
  BY <1>1, ConcatProperties
<1> HIDE DEF w
<1>3. ASSUME NEW i \in 1 .. Len(w)
      PROVE  \/ i \in 1 .. Len(q) /\ w[i] = q[i] /\ Op(w[i]) \in K
             \/ /\ i - Len(q) \in 1 .. Len(r)
                /\ w[i] = r[i - Len(q)]
                /\ Op(w[i]) = o
  BY <1>1, <1>2 DEF Queued
<1>4. ASSUME NEW i \in 1 .. Len(w), NEW j \in 1 .. Len(w), w[i].attempt = w[j].attempt
      PROVE  i = j
  <2>1. Op(w[i]) = Op(w[j])
    BY <1>4 DEF Op
  <2>2. CASE i \in 1 .. Len(q) /\ w[i] = q[i] /\ Op(w[i]) \in K
    <3>1. j \in 1 .. Len(q) /\ w[j] = q[j]
      BY <1>3, <2>1, <2>2
    <3>2. QED BY <1>4, <2>2, <3>1 DEF Queued, OneEach
  <2>3. CASE i - Len(q) \in 1 .. Len(r) /\ w[i] = r[i - Len(q)] /\ Op(w[i]) = o
    <3>1. j - Len(q) \in 1 .. Len(r) /\ w[j] = r[j - Len(q)]
      BY <1>3, <2>1, <2>3
    <3>2. i - Len(q) = j - Len(q)
      BY <1>4, <2>3, <3>1 DEF OneEach
    <3>3. QED BY <1>1, <1>2, <3>2
  <2>4. QED BY <1>3, <2>2, <2>3
<1>5. OneEach(w)
  BY <1>4 DEF OneEach
<1>6. \A i \in 1 .. Len(w) : Op(w[i]) \in K \cup {o}
  BY <1>3
<1>7. QED BY <1>2, <1>5, <1>6 DEF Queued, w

LEMMA AbortedKeeps ==
    ASSUME NEW A, NEW S, Dispatched(A)
    PROVE  Dispatched(Aborted(A, S))
<1> DEFINE f == [t \in A |-> IF Op(t.entry) \in S THEN [t EXCEPT !.aborted = TRUE] ELSE t]
           B == Aborted(A, S)
<1>1. B = {f[t] : t \in A}
  BY DEF Aborted
<1>2. \A t \in A : f[t] \in Slot
  BY DEF Dispatched, Slot
<1> HIDE DEF f
<1>3. f \in [A -> B]
  BY <1>1 DEF f
<1>4. f \in Surjection(A, B)
  BY <1>1, <1>3 DEF Surjection
<1> HIDE DEF B
<1>5. IsFiniteSet(B) /\ Cardinality(B) <= Cardinality(A)
  BY <1>4, FS_Surjection DEF Dispatched
<1>6. B \in SUBSET Slot
  BY <1>1, <1>2
<1>7. Cardinality(A) \in Nat /\ Cardinality(B) \in Nat /\ ActiveLimit \in Nat
  BY <1>5, FS_CardinalityType, LimitAssumption DEF Dispatched
<1>8. QED BY <1>5, <1>6, <1>7 DEF Dispatched, B

LEMMA SubsetKeeps ==
    ASSUME NEW A, NEW B \in SUBSET A, Dispatched(A)
    PROVE  Dispatched(B)
<1>1. IsFiniteSet(B) /\ Cardinality(B) <= Cardinality(A)
  BY FS_Subset DEF Dispatched
<1>2. Cardinality(A) \in Nat /\ Cardinality(B) \in Nat /\ ActiveLimit \in Nat
  BY <1>1, FS_CardinalityType, LimitAssumption DEF Dispatched
<1>3. QED BY <1>1, <1>2 DEF Dispatched

LEMMA DispatchKeeps ==
    ASSUME NEW A, NEW t \in Slot, Dispatched(A), Cardinality(A) < ActiveLimit
    PROVE  Dispatched(A \cup {t})
<1>1. /\ IsFiniteSet(A \cup {t})
      /\ Cardinality(A \cup {t}) = IF t \in A THEN Cardinality(A) ELSE Cardinality(A) + 1
  BY FS_AddElement DEF Dispatched
<1>2. Cardinality(A) \in Nat /\ ActiveLimit \in Nat
  BY FS_CardinalityType, LimitAssumption DEF Dispatched
<1>3. QED BY <1>1, <1>2 DEF Dispatched

(***************************************************************************)
(* Every step of a daemon is a step of the ledger or leaves it alone.      *)
(***************************************************************************)
LEMMA EntryAttempt ==
    ASSUME NEW e \in Entry
    PROVE  e.attempt \in Attempts /\ Op(e) \in Ops
BY DEF Entry, Attempts, Op

LEMMA SlotEntry ==
    ASSUME CoordinatorTypeOK, NEW d \in Daemons, NEW t \in slots[d]
    PROVE  t \in Slot /\ t.entry \in Entry /\ t.entry.attempt \in Attempts
BY EntryAttempt DEF CoordinatorTypeOK, Slot

LEMMA HeadEntry ==
    ASSUME CoordinatorTypeOK, NEW d \in Daemons, pending[d] # <<>>
    PROVE  Head(pending[d]) \in Entry /\ Head(pending[d]).attempt \in Attempts
<1>1. pending[d] \in Seq(Entry)
  BY DEF CoordinatorTypeOK
<1>2. Head(pending[d]) \in Entry
  BY <1>1, HeadTailProperties
<1>3. QED BY <1>2, EntryAttempt

LEMMA TurnFields ==
    ASSUME CoordinatorTypeOK, NEW d \in Daemons
    PROVE  /\ turn[d].at = "failed" =>
                /\ turn[d].entry \in Entry
                /\ turn[d].status \in {"failed", "timeout", "cancelled"}
           /\ turn[d].at = "terminate" =>
                /\ turn[d].op \in Ops
                /\ turn[d].then \in {"idle", "pump"}
           /\ turn[d].at = "retire" => turn[d].todo \in SUBSET Ops
<1>1. turn[d] \in Turn
  BY DEF CoordinatorTypeOK
<1>2. QED BY <1>1 DEF Turn, Idle

LEMMA LedgerMoves ==
    ASSUME CoordinatorTypeOK, [CoordinatorNext]_allVars
    PROVE  [Next]_vars
<1>1. ASSUME NEW d \in Daemons, Lifecycle(d)
      PROVE  [Next]_vars
  <2>1. AcquireOwner \/ RecoverPending \/ LoseOwner \/ UNCHANGED vars
    BY <1>1 DEF Lifecycle, Acquire, Recover, Crash, LoseLease, Close, Drained
  <2>2. QED BY <2>1 DEF Next
<1>2. ASSUME NEW d \in Daemons, Handler(d)
      PROVE  [Next]_vars
  <2>1. \/ \E o \in Ops, s \in Scopes, r \in Requests : Submit(o, s, r)
        \/ \E o \in Ops : Cancel(o)
        \/ \E s \in Scopes : Clear(s)
        \/ UNCHANGED vars
    BY <1>2 DEF Handler, SubmitRequest, RetryRequest, CancelRequest, ClearRequest
  <2>2. QED BY <2>1 DEF Next
<1>3. ASSUME NEW d \in Daemons, Turning(d)
      PROVE  [Next]_vars
  <2>1. CASE PumpStarts(d) \/ PumpRefused(d)
    <3>1. /\ Head(pending[d]).attempt \in Attempts
          /\ Start(Head(pending[d]).attempt) \/ StartRefused(Head(pending[d]).attempt)
      BY <2>1, HeadEntry DEF PumpStarts, PumpRefused, CanDispatch
    <3>2. QED BY <3>1 DEF Next
  <2>2. ASSUME NEW room \in {"kept", "purged"}, FailurePublished(d, room)
        PROVE  [Next]_vars
    <3>1. /\ turn[d].entry.attempt \in Attempts
          /\ turn[d].status \in {"failed", "timeout", "cancelled"}
          /\ FinishFailed(turn[d].entry.attempt, turn[d].status, room)
      BY <2>2, TurnFields, EntryAttempt DEF FailurePublished
    <3>2. QED BY <3>1 DEF Next
  <2>3. CASE TerminateEntry(d)
    <3>1. turn[d].op \in Ops /\ (TerminatePending(turn[d].op) \/ UNCHANGED vars)
      BY <2>3, TurnFields DEF TerminateEntry
    <3>2. QED BY <3>1 DEF Next
  <2>4. ASSUME NEW o \in Ops, RetireEnds(d, o)
        PROVE  [Next]_vars
    <3>1. TerminatePending(o) \/ UNCHANGED vars
      BY <2>4 DEF RetireEnds
    <3>2. QED BY <3>1 DEF Next
  <2>5. CASE \/ PumpSkips(d) \/ PumpThrows(d) \/ PumpEnds(d) \/ FailureTerminates(d)
             \/ \E o \in Ops : RetireKeeps(d, o)
    BY <2>5 DEF PumpSkips, PumpThrows, PumpEnds, FailureTerminates, RetireKeeps
  <2>6. QED BY <1>3, <2>1, <2>2, <2>3, <2>4, <2>5 DEF Turning
<1>4. ASSUME NEW d \in Daemons, NEW t \in slots[d], Settle(d, t)
      PROVE  [Next]_vars
  <2>1. ASSUME NEW usage \in Usages, NEW room \in Room, SettleCompleted(d, t, usage, room)
        PROVE  [Next]_vars
    <3>1. /\ t.entry.attempt \in Attempts
          /\ FinishCompleted(t.entry.attempt, usage, room)
      BY <2>1, SlotEntry DEF SettleCompleted
    <3>2. QED BY <3>1 DEF Next
  <2>2. CASE \/ SettleFenced(d, t) \/ SettleRefused(d, t)
             \/ \E status \in {"failed", "timeout", "cancelled"} :
                   SettleFailed(d, t, status)
    BY <2>2 DEF SettleFenced, SettleRefused, SettleFailed
  <2>3. QED BY <1>4, <2>1, <2>2 DEF Settle
<1>5. CASE Surroundings
  BY <1>5 DEF Surroundings, Next
<1>6. ASSUME NEW d \in Daemons, Poll(d)
      PROVE  [Next]_vars
  BY <1>6 DEF Poll
<1>7. CASE UNCHANGED allVars
  BY <1>7 DEF allVars
<1>8. QED BY <1>1, <1>2, <1>3, <1>4, <1>5, <1>6, <1>7 DEF CoordinatorNext

(***************************************************************************)
(* Types and the soundness of every daemon's memory.                       *)
(***************************************************************************)
Memory ==
    \A d \in Daemons : Queued(pending[d], scheduled[d]) /\ Dispatched(slots[d])

\* The types of what a daemon's event loop, lease and requests are in the middle of.
Control ==
    /\ port \in Daemons \cup {None}
    /\ phase \in [Daemons -> {"down", "acquired", "up", "closing"}]
    /\ birth \in [Daemons -> 0 .. MaxOwners]
    /\ timer \in [Daemons -> BOOLEAN]
    /\ turn \in [Daemons -> Turn]
    /\ sent \in [Attempts -> Nat]

Stores ==
    /\ pending \in [Daemons -> Seq(Entry)]
    /\ slots \in [Daemons -> SUBSET Slot]
    /\ scheduled \in [Daemons -> SUBSET Ops]

LEMMA TypeParts == CoordinatorTypeOK <=> TypeOK /\ Control /\ Stores
BY DEF CoordinatorTypeOK, Control, Stores

\* Memory after a step of d leaves it the queue q, the slots A and the schedule K.
LEMMA MemoryAt ==
    ASSUME Stores, Memory, NEW d \in Daemons, NEW q, NEW A, NEW K \in SUBSET Ops,
           Queued(q, K), Dispatched(A),
           pending' = [pending EXCEPT ![d] = q],
           slots' = [slots EXCEPT ![d] = A],
           scheduled' = [scheduled EXCEPT ![d] = K]
    PROVE  Stores' /\ Memory'
<1>1. q \in Seq(Entry) /\ A \in SUBSET Slot
  BY DEF Queued, Dispatched
<1>2. Stores'
  BY <1>1 DEF Stores
<1>3. ASSUME NEW e \in Daemons
      PROVE  Queued(pending'[e], scheduled'[e]) /\ Dispatched(slots'[e])
  BY DEF Stores, Memory
<1>4. QED BY <1>2, <1>3 DEF Memory

LEMMA MemorySame ==
    ASSUME Stores, Memory, UNCHANGED <<pending, slots, scheduled>>
    PROVE  Stores' /\ Memory'
BY DEF Stores, Memory

LEMMA StoredAt ==
    ASSUME Stores, NEW d \in Daemons
    PROVE  /\ pending = [pending EXCEPT ![d] = pending[d]]
           /\ slots = [slots EXCEPT ![d] = slots[d]]
           /\ scheduled = [scheduled EXCEPT ![d] = scheduled[d]]
           /\ scheduled[d] \in SUBSET Ops
BY DEF Stores

LEMMA LifecycleKeeps ==
    ASSUME CoordinatorTypeOK, TypeOK', Memory, NEW d \in Daemons, Lifecycle(d)
    PROVE  Control' /\ Stores' /\ Memory'
<1>1. TypeOK /\ Control /\ Stores
  BY TypeParts
<1>2. ASSUME Forget(d)
      PROVE  Control' /\ Stores' /\ Memory'
  <2>1. Dispatched({})
    BY FS_EmptySet, LimitAssumption DEF Dispatched
  <2>2. Stores' /\ Memory'
    BY <1>1, <1>2, <2>1, EmptyQueued, MemoryAt DEF Forget
  <2>3. Control'
    BY <1>1, <1>2 DEF Control, Forget, Turn
  <2>4. QED BY <2>2, <2>3
<1>3. CASE Acquire(d)
  <2>1. births' \in 0 .. MaxOwners
    BY DEF TypeOK
  <2>2. Control'
    BY <1>1, <1>3, <2>1 DEF Acquire, Control, memory
  <2>3. QED BY <1>1, <1>3, <2>2, MemorySame DEF Acquire, memory
<1>4. CASE Recover(d)
  BY <1>1, <1>4, MemorySame DEF Recover, Control, memory
<1>5. CASE Crash(d) \/ Drained(d)
  BY <1>2, <1>5 DEF Crash, Drained
<1>6. CASE LoseLease(d)
  BY <1>1, <1>6, MemorySame DEF LoseLease, Control, memory
<1>7. CASE Close(d)
  <2>1. Dispatched(Aborted(slots[d], Ops))
    BY AbortedKeeps DEF Memory
  <2>2. Stores' /\ Memory'
    BY <1>1, <1>7, <2>1, EmptyQueued, StoredAt, MemoryAt DEF Close
  <2>3. Control'
    BY <1>1, <1>7 DEF Close, Control
  <2>4. QED BY <2>2, <2>3
<1>8. QED BY <1>3, <1>4, <1>5, <1>6, <1>7 DEF Lifecycle

LEMMA EnqueueKeeps ==
    ASSUME CoordinatorTypeOK, Memory, NEW d \in Daemons, NEW o \in Ops,
           NEW s \in Scopes, Enqueue(d, o, s), UNCHANGED <<port, phase, birth, sent>>
    PROVE  Control' /\ Stores' /\ Memory'
<1>1. TypeOK /\ Control /\ Stores
  BY TypeParts
<1>2. CASE UNCHANGED memory
  BY <1>1, <1>2, MemorySame DEF Control, memory
<1>3. CASE ~UNCHANGED memory
  <2> DEFINE r == EntriesOf(o, s)
             K == scheduled[d] \cup {o}
  <2>1. /\ o \notin scheduled[d]
        /\ ~(Len(pending[d]) + Len(r) > PendingLimit)
        /\ scheduled' = [scheduled EXCEPT ![d] = K]
        /\ pending' = [pending EXCEPT ![d] = pending[d] \o r]
        /\ Resume(d, "pump")
        /\ UNCHANGED <<slots, timer>>
    BY <1>3 DEF Enqueue
  <2>2. r \in Seq(Entry) /\ OneEach(r) /\ \A i \in 1 .. Len(r) : Op(r[i]) = o
    BY <1>1, EntriesOfReceipt
  <2> HIDE DEF r
  <2>3. Queued(pending[d], scheduled[d]) /\ Dispatched(slots[d])
    BY DEF Memory
  <2>4. Len(pending[d]) \in Nat /\ Len(r) \in Nat /\ PendingLimit \in Nat
    BY <2>2, <2>3, LenProperties, PendingAssumption DEF Queued
  <2>5. Len(pending[d]) + Len(r) <= PendingLimit
    BY <2>1, <2>4
  <2>6. Queued(pending[d] \o r, K)
    BY <2>1, <2>2, <2>3, <2>5, AppendKeeps
  <2>7. K \in SUBSET Ops
    BY <1>1, StoredAt
  <2> HIDE DEF K
  <2>8. Stores' /\ Memory'
    BY <1>1, <2>1, <2>3, <2>6, <2>7, StoredAt, MemoryAt
  <2>9. Control'
    BY <1>1, <2>1 DEF Control, Resume, Turn
  <2>10. QED BY <2>8, <2>9
<1>4. QED BY <1>2, <1>3

LEMMA HandlerKeeps ==
    ASSUME CoordinatorTypeOK, Memory, NEW d \in Daemons, Handler(d)
    PROVE  Control' /\ Stores' /\ Memory'
<1>1. Control /\ Stores
  BY TypeParts
<1>2. ASSUME NEW o \in Ops, NEW s \in Scopes, NEW r \in Requests,
             SubmitRequest(d, o, s, r) \/ RetryRequest(d, o, s, r)
      PROVE  Control' /\ Stores' /\ Memory'
  BY <1>2, EnqueueKeeps DEF SubmitRequest, RetryRequest
<1>3. ASSUME NEW S, Abandon(d, S)
      PROVE  Control' /\ Stores' /\ Memory'
  <2>1. Queued(Without(pending[d], S), scheduled[d]) /\ Dispatched(Aborted(slots[d], S))
    BY AbortedKeeps, WithoutKeeps DEF Memory
  <2>2. Stores' /\ Memory'
    BY <1>1, <1>3, <2>1, StoredAt, MemoryAt DEF Abandon
  <2>3. Control'
    BY <1>1, <1>3 DEF Abandon, Control
  <2>4. QED BY <2>2, <2>3
<1>4. QED BY <1>2, <1>3 DEF Handler, CancelRequest, ClearRequest

LEMMA DispatchMemory ==
    ASSUME CoordinatorTypeOK, Memory, NEW d \in Daemons, NEW state \in {"sent", "done"},
           CanDispatch(d), Dispatch(d, state)
    PROVE  Stores' /\ Memory' /\ Op(Head(pending[d])) \in Ops
<1>1. Stores
  BY TypeParts
<1>2. Queued(pending[d], scheduled[d]) /\ Dispatched(slots[d]) /\ pending[d] # <<>>
  BY DEF Memory, CanDispatch
<1>3. /\ Head(pending[d]) \in Entry
      /\ Op(Head(pending[d])) \in Ops
      /\ Queued(Tail(pending[d]), scheduled[d])
  BY <1>2, TailKeeps, EntryAttempt
<1>4. Filled(d, state) \in Slot
  BY <1>3 DEF Slot, Filled
<1>5. /\ slots' = [slots EXCEPT ![d] = slots[d] \cup {Filled(d, state)}]
      /\ pending' = [pending EXCEPT ![d] = Tail(pending[d])]
      /\ scheduled' = scheduled
  BY DEF Dispatch
<1>6. Dispatched(slots[d] \cup {Filled(d, state)})
  BY <1>2, <1>4, DispatchKeeps DEF CanDispatch
<1>7. Stores' /\ Memory'
  BY <1>1, <1>3, <1>5, <1>6, StoredAt, MemoryAt
<1>8. QED BY <1>3, <1>7

LEMMA FewerSlots ==
    ASSUME Stores, Memory, NEW d \in Daemons, NEW A \in SUBSET slots[d],
           slots' = [slots EXCEPT ![d] = A], UNCHANGED <<pending, scheduled>>
    PROVE  Stores' /\ Memory'
<1>1. Queued(pending[d], scheduled[d]) /\ Dispatched(A)
  BY SubsetKeeps DEF Memory
<1>2. QED BY <1>1, StoredAt, MemoryAt

LEMMA RetiringTurn ==
    ASSUME NEW todo \in SUBSET Ops
    PROVE  Retiring(todo) \in Turn
BY DEF Retiring, Turn

LEMMA PumpKeeps ==
    ASSUME CoordinatorTypeOK, Memory, NEW d \in Daemons,
           \/ PumpStarts(d) \/ PumpRefused(d) \/ PumpSkips(d) \/ PumpThrows(d)
           \/ PumpEnds(d)
    PROVE  Control' /\ Stores' /\ Memory'
<1>1. Control /\ Stores
  BY TypeParts
<1>2. CASE PumpStarts(d)
  <2>1. Stores' /\ Memory'
    BY <1>2, DispatchMemory DEF PumpStarts
  <2>2. PICK a \in Attempts : sent' = [sent EXCEPT ![a] = sent[a] + 1]
    BY <1>2, HeadEntry DEF PumpStarts, CanDispatch
  <2>3. sent' \in [Attempts -> Nat]
    BY <1>1, <2>2 DEF Control
  <2>4. Control'
    BY <1>1, <1>2, <2>3 DEF PumpStarts, Dispatch, Control
  <2>5. QED BY <2>1, <2>4
<1>3. CASE PumpRefused(d) \/ PumpSkips(d)
  <2>1. Stores' /\ Memory'
    BY <1>3, DispatchMemory DEF PumpRefused, PumpSkips
  <2>2. Control'
    BY <1>1, <1>3 DEF PumpRefused, PumpSkips, Dispatch, Control
  <2>3. QED BY <2>1, <2>2
<1>4. CASE PumpThrows(d)
  <2>1. Stores' /\ Memory' /\ Op(Head(pending[d])) \in Ops
    BY <1>4, DispatchMemory DEF PumpThrows
  <2>2. [at |-> "terminate", op |-> Op(Head(pending[d])), then |-> "pump"] \in Turn
    BY <2>1 DEF Turn
  <2>3. Control'
    BY <1>1, <1>4, <2>2 DEF PumpThrows, Dispatch, Control
  <2>4. QED BY <2>1, <2>3
<1>5. CASE PumpEnds(d)
  <2>1. {t \in slots[d] : t.state = "sent"} \in SUBSET slots[d]
    OBVIOUS
  <2>2. slots' = [slots EXCEPT ![d] = {t \in slots[d] : t.state = "sent"}]
    BY <1>5 DEF PumpEnds
  <2>3. Stores' /\ Memory'
    BY <1>1, <1>5, <2>1, <2>2, FewerSlots DEF PumpEnds
  <2>4. Control'
    <3>1. [at |-> "idle"] \in Turn
      BY DEF Turn, Idle
    <3>2. timer' \in [Daemons -> BOOLEAN]
      BY <1>1, <1>5 DEF PumpEnds, Control
    <3>3. turn' \in [Daemons -> Turn]
      BY <1>1, <1>5, <3>1 DEF PumpEnds, Resume, Control
    <3>4. UNCHANGED <<port, phase, birth, sent>>
      BY <1>5 DEF PumpEnds
    <3>5. QED BY <1>1, <3>2, <3>3, <3>4 DEF Control
  <2>5. QED BY <2>3, <2>4
<1>6. QED BY <1>2, <1>3, <1>4, <1>5

LEMMA TurningKeeps ==
    ASSUME CoordinatorTypeOK, Memory, NEW d \in Daemons, Turning(d) \/ Poll(d)
    PROVE  Control' /\ Stores' /\ Memory'
<1>1. Control /\ Stores
  BY TypeParts
<1>2. ASSUME NEW next \in Turn, turn' = [turn EXCEPT ![d] = next],
             timer' \in [Daemons -> BOOLEAN],
             UNCHANGED <<pending, slots, scheduled, port, phase, birth, sent>>
      PROVE  Control' /\ Stores' /\ Memory'
  <2>1. Control'
    BY <1>1, <1>2 DEF Control
  <2>2. QED BY <1>1, <1>2, <2>1, MemorySame
<1>3. timer \in [Daemons -> BOOLEAN]
  BY <1>1 DEF Control
<1>4. [at |-> "idle"] \in Turn /\ [at |-> "pump"] \in Turn
  BY DEF Turn, Idle
<1>5. ASSUME NEW room, FailurePublished(d, room)
      PROVE  Control' /\ Stores' /\ Memory'
  BY <1>2, <1>3, <1>4, <1>5 DEF FailurePublished, Resume
<1>6. CASE FailureTerminates(d)
  <2>1. Op(turn[d].entry) \in Ops
    BY <1>6, TurnFields, EntryAttempt DEF FailureTerminates
  <2>2. [at |-> "terminate", op |-> Op(turn[d].entry), then |-> "idle"] \in Turn
    BY <2>1 DEF Turn
  <2>3. QED BY <1>2, <1>3, <1>6, <2>2 DEF FailureTerminates
<1>7. CASE TerminateEntry(d)
  <2>1. turn[d].then \in {"idle", "pump"}
    BY <1>7, TurnFields DEF TerminateEntry
  <2>2. [at |-> turn[d].then] \in Turn
    BY <1>4, <2>1
  <2>3. QED BY <1>2, <1>3, <1>7, <2>2 DEF TerminateEntry, Resume
<1>8. CASE Poll(d)
  <2>1. \A e \in Entries(d) : Op(e) \in Ops
    <3>1. \A e \in ToSet(pending[d]) : e \in Entry
      <4>1. pending[d] \in Seq(Entry)
        BY <1>1 DEF Stores
      <4>2. pending[d] \in [1 .. Len(pending[d]) -> Entry]
        BY <4>1, LenProperties
      <4>3. QED BY <4>2 DEF ToSet
    <3>2. \A t \in slots[d] : t.entry \in Entry
      BY SlotEntry
    <3>3. QED BY <3>1, <3>2, EntryAttempt DEF Entries
  <2>2. {Op(e) : e \in Entries(d)} \in SUBSET Ops
    BY <2>1
  <2>3. Retiring({Op(e) : e \in Entries(d)}) \in Turn
    BY <2>2, RetiringTurn
  <2>4. timer' \in [Daemons -> BOOLEAN]
    BY <1>3, <1>8 DEF Poll
  <2>5. QED BY <1>2, <1>8, <2>3, <2>4 DEF Poll
<1>9. ASSUME NEW o, turn[d].at = "retire"
      PROVE  Retiring(turn[d].todo \ {o}) \in Turn
  BY <1>9, TurnFields, RetiringTurn
<1>10. ASSUME NEW o, RetireKeeps(d, o)
       PROVE  Control' /\ Stores' /\ Memory'
  BY <1>2, <1>3, <1>9, <1>10 DEF RetireKeeps
<1>11. ASSUME NEW o, RetireEnds(d, o)
       PROVE  Control' /\ Stores' /\ Memory'
  <2>1. Queued(Without(pending[d], {o}), scheduled[d]) /\ Dispatched(Aborted(slots[d], {o}))
    BY AbortedKeeps, WithoutKeeps DEF Memory
  <2>2. Stores' /\ Memory'
    BY <1>1, <1>11, <2>1, StoredAt, MemoryAt DEF RetireEnds
  <2>3. Retiring(turn[d].todo \ {o}) \in Turn
    BY <1>9, <1>11 DEF RetireEnds
  <2>4. Control'
    BY <1>1, <1>11, <2>3 DEF RetireEnds, Control
  <2>5. QED BY <2>2, <2>4
<1>12. CASE \/ PumpStarts(d) \/ PumpRefused(d) \/ PumpSkips(d) \/ PumpThrows(d)
            \/ PumpEnds(d)
  BY <1>12, PumpKeeps
<1>13. QED BY <1>5, <1>6, <1>7, <1>8, <1>10, <1>11, <1>12 DEF Turning

LEMMA SettleKeeps ==
    ASSUME CoordinatorTypeOK, Memory, NEW d \in Daemons, NEW t \in slots[d],
           Settle(d, t)
    PROVE  Control' /\ Stores' /\ Memory'
<1>1. Control /\ Stores
  BY TypeParts
<1>2. Freed(d, t) /\ UNCHANGED <<pending, scheduled, port, phase, birth, sent>>
  BY DEF Settle, SettleFenced, SettleRefused, SettleCompleted, SettleFailed
<1>3. slots' = [slots EXCEPT ![d] = slots[d] \ {t}] /\ slots[d] \ {t} \in SUBSET slots[d]
  BY <1>2 DEF Freed
<1>4. Stores' /\ Memory'
  BY <1>1, <1>2, <1>3, FewerSlots
<1>5. timer' \in [Daemons -> BOOLEAN]
  BY <1>1, <1>2 DEF Freed, Control
<1>6. turn' \in [Daemons -> Turn]
  <2>1. ASSUME NEW status \in {"failed", "timeout", "cancelled"}, NEW forced \in BOOLEAN
        PROVE  [at |-> "failed", entry |-> t.entry, status |-> status,
                forced |-> forced] \in Turn
    BY SlotEntry DEF Turn
  <2>2. CASE SettleRefused(d, t)
    <3>1. (~CanPublish(d, t.entry)) \in BOOLEAN
      OBVIOUS
    <3>2. [at |-> "failed", entry |-> t.entry, status |-> "failed",
           forced |-> ~CanPublish(d, t.entry)] \in Turn
      BY <2>1, <3>1
    <3>3. QED BY <1>1, <2>2, <3>2 DEF SettleRefused, Control
  <2>3. ASSUME NEW status \in {"failed", "timeout", "cancelled"}, SettleFailed(d, t, status)
        PROVE  turn' \in [Daemons -> Turn]
    BY <1>1, <2>1, <2>3 DEF SettleFailed, Control
  <2>4. CASE SettleFenced(d, t) \/ \E usage \in Usages, room \in Room :
                                      SettleCompleted(d, t, usage, room)
    BY <1>1, <2>4 DEF SettleFenced, SettleCompleted, Control
  <2>5. QED BY <2>2, <2>3, <2>4 DEF Settle
<1>7. QED BY <1>1, <1>2, <1>4, <1>5, <1>6 DEF Control

(***************************************************************************)
(* The base invariant: the ledger's, the types, and sound memories.        *)
(***************************************************************************)
Base == LedgerInv /\ CoordinatorTypeOK /\ Memory

LEMMA BaseInit == CoordinatorInit => Base
<1>1. SUFFICES ASSUME CoordinatorInit PROVE Base
  OBVIOUS
<1>2. LedgerInv
  BY <1>1, LedgerInit DEF CoordinatorInit
<1>3. Dispatched({})
  BY FS_EmptySet, LimitAssumption DEF Dispatched
<1>4. Memory
  BY <1>1, <1>3, EmptyQueued DEF CoordinatorInit, Memory
<1>5. CoordinatorTypeOK
  <2>1. <<>> \in Seq(Entry) /\ 0 \in 0 .. MaxOwners
    BY EmptySeq, LimitAssumption
  <2>2. QED BY <1>1, <1>2, <2>1 DEF CoordinatorInit, CoordinatorTypeOK, LedgerInv, Turn
<1>6. QED BY <1>2, <1>4, <1>5 DEF Base

LEMMA BaseStep ==
    ASSUME Base, [CoordinatorNext]_allVars
    PROVE  Base'
<1>1. CoordinatorTypeOK /\ Memory /\ LedgerInv /\ Control /\ Stores
  BY TypeParts DEF Base
<1>2. LedgerInv'
  BY <1>1, LedgerMoves, LedgerStep
<1>3. TypeOK'
  BY <1>2 DEF LedgerInv
<1>4. CASE Surroundings \/ UNCHANGED allVars
  <2>1. UNCHANGED <<process, sent>>
    BY <1>4 DEF Surroundings, allVars
  <2>2. QED BY <1>1, <1>2, <1>3, <2>1, MemorySame, TypeParts
           DEF Base, process, memory, Control, Stores, CoordinatorTypeOK
<1>5. CASE \E d \in Daemons : Lifecycle(d) \/ Handler(d) \/ Turning(d) \/ Poll(d)
  <2>1. Control' /\ Stores' /\ Memory'
    BY <1>1, <1>3, <1>5, LifecycleKeeps, HandlerKeeps, TurningKeeps
  <2>2. CoordinatorTypeOK'
    BY <1>3, <2>1 DEF CoordinatorTypeOK, Control, Stores
  <2>3. QED BY <1>2, <2>1, <2>2 DEF Base
<1>6. CASE \E d \in Daemons : \E t \in slots[d] : Settle(d, t)
  <2>1. Control' /\ Stores' /\ Memory'
    BY <1>1, <1>6, SettleKeeps
  <2>2. CoordinatorTypeOK'
    BY <1>3, <2>1 DEF CoordinatorTypeOK, Control, Stores
  <2>3. QED BY <1>2, <2>1, <2>2 DEF Base
<1>7. QED BY <1>4, <1>5, <1>6 DEF CoordinatorNext

LEMMA BaseInvariant == CoordinatorSpec => []Base
<1>1. Base /\ [CoordinatorNext]_allVars => Base'
  BY BaseStep
<1>2. QED BY <1>1, BaseInit, PTL DEF CoordinatorSpec

\* Memory and tables keep their shape, the pending queue never exceeds its limit nor
\* repeats an attempt, and there are never more dispatched entries than slots,
\* whatever is submitted, cancelled, retired, lost or restarted.
THEOREM QueueSoundHolds == CoordinatorSpec => []QueueSound
<1>1. Base => QueueSound
  BY DEF Base, Memory, Queued, Dispatched, OneEach, QueueSound
<1>2. QED BY <1>1, BaseInvariant, PTL

\* Daemons use the ledger only as its specification allows, so everything proved
\* of the ledger holds of them too.
THEOREM LedgerImplemented == CoordinatorSpec => Spec
<1>1. CoordinatorInit => Init
  BY DEF CoordinatorInit
<1>2. Base /\ [CoordinatorNext]_allVars => [Next]_vars
  BY LedgerMoves DEF Base
<1>3. QED BY <1>1, <1>2, BaseInvariant, PTL DEF CoordinatorSpec, Spec

(***************************************************************************)
(* What a step may start or complete.  Only a pump that dispatches starts  *)
(* an attempt, and only a settling answer completes one; all else is calm. *)
(***************************************************************************)
Calm == \A a \in Attempts : \/ row'[a].status = row[a].status
                            \/ row'[a].status \notin {"running", "completed"}

LEMMA WithdrawnCalm ==
    ASSUME NEW r \in RowRecord
    PROVE  \/ Withdrawn(r).status = r.status
           \/ Withdrawn(r).status = "authority_lost"
BY DEF Withdrawn, RowRecord

LEMMA EndedCalm ==
    ASSUME TypeOK, NEW S, NEW status \in Terminal, NEW a \in Attempts
    PROVE  \/ Ended(S, status)[a] = row[a]
           \/ Ended(S, status)[a].status = status
BY DEF Ended, TypeOK, RowRecord

LEMMA TombstoneCalm ==
    ASSUME TypeOK, NEW S, Tombstone(S)
    PROVE  Calm
<1>1. \A a \in Attempts : row[a] \in RowRecord
  BY DEF TypeOK
<1>2. \A a \in Attempts : row'[a] = row[a] \/ row'[a] = Withdrawn(row[a])
  BY DEF Tombstone
<1>3. QED BY <1>1, <1>2, WithdrawnCalm DEF Calm

LEMMA TerminateCalm ==
    ASSUME TypeOK, NEW o, TerminatePending(o)
    PROVE  /\ Calm
           /\ \A a \in Attempts : a[1] = o => row'[a].status # "running"
<1>1. "authority_lost" \in Terminal
  BY DEF Terminal
<1>2. ASSUME NEW a \in Attempts
      PROVE  row'[a].status = Ended({o}, "authority_lost")[a].status
  <2>1. Ended({o}, "authority_lost")[a] \in RowRecord
    BY <1>1, EndedType
  <2>2. QED BY <2>1 DEF TerminatePending, RowRecord
<1>3. Calm
  BY <1>1, <1>2, EndedCalm DEF Calm
<1>4. ASSUME NEW a \in Attempts, a[1] = o
      PROVE  Ended({o}, "authority_lost")[a].status # "running"
  <2>1. row[a] \in RowRecord
    BY DEF TypeOK
  <2>2. QED BY <1>4, <2>1 DEF Ended, Live, RowRecord
<1>5. QED BY <1>2, <1>3, <1>4

LEMMA SubmitCalm ==
    ASSUME NEW o, NEW s, NEW r, Submit(o, s, r)
    PROVE  Calm
<1>1. ASSUME NEW target, NEW refused
      PROVE  Inserted(target, refused).status \in {"unavailable", "budget_refused", "queued"}
  BY DEF Inserted
<1>2. QED BY <1>1 DEF Submit, Calm

\* What Publish stores as attempt b's outcome decides what the step completes.
LEMMA PublishCalm ==
    ASSUME TypeOK, NEW b \in Attempts, NEW r \in RowRecord, NEW room,
           Publish(b, r, room)
    PROVE  /\ \/ row'[b].status = r.status
              \/ row'[b].status = "authority_lost"
           /\ \A a \in Attempts : a # b =>
                 \/ row'[a].status = row[a].status
                 \/ row'[a].status = "authority_lost"
<1>1. \A a \in Attempts : row[a] \in RowRecord
  BY DEF TypeOK
<1>2. row'[b] = r \/ row'[b] = Withdrawn(r)
  BY DEF Publish, TypeOK
<1>3. \A a \in Attempts : a # b => row'[a] = row[a] \/ row'[a] = Withdrawn(row[a])
  BY DEF Publish, TypeOK
<1>4. QED BY <1>1, <1>2, <1>3, WithdrawnCalm

LEMMA FinishFailedCalm ==
    ASSUME TypeOK, NEW b \in Attempts, NEW room,
           NEW status \in {"failed", "timeout", "cancelled"}, FinishFailed(b, status, room)
    PROVE  Calm /\ row'[b].status # "running"
<1> DEFINE r == [row[b] EXCEPT !.status = status]
<1>1. r \in RowRecord /\ r.status = status
  BY DEF TypeOK, RowRecord, Terminal
<1>2. Publish(b, r, room)
  BY DEF FinishFailed
<1> HIDE DEF r
<1>3. QED BY <1>1, <1>2, PublishCalm DEF Calm

LEMMA FinishCompletedStarts ==
    ASSUME TypeOK, NEW b \in Attempts, NEW room \in Room, NEW usage \in Usages,
           FinishCompleted(b, usage, room)
    PROVE  /\ \A a \in Attempts :
                 row'[a].status = "running" => row[a].status = "running" /\ a # b
           /\ \A a \in Attempts :
                 row'[a].status = "completed" => row[a].status = "completed" \/ a = b
<1> DEFINE r == Measured(row[b], usage, room)
<1>1. row[b] \in RowRecord
  BY DEF TypeOK
<1>2. r \in RowRecord
  BY <1>1, MeasuredType, UsageAssumption
<1>3. r.status \in {"completed", "failed"}
  BY <1>1 DEF Measured, RowRecord
<1>4. Publish(b, r, room)
  BY DEF FinishCompleted
<1> HIDE DEF r
<1>5. row'[b].status # "running"
  BY <1>2, <1>3, <1>4, PublishCalm
<1>6. \A a \in Attempts : a # b =>
         \/ row'[a].status = row[a].status
         \/ row'[a].status = "authority_lost"
  BY <1>2, <1>4, PublishCalm
<1>7. QED BY <1>5, <1>6

LEMMA CalmSteps ==
    ASSUME CoordinatorTypeOK, [CoordinatorNext]_allVars
    PROVE  \/ \E d \in Daemons : PumpStarts(d)
           \/ \E d \in Daemons : \E t \in slots[d], usage \in Usages, room \in Room :
                 SettleCompleted(d, t, usage, room)
           \/ Calm /\ UNCHANGED sent
<1>1. TypeOK
  BY TypeParts
<1>2. ASSUME UNCHANGED row
      PROVE  Calm
  BY <1>2 DEF Calm
<1>3. ASSUME NEW S, NEW status \in {"cancelled", "interrupted"}, row' = Ended(S, status)
      PROVE  Calm
  BY <1>1, <1>3, EndedCalm DEF Calm, Terminal
<1>4. ASSUME NEW d \in Daemons, Lifecycle(d)
      PROVE  Calm /\ UNCHANGED sent
  <2>1. UNCHANGED sent
    BY <1>4 DEF Lifecycle, Acquire, Recover, Crash, LoseLease, Close, Drained, Forget
  <2>2. UNCHANGED row \/ RecoverPending
    BY <1>4 DEF Lifecycle, Acquire, Recover, Crash, LoseLease, Close, Drained,
          AcquireOwner, LoseOwner, vars
  <2>3. QED BY <1>2, <1>3, <2>1, <2>2 DEF RecoverPending
<1>5. ASSUME NEW d \in Daemons, Handler(d)
      PROVE  Calm /\ UNCHANGED sent
  <2>1. UNCHANGED sent
    BY <1>5 DEF Handler, SubmitRequest, RetryRequest, CancelRequest, ClearRequest, Abandon
  <2>2. \/ \E o \in Ops, s \in Scopes, r \in Requests : Submit(o, s, r)
        \/ \E o \in Ops : Cancel(o)
        \/ \E s \in Scopes : Clear(s)
        \/ UNCHANGED row
    BY <1>5 DEF Handler, SubmitRequest, RetryRequest, CancelRequest, ClearRequest, vars
  <2>3. ASSUME NEW o \in Ops, Cancel(o)
        PROVE  Calm
    BY <1>3, <2>3 DEF Cancel
  <2>4. ASSUME NEW s \in Scopes, Clear(s)
        PROVE  Calm
    BY <1>1, <2>4, TombstoneCalm DEF Clear
  <2>5. QED BY <1>2, <2>1, <2>2, <2>3, <2>4, SubmitCalm
<1>6. ASSUME NEW d \in Daemons, Turning(d), ~PumpStarts(d)
      PROVE  Calm /\ UNCHANGED sent
  <2>1. CASE PumpRefused(d)
    <3>1. PICK b \in Attempts : StartRefused(b)
      BY <2>1, HeadEntry DEF PumpRefused, CanDispatch
    <3>2. StartRefusal(b) \notin {"running", "completed"}
      BY DEF StartRefusal
    <3>3. row' = [row EXCEPT ![b] = [row[b] EXCEPT !.status = StartRefusal(b), !.hold = 0]]
      BY <3>1 DEF StartRefused
    <3>4. \A a \in Attempts : row[a] \in RowRecord
      BY <1>1 DEF TypeOK
    <3>5. Calm
      BY <1>1, <3>2, <3>3, <3>4 DEF Calm, TypeOK, RowRecord
    <3>6. QED BY <2>1, <3>5 DEF PumpRefused
  <2>2. ASSUME NEW room \in {"kept", "purged"}, FailurePublished(d, room)
        PROVE  Calm /\ UNCHANGED sent
    <3>1. /\ turn[d].entry.attempt \in Attempts
          /\ turn[d].status \in {"failed", "timeout", "cancelled"}
          /\ FinishFailed(turn[d].entry.attempt, turn[d].status, room)
      BY <2>2, TurnFields, EntryAttempt DEF FailurePublished
    <3>2. QED BY <1>1, <2>2, <3>1, FinishFailedCalm DEF FailurePublished
  <2>3. ASSUME NEW o, IF HasAuthority(d) THEN TerminatePending(o) ELSE UNCHANGED vars
        PROVE  Calm
    BY <1>1, <1>2, <2>3, TerminateCalm DEF vars
  <2>4. CASE TerminateEntry(d)
    BY <2>3, <2>4 DEF TerminateEntry
  <2>5. ASSUME NEW o \in Ops, RetireEnds(d, o)
        PROVE  Calm /\ UNCHANGED sent
    BY <2>3, <2>5 DEF RetireEnds
  <2>6. CASE \/ PumpSkips(d) \/ PumpThrows(d) \/ PumpEnds(d) \/ FailureTerminates(d)
             \/ \E o \in Ops : RetireKeeps(d, o)
    BY <1>2, <2>6 DEF PumpSkips, PumpThrows, PumpEnds, FailureTerminates, RetireKeeps, vars
  <2>7. QED BY <1>6, <2>1, <2>2, <2>4, <2>5, <2>6 DEF Turning
<1>7. ASSUME NEW d \in Daemons, Poll(d)
      PROVE  Calm /\ UNCHANGED sent
  BY <1>2, <1>7 DEF Poll, vars
<1>8. ASSUME NEW d \in Daemons, NEW t \in slots[d], Settle(d, t),
             ~ \E usage \in Usages, room \in Room : SettleCompleted(d, t, usage, room)
      PROVE  Calm /\ UNCHANGED sent
  BY <1>2, <1>8 DEF Settle, SettleFenced, SettleRefused, SettleFailed, vars
<1>9. CASE Surroundings
  <2>1. UNCHANGED sent
    BY <1>9 DEF Surroundings
  <2>2. UNCHANGED row \/ \E S : Tombstone(S)
    BY <1>9 DEF Surroundings, DeadlinePasses, DeletePrompt, ClearPrompts, PurgeEvidence,
          DestroyScope, SetRole
  <2>3. QED BY <1>1, <1>2, <2>1, <2>2, TombstoneCalm
<1>10. CASE UNCHANGED allVars
  BY <1>2, <1>10 DEF allVars, vars
<1>11. QED
  BY <1>4, <1>5, <1>6, <1>7, <1>8, <1>9, <1>10 DEF CoordinatorNext

(***************************************************************************)
(* Requests and charges.                                                   *)
(***************************************************************************)
PaidOnce(n, r) ==
    /\ n <= 1
    /\ n = 1 => r.status # "queued" /\ r.accounting # "not_started"
    /\ r.accounting # "not_started" => n = 1

\* A move that starts nothing opens no account that was not charged before.
LEMMA MovesKeepCharge ==
    ASSUME NEW r \in RowRecord, NEW q \in RowRecord, Accounted(r), Moved(r, q),
           q.status = "running" => r.status = "running",
           NEW n \in Nat, PaidOnce(n, r)
    PROVE  PaidOnce(n, q)
<1>1. CASE q = r
  BY <1>1
<1>2. CASE Opened(r, q) \/ Refused(r, q)
  BY <1>2 DEF Opened, Refused, Absent, PaidOnce
<1>3. CASE Released(r, q)
  BY <1>3 DEF Released, PaidOnce, Terminal, Accounted
<1>4. CASE Charged(r, q)
  BY <1>4 DEF Charged
<1>5. CASE Settled(r, q)
  BY <1>5 DEF Settled, PaidOnce, Terminal, Accounted
<1>6. CASE Erased(r, q)
  BY <1>6 DEF Erased, PaidOnce, Terminal, RowRecord
<1>7. QED BY <1>1, <1>2, <1>3, <1>4, <1>5, <1>6 DEF Moved, Advanced, Quiet

LEMMA StartsOnlyHead ==
    ASSUME Base, NEW d \in Daemons, PumpStarts(d)
    PROVE  LET a == Head(pending[d]).attempt
           IN  /\ a \in Attempts
               /\ row[a].status = "queued"
               /\ row'[a].status = "running"
               /\ row'[a].accounting = "conservative"
               /\ sent' = [sent EXCEPT ![a] = sent[a] + 1]
               /\ \A b \in Attempts : b # a => row'[b] = row[b]
<1>1. PICK a \in Attempts : /\ a = Head(pending[d]).attempt
                            /\ Start(a)
                            /\ sent' = [sent EXCEPT ![a] = sent[a] + 1]
  BY HeadEntry DEF PumpStarts, CanDispatch, Base
<1>2. row \in [Attempts -> RowRecord]
  BY DEF Base, LedgerInv, TypeOK
<1>3. row' = [row EXCEPT ![a] = [row[a] EXCEPT !.status = "running", !.hold = 0,
                                              !.charge = row[a].reserve,
                                              !.accounting = "conservative"]]
  BY <1>1 DEF Start
<1>4. row'[a].status = "running" /\ row'[a].accounting = "conservative"
  BY <1>2, <1>3 DEF RowRecord
<1>5. \A b \in Attempts : b # a => row'[b] = row[b]
  BY <1>2, <1>3
<1>6. row[a].status = "queued"
  BY <1>1 DEF Start, Startable
<1>7. QED BY <1>1, <1>4, <1>5, <1>6

\* Nothing but a pump starts an attempt or sends a request.
LEMMA StartsNone ==
    ASSUME Base, [CoordinatorNext]_allVars, ~ \E d \in Daemons : PumpStarts(d)
    PROVE  /\ UNCHANGED sent
           /\ \A a \in Attempts : row'[a].status = "running" => row[a].status = "running"
<1>1. TypeOK /\ CoordinatorTypeOK
  BY TypeParts DEF Base
<1>2. ASSUME NEW d \in Daemons, NEW t \in slots[d], NEW usage \in Usages,
             NEW room \in Room, SettleCompleted(d, t, usage, room)
      PROVE  /\ UNCHANGED sent
             /\ \A a \in Attempts : row'[a].status = "running" => row[a].status = "running"
  <2>1. t.entry.attempt \in Attempts /\ FinishCompleted(t.entry.attempt, usage, room)
    BY <1>1, <1>2, SlotEntry DEF SettleCompleted
  <2>2. UNCHANGED sent
    BY <1>2 DEF SettleCompleted
  <2>3. QED BY <1>1, <2>1, <2>2, FinishCompletedStarts
<1>3. CASE Calm /\ UNCHANGED sent
  BY <1>3 DEF Calm
<1>4. QED BY <1>1, <1>2, <1>3, CalmSteps

LEMMA SentStep ==
    ASSUME Base, [CoordinatorNext]_allVars, SentOnceAndCharged
    PROVE  SentOnceAndCharged'
<1>1. LedgerInv /\ LedgerInv' /\ [Next]_vars
  BY BaseStep, LedgerMoves DEF Base
<1>2. sent \in [Attempts -> Nat]
  BY DEF Base, CoordinatorTypeOK
<1>3. ASSUME NEW a \in Attempts
      PROVE  /\ row[a] \in RowRecord /\ row'[a] \in RowRecord /\ Accounted(row[a])
             /\ Moved(row[a], row'[a])
             /\ sent[a] \in Nat /\ PaidOnce(sent[a], row[a])
  BY <1>1, <1>2, RowMoves
     DEF LedgerInv, TypeOK, AccountingShape, SentOnceAndCharged, PaidOnce
<1>4. ASSUME NEW a \in Attempts
      PROVE  PaidOnce(sent'[a], row'[a])
  <2>1. CASE ~ \E d \in Daemons : PumpStarts(d)
    BY <1>3, <2>1, StartsNone, MovesKeepCharge
  <2>2. ASSUME NEW d \in Daemons, PumpStarts(d)
        PROVE  PaidOnce(sent'[a], row'[a])
    <3>1. PICK b \in Attempts :
             /\ row[b].status = "queued"
             /\ row'[b].status = "running"
             /\ row'[b].accounting = "conservative"
             /\ sent' = [sent EXCEPT ![b] = sent[b] + 1]
             /\ \A c \in Attempts : c # b => row'[c] = row[c]
      BY <2>2, StartsOnlyHead
    <3>2. CASE a = b
      <4>1. sent[a] # 1 /\ sent[a] <= 1 /\ sent[a] \in Nat
        BY <1>3, <3>1, <3>2 DEF PaidOnce
      <4>2. sent[a] = 0
        BY <4>1
      <4>3. sent'[a] = 1
        BY <1>2, <3>1, <3>2, <4>2
      <4>4. QED BY <3>1, <3>2, <4>3 DEF PaidOnce
    <3>3. CASE a # b
      <4>1. sent'[a] = sent[a] /\ row'[a] = row[a]
        BY <1>2, <3>1, <3>3
      <4>2. QED BY <1>3, <4>1
    <3>4. QED BY <3>2, <3>3
  <2>3. QED BY <2>1, <2>2
<1>5. QED BY <1>4 DEF SentOnceAndCharged, PaidOnce

\* No attempt's request is ever sent a second time, and every request that was sent
\* was charged on disk before it, over any number of daemons, crashes, restarts,
\* retries of a key and late answers.
THEOREM SentOnceHolds == CoordinatorSpec => []SentOnceAndCharged
<1>1. CoordinatorInit => SentOnceAndCharged
  <2>1. SUFFICES ASSUME CoordinatorInit PROVE SentOnceAndCharged
    OBVIOUS
  <2>2. \A a \in Attempts : row[a] = Absent /\ sent[a] = 0
    BY <2>1 DEF CoordinatorInit, Init
  <2>3. QED BY <2>2 DEF SentOnceAndCharged, Absent
<1>2. Base /\ SentOnceAndCharged /\ [CoordinatorNext]_allVars => SentOnceAndCharged'
  BY SentStep
<1>3. QED BY <1>1, <1>2, BaseInvariant, PTL DEF CoordinatorSpec

(***************************************************************************)
(* Leases: every birth is one daemon's, so only one can have authority.    *)
(***************************************************************************)
Leases ==
    /\ \A d \in Daemons : birth[d] <= births
    /\ \A d, e \in Daemons : birth[d] = birth[e] /\ birth[d] # 0 => d = e

LEMMA LeaseSteps ==
    ASSUME CoordinatorTypeOK, [CoordinatorNext]_allVars,
           ~ \E d \in Daemons : Acquire(d)
    PROVE  /\ UNCHANGED <<births, birth>>
           /\ owner' = owner \/ owner' = 0
<1>1. ASSUME UNCHANGED vars
      PROVE  UNCHANGED births /\ owner' = owner
  BY <1>1 DEF vars
<1>2. ASSUME NEW d \in Daemons, Lifecycle(d), ~Acquire(d)
      PROVE  UNCHANGED <<births, birth>> /\ (owner' = owner \/ owner' = 0)
  BY <1>1, <1>2 DEF Lifecycle, Recover, Crash, LoseLease, Close, Drained, Forget,
        RecoverPending, LoseOwner
<1>3. ASSUME NEW d \in Daemons, Handler(d)
      PROVE  UNCHANGED <<births, birth>> /\ (owner' = owner \/ owner' = 0)
  BY <1>1, <1>3 DEF Handler, SubmitRequest, RetryRequest, CancelRequest, ClearRequest,
        Abandon, Submit, Cancel, Clear
<1>4. ASSUME NEW d \in Daemons, Turning(d)
      PROVE  UNCHANGED <<births, birth>> /\ (owner' = owner \/ owner' = 0)
  <2>1. CASE PumpStarts(d) \/ PumpRefused(d)
    BY <2>1 DEF PumpStarts, PumpRefused, Dispatch, Start, StartRefused
  <2>2. CASE PumpSkips(d) \/ PumpThrows(d) \/ PumpEnds(d) \/ FailureTerminates(d)
    BY <1>1, <2>2 DEF PumpSkips, PumpThrows, PumpEnds, FailureTerminates, Dispatch
  <2>3. CASE \E room \in {"kept", "purged"} : FailurePublished(d, room)
    BY <2>3 DEF FailurePublished, FinishFailed
  <2>4. CASE TerminateEntry(d) \/ \E o \in Ops : RetireKeeps(d, o) \/ RetireEnds(d, o)
    BY <1>1, <2>4 DEF TerminateEntry, RetireKeeps, RetireEnds, TerminatePending
  <2>5. QED BY <1>4, <2>1, <2>2, <2>3, <2>4 DEF Turning
<1>5. ASSUME NEW d \in Daemons, NEW t \in slots[d], Settle(d, t)
      PROVE  UNCHANGED <<births, birth>> /\ (owner' = owner \/ owner' = 0)
  BY <1>1, <1>5 DEF Settle, SettleFenced, SettleRefused, SettleFailed, SettleCompleted,
        FinishCompleted
<1>6. CASE Surroundings
  BY <1>6 DEF Surroundings, DeadlinePasses, DeletePrompt, ClearPrompts, PurgeEvidence,
        DestroyScope, SetRole, process
<1>7. ASSUME NEW d \in Daemons, Poll(d)
      PROVE  UNCHANGED <<births, birth>> /\ (owner' = owner \/ owner' = 0)
  BY <1>1, <1>7 DEF Poll
<1>8. CASE UNCHANGED allVars
  BY <1>1, <1>8 DEF allVars, process
<1>9. QED BY <1>2, <1>3, <1>4, <1>5, <1>6, <1>7, <1>8 DEF CoordinatorNext

LEMMA LeasesStep ==
    ASSUME Base, Leases, [CoordinatorNext]_allVars
    PROVE  Leases'
<1>1. birth \in [Daemons -> 0 .. MaxOwners] /\ births \in 0 .. MaxOwners /\ MaxOwners \in Nat
  BY LimitAssumption DEF Base, CoordinatorTypeOK, TypeOK
<1>2. CASE ~ \E d \in Daemons : Acquire(d)
  BY <1>2, LeaseSteps DEF Leases, Base
<1>3. ASSUME NEW d \in Daemons, Acquire(d)
      PROVE  Leases'
  <2>1. births' = births + 1 /\ birth' = [birth EXCEPT ![d] = births + 1]
    BY <1>3 DEF Acquire, AcquireOwner
  <2>2. \A e \in Daemons : birth[e] \in Nat /\ birth[e] <= births /\ births \in Nat
    BY <1>1 DEF Leases
  <2>3. \A e \in Daemons : birth'[e] = IF e = d THEN births + 1 ELSE birth[e]
    BY <1>1, <2>1
  <2>4. \A e \in Daemons : birth'[e] <= births'
    BY <2>1, <2>2, <2>3
  <2>5. ASSUME NEW e \in Daemons, NEW f \in Daemons, birth'[e] = birth'[f], birth'[e] # 0
        PROVE  e = f
    BY <2>2, <2>3, <2>5 DEF Leases
  <2>6. QED BY <2>4, <2>5 DEF Leases
<1>4. QED BY <1>2, <1>3

(***************************************************************************)
(* Running attempts and who works on them.                                 *)
(***************************************************************************)
Owned(d, a) ==
    \/ \E t \in slots[d] : t.entry.attempt = a /\ t.state = "sent"
    \/ turn[d].at = "failed" /\ turn[d].entry.attempt = a
    \/ turn[d].at = "terminate" /\ turn[d].op = a[1]

LEMMA AbortedEntry ==
    ASSUME CoordinatorTypeOK, NEW d \in Daemons, NEW S, NEW t \in slots[d]
    PROVE  LET u == IF Op(t.entry) \in S THEN [t EXCEPT !.aborted = TRUE] ELSE t
           IN  u.entry = t.entry /\ u.state = t.state
<1>1. t \in Slot
  BY SlotEntry
<1>2. QED BY <1>1 DEF Slot

LEMMA AbortedSlots ==
    ASSUME CoordinatorTypeOK, NEW d \in Daemons, NEW S, NEW t \in slots[d]
    PROVE  \E u \in Aborted(slots[d], S) : u.entry = t.entry /\ u.state = t.state
<1> DEFINE u == IF Op(t.entry) \in S THEN [t EXCEPT !.aborted = TRUE] ELSE t
<1>1. u \in Aborted(slots[d], S)
  BY DEF Aborted
<1>2. u.entry = t.entry /\ u.state = t.state
  BY AbortedEntry
<1> HIDE DEF u
<1>3. QED BY <1>1, <1>2

LEMMA AbortedOrigins ==
    ASSUME CoordinatorTypeOK, NEW d \in Daemons, NEW S, NEW u \in Aborted(slots[d], S)
    PROVE  \E t \in slots[d] : u.entry = t.entry /\ u.state = t.state
<1>1. PICK t \in slots[d] : u = IF Op(t.entry) \in S THEN [t EXCEPT !.aborted = TRUE] ELSE t
  BY DEF Aborted
<1>2. u.entry = t.entry /\ u.state = t.state
  BY <1>1, AbortedEntry
<1>3. QED BY <1>2

\* What another daemon does leaves this one's memory alone.
LEMMA OthersLeave ==
    ASSUME CoordinatorTypeOK, NEW d \in Daemons, NEW e \in Daemons, d # e,
           \/ Lifecycle(e) \/ Handler(e) \/ Turning(e) \/ Poll(e)
           \/ \E t \in slots[e] : Settle(e, t)
    PROVE  phase'[d] = phase[d] /\ slots'[d] = slots[d] /\ turn'[d] = turn[d]
<1>1. /\ phase \in [Daemons -> {"down", "acquired", "up", "closing"}]
      /\ slots \in [Daemons -> SUBSET Slot] /\ turn \in [Daemons -> Turn]
  BY DEF CoordinatorTypeOK
<1>2. CASE Lifecycle(e)
  BY <1>1, <1>2 DEF Lifecycle, Acquire, Recover, Crash, LoseLease, Close, Drained, Forget,
        memory
<1>3. CASE Handler(e)
  BY <1>1, <1>3 DEF Handler, SubmitRequest, RetryRequest, CancelRequest, ClearRequest,
        Abandon, Enqueue, Resume, memory
<1>4. CASE Turning(e) \/ Poll(e)
  <2>1. CASE PumpStarts(e) \/ PumpRefused(e) \/ PumpSkips(e) \/ PumpThrows(e) \/ PumpEnds(e)
    BY <1>1, <2>1 DEF PumpStarts, PumpRefused, PumpSkips, PumpThrows, PumpEnds, Dispatch,
          Resume
  <2>2. CASE FailureTerminates(e) \/ TerminateEntry(e) \/ Poll(e)
             \/ \E room \in {"kept", "purged"} : FailurePublished(e, room)
    BY <1>1, <2>2 DEF FailureTerminates, TerminateEntry, FailurePublished, Resume, Poll
  <2>3. CASE \E o \in Ops : RetireKeeps(e, o) \/ RetireEnds(e, o)
    BY <1>1, <2>3 DEF RetireKeeps, RetireEnds
  <2>4. QED BY <1>4, <2>1, <2>2, <2>3 DEF Turning
<1>5. CASE \E t \in slots[e] : Settle(e, t)
  BY <1>1, <1>5 DEF Settle, SettleFenced, SettleRefused, SettleFailed, SettleCompleted,
        Freed
<1>6. QED BY <1>2, <1>3, <1>4, <1>5

\* A row that runs before and after a step of d keeps its worker in d.
LEMMA LifecycleOwns ==
    ASSUME Base, NEW d \in Daemons, Lifecycle(d), phase'[d] = "up",
           NEW a \in Attempts, row'[a].status = "running"
    PROVE  /\ phase[d] = "up"
           /\ Owned(d, a) => Owned(d, a)'
<1>1. phase \in [Daemons -> {"down", "acquired", "up", "closing"}]
  BY DEF Base, CoordinatorTypeOK
<1>2. ~Recover(d)
  <2>1. ASSUME RecoverPending
        PROVE  FALSE
    <3>1. row'[a] = Ended(Ops, "interrupted")[a]
      BY <2>1 DEF RecoverPending
    <3>2. a[1] \in Ops /\ row[a] \in RowRecord
      BY DEF Attempts, Base, LedgerInv, TypeOK
    <3>3. QED BY <3>1, <3>2 DEF Ended, Live, RowRecord
  <2>2. QED BY <2>1 DEF Recover
<1>3. ~Acquire(d) /\ ~Crash(d) /\ ~Drained(d) /\ ~Close(d)
  BY <1>1 DEF Acquire, Crash, Drained, Forget, Close
<1>4. LoseLease(d)
  BY <1>2, <1>3 DEF Lifecycle
<1>5. UNCHANGED <<phase, slots, turn>>
  BY <1>4 DEF LoseLease, memory
<1>6. QED BY <1>5 DEF Owned

LEMMA HandlerOwns ==
    ASSUME Base, NEW d \in Daemons, Handler(d), NEW a \in Attempts, Owned(d, a)
    PROVE  phase'[d] = phase[d] /\ Owned(d, a)'
<1>1. CoordinatorTypeOK
  BY DEF Base
<1>2. slots \in [Daemons -> SUBSET Slot] /\ turn \in [Daemons -> Turn]
  BY <1>1 DEF CoordinatorTypeOK
<1>3. Ready(d) /\ UNCHANGED phase
  BY DEF Handler, SubmitRequest, RetryRequest, CancelRequest, ClearRequest, Abandon
<1>4. PICK t \in slots[d] : t.entry.attempt = a /\ t.state = "sent"
  BY <1>3 DEF Ready, Idle, Owned
<1>5. \E u \in slots'[d] : u.entry = t.entry /\ u.state = t.state
  <2>1. ASSUME NEW S, Abandon(d, S)
        PROVE  \E u \in slots'[d] : u.entry = t.entry /\ u.state = t.state
    <3>1. slots'[d] = Aborted(slots[d], S)
      BY <1>2, <2>1 DEF Abandon
    <3>2. \E u \in Aborted(slots[d], S) : u.entry = t.entry /\ u.state = t.state
      BY <1>1, AbortedSlots
    <3>3. QED BY <3>1, <3>2
  <2>2. ASSUME NEW o, NEW s, Enqueue(d, o, s)
        PROVE  slots' = slots
    BY <2>2 DEF Enqueue, memory
  <2>3. QED BY <2>1, <2>2
           DEF Handler, SubmitRequest, RetryRequest, CancelRequest, ClearRequest
<1>6. QED BY <1>3, <1>4, <1>5 DEF Owned

LEMMA PumpOwns ==
    ASSUME Base, NEW d \in Daemons, NEW a \in Attempts,
           row[a].status = "running" => Owned(d, a), row'[a].status = "running",
           \/ PumpStarts(d) \/ PumpRefused(d) \/ PumpSkips(d) \/ PumpThrows(d)
           \/ PumpEnds(d)
    PROVE  phase'[d] = phase[d] /\ Owned(d, a)'
<1>1. slots \in [Daemons -> SUBSET Slot] /\ turn \in [Daemons -> Turn]
  BY DEF Base, CoordinatorTypeOK
<1>2. turn[d] = [at |-> "pump"] /\ phase'[d] = phase[d]
  BY DEF PumpStarts, PumpRefused, PumpSkips, PumpThrows, PumpEnds, CanDispatch, Dispatch
<1>3. Owned(d, a) => \E t \in slots[d] : t.entry.attempt = a /\ t.state = "sent"
  BY <1>2 DEF Owned
<1>4. CASE ~PumpEnds(d)
  <2>1. PICK state \in {"sent", "done"} : Dispatch(d, state)
    BY <1>4 DEF PumpStarts, PumpRefused, PumpSkips, PumpThrows
  <2>2. slots'[d] = slots[d] \cup {Filled(d, state)}
    BY <1>1, <2>1 DEF Dispatch
  <2>3. CASE row[a].status = "running"
    BY <1>2, <1>3, <2>2, <2>3 DEF Owned
  <2>4. CASE row[a].status # "running"
    <3>1. PumpStarts(d)
      <4>1. CASE PumpRefused(d)
        <5>1. PICK b \in Attempts : StartRefused(b)
          BY <4>1, HeadEntry DEF PumpRefused, CanDispatch, Base
        <5>2. StartRefusal(b) # "running"
          BY DEF StartRefusal
        <5>3. row \in [Attempts -> RowRecord]
          BY DEF Base, LedgerInv, TypeOK
        <5>4. row'[a].status \in {row[a].status, StartRefusal(b)}
          BY <5>1, <5>3 DEF StartRefused, RowRecord
        <5>5. QED BY <2>4, <5>2, <5>4
      <4>2. CASE PumpSkips(d) \/ PumpThrows(d)
        BY <2>4, <4>2 DEF PumpSkips, PumpThrows, vars
      <4>3. QED BY <1>4, <4>1, <4>2
    <3>2. a = Head(pending[d]).attempt
      BY <2>4, <3>1, StartsOnlyHead
    <3>3. Filled(d, "sent").entry = Head(pending[d]) /\ Filled(d, "sent").state = "sent"
      BY DEF Filled
    <3>4. slots'[d] = slots[d] \cup {Filled(d, "sent")}
      BY <1>1, <3>1 DEF PumpStarts, Dispatch
    <3>5. PICK t \in slots'[d] : t.entry.attempt = a /\ t.state = "sent"
      BY <3>2, <3>3, <3>4
    <3>6. Owned(d, a)'
      BY <3>5 DEF Owned
    <3>7. QED BY <1>2, <3>6
  <2>5. QED BY <2>3, <2>4
<1>5. CASE PumpEnds(d)
  <2>1. row'[a] = row[a]
    BY <1>5 DEF PumpEnds, vars
  <2>2. slots'[d] = {t \in slots[d] : t.state = "sent"}
    BY <1>1, <1>5 DEF PumpEnds
  <2>3. QED BY <1>2, <1>3, <2>1, <2>2 DEF Owned
<1>6. QED BY <1>4, <1>5

LEMMA TurningOwns ==
    ASSUME Base, NEW d \in Daemons, NEW a \in Attempts,
           owner' = owner, HasAuthority(d),
           row[a].status = "running" => Owned(d, a), row'[a].status = "running",
           Turning(d) \/ Poll(d)
    PROVE  phase'[d] = phase[d] /\ Owned(d, a)'
<1>1. CoordinatorTypeOK /\ TypeOK
  BY TypeParts DEF Base
<1>2. slots \in [Daemons -> SUBSET Slot] /\ turn \in [Daemons -> Turn]
  BY <1>1 DEF CoordinatorTypeOK
<1>3. CASE \/ PumpStarts(d) \/ PumpRefused(d) \/ PumpSkips(d) \/ PumpThrows(d)
           \/ PumpEnds(d)
  BY <1>3, PumpOwns
<1>4. ASSUME NEW room \in {"kept", "purged"}, FailurePublished(d, room)
      PROVE  phase'[d] = phase[d] /\ Owned(d, a)'
  <2>1. /\ turn[d].at = "failed" /\ turn[d].entry.attempt \in Attempts
        /\ turn[d].status \in {"failed", "timeout", "cancelled"}
        /\ FinishFailed(turn[d].entry.attempt, turn[d].status, room)
    BY <1>1, <1>4, TurnFields, EntryAttempt DEF FailurePublished
  <2>2. a # turn[d].entry.attempt /\ row[a].status = "running"
    BY <1>1, <2>1, FinishFailedCalm DEF Calm
  <2>3. QED BY <1>4, <2>1, <2>2 DEF FailurePublished, Owned
<1>5. CASE FailureTerminates(d)
  <2>1. turn[d].at = "failed" /\ row[a].status = "running" /\ UNCHANGED <<phase, slots>>
    BY <1>5 DEF FailureTerminates, vars
  <2>2. turn'[d] = [at |-> "terminate", op |-> Op(turn[d].entry), then |-> "idle"]
    BY <1>2, <1>5 DEF FailureTerminates
  <2>3. QED BY <2>1, <2>2 DEF Owned, Op
<1>6. CASE TerminateEntry(d)
  <2>1. turn[d].at = "terminate" /\ TerminatePending(turn[d].op) /\ UNCHANGED <<phase, slots>>
    BY <1>6 DEF TerminateEntry
  <2>2. row[a].status = "running" /\ a[1] # turn[d].op
    BY <1>1, <2>1, TerminateCalm DEF Calm
  <2>3. QED BY <2>1, <2>2 DEF Owned
<1>7. CASE Poll(d)
  BY <1>7 DEF Poll, Ready, Idle, vars, Owned
<1>8. ASSUME NEW o \in Ops, RetireKeeps(d, o)
      PROVE  phase'[d] = phase[d] /\ Owned(d, a)'
  BY <1>8 DEF RetireKeeps, vars, Owned
<1>9. ASSUME NEW o \in Ops, RetireEnds(d, o)
      PROVE  phase'[d] = phase[d] /\ Owned(d, a)'
  <2>1. TerminatePending(o) /\ turn[d].at = "retire" /\ phase'[d] = phase[d]
    BY <1>9 DEF RetireEnds
  <2>2. row[a].status = "running"
    BY <1>1, <2>1, TerminateCalm DEF Calm
  <2>3. PICK t \in slots[d] : t.entry.attempt = a /\ t.state = "sent"
    BY <2>1, <2>2 DEF Owned
  <2>4. slots'[d] = Aborted(slots[d], {o})
    BY <1>2, <1>9 DEF RetireEnds
  <2>5. \E u \in Aborted(slots[d], {o}) : u.entry = t.entry /\ u.state = t.state
    BY <1>1, AbortedSlots
  <2>6. \E u \in slots'[d] : u.entry = t.entry /\ u.state = t.state
    BY <2>4, <2>5
  <2>7. QED BY <2>1, <2>3, <2>6 DEF Owned
<1>10. QED BY <1>3, <1>4, <1>5, <1>6, <1>7, <1>8, <1>9 DEF Turning

LEMMA SettleOwns ==
    ASSUME Base, NEW d \in Daemons, NEW a \in Attempts, NEW t \in slots[d], Settle(d, t),
           phase'[d] = "up", HasAuthority(d),
           row[a].status = "running" => Owned(d, a), row'[a].status = "running"
    PROVE  Owned(d, a)'
<1>1. CoordinatorTypeOK /\ TypeOK
  BY TypeParts DEF Base
<1>2. slots \in [Daemons -> SUBSET Slot] /\ turn \in [Daemons -> Turn]
  BY <1>1 DEF CoordinatorTypeOK
<1>3. /\ InFlight(d, t) /\ Freed(d, t) /\ UNCHANGED phase
      /\ ~SettleFenced(d, t)
  BY DEF Settle, SettleFenced, SettleRefused, SettleCompleted, SettleFailed
<1>4. slots'[d] = slots[d] \ {t}
  BY <1>2, <1>3 DEF Freed
<1>5. CASE SettleRefused(d, t) \/ \E status \in {"failed", "timeout", "cancelled"} :
                                     SettleFailed(d, t, status)
  <2>1. row'[a] = row[a] /\ turn'[d].at = "failed" /\ turn'[d].entry = t.entry
    BY <1>2, <1>5 DEF SettleRefused, SettleFailed, vars
  <2>2. PICK u \in slots[d] : u.entry.attempt = a /\ u.state = "sent"
    BY <1>3, <2>1 DEF Owned, InFlight, Idle
  <2>3. QED BY <1>4, <2>1, <2>2 DEF Owned
<1>6. ASSUME NEW usage \in Usages, NEW room \in Room, SettleCompleted(d, t, usage, room)
      PROVE  Owned(d, a)'
  <2>1. t.entry.attempt \in Attempts /\ FinishCompleted(t.entry.attempt, usage, room)
    BY <1>1, <1>6, SlotEntry DEF SettleCompleted
  <2>2. row[a].status = "running" /\ a # t.entry.attempt
    BY <1>1, <2>1, FinishCompletedStarts
  <2>3. PICK u \in slots[d] : u.entry.attempt = a /\ u.state = "sent"
    BY <1>3, <2>2 DEF Owned, InFlight, Idle
  <2>4. QED BY <1>4, <2>2, <2>3 DEF Owned
<1>7. QED BY <1>3, <1>5, <1>6 DEF Settle

LEMMA WorkKeepsPhase ==
    ASSUME NEW d \in Daemons,
           Turning(d) \/ Poll(d) \/ \E t \in slots[d] : Settle(d, t)
    PROVE  phase' = phase
<1>1. CASE \/ PumpStarts(d) \/ PumpRefused(d) \/ PumpSkips(d) \/ PumpThrows(d)
           \/ PumpEnds(d)
  BY <1>1 DEF PumpStarts, PumpRefused, PumpSkips, PumpThrows, PumpEnds, Dispatch
<1>2. CASE \/ FailureTerminates(d) \/ TerminateEntry(d) \/ Poll(d)
           \/ \E room \in {"kept", "purged"} : FailurePublished(d, room)
           \/ \E o \in Ops : RetireKeeps(d, o) \/ RetireEnds(d, o)
  BY <1>2 DEF FailureTerminates, TerminateEntry, Poll, FailurePublished, RetireKeeps,
        RetireEnds
<1>3. CASE \E t \in slots[d] : Settle(d, t)
  BY <1>3 DEF Settle, SettleFenced, SettleRefused, SettleFailed, SettleCompleted
<1>4. QED BY <1>1, <1>2, <1>3 DEF Turning

\* Every running row has its worker in the daemon that has authority after a step,
\* when each had one before it.
LEMMA OwnedStep ==
    ASSUME Base, Leases, RunningIsOwned, [CoordinatorNext]_allVars,
           NEW d \in Daemons, phase'[d] = "up", HasAuthority(d)',
           NEW a \in Attempts, row'[a].status = "running"
    PROVE  Owned(d, a)'
<1>1. CoordinatorTypeOK /\ TypeOK
  BY TypeParts DEF Base
<1>2. /\ birth \in [Daemons -> 0 .. MaxOwners] /\ births \in 0 .. MaxOwners
      /\ MaxOwners \in Nat
      /\ phase \in [Daemons -> {"down", "acquired", "up", "closing"}]
  BY <1>1, LimitAssumption DEF CoordinatorTypeOK, TypeOK
<1>3. ~ \E e \in Daemons : Acquire(e)
  <2>1. SUFFICES ASSUME NEW e \in Daemons, Acquire(e) PROVE FALSE
    OBVIOUS
  <2>2. /\ births' = births + 1 /\ owner' = births' /\ birth' = [birth EXCEPT ![e] = births']
        /\ phase' = [phase EXCEPT ![e] = "acquired"]
    BY <2>1 DEF Acquire, AcquireOwner
  <2>3. d # e
    BY <1>2, <2>2
  <2>4. birth'[d] = birth[d] /\ birth[d] <= births
    BY <1>2, <2>2, <2>3 DEF Leases
  <2>5. birth'[d] = births + 1
    BY <2>2 DEF HasAuthority
  <2>6. birth[d] \in Nat /\ births \in Nat
    BY <1>2
  <2>7. QED BY <2>4, <2>5, <2>6
<1>4. UNCHANGED birth /\ owner' = owner /\ HasAuthority(d)
  BY <1>1, <1>3, LeaseSteps DEF HasAuthority
<1>5. ASSUME phase[d] = "up", row[a].status = "running"
      PROVE  Owned(d, a)
  BY <1>4, <1>5 DEF RunningIsOwned, WithStatus, Owned
<1>6. ASSUME NEW e \in Daemons, PumpStarts(e)
      PROVE  Owned(d, a)'
  <2>1. HasAuthority(e)
    BY <1>6 DEF PumpStarts, StartThrows, CanPublish
  <2>2. e = d
    BY <1>4, <2>1 DEF HasAuthority, Leases
  <2>3. phase'[d] = phase[d]
    BY <1>6, <2>2, WorkKeepsPhase DEF Turning
  <2>4. row[a].status = "running" => Owned(d, a)
    BY <1>5, <2>3
  <2>5. PumpStarts(d)
    BY <1>6, <2>2
  <2>6. QED BY <2>4, <2>5, PumpOwns
<1>7. ASSUME phase[d] = "up", slots'[d] = slots[d], turn'[d] = turn[d],
             row[a].status = "running"
      PROVE  Owned(d, a)'
  BY <1>5, <1>7 DEF Owned
<1>8. ASSUME row[a].status = "running",
             NEW e \in Daemons, \/ Lifecycle(e) \/ Handler(e) \/ Turning(e) \/ Poll(e)
                                \/ \E t \in slots[e] : Settle(e, t)
      PROVE  Owned(d, a)'
  <2>1. CASE e # d
    BY <1>1, <1>7, <1>8, <2>1, OthersLeave
  <2>2. CASE e = d /\ Lifecycle(d)
    BY <1>5, <1>8, <2>2, LifecycleOwns
  <2>3. CASE e = d /\ Handler(d)
    <3>1. phase[d] = "up"
      BY <2>3 DEF Handler, SubmitRequest, RetryRequest, CancelRequest, ClearRequest, Ready
    <3>2. QED BY <1>5, <1>8, <2>3, <3>1, HandlerOwns
  <2>4. CASE e = d /\ (Turning(d) \/ Poll(d))
    <3>1. phase[d] = "up"
      BY <2>4, WorkKeepsPhase
    <3>2. QED BY <1>4, <1>5, <1>8, <2>4, <3>1, TurningOwns
  <2>5. ASSUME e = d, NEW t \in slots[d], Settle(d, t)
        PROVE  Owned(d, a)'
    <3>1. phase[d] = "up"
      BY <2>5, WorkKeepsPhase
    <3>2. QED BY <1>4, <1>5, <1>8, <2>5, <3>1, SettleOwns
  <2>6. QED BY <1>8, <2>1, <2>2, <2>3, <2>4, <2>5
<1>9. CASE Surroundings \/ UNCHANGED allVars
  <2>1. UNCHANGED <<phase, slots, turn>>
    BY <1>9 DEF Surroundings, allVars, process, memory
  <2>2. (~ \E e \in Daemons : PumpStarts(e)) => row[a].status = "running"
    BY StartsNone
  <2>3. QED BY <1>6, <1>7, <2>1, <2>2
<1>10. QED
  <2>1. CASE \E e \in Daemons : PumpStarts(e)
    BY <1>6, <2>1
  <2>2. CASE ~ \E e \in Daemons : PumpStarts(e)
    <3>1. row[a].status = "running"
      BY <2>2, StartsNone
    <3>2. QED BY <1>8, <1>9, <3>1 DEF CoordinatorNext
  <2>3. QED BY <2>1, <2>2

\* As long as a daemon that is up has authority, every row the ledger calls running has
\* a request of that daemon in flight, or the turn of that daemon which records its
\* failure: no row is left running with nobody to end it, whatever other daemons start,
\* crash, lose their lease or are still draining.
THEOREM RunningIsOwnedHolds == CoordinatorSpec => []RunningIsOwned
<1>1. CoordinatorInit => Leases /\ RunningIsOwned
  <2>1. SUFFICES ASSUME CoordinatorInit PROVE Leases /\ RunningIsOwned
    OBVIOUS
  <2>2. /\ \A d \in Daemons : birth[d] = 0 /\ phase[d] = "down"
        /\ births = 0
    BY <2>1 DEF CoordinatorInit, Init
  <2>3. Leases
    BY <2>2 DEF Leases
  <2>4. RunningIsOwned
    BY <2>2 DEF RunningIsOwned
  <2>5. QED BY <2>3, <2>4
<1>2. Base /\ Leases /\ [CoordinatorNext]_allVars => Leases'
  BY LeasesStep
<1>3. Base /\ Leases /\ RunningIsOwned /\ [CoordinatorNext]_allVars => RunningIsOwned'
  <2>1. SUFFICES ASSUME Base, Leases, RunningIsOwned, [CoordinatorNext]_allVars
                 PROVE  RunningIsOwned'
    OBVIOUS
  <2>2. \A d \in Daemons : phase'[d] = "up" /\ HasAuthority(d)' =>
           \A a \in Attempts : row'[a].status = "running" => Owned(d, a)'
    BY <2>1, OwnedStep
  <2>3. QED BY <2>2 DEF RunningIsOwned, WithStatus, Owned
<1>4. QED BY <1>1, <1>2, <1>3, BaseInvariant, PTL DEF CoordinatorSpec

(***************************************************************************)
(* The fence of a request in flight.  It was compared with the scope when  *)
(* the attempt started, and the operation's generations with the scope's   *)
(* too, so the two agree; the operation keeps its generations for ever.    *)
(***************************************************************************)
Vouched(e) ==
    /\ head[Op(e)] # None
    /\ e.fence.promptGeneration = head[Op(e)].promptGeneration
    /\ e.fence.evidenceGeneration = head[Op(e)].evidenceGeneration
    /\ e.fence.comparisonGeneration = head[Op(e)].comparisonGeneration

FencesMatch == \A d \in Daemons : \A t \in slots[d] : t.state = "sent" => Vouched(t.entry)

LEMMA VouchedStays ==
    ASSUME Base, [CoordinatorNext]_allVars, NEW e \in Entry, Vouched(e)
    PROVE  Vouched(e)'
<1>1. TypeOK /\ AccountingShape /\ [Next]_vars
  BY LedgerMoves DEF Base, LedgerInv
<1>2. PICK o \in Ops : o = Op(e)
  BY EntryAttempt
<1>3. head[o] # None /\ head[o] \in HeadRecord
  BY <1>1, <1>2, StoredHead DEF Vouched
<1>4. PICK h \in HeadRecord : h = head[o]
  BY <1>3
<1>5. \/ head'[o] = h
      \/ head'[o] = [h EXCEPT !.tombstone = TRUE]
  <2>1. ASSUME NEW p \in Ops, NEW s \in Scopes, NEW r \in Requests, Submit(p, s, r)
        PROVE  head'[o] = h
    <3>1. p # o
      BY <1>3, <2>1 DEF Submit
    <3>2. head'[o] = head[o]
      BY <1>1, <2>1, <3>1 DEF Submit, TypeOK
    <3>3. QED BY <1>4, <3>2
  <2>2. CASE ~ \E p \in Ops, s \in Scopes, r \in Requests : Submit(p, s, r)
    BY <1>1, <1>4, <2>2, Steps DEF HeadsMove
  <2>3. QED BY <2>1, <2>2
<1>6. PICK g \in HeadRecord : g = [h EXCEPT !.tombstone = TRUE]
  BY <1>4 DEF HeadRecord
<1>7. /\ g.promptGeneration = h.promptGeneration
      /\ g.evidenceGeneration = h.evidenceGeneration
      /\ g.comparisonGeneration = h.comparisonGeneration
  BY <1>4, <1>6 DEF HeadRecord
<1>8. head'[o] = h \/ head'[o] = g
  BY <1>5, <1>6
<1>9. g # None /\ h # None
  BY <1>4, <1>6, NoneAssumption DEF HeadRecord
<1>10. Op(e)' = o
  BY <1>2 DEF Op
<1>11. QED BY <1>2, <1>4, <1>7, <1>8, <1>9, <1>10 DEF Vouched

\* A request in flight after a step was in flight before it, or was just sent.
LEMMA SlotsMove ==
    ASSUME CoordinatorTypeOK, [CoordinatorNext]_allVars, NEW d \in Daemons,
           NEW u \in slots'[d], u.state = "sent"
    PROVE  \/ \E t \in slots[d] : t.entry = u.entry /\ t.state = "sent"
           \/ PumpStarts(d) /\ u.entry = Head(pending[d])
<1>1. slots \in [Daemons -> SUBSET Slot]
  BY DEF CoordinatorTypeOK
<1>2. ASSUME slots'[d] = slots[d] \/ slots'[d] \subseteq slots[d]
      PROVE  \E t \in slots[d] : t.entry = u.entry /\ t.state = "sent"
  BY <1>2
<1>3. ASSUME NEW S, slots'[d] = Aborted(slots[d], S)
      PROVE  \E t \in slots[d] : t.entry = u.entry /\ t.state = "sent"
  <2>1. u \in Aborted(slots[d], S)
    BY <1>3
  <2>2. PICK t \in slots[d] : u.entry = t.entry /\ u.state = t.state
    BY <2>1, AbortedOrigins
  <2>3. QED BY <2>2
<1>4. CASE Lifecycle(d)
  <2>1. CASE Acquire(d) \/ Recover(d) \/ LoseLease(d)
    BY <1>2, <2>1 DEF Acquire, Recover, LoseLease, memory
  <2>2. CASE Crash(d) \/ Drained(d)
    BY <1>1, <1>2, <2>2 DEF Crash, Drained, Forget
  <2>3. CASE Close(d)
    <3>1. slots'[d] = Aborted(slots[d], Ops)
      BY <1>1, <2>3 DEF Close
    <3>2. QED BY <1>3, <3>1
  <2>4. QED BY <1>4, <2>1, <2>2, <2>3 DEF Lifecycle
<1>5. CASE Handler(d)
  <2>1. ASSUME NEW S, Abandon(d, S)
        PROVE  \E t \in slots[d] : t.entry = u.entry /\ t.state = "sent"
    BY <1>1, <1>3, <2>1 DEF Abandon
  <2>2. ASSUME NEW o, NEW s, Enqueue(d, o, s)
        PROVE  slots' = slots
    BY <2>2 DEF Enqueue, memory
  <2>3. QED BY <1>2, <1>5, <2>1, <2>2
           DEF Handler, SubmitRequest, RetryRequest, CancelRequest, ClearRequest
<1>6. CASE Turning(d) \/ Poll(d)
  <2>1. CASE PumpStarts(d)
    <3>1. slots'[d] = slots[d] \cup {Filled(d, "sent")}
      BY <1>1, <2>1 DEF PumpStarts, Dispatch
    <3>2. Filled(d, "sent").entry = Head(pending[d])
      BY DEF Filled
    <3>3. u \in slots[d] \/ u.entry = Head(pending[d])
      BY <3>1, <3>2
    <3>4. QED BY <2>1, <3>3
  <2>2. CASE PumpRefused(d) \/ PumpSkips(d) \/ PumpThrows(d)
    <3>1. slots'[d] = slots[d] \cup {Filled(d, "done")}
      BY <1>1, <2>2 DEF PumpRefused, PumpSkips, PumpThrows, Dispatch
    <3>2. Filled(d, "done").state = "done"
      BY DEF Filled
    <3>3. u \in slots[d]
      BY <3>1, <3>2
    <3>4. QED BY <3>3
  <2>3. CASE PumpEnds(d)
    BY <1>1, <1>2, <2>3 DEF PumpEnds
  <2>4. CASE \/ FailureTerminates(d) \/ TerminateEntry(d) \/ Poll(d)
             \/ \E room \in {"kept", "purged"} : FailurePublished(d, room)
             \/ \E o \in Ops : RetireKeeps(d, o)
    BY <1>2, <2>4 DEF FailureTerminates, TerminateEntry, Poll, FailurePublished, RetireKeeps
  <2>5. ASSUME NEW o \in Ops, RetireEnds(d, o)
        PROVE  \E t \in slots[d] : t.entry = u.entry /\ t.state = "sent"
    <3>1. slots'[d] = Aborted(slots[d], {o})
      BY <1>1, <2>5 DEF RetireEnds
    <3>2. QED BY <1>3, <3>1
  <2>6. QED BY <1>6, <2>1, <2>2, <2>3, <2>4, <2>5 DEF Turning
<1>7. CASE \E t \in slots[d] : Settle(d, t)
  BY <1>1, <1>2, <1>7 DEF Settle, SettleFenced, SettleRefused, SettleFailed,
        SettleCompleted, Freed
<1>8. ASSUME NEW e \in Daemons, e # d,
             \/ Lifecycle(e) \/ Handler(e) \/ Turning(e) \/ Poll(e)
             \/ \E t \in slots[e] : Settle(e, t)
      PROVE  \E t \in slots[d] : t.entry = u.entry /\ t.state = "sent"
  BY <1>2, <1>8, OthersLeave
<1>9. CASE Surroundings \/ UNCHANGED allVars
  BY <1>2, <1>9 DEF Surroundings, allVars, process, memory
<1>10. QED
  BY <1>4, <1>5, <1>6, <1>7, <1>8, <1>9 DEF CoordinatorNext

LEMMA FencesStep ==
    ASSUME Base, FencesMatch, [CoordinatorNext]_allVars
    PROVE  FencesMatch'
<1>1. CoordinatorTypeOK /\ TypeOK
  BY TypeParts DEF Base
<1>2. ASSUME NEW d \in Daemons, NEW u \in slots'[d], u.state = "sent"
      PROVE  Vouched(u.entry)'
  <2>1. CASE \E t \in slots[d] : t.entry = u.entry /\ t.state = "sent"
    <3>1. u.entry \in Entry /\ Vouched(u.entry)
      BY <1>1, <2>1, SlotEntry DEF FencesMatch
    <3>2. QED BY <3>1, VouchedStays
  <2>2. CASE PumpStarts(d) /\ u.entry = Head(pending[d])
    <3>1. PICK e \in Entry : e = u.entry /\ CanPublish(d, e) /\ Start(e.attempt)
      BY <1>1, <2>2, HeadEntry DEF PumpStarts, CanDispatch, StartThrows, Base
    <3>2. Admissible(Op(e)) /\ head[Op(e)] # None
      BY <3>1 DEF Start, Startable, StartRefusal, Op
    <3>3. e.fence = Current(head[Op(e)].scope)
      BY <3>1 DEF CanPublish
    <3>4. Vouched(e)
      BY <3>2, <3>3 DEF Vouched, Admissible, Current
    <3>5. QED BY <3>1, <3>4, VouchedStays
  <2>3. QED BY <1>1, <1>2, <2>1, <2>2, SlotsMove
<1>3. QED BY <1>2 DEF FencesMatch

\* Every answer that becomes an attempt's result is published by a daemon with
\* authority, for an operation that still has its content, in a scope whose three
\* generations are those the operation was admitted under, for a member who may still
\* edit: a clear, a purge, a role change or another daemon between the request and its
\* answer always discards the answer.
THEOREM PublishedUnderAuthorityHolds == CoordinatorSpec => PublishedUnderAuthority
<1> DEFINE Published ==
      \A a \in Attempts :
          row'[a].status = "completed" /\ row[a].status # "completed" =>
              /\ Admissible(a[1])
              /\ ~head[a[1]].tombstone
              /\ Can(scope[head[a[1]].scope].role, "edit")
<1>1. CoordinatorInit => FencesMatch
  BY DEF CoordinatorInit, FencesMatch
<1>2. Base /\ FencesMatch /\ [CoordinatorNext]_allVars => FencesMatch'
  BY FencesStep
<1>3. Base /\ FencesMatch /\ [CoordinatorNext]_allVars => Published
  <2>1. SUFFICES ASSUME Base, FencesMatch, [CoordinatorNext]_allVars, NEW a \in Attempts,
                        row'[a].status = "completed", row[a].status # "completed"
                 PROVE  /\ Admissible(a[1])
                        /\ ~head[a[1]].tombstone
                        /\ Can(scope[head[a[1]].scope].role, "edit")
    OBVIOUS
  <2>2. CoordinatorTypeOK /\ TypeOK
    BY <2>1, TypeParts DEF Base
  <2>3. ~Calm
    BY <2>1 DEF Calm
  <2>4. ~ \E d \in Daemons : PumpStarts(d)
    <3>1. SUFFICES ASSUME NEW d \in Daemons, PumpStarts(d) PROVE FALSE
      OBVIOUS
    <3>2. PICK b \in Attempts : /\ row'[b].status = "running"
                                /\ \A c \in Attempts : c # b => row'[c] = row[c]
      BY <2>1, <3>1, StartsOnlyHead
    <3>3. QED BY <2>1, <3>2
  <2> PICK d \in Daemons : \E t \in slots[d], usage \in Usages, room \in Room :
           SettleCompleted(d, t, usage, room)
    BY <2>1, <2>2, <2>3, <2>4, CalmSteps
  <2>5. PICK t \in slots[d], usage \in Usages, room \in Room :
           SettleCompleted(d, t, usage, room)
    OBVIOUS
  <2>6. /\ t.entry.attempt \in Attempts /\ FinishCompleted(t.entry.attempt, usage, room)
        /\ t.state = "sent" /\ CanPublish(d, t.entry)
    BY <2>2, <2>5, SlotEntry DEF SettleCompleted, InFlight
  <2>7. a = t.entry.attempt /\ Op(t.entry) = a[1]
    BY <2>1, <2>2, <2>6, FinishCompletedStarts DEF Op
  <2>8. Vouched(t.entry) /\ t.entry.fence = Current(head[a[1]].scope)
    BY <2>1, <2>6, <2>7 DEF FencesMatch, CanPublish
  <2>9. Admissible(a[1])
    BY <2>7, <2>8 DEF Vouched, Admissible, Current
  <2>10. ~head[a[1]].tombstone /\ Can(scope[head[a[1]].scope].role, "edit")
    BY <2>6, <2>7 DEF FinishCompleted, Finishable, Authorized
  <2>11. QED BY <2>9, <2>10
<1>4. Base /\ FencesMatch /\ [CoordinatorNext]_allVars => [Published]_allVars
  BY <1>3
<1>5. QED BY <1>1, <1>2, <1>4, BaseInvariant, PTL DEF CoordinatorSpec, PublishedUnderAuthority
===================================================================================
