------------------------------- MODULE ReviewQueue -------------------------------
(***************************************************************************)
(* Local review queues (review-queues/store.ts and state.ts) and the       *)
(* promotion of approved items into a dataset.  Every operation is one     *)
(* immediate transaction: one that is refused, or that repeats what was    *)
(* done, changes nothing and is not a step.  Requests may come late: each  *)
(* names the revision its author read.  An item is identified by its queue *)
(* and its source.  A draft is a value of Drafts; schemas, texts, byte     *)
(* budgets and clocks are left out.                                        *)
(***************************************************************************)
EXTENDS Datasets

CONSTANTS
  QueueIds,       \* UUIDs createReviewQueue may draw
  Sources,        \* captured runs (and spans) that may be reviewed
  Drafts,         \* what a reviewer may write
  Complete,       \* drafts with every required target: only these are approved
  Blank,          \* the draft an item starts with
  Mutations,      \* mutation ids
  Keys,           \* idempotency keys of promotions
  MaxQueues, MaxItems, MaxPromotions,  \* REVIEW_LIMITS
  MaxOrdinal      \* bound: revisions explored

ASSUME DraftsAssumption ==
  Complete \subseteq Drafts /\ Blank \in Drafts \ Complete /\ MaxOrdinal \in Nat

VARIABLES
  next,      \* QueueIds -> next_ordinal, 0 if there is no queue
  item,      \* QueueIds \X Sources -> review item or None
  receipts,  \* promotions
  taken      \* history: revisions each source has had in each queue

reviewVars == <<next, item, receipts, taken>>

Present(q, s) == item[<<q, s>>] # None

Kinds == {"save", "approve", "reopen"}

\* reviewCaseId and compileReviewCase: targets become code rules.
CaseOf(q, s, draft) == [id |-> <<q, s>>, rules |-> <<"code">>, draft |-> draft]

ReviewInit ==
  /\ next = [q \in QueueIds |-> 0]
  /\ item = [p \in QueueIds \X Sources |-> None]
  /\ receipts = {} /\ taken = {}

-----------------------------------------------------------------------------
(* Queues and their items. *)

CreateReviewQueue(q) ==
  /\ q \notin issued
  /\ Cardinality({r \in QueueIds : next[r] # 0}) < MaxQueues
  /\ issued' = issued \cup {q}
  /\ next' = [next EXCEPT ![q] = 1]
  /\ UNCHANGED <<dataset, item, receipts, taken>>

\* With its items and its receipts.
DeleteReviewQueue(q) ==
  /\ next[q] # 0
  /\ next' = [next EXCEPT ![q] = 0]
  /\ item' = [p \in DOMAIN item |-> IF p[1] = q THEN None ELSE item[p]]
  /\ receipts' = {r \in receipts : r.queue # q}
  /\ UNCHANGED <<dataset, issued, taken>>

\* Mutant of Intake: the schema's DEFAULT 1.
IntakeAtOne(ordinal) ==
  [revision |-> 1, state |-> "draft", draft |-> Blank, approved |-> None,
   mutation |-> None, destination |-> None]

\* The row a source is frozen into, under the queue's next number.
Intake(ordinal) ==
  [revision |-> ordinal, state |-> "draft", draft |-> Blank, approved |-> None,
   mutation |-> None, destination |-> None]

\* Retrying the intake of a source returns the retained item.
InsertReviewItem(q, s) ==
  /\ next[q] \in 1 .. MaxOrdinal
  /\ ~Present(q, s)
  /\ Cardinality({p \in DOMAIN item : item[p] # None}) < MaxItems
  /\ LET new == Intake(next[q])
     IN  /\ item' = [item EXCEPT ![<<q, s>>] = new]
         /\ taken' = taken \cup {<<q, s, new.revision>>}
  /\ next' = [next EXCEPT ![q] = @ + 1]
  /\ UNCHANGED <<dataset, issued, receipts>>

\* persistReviewMutation for a set of items of one queue.
Persist(q, changed) ==
  LET revisions == {changed[s].revision : s \in DOMAIN changed}
  IN  /\ \A r \in revisions : r <= MaxOrdinal
      /\ item' = [p \in DOMAIN item |->
           IF p[1] = q /\ p[2] \in DOMAIN changed THEN changed[p[2]] ELSE item[p]]
      /\ taken' = taken \cup {<<q, s, changed[s].revision>> : s \in DOMAIN changed}
      /\ next' = [next EXCEPT ![q] = Max({@} \cup {r + 1 : r \in revisions})]

\* A mutation that the item did not just see, of the revision it is at.
Mutable(i, kind, expected, mutation) ==
  /\ i.mutation # mutation
  /\ i.revision = expected
  /\ i.state = IF kind = "reopen" THEN "approved" ELSE "draft"

\* applyReviewMutation
Mutated(i, kind, draft, mutation) ==
  [i EXCEPT !.revision = @ + 1, !.draft = draft, !.mutation = mutation,
            !.state    = IF kind = "approve" THEN "approved" ELSE "draft",
            !.approved = IF kind = "approve" THEN draft ELSE None]

MutateReviewItem(q, s, kind, expected, mutation, draft) ==
  /\ Present(q, s)
  /\ LET i == item[<<q, s>>]
     IN  /\ Mutable(i, kind, expected, mutation)
         /\ kind = "reopen" => draft = i.draft
         /\ kind = "approve" => draft \in Complete
         /\ Persist(q, [x \in {s} |-> Mutated(i, kind, draft, mutation)])
  /\ UNCHANGED <<dataset, issued, receipts>>

DeleteReviewItem(q, s, expected) ==
  /\ Present(q, s) /\ item[<<q, s>>].revision = expected
  /\ item' = [item EXCEPT ![<<q, s>>] = None]
  /\ UNCHANGED <<dataset, issued, next, receipts, taken>>

\* The run of a source is deleted, its items with it; the run may be captured again.
DeleteSource(s) ==
  /\ \E q \in QueueIds : Present(q, s)
  /\ item' = [p \in DOMAIN item |-> IF p[2] = s THEN None ELSE item[p]]
  /\ UNCHANGED <<dataset, issued, next, receipts, taken>>

-----------------------------------------------------------------------------
(* Promotion. *)

\* Mutant of Promotable: the revision is taken for the approval.
PromotableUnapproved(q, chosen) ==
  \A s \in DOMAIN chosen :
    Present(q, s) /\ item[<<q, s>>].revision = chosen[s] /\ item[<<q, s>>].state # "promoted"

\* The items a request names are there, approved, at the revisions it names.
Promotable(q, chosen) ==
  \A s \in DOMAIN chosen :
    Present(q, s) /\ item[<<q, s>>].revision = chosen[s] /\ item[<<q, s>>].state = "approved"

\* markReviewPromoted
Promoted(i, d, version) ==
  [i EXCEPT !.revision = @ + 1, !.state = "promoted", !.mutation = None,
            !.destination = [dataset |-> d, version |-> version]]

\* promoteApprovedReviewItems: a revision, the items and the receipt at once. A
\* key that has a receipt answers with it, or refuses another request.
Promote(q, d, expected, key, chosen) ==
  LET additions == SetToSeq({CaseOf(q, s, item[<<q, s>>].draft) : s \in DOMAIN chosen})
  IN  /\ next[q] # 0
      /\ ~\E r \in receipts : r.queue = q /\ r.key = key
      /\ Appendable(d, expected)
      /\ Promotable(q, chosen)
      /\ \A s \in DOMAIN chosen : <<q, s>> \notin CaseIds(Last(dataset[d]))
      /\ Cardinality(receipts) < MaxPromotions
      /\ AppendRevision(d, expected, Last(dataset[d]) \o additions)
      /\ Persist(q, [s \in DOMAIN chosen |-> Promoted(item[<<q, s>>], d, expected + 1)])
      /\ receipts' = receipts \cup {[queue |-> q, key |-> key, dataset |-> d,
                                     version |-> expected + 1, items |-> DOMAIN chosen]}
      /\ UNCHANGED issued

\* deleteDataset, and the receipts that refer to its revisions.
DropDataset(d) ==
  /\ DeleteDataset(d)
  /\ receipts' = {r \in receipts : r.dataset # d}
  /\ UNCHANGED <<next, item, taken>>

-----------------------------------------------------------------------------
(* Correctness. *)

\* "Delayed requests cannot address the new source incarnation with an old
\* revision": whatever happens to an item, through deletion and a new intake,
\* it never returns to a revision its source once had in its queue.
RevisionsNeverReused ==
  [][\A p \in DOMAIN item :
       item'[p] # item[p] /\ item'[p] # None => <<p[1], p[2], item'[p].revision>> \notin taken
    ]_<<item, taken>>

\* What a receipt says was added is what its revision adds to the one before,
\* no two receipts claim one revision, and a promoted item is in the revision
\* it names with the draft the operator approved.
PromotionExact ==
  /\ \A r \in receipts :
       /\ HasRevision(r.dataset, r.version) /\ r.version > 1
       /\ LET before == dataset[r.dataset][r.version - 1]
              after  == dataset[r.dataset][r.version]
          IN  /\ Len(after) = Len(before) + Cardinality(r.items)
              /\ IsPrefix(before, after)
              /\ CaseIds(after) \ CaseIds(before) = {<<r.queue, s>> : s \in r.items}
       /\ \A o \in receipts : <<o.dataset, o.version>> = <<r.dataset, r.version>> => o = r
  /\ \A p \in DOMAIN item :
       item[p] # None /\ item[p].state = "promoted" /\ Exists(item[p].destination.dataset) =>
         LET to == item[p].destination
         IN  /\ CaseOf(p[1], p[2], item[p].approved) \in ToSet(dataset[to.dataset][to.version])
             /\ \E r \in receipts : /\ r.queue = p[1] /\ p[2] \in r.items
                                    /\ r.dataset = to.dataset /\ r.version = to.version
=============================================================================
