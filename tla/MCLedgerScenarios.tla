--------------------------- MODULE MCLedgerScenarios ---------------------------
(***************************************************************************)
(* Two instances of ComparisonLedger in one run.                           *)
(***************************************************************************)
EXTENDS MCComparisonLedger

MCEveryRequest == MCRequests \cup MCPairRequests

Asked(requests) == \A o \in Stored : head[o].request \in requests

GenerationsTo(n) ==
    \A s \in Scopes :
        {scope[s].promptGeneration, scope[s].evidenceGeneration,
         scope[s].comparisonGeneration} \subseteq 0 .. n

\* One lease, two operations of one or two providers: budgets, slots, quotas.
Money ==
    /\ births <= 1 /\ Asked(MCRequests) /\ GenerationsTo(1)
    /\ \A s \in Scopes : scope[s].role = "admin" /\ (scope[s].active => p2 \in scope[s].prompts)

\* One operation, two leases, a member whose role changes, two prompts removed,
\* all before the deadline and within the reservations.
Privacy ==
    /\ Cardinality(Stored) <= 1 /\ Asked(MCPairRequests) /\ GenerationsTo(2)
    /\ expired = {} /\ \A a \in Attempts : ~row[a].breach

MCBound == Money \/ Privacy
=============================================================================
