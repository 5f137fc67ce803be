------------------------- MODULE MCCoordinatorScenarios -------------------------
(***************************************************************************)
(* Two instances of ComparisonCoordinator in one run.                      *)
(***************************************************************************)
EXTENDS MCComparisonCoordinator

MCEveryRequest == MCRequests \cup MCPairRequests

Asked(requests) == \A o \in Stored : head[o].request \in requests

GenerationsTo(n) ==
    \A s \in Scopes :
        {scope[s].promptGeneration, scope[s].evidenceGeneration,
         scope[s].comparisonGeneration} \subseteq 0 .. n

\* A second daemon takes over, crashes, leases that are lost.
Takeover == births <= 2 /\ Asked(MCRequests) /\ GenerationsTo(1)

\* One daemon, operations of two attempts: queues, cancellation, clears.
Queueing == births <= 1 /\ Asked(MCPairRequests) /\ GenerationsTo(2)

MCBound == Takeover \/ Queueing
=============================================================================
