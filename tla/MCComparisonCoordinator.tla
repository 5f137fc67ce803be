------------------------ MODULE MCComparisonCoordinator ------------------------
(* Small instances of ComparisonCoordinator for TLC. *)
EXTENDS ComparisonCoordinator, TLC

CONSTANTS o1, o2, o3, p1, p2, d1, d2, openai

MCCeiling == [p \in {openai} |-> 3]

\* One target each, of either prompt.
MCRequests ==
    {[prompt |-> p, budget |-> 3,
      targets |-> [k \in {0} |-> [provider |-> openai, reserve |-> 1]]] : p \in Prompts}

\* Two targets each, of either prompt.
MCPairRequests ==
    {[prompt |-> p, budget |-> 3,
      targets |-> [k \in {0, 1} |-> [provider |-> openai, reserve |-> 1]]] : p \in Prompts}

\* Money is MCComparisonLedger's concern: here every answer is unpriced.
MCUsages == {[known |-> FALSE, amount |-> 0, tokensExceeded |-> FALSE]}

MCTwoOps == {o1, o2}
MCThreeOps == {o1, o2, o3}
MCDaemons == {d1, d2}
MCSymmetry == Permutations(MCTwoOps) \cup Permutations(MCDaemons)
=============================================================================
