--------------------------- MODULE MCComparisonLedger ---------------------------
(* Small instances of ComparisonLedger for TLC. *)
EXTENDS ComparisonLedger, TLC

CONSTANTS o1, o2, p1, p2, openai, anthropic

Target1(provider, reserve) == [provider |-> provider, reserve |-> reserve]

\* One target, two targets of one provider, two providers; a budget that the
\* second does not fit is among them.
MCRequests ==
    {[prompt |-> p1, budget |-> 3,
      targets |-> [k \in {0} |-> Target1(openai, 1)]],
     [prompt |-> p1, budget |-> 2,
      targets |-> [k \in {0, 1} |-> Target1(IF k = 0 THEN openai ELSE anthropic, 1)]],
     [prompt |-> p1, budget |-> 3,
      targets |-> [k \in {0, 1} |-> Target1(openai, k + 1)]]}

\* Two targets of one provider, of either prompt.
MCPairRequests ==
    {[prompt |-> p, budget |-> 3, targets |-> [k \in {0, 1} |-> Target1(openai, 1)]]
        : p \in {p1, p2}}

\* Free, over the reservation, unrepresentable, and unpriced with too many tokens.
MCUsages ==
    {[known |-> TRUE, amount |-> n, tokensExceeded |-> FALSE] : n \in {0, 2, 3}}
      \cup {[known |-> FALSE, amount |-> 0, tokensExceeded |-> TRUE]}

MCCeiling == [p \in {openai, anthropic} |-> IF p = openai THEN 3 ELSE 1]

MCOps == {o1, o2}

MCSymmetry == Permutations(MCOps)
=============================================================================
