----------------------------- MODULE MCVerification -----------------------------
(***************************************************************************)
(* A small instance of VerificationService: what the pages do and what is  *)
(* called differ by scenario, every scenario is explored in every order.   *)
(***************************************************************************)
EXTENDS VerificationService

ActOn(kind) == [call |-> "act", kind |-> kind]
AssertThat(predicate) == [call |-> "assert", predicate |-> predicate]
FlowOf(steps) == [call |-> "flow", steps |-> steps]

Quiet == [conns |-> 1, errors |-> 0, large |-> {FALSE}, requests |-> 0, blinds |-> FALSE,
          pressed |-> 0, removed |-> FALSE, calls |-> <<>>]

MCScenarios ==
  { \* errors that wait, are evicted or too large, after a click
    [Quiet EXCEPT !.errors = 2, !.large = BOOLEAN, !.pressed = 1,
                  !.calls = <<ActOn("click"), AssertThat("absent")>>],
    \* a second document takes the session over
    [Quiet EXCEPT !.conns = 2, !.errors = 1, !.calls = <<AssertThat("absent")>>],
    \* requests that outlive their action
    [Quiet EXCEPT !.requests = 2, !.calls = <<FlowOf(<<"network", "network">>)>>],
    \* turns of two actions
    [Quiet EXCEPT !.removed = TRUE, !.pressed = 1, !.calls = <<ActOn("causal"), FlowOf(<<"changed", "absent">>)>>],
    \* a turn that is read again later
    [Quiet EXCEPT !.calls = <<ActOn("causal"), AssertThat("changed")>>],
    \* a network observer that fails
    [Quiet EXCEPT !.removed = TRUE, !.requests = 1, !.blinds = TRUE, !.calls = <<AssertThat("absent")>>] }
=============================================================================
