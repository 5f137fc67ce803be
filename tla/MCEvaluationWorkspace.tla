-------------------------- MODULE MCEvaluationWorkspace --------------------------
(***************************************************************************)
(* A small instance of EvaluationWorkspace, each scenario in every order.  *)
(***************************************************************************)
EXTENDS EvaluationWorkspace

CONSTANTS blank, full, s1, s2

Case(n, rules) == [id |-> <<"case", n>>, rules |-> rules]

Idle == [imports |-> {<<>>}, added |-> {}, sources |-> {}, revisions |-> 0, drops |-> FALSE,
         held |-> FALSE, overlap |-> FALSE, starts |-> 0, daemons |-> 1, breaks |-> 0, clears |-> 0]

Mixed == <<Case(1, <<"code">>), Case(2, <<"rubric">>)>>

MCScenarios ==
  { \* two sources are reviewed and promoted, together or one after the other
    [Idle EXCEPT !.sources = {s1, s2}, !.revisions = 5, !.drops = TRUE],
    \* a dataset that its editor changes as well
    [Idle EXCEPT !.sources = {s1, s2}, !.revisions = 4, !.added = {<<>>, <<"code">>}, !.clears = 1],
    \* one source that comes back and is promoted again
    [Idle EXCEPT !.sources = {s1}, !.revisions = 7, !.added = {<<>>}, !.drops = TRUE],
    \* two experiments at once, a store that fails
    [Idle EXCEPT !.imports = {Mixed}, !.starts = 2, !.breaks = 1, !.clears = 1],
    \* a daemon that is replaced while its jobs go on
    [Idle EXCEPT !.imports = {<<Case(1, <<"code", "rubric">>)>>}, !.starts = 2, !.daemons = 2,
                 !.overlap = TRUE],
    \* experiments that make room for another
    [Idle EXCEPT !.imports = {<<Case(1, <<"code">>)>>}, !.starts = 3, !.held = TRUE],
    \* a promoted review that is run
    [Idle EXCEPT !.sources = {s1}, !.revisions = 4, !.starts = 1, !.daemons = 2] }

\* Identities that nothing tells apart.
MCSymmetry == Permutations(DatasetIds) \cup Permutations(Mutations) \cup Permutations(Keys)
=============================================================================
