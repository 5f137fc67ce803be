---------------------------- MODULE MCHookManagement ----------------------------
(***************************************************************************)
(* Small instances of the coding hooks: two installations, one or two      *)
(* roots, up to three callbacks over one active and one queued place, two *)
(* management requests.  Each scenario bounds what it explores.            *)
(***************************************************************************)
EXTENDS HookManagement, TLC

CONSTANTS k1, k2

MCSymmetry == Permutations(Callbacks) \cup Permutations(Managers)

Active(i, mode, roots, version) ==
  [state |-> "active", generation |-> i, token |-> i, mode |-> mode, roots |-> roots, version |-> version]

Calm ==
  [rows |-> <<Active(1, "metadata", {k1}, 1), NoRow>>, sessions |-> {k1}, events |-> {"none"}, wants |-> {},
   outcomes |-> {"success"}, bodies |-> {TRUE},
   hooks |-> 0, lines |-> 0, rewrites |-> 0, installs |-> 0, uninstalls |-> 0, activations |-> 0,
   clears |-> 0, deletions |-> 0, stops |-> 0, crashes |-> 0, boots |-> 0, failures |-> 0, stopped |-> FALSE]

Meta == [mode |-> "metadata", roots |-> {k1}]
Full == [mode |-> "full", roots |-> {k1}]
Both == [mode |-> "metadata", roots |-> {k1, k2}]

\* Callbacks of one session over a transcript that grows and is rewritten, while its
\* run is deleted; and more callbacks than the controller has places for.
Sessions == {
  [Calm EXCEPT !.rows[1] = Active(1, "full", {k1}, 1), !.events = {"pending", "interrupted"},
               !.outcomes = {"failure", "unknown"}, !.bodies = BOOLEAN, !.hooks = 2, !.lines = 2, !.rewrites = 1, !.deletions = 1],
  [Calm EXCEPT !.rows[1] = Active(1, "full", {k1}, 2), !.events = {"success", "failure"},
               !.outcomes = Outcomes, !.hooks = 2, !.lines = 1, !.rewrites = 1, !.deletions = 1],
  [Calm EXCEPT !.hooks = 3]}

\* Clear, twice at once or failing, over callbacks and the reinstallation after it.
Clears == {
  [Calm EXCEPT !.rows[1] = Active(1, "metadata", {k1}, v), !.events = {"success"},
               !.hooks = 2, !.clears = 2, !.installs = 1, !.wants = {Meta}, !.failures = 1] : v \in {1, 2}}

\* Installations against each other and against a removal, with other data or the
\* same, and failures.
Installations == {
  [Calm EXCEPT !.events = {"success"}, !.wants = {Meta, Full}, !.hooks = 2,
               !.installs = 1, !.uninstalls = 1, !.failures = 1],
  [Calm EXCEPT !.events = {"success"}, !.wants = {Meta, Full}, !.hooks = 1,
               !.installs = 2, !.uninstalls = 1, !.failures = 1]}

\* Activation against callbacks, against installations of the same and of another
\* root, removals, Clear, and another activation.
Activations == {
  [Calm EXCEPT !.rows[2] = Active(2, "metadata", {k2}, 1), !.events = {"success"}, !.wants = {Meta, Both},
               !.hooks = 1, !.activations = 1, !.installs = 1, !.failures = 1],
  [Calm EXCEPT !.rows[2] = Active(2, "metadata", {k1}, 1), !.events = {"success"},
               !.hooks = 1, !.activations = 2, !.uninstalls = 1, !.clears = 1],
  [Calm EXCEPT !.events = {"success"}, !.hooks = 2, !.activations = 1]}

\* The daemon stops or crashes in the middle of a management request.
Restarts == {
  [Calm EXCEPT !.wants = {Meta}, !.events = {"success"}, !.hooks = 1, !.installs = 1, !.activations = 1,
               !.stops = 1, !.crashes = 1, !.boots = 1, !.failures = 1]}

MCScenarios == Sessions \cup Clears \cup Installations \cup Activations \cup Restarts
===============================================================================
