----------------------------- MODULE EvidenceHistory -----------------------------
(***************************************************************************)
(* What the evidence library promises, whatever uploads, workers, retries, *)
(* cancellations, removals and restarts go on below it.  An import         *)
(* operation is known by its key within one epoch of its scope and decided *)
(* at most once: it adds one revision to a series or it is closed for      *)
(* good.  The revisions of a series form one line without gaps or forks.   *)
(* Withholding a part of a series closes every operation open on it, and   *)
(* clearing a scope forgets all of it and begins a new epoch.              *)
(* EvidenceStore implements it.                                            *)
(***************************************************************************)
EXTENDS Integers

CONSTANTS
    Operations,
    Scopes,
    None        \* an operation not known, or not known any more

VARIABLES
    epoch,      \* Scopes -> how often the scope was cleared, plus one
    operation   \* Operations -> None, or scope, epoch, key, series, base, state, parts

history == <<epoch, operation>>

Known(n) == operation[n] # None

Open(n) == Known(n) /\ operation[n].state = "open"

Kept(n) == Known(n) /\ operation[n].state = "kept"

\* The step changes nothing of the operation except what is named.
Stays(n, state, parts) ==
    operation'[n] = [operation[n] EXCEPT !.state = state, !.parts = parts]

Admits(n) ==
    /\ ~Known(n)
    /\ operation'[n] # None
    /\ operation'[n].state = "open"
    /\ operation'[n].epoch = epoch[operation'[n].scope]
    /\ \A m \in Operations \ {n} : Known(m) =>
          <<operation[m].scope, operation[m].epoch, operation[m].key>>
             # <<operation'[n].scope, operation'[n].epoch, operation'[n].key>>

Closes(n) == Open(n) /\ Stays(n, "closed", operation[n].parts)

\* Revision base + 1 follows the base it names and exists once.
Appends(n) ==
    /\ Open(n)
    /\ operation[n].epoch = epoch[operation[n].scope]
    /\ \E parts \in SUBSET {"raw", "normalized"} : Stays(n, "kept", parts)
    /\ operation[n].base > 0 =>
          \E m \in Operations : /\ Kept(m)
                                /\ operation[m].series = operation[n].series
                                /\ operation[m].base + 1 = operation[n].base
    /\ \A m \in Operations \ {n} :
          Kept(m) => <<operation[m].series, operation[m].base>>
                        # <<operation[n].series, operation[n].base>>

Withholds(n) ==
    /\ Kept(n)
    /\ \E parts \in SUBSET operation[n].parts : Stays(n, "kept", parts)
    /\ \A m \in Operations : Open(m) /\ operation[m].series = operation[n].series
                                => Closes(m)

Forgets(n) ==
    /\ Known(n)
    /\ epoch'[operation[n].scope] = epoch[operation[n].scope] + 1
    /\ \A m \in Operations : Known(m) /\ operation[m].scope = operation[n].scope
                                => operation'[m] = None
    /\ operation'[n] = None

Moves(n) ==
    \/ operation'[n] = operation[n]
    \/ Admits(n) \/ Closes(n) \/ Appends(n) \/ Withholds(n) \/ Forgets(n)

\* A new epoch begins with nothing left of the old one.
Renews(s) ==
    epoch'[s] # epoch[s] =>
        /\ epoch'[s] = epoch[s] + 1
        /\ \A n \in Operations : operation'[n] # None => operation'[n].scope # s

Init ==
    /\ epoch = [s \in Scopes |-> 1]
    /\ operation = [n \in Operations |-> None]

Next ==
    /\ \A n \in Operations : Moves(n)
    /\ \A s \in Scopes : Renews(s)

Spec == Init /\ [][Next]_history
=============================================================================
