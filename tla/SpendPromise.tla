------------------------------ MODULE SpendPromise ------------------------------
(***************************************************************************)
(* What the spend ledger of model comparisons promises about money, one    *)
(* account per attempt and nothing else: an account is opened at most      *)
(* once, under the provider's ceiling and while its fuse is whole; what it *)
(* holds is either released or spent in full; what is spent is never       *)
(* refunded, except that a provider's answer may replace it by the measured *)
(* amount, once.  ComparisonLedger implements it.                          *)
(***************************************************************************)
EXTENDS Integers, FiniteSets

CONSTANTS
    Accounts,    \* attempts
    Providers,
    None,        \* provider of an account never opened
    Ceiling,     \* Providers -> micro-USD
    MaxAmount    \* the largest amount an account can record

VARIABLE account

States == {"unopened", "held", "spent", "settled"}

Unopened == [state |-> "unopened", provider |-> None, amount |-> 0,
             measured |-> FALSE, overdrawn |-> FALSE]

Overdrawn(p) == \E a \in Accounts : account[a].provider = p /\ account[a].overdrawn

\* The sum of the provider's amounts, as the number of units they commit.
Exposure(p) ==
    Cardinality({u \in Accounts \X (1 .. MaxAmount) :
        account[u[1]].provider = p /\ u[2] <= account[u[1]].amount})

Opens(a) == account[a].state = "unopened" /\ account'[a].state = "held"

Refuses(a) ==
    /\ account[a].state = "unopened"
    /\ account'[a].state = "settled"
    /\ account'[a].amount = 0
    /\ ~account'[a].overdrawn

Releases(a) ==
    /\ account[a].state = "held"
    /\ account'[a].state = "settled"
    /\ account'[a].amount = 0
    /\ account'[a].provider = account[a].provider
    /\ ~account'[a].measured /\ ~account'[a].overdrawn

Spends(a) ==
    /\ account[a].state = "held"
    /\ ~Overdrawn(account[a].provider)
    /\ account'[a] = [account[a] EXCEPT !.state = "spent"]

\* The request is over.  Without a measured answer it costs what was reserved;
\* an answer that costs more than that blows the fuse.
Settles(a) ==
    /\ account[a].state = "spent"
    /\ account'[a].state = "settled"
    /\ account'[a].provider = account[a].provider
    /\ account'[a].amount # account[a].amount => account'[a].measured
    /\ account'[a].amount > account[a].amount => account'[a].overdrawn

Moves(a) ==
    \/ account'[a] = account[a]
    \/ Opens(a) \/ Refuses(a) \/ Releases(a) \/ Spends(a) \/ Settles(a)

\* Opening is refused past the ceiling and once the provider's fuse blew.
WithinBudget(p) ==
    (\E a \in Accounts : Opens(a) /\ account'[a].provider = p)
        => ~Overdrawn(p) /\ Exposure(p)' <= Ceiling[p]

Answered(a) == Settles(a) /\ account'[a].amount # account[a].amount

\* One provider request starts, or one answer is recorded, at a time.
OneAtATime ==
    \A a, b \in Accounts :
        Spends(a) \/ Answered(a) => a = b \/ ~(Spends(b) \/ Answered(b))

Init == account = [a \in Accounts |-> Unopened]

Next ==
    /\ \A a \in Accounts : Moves(a)
    /\ \A p \in Providers : WithinBudget(p)
    /\ OneAtATime

Spec == Init /\ [][Next]_account
=============================================================================
