------------------------------- MODULE Wallet -------------------------------
(***************************************************************************)
(* What the credits component promises of one account table: credits are  *)
(* earned, handed back or spent, never created otherwise; spending needs  *)
(* cover and, since the rule of the seven euros, an account that has      *)
(* earned more than Gate over its life.                                   *)
(***************************************************************************)
EXTENDS Integers

CONSTANTS
    Users,
    Gate       \* cents that must have been earned before anything is spent

VARIABLES
    balance,   \* cents a user may still spend
    earned     \* cents a user was ever credited

vars == <<balance, earned>>

Init ==
    /\ balance = [u \in Users |-> 0]
    /\ earned = [u \in Users |-> 0]

Earn(u, a) ==
    /\ balance' = [balance EXCEPT ![u] = @ + a]
    /\ earned' = [earned EXCEPT ![u] = @ + a]

HandBack(u, a) ==
    /\ balance' = [balance EXCEPT ![u] = @ + a]
    /\ UNCHANGED earned

Spend(u, a) ==
    /\ earned[u] > Gate
    /\ a <= balance[u]
    /\ balance' = [balance EXCEPT ![u] = @ - a]
    /\ UNCHANGED earned

Move(u, a) == Earn(u, a) \/ HandBack(u, a) \/ Spend(u, a)

\* The amount is read off the step itself, so that the formula can be checked
\* as a property without a bound on the amounts.
Delta(u) ==
    IF balance'[u] >= balance[u] THEN balance'[u] - balance[u]
                                 ELSE balance[u] - balance'[u]

Next == \E u \in Users : Delta(u) > 0 /\ Move(u, Delta(u))

Spec == Init /\ [][Next]_vars
=============================================================================
