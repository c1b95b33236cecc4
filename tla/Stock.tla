-------------------------------- MODULE Stock --------------------------------
(***************************************************************************)
(* What the stock of eSIMs promises whatever runs at the same time:        *)
(*   - a delivery brings only eSIMs that were never in the stock;          *)
(*   - an eSIM is lent only to someone who saw it on the shelf;            *)
(*   - it comes back to the shelf only from someone it was lent to, once.  *)
(* It does not promise that an eSIM has one borrower at a time.            *)
(***************************************************************************)
CONSTANTS Sims, Borrowers

VARIABLES
    known,   \* eSIMs that were ever delivered
    shelf,   \* those that may be lent
    eyed,    \* pairs (eSIM, borrower): seen on the shelf, not lent yet
    lent     \* pairs (eSIM, borrower): lent and not given back

vars == <<known, shelf, eyed, lent>>

TypeOK ==
    /\ known \subseteq Sims
    /\ shelf \subseteq known
    /\ eyed \subseteq Sims \X Borrowers
    /\ lent \subseteq Sims \X Borrowers

Init ==
    /\ known \subseteq Sims
    /\ shelf = known
    /\ eyed = {}
    /\ lent = {}

Deliver(new, good) ==
    /\ new \cap known = {}
    /\ known' = known \cup new
    /\ shelf' = shelf \cup good
    /\ UNCHANGED <<eyed, lent>>

Look(s, b) ==
    /\ s \in shelf
    /\ eyed' = eyed \cup {<<s, b>>}
    /\ UNCHANGED <<known, shelf, lent>>

Lend(s, b) ==
    /\ <<s, b>> \in eyed
    /\ eyed' = eyed \ {<<s, b>>}
    /\ lent' = lent \cup {<<s, b>>}
    /\ shelf' = shelf \ {s}
    /\ UNCHANGED known

GiveBack(s, b) ==
    /\ <<s, b>> \in lent
    /\ lent' = lent \ {<<s, b>>}
    /\ shelf' = shelf \cup {s}
    /\ UNCHANGED <<known, eyed>>

\* Borrowers that keep the eSIM they have, or that are gone.
Leave(gone) ==
    /\ eyed' = {e \in eyed : e[2] \notin gone}
    /\ lent' = {e \in lent : e[2] \notin gone}
    /\ UNCHANGED <<known, shelf>>

Next ==
    \/ \E new \in SUBSET Sims : \E good \in SUBSET new : Deliver(new, good)
    \/ \E s \in Sims, b \in Borrowers : Look(s, b) \/ Lend(s, b) \/ GiveBack(s, b)
    \/ \E gone \in SUBSET Borrowers : Leave(gone)

Spec == Init /\ [][Next]_vars
=============================================================================
