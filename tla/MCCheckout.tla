----------------------------- MODULE MCCheckout -----------------------------
\* Model-checking instances of Checkout: symmetry of the interchangeable ids.
EXTENDS Checkout, TLC

Symmetry ==
    Permutations(Reservations) \cup Permutations(Intents) \cup Permutations(Requests)
=============================================================================
