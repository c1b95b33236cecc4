------------------------------ MODULE MCCredits -----------------------------
\* Model-checking instance of Credits: symmetry of the interchangeable ids.
EXTENDS Credits, TLC

Symmetry ==
    Permutations(Users) \cup Permutations(Reservations)
        \cup Permutations(Keys) \cup Permutations(Requests)
=============================================================================
