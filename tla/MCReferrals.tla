----------------------------- MODULE MCReferrals ----------------------------
\* Model-checking instance of Referrals, with the accounts.
EXTENDS Referrals, TLC

\* The first user's code and the free order stand apart.
Symmetry == Permutations(ReferralCodes \ {FirstCode}) \cup Permutations(Orders \ Free)
=============================================================================
