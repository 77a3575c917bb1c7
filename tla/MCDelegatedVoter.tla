--------------------------- MODULE MCDelegatedVoter ---------------------------
EXTENDS DelegatedVoter

CONSTANTS d1, d2, p1

\* Delegators are interchangeable: no definition names one of them.
Symmetry == Permutations({d1, d2})
=============================================================================
