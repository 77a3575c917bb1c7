---------------------------- MODULE MCTokenClaims ----------------------------
EXTENDS TokenClaims, TLC

CONSTANTS t1, t2, o1, r1

\* Tokens are interchangeable: no definition names one of them.
Symmetry == Permutations({t1, t2})
=============================================================================
