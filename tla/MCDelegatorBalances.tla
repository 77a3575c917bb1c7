------------------------ MODULE MCDelegatorBalances ------------------------
EXTENDS DelegatorBalances

CONSTANTS d1, d2, p1, p2

\* Delegators and pools are interchangeable addresses: no operator of the
\* model tells one from another.
Symmetry == Permutations({d1, d2}) \cup Permutations({p1, p2})
=============================================================================
