--------------------------- MODULE MCParquetTokenV2 ---------------------------
(* Bounded instance of ParquetTokenV2: two v2 tokens and one v1 token.      *)
EXTENDS ParquetTokenV2, TLC

CONSTANTS t1, t2, u1

\* The v2 tokens are interchangeable.
Symmetry == Permutations({t1, t2})
=============================================================================
