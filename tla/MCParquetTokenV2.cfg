\* Four transactions over two v2 tokens and one v1 token, cut into batches
\* of one to three: a mint and a burn of a token in one batch and across
\* batches, both burn paths, and a re-mint after a burn that deleted the
\* ObjectCore.
CONSTANTS
    t1 = t1
    t2 = t2
    u1 = u1
    Tokens = {t1, t2}
    V1Tokens = {u1}
    MaxTxns = 4
    MaxBatch = 3
SPECIFICATION Spec
SYMMETRY Symmetry
INVARIANT NewestRowReflectsLedger
\* The ledger bound stops the chain; the stream would wait for more.
CHECK_DEADLOCK FALSE
