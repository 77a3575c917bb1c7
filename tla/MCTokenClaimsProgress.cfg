\* A cancel whose batch carries neither the PendingClaims resource nor a
\* claim event: is every transaction still indexed eventually?
CONSTANTS
    t1 = t1
    t2 = t2
    o1 = o1
    r1 = r1
    Tokens = {t1, t2}
    Owners = {o1}
    Receivers = {r1}
    Amounts = {1, 2}
    MaxTxns = 4
    MaxBatch = 2
SPECIFICATION Spec
PROPERTY EveryClaimIndexed
\* The chain stops at MaxTxns and the indexer then waits for more.
CHECK_DEADLOCK FALSE
