\* Four transactions of one pool, lookups that never fail transiently: does
\* the fallback lookup find a pool whose inactive shares are stored?
CONSTANTS
    d1 = d1
    d2 = d2
    p1 = p1
    p2 = p2
    Delegators = {d1, d2}
    Pools = {p1}
    MaxTxns = 4
    QueryRetries = 5
    TransientErrors = FALSE
SPECIFICATION Spec
INVARIANT InactiveLookupsSucceed
