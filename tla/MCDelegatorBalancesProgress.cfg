\* Four transactions of one pool, no transient errors, restarts after every
\* panic: is every version eventually indexed?
CONSTANTS
    d1 = d1
    d2 = d2
    p1 = p1
    p2 = p2
    Delegators = {d1, d2}
    Pools = {p1}
    MaxTxns = 4
    QueryRetries = 5
    TransientErrors = FALSE
SPECIFICATION Spec
PROPERTY EveryVersionIndexed
