\* Two table changes, the default five retries, lookups that always answer:
\* can a default row reset a vote delegation whose batch the storer has not
\* upserted yet?
CONSTANTS
    d1 = d1
    d2 = d2
    p1 = p1
    NoPool = NoPool
    Delegators = {d1, d2}
    Pools = {p1}
    MaxChanges = 2
    QueryRetries = 5
    TransientErrors = FALSE
SPECIFICATION Spec
PROPERTY DefaultNeverOverridesDelegation
SYMMETRY Symmetry
\* The ledger is bounded: the stream stops after MaxChanges changes.
CHECK_DEADLOCK FALSE
