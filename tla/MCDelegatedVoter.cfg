\* Two delegators of one pool, four table changes in any batching, the
\* storer any number of batches behind the extractor, lookups that always
\* answer: a default replaces a vote delegation only through that lag.
CONSTANTS
    d1 = d1
    d2 = d2
    p1 = p1
    NoPool = NoPool
    Delegators = {d1, d2}
    Pools = {p1}
    MaxChanges = 4
    QueryRetries = 2
    TransientErrors = FALSE
SPECIFICATION Spec
PROPERTY DefaultOverridesOnlyInFlight
SYMMETRY Symmetry
\* The ledger is bounded: the stream stops after MaxChanges changes.
CHECK_DEADLOCK FALSE
