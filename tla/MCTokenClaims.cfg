\* Two tokens offered by one owner to one receiver, a ledger of four
\* transactions cut into batches of one or two.
CONSTANTS
    t1 = t1
    t2 = t2
    o1 = o1
    r1 = r1
    Tokens = {t1, t2}
    Owners = {o1}
    Receivers = {r1}
    Amounts = {1, 2}
    MaxTxns = 4
    MaxBatch = 2
SPECIFICATION Spec
INVARIANT ClaimedOffersNotPending
INVARIANT AttributedOfferIsPending
SYMMETRY Symmetry
\* The chain stops at MaxTxns and the indexer then waits for more.
CHECK_DEADLOCK FALSE
