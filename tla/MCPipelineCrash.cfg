\* Four versions in batches of one or two, channels of one, one crash, and
\* version 2 referring to the entity version 1 created (found in the batch,
\* found by the bounded lookup, or dropped and logged): checkpoint
\* durability, convergence and the refinement of the sequential loop.
CONSTANTS
    k1 = k1
    k2 = k2
    NoRefValue = NoRefValue
    Keys = {k1, k2}
    FirstVersion = 0
    EndVersion = 3
    MaxBatch = 2
    ChannelSize = 1
    Writes <- MCWrites
    NoRef = NoRefValue
    RefOf <- MCRefs
    QueryRetries = 2
    MaxCrashes = 1
SPECIFICATION Spec
INVARIANT TypeOK
INVARIANT CheckpointDurable
PROPERTY Converges
PROPERTY ImplementsSequentialIndexer
