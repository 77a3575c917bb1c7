\* No crash, version 2 refers to the entity version 1 created, and the
\* QUERY_DEFAULT_RETRIES: can the lookup run ahead of the earlier batch's storer?
CONSTANTS
    k1 = k1
    k2 = k2
    NoRefValue = NoRefValue
    Keys = {k1, k2}
    FirstVersion = 0
    EndVersion = 3
    MaxBatch = 2
    ChannelSize = 1
    Writes <- MCWrites
    NoRef = NoRefValue
    RefOf <- MCRefs
    QueryRetries = 5
    MaxCrashes = 0
SPECIFICATION Spec
INVARIANT ReferencesResolved
