\* Four versions, one crash, no references: is a current row ever moved back?
CONSTANTS
    k1 = k1
    k2 = k2
    NoRefValue = NoRefValue
    Keys = {k1, k2}
    FirstVersion = 0
    EndVersion = 3
    MaxBatch = 2
    ChannelSize = 1
    Writes <- MCWrites
    NoRef = NoRefValue
    RefOf <- MCNoRefs
    QueryRetries = 2
    MaxCrashes = 1
SPECIFICATION Spec
PROPERTY RowVersionMonotone
