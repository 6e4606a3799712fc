SPECIFICATION FairSpec
CONSTANTS
    a1 = a1
    d1 = d1
    Params = {a1, d1}
    ArrayParams = {a1}
    Direct = {d1}
    Sizes = {1, 2}
    MAXCBQSIZE = 1
    MallocMayFail = TRUE
    MaxVersion = 2
    MaxFaults = 1
INVARIANT Settled
INVARIANT ArrayPending
PROPERTY StreamSpec
PROPERTY Converges
