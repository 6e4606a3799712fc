SPECIFICATION Spec
CONSTANTS
    NParams = 4
    portOf <- TwoPorts
    Fixed = {2, 4}
    Sizes = {4, 8}
    BULKSIZ = 4
    MAXBULK = 2
    AutoConnect = TRUE
    MaxEntry = 4
    MaxRounds = 1
    MaxChanges = 1
INVARIANT TypeOK
INVARIANT SlotOwned
INVARIANT PackedChunks
INVARIANT RequestStable
INVARIANT SrdAligned
CHECK_DEADLOCK FALSE
