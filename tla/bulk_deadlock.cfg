SPECIFICATION Spec
CONSTANTS
    NParams = 2
    portOf <- OnePort
    Fixed = {}
    Sizes = {4}
    BULKSIZ = 4
    MAXBULK = 2
    AutoConnect = FALSE
    MaxEntry = 8
    MaxRounds = 1
    MaxChanges = 0
INVARIANT NoCircularWait
CHECK_DEADLOCK FALSE
