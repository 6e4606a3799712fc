SPECIFICATION FairSpec
CONSTANTS
    NParams = 2
    Devices = {0, 1, 2}
INVARIANT WorkersUseLive
INVARIANT MasterTrue
 
 
 
 
