SPECIFICATION FairSpec
CONSTANTS
    NPorts = 1
    NParams = 3
    portOf <- ThreeOnPort
    access <- NameDictState
    feed <- NotifyBulkPoll
    InitFailed = {}
    AutoConnect = FALSE
    LinkStates = {"run", "lossy", "stop", "gone"}
    MaxGen = 2
INVARIANT RefreshedMeansCurrent
INVARIANT ExitNeedsTwoDeadPolls
INVARIANT PublishedStateCurrent
PROPERTY PortsReregister
PROPERTY DeadPlcExits
