SPECIFICATION FairSpec
CONSTANTS
    NPorts = 1
    NParams = 2
    portOf <- TwoOnPort
    access <- NameName
    feed <- NotifyPoll
    InitFailed = {}
    AutoConnect = FALSE
    LinkStates = {"run", "lossy", "gone"}
    MaxGen = 1
PROPERTY AllParamsReregister
