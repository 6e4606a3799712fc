SPECIFICATION Spec
CONSTANTS
    Threads = {"cyclic", "symbols", "scan"}
    Workers = {"cyclic"}
    Connecting = {"scan"}
    Registering = {"cyclic", "symbols"}
    Default = "0"
    MaxPorts = 3
    MaxDepth = 3
INVARIANT GuardedPortOpen
INVARIANT NoPortLeak
INVARIANT OwnPorts
