SPECIFICATION Spec
CONSTANTS
    Threads = {"cyclic", "symbols", "scan"}
    Workers = {"cyclic"}
    Connecting = {"scan"}
    Registering = {"cyclic", "symbols"}
    Default = "0"
    MaxPorts = 4
    MaxDepth = 3
INVARIANT RegistrationOpen
