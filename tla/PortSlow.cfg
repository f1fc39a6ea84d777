SPECIFICATION Spec
CONSTANTS
    Servers = {v1}
    Ports = 2
    PipeRoom = 2
    MaxChatter = 1
    MaxFails = 2
    FaultKinds = {"slow"}
    MaxFaults = 1
INVARIANT RecordedWasGranted
CHECK_DEADLOCK FALSE
