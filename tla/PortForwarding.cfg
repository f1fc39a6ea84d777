SPECIFICATION FairSpec
CONSTANTS
    Servers = {v1, v2}
    Ports = 2
    PipeRoom = 2
    MaxChatter = 1
    MaxFails = 1
    FaultKinds = {"spawn", "slow", "save", "unreachable", "drop", "taken", "restart"}
    MaxFaults = 2
INVARIANTS TelemetryNamesTheTunnel
PROPERTY TunnelComesBack
CHECK_DEADLOCK FALSE
