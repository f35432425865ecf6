CONSTANTS
    a1 = a1  a2 = a2  a3 = a3
    TicksPerSecond = 2
    Zones = {"known"}
    LocalSecond <- FallBack
    Open = 0  Close = 1
    Window = 6
    MaxAttempts = 2
    Attempts = {a1, a2, a3}
    Profile <- Profiles
    HandlerTime = 1
    WorkflowTimeout = 1
    MaxTime = 10
SPECIFICATION Spec
INVARIANTS TypeOK CapPerWindow DeliveredInHours CapBlocksOnlyAtLimit
CHECK_DEADLOCK FALSE
SYMMETRY Voices
