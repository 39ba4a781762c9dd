SPECIFICATION LiveSpec
CONSTANTS
    w1 = w1
    w2 = w2
    w3 = w3
    Conns = {w1, w2, w3}
    None = None
    Self = Self
    Interval = 1
    MaxBackoff = 3
    MaxAttempts = 2
    PingInterval = 1
    StaleTimeout = 1
    FailAtOnce = FALSE
    HangPhases = {"open"}
    IdleCalls = {"connect", "disconnect", "send", "delete"}
    ErrorCalls = {"disconnect", "send"}
    HandlerCalls = {"connect", "disconnect", "loop", "send"}
    MaxCalls = 2
INVARIANTS OneConnectionHeard WaitsForAnEvent ConnectedIsOpen NoUndefinedBehaviour
PROPERTIES Reconnects LostPeerNoticed
