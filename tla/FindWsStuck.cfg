SPECIFICATION LiveSpec
CONSTANTS
    w1 = w1
    w2 = w2
    w3 = w3
    Conns = {w1, w2}
    None = None
    Self = Self
    Interval = 1
    MaxBackoff = 2
    MaxAttempts = 1
    PingInterval = 1
    StaleTimeout = 1
    FailAtOnce = TRUE
    HangPhases = {}
    IdleCalls = {"connect"}
    ErrorCalls = {}
    HandlerCalls = {}
    MaxCalls = 1
CHECK_DEADLOCK FALSE
PROPERTY Reconnects
