SPECIFICATION Spec
CONSTANTS
    w1 = w1
    w2 = w2
    w3 = w3
    Conns = {w1, w2}
    None = None
    Self = Self
    Interval = 1
    MaxBackoff = 1
    MaxAttempts = 0
    PingInterval = 1
    StaleTimeout = 1
    FailAtOnce = TRUE
    HangPhases = {"handshake", "open"}
    IdleCalls = {"connect", "disconnect", "send", "delete"}
    ErrorCalls = {"connect", "loop"}
    HandlerCalls = {"connect", "disconnect"}
    MaxCalls = 1
INVARIANTS TypeOK UnheardIsClosing
SYMMETRY Symmetric
CHECK_DEADLOCK FALSE
