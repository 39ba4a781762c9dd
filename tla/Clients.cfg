SPECIFICATION LiveSpec
CONSTANTS
    k1 = k1
    k2 = k2
    k3 = k3
    Conns = {k1, k2, k3}
    None = None
    Kinds = {"mqtt", "sntp", "http"}
    Deadline = 1
    FailAtOnce = TRUE
    IdleCalls = {"connect", "publish", "disconnect", "getTime", "send", "cancel", "abort", "delete"}
    ErrorCalls = {"connect", "publish", "disconnect", "getTime", "cancel", "abort"}
    FailCalls = {"getTime", "publish", "disconnect", "cancel", "abort"}
    HandlerCalls = {"connect", "publish", "disconnect", "getTime", "cancel", "abort"}
    Deleted = {"mqtt"}
INVARIANTS TypeOK NotifiedInTurn CodeOfThisAttempt OnErrorNotReentered HeardIsCurrent NoUndefinedBehaviour
PROPERTY DeadlinesHold
