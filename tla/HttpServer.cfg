SPECIFICATION LiveSpec
CONSTANTS
    e1 = e1
    e2 = e2
    Endpoints = {e1, e2}
    Nobody = Nobody
    Refused = {"first"}
    MaxAsk = 2
    MaxBody = 2
    MaxFree = 1
CHECK_DEADLOCK FALSE
INVARIANTS TypeOK NeverDeaf
PROPERTIES KeepsTheExchange RequestsAnswered ParkedIsReaped WoundUpCloses
