SPECIFICATION Spec
CONSTANTS
    Conn = {c1, c2}
    MaxRequests = 1
    MaxFaults = 0
    Clients = "any"
    None = None
INVARIANTS AnswersGoHome
CHECK_DEADLOCK FALSE
