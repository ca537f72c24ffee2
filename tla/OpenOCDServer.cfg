SPECIFICATION Spec
CONSTANTS
    Conn = {c1, c2}
    MaxRequests = 2
    MaxFaults = 1
    Clients = "alone"
    None = None
INVARIANTS AnswersGoHome SurvivesDisconnect
PROPERTIES RequestAnswered DisconnectCleansUp StopEnds
CHECK_DEADLOCK FALSE
