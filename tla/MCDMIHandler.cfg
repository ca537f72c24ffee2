SPECIFICATION SimSpec
CONSTANTS
    Request <- AnyRequest
    Payload = {0, 129}
    idleBetweenRequests = 1
    waitForResponseLatency = 2
    DMLatency = 3
    QueueBound = 2
    None = None
    ResetCycles = 2
    BootCycles = 1
    Options <- CommandLines
INVARIANTS AccessedOnce OneAtATime
PROPERTIES ImplementsTransport PendingAnswered InterruptStops
