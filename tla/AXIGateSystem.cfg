SPECIFICATION SysSpec
CONSTANTS
    RdAddr = {0, 1, 2}
    WrAddr = {1, 2}
    Data = {0, 4, 5}
    Resp = {0}
    threshold = 2
    Base = 4
    AddrSize = 8
    FifoDepth = 2
    WrData = {4, 5}
    MaxOutstanding = 2
    None = None
INVARIANTS ReadsAnsweredInOrder AckAfterEffect OnlyWindowReached
PROPERTY RequestsAnswered
