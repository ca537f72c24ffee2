SPECIFICATION MCSpec
CONSTANTS
    WrAddr = {0, 16384}
    RdAddr = {}
    Data = {0, 1}
    WordSize = 2
    CounterSize = 1
    GraceCycles = 3
    FifoDepth = 2
    None = None
INVARIANTS TypeOK StartNeverMeetsReset PairedInOrder EndedJobWasSignalled
