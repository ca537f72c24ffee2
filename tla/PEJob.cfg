SPECIFICATION JobSpec
CONSTANTS
    WrAddr = {0, 16, 48, 64, 80, 16384}
    RdAddr = {16, 48, 64, 80}
    Data = {0, 1, 7, 42, 49, 64, 128, 1337, 1379, 4094, 4095}
    WordSize = 4096
    CounterSize = 1
    GraceCycles = 6
    FifoDepth = 8
    None = None
    AddressWidth = 16
    WordBits = 12
    OverwriteBits = 3
    RomWord = 7
    Args <- ArgPairs
    Job <- Jobs
    Buf = {64, 128}
    TextBound = 4
    Turnaround = 6
INVARIANTS NoSpuriousInterrupt PrintedText
PROPERTIES ImplementsService ArgsStable LaunchedJobEnds
