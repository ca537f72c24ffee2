SPECIFICATION MCSpec
CONSTANTS
    AddrSize = 3
    Data = {0, 1}
    MaxLen = 2
    BurstsReadWrite = FALSE
    SplitLite = FALSE
INVARIANTS ReadsReturnMemory WritesLand ResponsesMatchWrites
