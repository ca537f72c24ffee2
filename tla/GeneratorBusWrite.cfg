SPECIFICATION GeneratorSpec
CONSTANTS
    Reg = {1, 2}
    Addr = {101}
    Word = {0, 256}
    MaxSessions = 1
    Nothing = Nothing
INVARIANTS RequestMeansWhatItSays
CHECK_DEADLOCK FALSE
