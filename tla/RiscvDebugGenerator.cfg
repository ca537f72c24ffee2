SPECIFICATION GeneratorSpec
CONSTANTS
    Reg = {1}
    Addr = {101, 102}
    Word = {0, 1}
    MaxSessions = 2
    Nothing = Nothing
INVARIANTS RequestMeansWhatItSays
PROPERTIES ReadIsAnswered
CHECK_DEADLOCK FALSE
