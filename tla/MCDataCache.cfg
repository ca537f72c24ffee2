SPECIFICATION Spec
CONSTANTS
    WPL = 4
    Sets = 2
    Tags = 2
    None = None
    Mixed = Mixed
    LineMod = 32
    BeatMod = 256
    ReadBursts <- MCReads
    WriteBursts <- MCWrites
    MaxOps = 3
    MaxReads = 2
    AnswersPerBurst = 2
    ResetAnytime = FALSE
INVARIANTS ReadsSeeWrites CleanLinesAgree NothingLost NothingLeftBehind
PROPERTY Served
