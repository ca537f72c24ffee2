SPECIFICATION FifoSpec
CONSTANTS
    Elements = {d1, d2}
    p2depth = 4
    CounterSize = 4
    guarded = FALSE
INVARIANTS FlagsAgree
PROPERTIES ImplementsQueue UnwarnedEnqDeqKeeps
