SPECIFICATION Spec
CONSTANTS
    WPL = 2
    Sets = 2
    Tags = 2
    None = None
    Mixed = Mixed
    Slots = 2
    Requests <- Fetches
    MemBound = 1
    Reload = FALSE
INVARIANTS FetchesInOrder SlotsOwed TagsAgree
PROPERTY FetchServed
