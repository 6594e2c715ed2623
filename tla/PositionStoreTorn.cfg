SPECIFICATION Spec
CONSTANTS
    Store = {s1}
    Pid = {p1, p2}
    Price = {1, 2}
    RVal = {1, 2}
    Day = {0, 1, 2}
    MaxLegs = 1
    TornWrites = TRUE
    ScaleOut = FALSE
INVARIANTS
    TypeOK
    RestartInventsNothing
    BooksBalance
PROPERTIES
    ClosedIsFinal
