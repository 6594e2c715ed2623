SPECIFICATION BoundedSpec
SYMMETRY Alike
CONSTANTS
    Ingest = {h1, h2}
    Decide = {h1, h2}
    Side = {long, short}
    NoSide = NoSide
    MaxPos = 2
    MaxLegs = 2
    Strategies = 1
    Restarts = TRUE
INVARIANTS
    CycleClosesLast
    
    
PROPERTIES
    ClosedIsFrozen
    ScopedWrites
