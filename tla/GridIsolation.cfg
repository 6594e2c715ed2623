SPECIFICATION StoresSpec
SYMMETRY Directions
CONSTANTS
    Ingest = {t1}
    Decide = {t1}
    Side = {long, short}
    NoSide = NoSide
    MaxPos = 1
    MaxLegs = 2
    Strategies = 1
    Restarts = FALSE
INVARIANTS
    FilledIsLeg
