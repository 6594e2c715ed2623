SPECIFICATION Spec
CONSTANTS
    Tapes <- MCTapes
    Minute <- MCMinute
    Span = 2
    Page = 2
    Memory = 2
    Handler = {h1, h2}
    NoHandler = NoHandler
    MaxRestarts = 1
INVARIANTS
    TradesCountOnce
    DecisionsAreDurable
    ManagedOnce
PROPERTIES
    FirstBarStands
