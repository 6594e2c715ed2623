SPECIFICATION Spec
CONSTANTS
    Price <- MCPrice
    Plan <- MCPlan
    Rules <- MCRules
    Floor = 9
    EscapeMove = 6
    EscapeBars = 2
    Near = 50
INVARIANTS
    HardStopAsMade
