SPECIFICATION Spec
CONSTANTS
    Fire = {d1}
    Bars = {b1, b2}
    MaxOrders = 2
    MaxLegs = 2
    MaxRestarts = 1
INVARIANTS
    RecordsAreFills
PROPERTIES
    FirstCloseStands
    AbsentMeansClosed
    BrokerCloseIsNoticed
