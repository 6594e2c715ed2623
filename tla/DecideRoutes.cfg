SPECIFICATION Spec
SYMMETRY Symmetric
CONSTANTS
    Thread = {t1, t2}
    Side = {long, short}
    Flat = Flat
    Modes = {"grid", "buy_sell_only"}
    Cooldown = 3
    Floor = 1
    Results <- LossesAndGains
    MaxDaily = 2
    MaxOpen = 2
    MaxLog = 4
INVARIANTS
    TypeOK
    RunsAreShort
PROPERTIES
    HaltAdmitsNobody
