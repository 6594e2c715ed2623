SPECIFICATION FairSpec
CONSTANTS
    Thread = {t1}
    Side = {long, short}
    Flat = Flat
    Modes = {"grid"}
    Cooldown = 3
    Floor = 1
    Results <- Losses
    MaxDaily = 1
    MaxOpen = 1
    MaxLog = 3
PROPERTIES
    CooldownEnds
