\* Two sessions of one database, resumed together.
SPECIFICATION Spec
CONSTANTS
    s1 = s1
    s2 = s2
    a = a
    b = b
    k1 = k1
    Sessions = {s1, s2}
    Coins = {a, b}
    Keys = {k1}
    NoKey = NoKey
    Originals <- OwnCoins
    MaxCrashes = 1
    MaxSenderCrashes = 0
    Expiring = {}
    WalletMayFail = FALSE
PROPERTY ReceiveSessionsKept
CHECK_DEADLOCK FALSE
