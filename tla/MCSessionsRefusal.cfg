\* One session whose Original the receiver's wallet cannot answer.
SPECIFICATION FairSpec
CONSTANTS
    s1 = s1
    s2 = s2
    a = a
    b = b
    k1 = k1
    Sessions = {s1}
    Coins = {a, b}
    Keys = {k1}
    NoKey = NoKey
    Originals <- OwnCoins
    MaxCrashes = 0
    MaxSenderCrashes = 0
    Expiring = {}
    WalletMayFail = TRUE
PROPERTY RefusalReachesSender
CHECK_DEADLOCK FALSE
