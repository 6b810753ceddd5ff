\* One session; the receiver is cut off once and resumed.
SPECIFICATION FairSpec
CONSTANTS
    s1 = s1
    s2 = s2
    a = a
    b = b
    k1 = k1
    Sessions = {s1}
    Coins = {a, b}
    Keys = {k1}
    NoKey = NoKey
    Originals <- OwnCoins
    MaxCrashes = 1
    MaxSenderCrashes = 0
    Expiring = {}
    WalletMayFail = FALSE
PROPERTY ReceiverCompletes
CHECK_DEADLOCK FALSE
