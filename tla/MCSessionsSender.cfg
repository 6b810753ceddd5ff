\* Senders that crash and resume, a receiver that does not.
SPECIFICATION FairSpec
CONSTANTS
    s1 = s1
    s2 = s2
    a = a
    b = b
    k1 = k1
    k2 = k2
    Sessions = {s1, s2}
    Coins = {a, b}
    Keys = {k1, k2}
    NoKey = NoKey
    Originals <- OwnCoins
    MaxCrashes = 0
    MaxSenderCrashes = 2
    Expiring = {}
    WalletMayFail = FALSE
PROPERTY SenderCompletes
CHECK_DEADLOCK FALSE
