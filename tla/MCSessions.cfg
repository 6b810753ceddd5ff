\* Two sessions whose senders offer the same coins; the receiver cut off once,
\* each sender once, expiry and wallet failures at any point.
SPECIFICATION Spec
CONSTANTS
    s1 = s1
    s2 = s2
    a = a
    b = b
    k1 = k1
    Sessions = {s1, s2}
    Coins = {a, b}
    Keys = {k1}
    NoKey = NoKey
    Originals <- SharedCoins
    MaxCrashes = 1
    MaxSenderCrashes = 1
    Expiring = {s1}
    WalletMayFail = TRUE
INVARIANT TypeOK
INVARIANT OneReplyPerCoin
INVARIANT PaidCoinsAreSeen
PROPERTY SendSessionsKept
CHECK_DEADLOCK FALSE
