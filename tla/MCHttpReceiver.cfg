\* Three POSTs at once over two coins of the senders' and one of the receiver's;
\* wallet failures at any step, and one crash.
SPECIFICATION Spec
CONSTANTS
    p1 = p1
    p2 = p2
    p3 = p3
    a = a
    b = b
    r1 = r1
    NoCoin = NoCoin
    Posts = {p1, p2, p3}
    Coins = {a, b}
    OwnCoins = {r1}
    Originals <- SharedCoins
    MaxCrashes = 1
    MayFail = TRUE
INVARIANT TypeOK
INVARIANT NoReentrantPayjoin
INVARIANT BarredByItsOwner
CHECK_DEADLOCK FALSE
