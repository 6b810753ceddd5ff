\* Two exchanges, or any senders of one receiver, whose keys are all hashed to one mailbox;
\* one exchange, any kind of directory and two ticks or restarts of it (MCBound).
SPECIFICATION Spec
CONSTANTS
    r1 = r1  r2 = r2  s1 = s1  s2 = s2
    i1 = i1  i2 = i2  i3 = i3
    None = None
    Senders = {s1, s2}
    Garbled = {s1, s2}
    ProposalSizes = {6000, 7088, 7089}
    TicksPerSecond = 2
    MaxSeconds = 10
    Start = 1
    ResponseFraming = 4
    Receivers = {r1, r2}
    Ids = {i1, i2, i3}
    Hashes <- MCHashes
    Directories <- MCDirectories
    OtherKeys = {"XX"}
    OriginalSizes = {7055, 9000}
    Lifetimes <- MCLifetimes
    MaxEvents = 2
CONSTRAINT MCBound
SYMMETRY MCSymmetry
INVARIANTS TypeOK OpenedIsMine WorksOnItsOwn FailureExplained UriAgrees EncryptedInTime AnswerIsFound
CHECK_DEADLOCK FALSE
