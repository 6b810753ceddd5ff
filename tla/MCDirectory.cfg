\* Two concurrent requests of any kind on one subdirectory, redis failing and
\* tasks dropped at any step, the timer over the whole peek.
SPECIFICATION FairSpec
CONSTANTS
    t1 = t1
    t2 = t2
    i1 = i1
    b1 = b1
    huge = huge
    BadId = BadId
    NoBody = NoBody
    Undecodable = Undecodable
    Tasks = {t1, t2}
    Ids = {i1}
    Bodies = {b1, NoBody, huge}
    Requests <- MCRequests
    HugeBodies = {huge}
    Faults = TRUE
    PromptRedis = FALSE
    MaxUnread = 1
INVARIANT TypeOK
INVARIANT WakeupLostOnlyInWindow
PROPERTY ImplementsMailbox
PROPERTY EveryRequestEnds
CHECK_DEADLOCK TRUE
