\* One polling client and two other requests at a time; redis prompt and without
\* faults, no empty push.
SPECIFICATION PollSpec
CONSTANTS
    t1 = t1
    t2 = t2
    t3 = t3
    i1 = i1
    b1 = b1
    BadId = BadId
    NoBody = NoBody
    Undecodable = Undecodable
    Tasks = {t1, t2, t3}
    Pollers = {t1}
    Ids = {i1}
    Bodies = {b1}
    Requests <- MCRequests
    HugeBodies = {}
    Faults = FALSE
    PromptRedis = TRUE
    MaxUnread = 1
PROPERTY PollDelivers
CHECK_DEADLOCK TRUE
