\* One ring slot and one queue slot fewer than events, so that both overflow.
CONSTANTS
    Clients = {c1, c2}
    HistoryLimit = 2
    QueueLimit = 1
    MaxEvents = 3
    \* inside and past what this bus will emit
    OldIds = {1, 3}
SPECIFICATION FairSpec
INVARIANTS TypeOK HistoryIsSuffix HolesAreCounted NothingInFlightIsLost
PROPERTIES InOrderOnce StreamCatchesUp
\* A client at the bound of its cursor stops, and then so may everything.
CHECK_DEADLOCK FALSE
