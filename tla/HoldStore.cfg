\* Hold, release and expiry of two seats by two users, with a client that
\* re-sends once and a session hash that may outlive its seat key by a tick.
CONSTANTS
    s1 = s1
    s2 = s2
    s3 = s3
    front = front
    back = back
    ann = ann
    bob = bob
    Sessions = {s1, s2, s3}
    Seats = {front, back}
    Users = {ann, bob}
    SeatOf <- MCSeatOf
    UserOf <- MCUserOf
    NoSession = NoSession
    HoldTTL = 2
    MaxHolds = 1
    TicksPerSecond = 2
    ExpireSkew = 1
    MaxRetries = 1
    LastCall = 2
    MaxTime = 5
SPECIFICATION FairHoldSpec
INVARIANTS HoldTypeOK HoldProtectedUntilExpiry LiveSeatIsReachable HoldLimitHolds
PROPERTIES ImplementsPort AbandonedSeatFreed
\* The clock stops at MaxTime and no session is left to mint.
CHECK_DEADLOCK FALSE
