\* What an expired hold leaves in the user's ZSET.
CONSTANTS
    s1 = s1
    s2 = s2
    s3 = s3
    front = front
    back = back
    ann = ann
    bob = bob
    Sessions = {s1, s2, s3}
    Seats = {front, back}
    Users = {ann, bob}
    SeatOf <- MCSeatOf
    UserOf <- MCUserOf
    NoSession = NoSession
    HoldTTL = 2
    MaxHolds = 1
    TicksPerSecond = 2
    ExpireSkew = 0
    MaxRetries = 0
    LastCall = 2
    MaxTime = 5
SPECIFICATION HoldSpec
INVARIANT SlotFreedByTTL
\* The clock stops at MaxTime and no session is left to mint.
CHECK_DEADLOCK FALSE
