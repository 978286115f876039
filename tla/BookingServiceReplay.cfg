\* A confirm that is sent again.
CONSTANTS
    s1 = s1
    s2 = s2
    front = front
    ann = ann
    bob = bob
    Sessions = {s1, s2}
    Seats = {front}
    Users = {ann, bob}
    Calls = {c1, c2}
    SeatOf <- MCSeatOf
    UserOf <- MCUserOf
    NoSession = NoSession
    HoldTTL = 1
    MaxHolds = 2
    TicksPerSecond = 1
    ExpireSkew = 0
    MaxRetries = 0
    LastCall = 1
    MaxTime = 2
SPECIFICATION SeatMapSpec
PROPERTY ReplayIsIdempotent
\* All calls have ended and the clock has stopped.
CHECK_DEADLOCK FALSE
