\* Two buyers of one seat, two confirm calls, and a client that renders the seat map.
CONSTANTS
    s1 = s1
    s2 = s2
    front = front
    ann = ann
    bob = bob
    Sessions = {s1, s2}
    Seats = {front}
    Users = {ann, bob}
    Calls = {c1, c2}
    SeatOf <- MCSeatOf
    UserOf <- MCUserOf
    NoSession = NoSession
    HoldTTL = 1
    MaxHolds = 2
    TicksPerSecond = 1
    ExpireSkew = 0
    MaxRetries = 1
    LastCall = 2
    MaxTime = 3
SYMMETRY CallSymmetry
SPECIFICATION SeatMapSpec
INVARIANTS ServiceTypeOK AnswersAreTrue BuyerNotStranded
PROPERTIES ImplementsBoxOffice BookedIsFinal
\* All calls have ended and the clock has stopped.
CHECK_DEADLOCK FALSE
