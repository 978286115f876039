\* Three confirm transactions over two seats, every interleaving and failure;
\* and the in-memory adapters, one at a time, over the same sessions.
CONSTANTS
    s1 = s1
    s2 = s2
    s3 = s3
    front = front
    back = back
    Calls = {c1, c2, c3}
    Sessions = {s1, s2, s3}
    Seats = {front, back}
    Users = {ann, bob}
    ann = ann
    bob = bob
    SeatOf <- MCSeatOf
    UserOf <- MCUserOf
    NoSession = NoSession
    MemHoldTTL = 2
    MemMaxHolds = 1
    MemLastHold = 3
    MemCalls = {c1, c2, c3}
    MemIntents = {i1, i2, i3}
    MemTokens = {t1, t2, t3, t4}
SPECIFICATION FairAdapters
INVARIANTS TxTypeOK OneBookingPerSeat ConflictIsDurable
PROPERTIES ImplementsLedger TxEnds DoublesKeepTheirPorts
\* Every call has ended: nothing is left to do.
CHECK_DEADLOCK FALSE
