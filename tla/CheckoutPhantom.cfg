\* A hold that is claimed after its seat was sold.  A payment confirm of each
\* buyer is enough for it; it takes no webhook.
CONSTANTS
    s1 = s1
    s2 = s2
    front = front
    ann = ann
    bob = bob
    Sessions = {s1, s2}
    Seats = {front}
    Users = {ann, bob}
    SeatOf <- MCSeatOf
    UserOf <- MCUserOf
    NoSession = NoSession
    Intents = {i1, i2}
    NoIntent = NoIntent
    Payers = {p1, p2}
    Deliveries = {}
    Amounts = {"frozen"}
    DealsDirectly = FALSE
    LosesReplies = FALSE
    Tolerance = 1
    Calls = {c1}
SYMMETRY CheckoutSymmetry
SPECIFICATION CheckoutSpec
INVARIANT PhantomHoldIsHarmless
\* Every call has ended and every event has been applied.
CHECK_DEADLOCK FALSE
