\* Two buyers of one seat, an intent each, two confirm calls, one payment confirm.
CONSTANTS
    s1 = s1
    s2 = s2
    front = front
    ann = ann
    bob = bob
    Sessions = {s1, s2}
    Seats = {front}
    Users = {ann, bob}
    SeatOf <- MCSeatOf
    UserOf <- MCUserOf
    NoSession = NoSession
    Intents = {i1, i2}
    NoIntent = NoIntent
    Payers = {p1}
    Deliveries = {w1}
    Amounts = {"frozen"}
    DealsDirectly = TRUE
    LosesReplies = TRUE
    Tolerance = 1
    Calls = {c1, c2}
SYMMETRY CheckoutSymmetry
SPECIFICATION CheckoutSpec
INVARIANTS CheckoutTypeOK ResponsesAreHonest PaidIsBelieved AnswersAreRecorded
PROPERTIES ImplementsBoxOffice
\* Every call has ended and every event has been applied.
CHECK_DEADLOCK FALSE
