\* Two client confirms of one intent, of which the sandbox gateway declines one.
CONSTANTS
    s1 = s1
    front = front
    ann = ann
    Sessions = {s1}
    Seats = {front}
    Users = {ann}
    SeatOf <- MCSeatOf
    UserOf <- MCUserOf
    NoSession = NoSession
    Intents = {i1, i2}
    NoIntent = NoIntent
    Payers = {p1, p2}
    Deliveries = {w1}
    Amounts = {"frozen"}
    DealsDirectly = FALSE
    LosesReplies = FALSE
    Tolerance = 1
SPECIFICATION PaymentSpec
PROPERTY DeclinedIsNotPaid
\* Every call has ended and every event has been applied.
CHECK_DEADLOCK FALSE
