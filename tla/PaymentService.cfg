\* Two CreateIntent calls and two client confirms of one session, and a webhook.
\* A second delivery adds nothing: what is told of an intent is one thing, and
\* each delivery of it is applied in one step.
CONSTANTS
    s1 = s1
    front = front
    ann = ann
    Sessions = {s1}
    Seats = {front}
    Users = {ann}
    SeatOf <- MCSeatOf
    UserOf <- MCUserOf
    NoSession = NoSession
    Intents = {i1, i2}
    NoIntent = NoIntent
    Payers = {p1, p2}
    Deliveries = {w1}
    Amounts = {"frozen", "other"}
    DealsDirectly = TRUE
    LosesReplies = TRUE
    Tolerance = 1
SPECIFICATION FairPaymentSpec
INVARIANTS PaymentTypeOK OneActiveIntent CapturedWasCollected
PROPERTIES RowsFollowStateMachine ImplementsGate CollectedIsSettled
\* Every call has ended and every event has been applied.
CHECK_DEADLOCK FALSE
