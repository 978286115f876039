------------------------------- MODULE Checkout -------------------------------
(***************************************************************************)
(* A purchase from end to end: POST /holds, the payment intent and its     *)
(* confirm or webhook, and POST /holds/{id}/confirm, as the handlers of    *)
(* internal/adapters/http answer them.  It composes the payment service,   *)
(* step by step (PaymentService), with the booking service over its ports: *)
(* a hold is a lease on a seat that may end at any time (HoldPort without  *)
(* its clock), and a sale is one step of the sales record (SalesLedger).   *)
(* HoldStore, BookingStore and BookingService have the detail of those.    *)
(***************************************************************************)
EXTENDS PaymentService, HttpResponses

CONSTANT Calls   \* calls of the confirm route

VARIABLES
    holdCall,      \* per session: how far its Hold call has come, or its outcome
    phantoms,      \* history: sessions that claimed a seat that was already sold
    sold,          \* the sales record
    confirmStep,   \* per confirm call: how far it has come, or its outcome
    confirming,    \* per confirm call: the session it is for
    asker,         \* per confirm call: the user it comes from
    toldPaid       \* history: whether its client had been told 200 by the payment

confirmVars  == <<confirmStep, confirming, asker, toldPaid>>
bookingSide  == <<holdCall, phantoms, sold, confirmVars>>
checkoutVars == <<paymentVars, bookingSide>>

Ledger == INSTANCE SalesLedger WITH announced <- sold

Nobody == "nobody"

ASSUME CheckoutAssumption == Nobody \notin Users

SeatSold(x) == \E r \in sold : SeatOf[r.session] = x

BookedSessions == {r.session : r \in sold}

\* The seat key of a session exists.
Holds(s) == holdCall[s] \in {"held", "orphaned"} /\ s \notin holdGone

\* A client knows a session ID from the 201 of its Hold call.
Known(s) == holdCall[s] = "held"

-----------------------------------------------------------------------------
(* Service.Hold *)

HoldGoto(s, next) == holdCall' = [holdCall EXCEPT ![s] = next]

\* The phantom-hold defense, before Redis is touched.
HoldPrecheck(s) ==
    /\ holdCall[s] = "none"
    /\ \/ HoldGoto(s, IF SeatSold(SeatOf[s]) THEN "ErrSeatAlreadyBooked" ELSE "checked")
       \/ HoldGoto(s, "infra")
    /\ UNCHANGED <<paymentVars, phantoms, sold, confirmVars>>

\* holds.Hold: nothing looks at the sales record again.  Its reply can be lost,
\* which leaves an orphan.  The hold limit is the business of HoldStore.
HoldClaim(s) ==
    /\ holdCall[s] = "checked"
    /\ IF \E other \in Sessions : Holds(other) /\ SeatOf[other] = SeatOf[s]
         THEN HoldGoto(s, "ErrSeatAlreadyHeld") /\ UNCHANGED phantoms
         ELSE /\ HoldGoto(s, "held") \/ HoldGoto(s, "orphaned")
              /\ phantoms' = IF SeatSold(SeatOf[s]) THEN phantoms \union {s} ELSE phantoms
    /\ UNCHANGED <<paymentVars, sold, confirmVars>>

\* A hold expires or its owner releases it.
HoldLapses(s) ==
    /\ Holds(s)
    /\ HoldEnds(s)
    /\ UNCHANGED bookingSide

-----------------------------------------------------------------------------
(* The payment routes and the webhook *)

\* A step of the payment service, asked for a session its client knows.
PaymentStep ==
    /\ \/ \E i \in Intents : ProviderSettles(i) \/ CreateNext(i)
       \/ \E p \in Payers : PayerNext(p)
       \/ \E w \in Deliveries, i \in Intents : WebhookArrives(w, i)
       \/ \E w \in Deliveries : WebhookApplies(w) \/ WebhookFails(w)
    /\ \A i \in Intents : createSession'[i] # NoSession => Known(createSession'[i])
    /\ \A p \in Payers : payerSession'[p] # NoSession => Known(payerSession'[p])
    /\ UNCHANGED bookingSide

\* The client of some payment confirm of s has heard 200.
ToldPaid(s) ==
    \E p \in Payers : /\ payerSession[p] = s
                      /\ PaymentConfirmResponse(payerStep[p]).status = 200

-----------------------------------------------------------------------------
(* Service.Confirm *)

ConfirmGoto(c, next) == confirmStep' = [confirmStep EXCEPT ![c] = next]

\* holds.Get, the owner, and the expiry: a hold that ends between the reading of
\* it and the clock's is the same 404.
ConfirmGate(u, c, s) ==
    /\ confirmStep[c] = "idle"
    /\ Known(s)
    /\ confirming' = [confirming EXCEPT ![c] = s]
    /\ asker' = [asker EXCEPT ![c] = u]
    /\ toldPaid' = [toldPaid EXCEPT ![c] = ToldPaid(s)]
    /\ ConfirmGoto(c, CASE ~Holds(s) -> "ErrHoldNotFound"
                        [] Holds(s) /\ UserOf[s] # u -> "ErrNotHoldOwner"
                        [] OTHER -> "gated")
    /\ UNCHANGED <<paymentVars, holdCall, phantoms, sold>>

\* Mutant: the gate asks for an intent, paid or not.
ConfirmPaymentStarted(c) ==
    /\ confirmStep[c] = "gated"
    /\ ConfirmGoto(c, IF ActiveIntents(confirming[c]) # {}
                        THEN "paid" ELSE "ErrPaymentNotCaptured")
    /\ UNCHANGED <<paymentVars, holdCall, phantoms, sold, confirming, asker, toldPaid>>

\* payments.HasCapturedPayment.
ConfirmPayment(c) ==
    /\ confirmStep[c] = "gated"
    /\ ConfirmGoto(c, IF HasCapturedPayment(confirming[c])
                        THEN "paid" ELSE "ErrPaymentNotCaptured")
    /\ UNCHANGED <<paymentVars, holdCall, phantoms, sold, confirming, asker, toldPaid>>

\* bookings.Confirm commits; its reply can be lost.
ConfirmSell(c) ==
    /\ confirmStep[c] = "paid"
    /\ Ledger!Sell([call |-> c, session |-> confirming[c]])
    /\ ConfirmGoto(c, "sold") \/ ConfirmGoto(c, "infra")
    /\ UNCHANGED <<paymentVars, holdCall, phantoms, confirming, asker, toldPaid>>

\* bookings.Confirm reports a unique index; a replay violates both.
ConfirmConflict(c) ==
    /\ confirmStep[c] = "paid"
    /\ SeatSold(SeatOf[confirming[c]])
    /\ \/ ConfirmGoto(c, "seat_conflict")
       \/ confirming[c] \in BookedSessions /\ ConfirmGoto(c, "session_conflict")
    /\ UNCHANGED <<paymentVars, holdCall, phantoms, sold, confirming, asker, toldPaid>>

\* Mutant: recovery runs for the seat index only.
ConfirmRecoverSeatOnly(c) ==
    /\ confirmStep[c] \in {"seat_conflict", "session_conflict"}
    /\ ConfirmGoto(c, CASE confirmStep[c] = "session_conflict" -> "ErrSessionAlreadyConfirmed"
                        [] confirmStep[c] = "seat_conflict"
                           /\ confirming[c] \in BookedSessions -> "replayed"
                        [] OTHER -> "ErrSeatAlreadyBooked")
    /\ UNCHANGED <<paymentVars, holdCall, phantoms, sold, confirming, asker, toldPaid>>

\* recoverConflict.
ConfirmRecover(c) ==
    /\ confirmStep[c] \in {"seat_conflict", "session_conflict"}
    /\ ConfirmGoto(c, CASE confirming[c] \in BookedSessions -> "replayed"
                        [] confirming[c] \notin BookedSessions
                           /\ confirmStep[c] = "seat_conflict" -> "ErrSeatAlreadyBooked"
                        [] OTHER -> "ErrSessionAlreadyConfirmed")
    /\ UNCHANGED <<paymentVars, holdCall, phantoms, sold, confirming, asker, toldPaid>>

\* cleanupHold, best effort, and the 201.
ConfirmCleanup(c) ==
    /\ confirmStep[c] = "sold"
    /\ HoldEnds(confirming[c]) \/ UNCHANGED paymentVars
    /\ ConfirmGoto(c, "created") \/ ConfirmGoto(c, "infra")
    /\ UNCHANGED <<holdCall, phantoms, sold, confirming, asker, toldPaid>>

\* An infrastructure error, a cancelled request or a crash.
ConfirmFails(c) ==
    /\ confirmStep[c] \in {"gated", "paid", "seat_conflict", "session_conflict"}
    /\ ConfirmGoto(c, "infra")
    /\ UNCHANGED <<paymentVars, holdCall, phantoms, sold, confirming, asker, toldPaid>>

-----------------------------------------------------------------------------
CheckoutInit ==
    /\ PaymentInit
    /\ holdCall = [s \in Sessions |-> "none"]
    /\ phantoms = {}
    /\ sold = {}
    /\ confirmStep = [c \in Calls |-> "idle"]
    /\ confirming = [c \in Calls |-> NoSession]
    /\ asker = [c \in Calls |-> Nobody]
    /\ toldPaid = [c \in Calls |-> FALSE]

ConfirmNext(c) ==
    \/ \E u \in Users, s \in Sessions : ConfirmGate(u, c, s)
    \/ ConfirmPayment(c)
    \/ ConfirmSell(c)
    \/ ConfirmConflict(c)
    \/ ConfirmRecover(c)
    \/ ConfirmCleanup(c)
    \/ ConfirmFails(c)

CheckoutNext ==
    \/ \E s \in Sessions : HoldPrecheck(s) \/ HoldClaim(s) \/ HoldLapses(s)
    \/ PaymentStep
    \/ \E c \in Calls : ConfirmNext(c)

CheckoutSpec == CheckoutInit /\ [][CheckoutNext]_checkoutVars

-----------------------------------------------------------------------------
(* What a purchase guarantees *)

\* The type invariant of the composition's own state.
CheckoutTypeOK ==
    /\ holdCall \in [Sessions -> {"none", "checked", "held", "orphaned",
                                  "ErrSeatAlreadyBooked", "ErrSeatAlreadyHeld", "infra"}]
    /\ phantoms \subseteq Sessions
    /\ sold \subseteq [call : Calls, session : Sessions]
    /\ confirmStep \in [Calls -> {"idle", "gated", "paid", "sold", "seat_conflict",
                                  "session_conflict", "created", "replayed",
                                  "ErrHoldNotFound", "ErrNotHoldOwner",
                                  "ErrPaymentNotCaptured", "ErrSeatAlreadyBooked",
                                  "infra"}]
    /\ confirming \in [Calls -> Sessions \union {NoSession}]
    /\ asker \in [Calls -> Users \union {Nobody}]
    /\ toldPaid \in [Calls -> BOOLEAN]

\* The sessions whose money the provider has collected and we have on record.
PaidFor ==
    {s \in Sessions : \E i \in Intents : /\ paySession[i] = s
                                         /\ payStatus[i] = "captured"
                                         /\ collected[i] = "frozen"}

Box == INSTANCE BoxOffice WITH paidFor <- PaidFor, soldTo <- BookedSessions

\* "No captured money, no booking", end to end: across the gate that is read
\* outside the transaction, holds that end at any moment, and a payments table
\* that follows the client and the webhooks, a seat is only ever sold once, and
\* to a session whose money the provider has collected at the frozen price.
ImplementsBoxOffice == Box!BoxOfficeSpec

InProgress == {"idle", "gated", "paid", "sold", "seat_conflict", "session_conflict"}

\* A client may believe what it is told: 201 is its own sale, or its own intent;
\* 200 a sale of its session, or the intent of another call; seat_booked, from
\* either route, means gone for good and to another session; nothing but a
\* failure of ours is a 500; and somebody else's session looks like one that
\* does not exist.
ResponsesAreHonest ==
    /\ \A c \in Calls :
          LET r == ConfirmResponse(confirmStep[c])
          IN  /\ r.status = 201 => [call |-> c, session |-> confirming[c]] \in sold
              /\ r.status = 200 => confirming[c] \in BookedSessions
              /\ r.code = "seat_booked" => /\ SeatSold(SeatOf[confirming[c]])
                                           /\ confirming[c] \notin BookedSessions
              /\ r = InternalError => confirmStep[c] \in {"infra"} \union InProgress
              /\ asker[c] \in Users /\ UserOf[confirming[c]] # asker[c] =>
                    r = HoldNotFound
    /\ \A s \in Sessions :
          HoldResponse(holdCall[s]).code = "seat_booked" =>
              SeatSold(SeatOf[s]) /\ s \notin BookedSessions
    /\ \A i \in Intents :
          LET status == IntentResponse(createStep[i]).status
          IN  /\ status = 201 => offered[i] = i
              /\ status = 200 => offered[i] \in Intents \ {i}

\* A client that was told 200 by the payment confirm, and asks for the booking
\* after that, is not told 402: what it read from the one route it can rely on
\* in the other, though they are two services over two tables.
PaidIsBelieved ==
    \A c \in Calls :
        toldPaid[c] => ConfirmResponse(confirmStep[c]).code # "payment_required"

-----------------------------------------------------------------------------
(* What the documents say, and the code does not do *)

\* "A hold on an already-booked seat is therefore harmless: its confirm is
\* rejected, and it costs at most one hold-limit slot until TTL" (ADR 0006): the
\* provider collects no money for a session whose seat was sold before it was
\* claimed.
PhantomHoldIsHarmless ==
    \A s \in phantoms, i \in Intents :
        paySession[i] = s => collected[i] \in {"nothing", "died"}

=============================================================================
