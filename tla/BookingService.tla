--------------------------- MODULE BookingService ---------------------------
(***************************************************************************)
(* The booking use cases: internal/application/booking/service.go, between *)
(* the Redis hold store and the Postgres sales record.  Every step below   *)
(* is one round trip or one clock reading of the code; other requests,     *)
(* other API processes, expiry and failures interleave between any two.    *)
(*                                                                         *)
(* A call of Confirm is named by the transaction it may open (Calls).  The *)
(* code keeps nothing in memory between requests, so a crash of a process  *)
(* is the end of each of its calls, wherever they are.                     *)
(*                                                                         *)
(* The payment gate is a set of sessions that only grows: capture is       *)
(* monotonic (PaymentFinder.HasCapturedPayment).                           *)
(***************************************************************************)
EXTENDS HoldStore, BookingStore

VARIABLES
    precheck,     \* per session: what SeatConfirmed told its Hold call
    captured,     \* sessions with a captured payment
    gaveUp,       \* sessions whose owner released them through the API
    step,         \* per confirm call: where it is
    confirming,   \* per confirm call: the session it is for
    answer        \* per confirm call: what its client was told

callStateVars == <<step, confirming, answer>>
serviceVars   == <<precheck, captured, gaveUp, callStateVars>>
bookingVars   == <<holdVars, txVars, serviceVars>>

-----------------------------------------------------------------------------
(* Service.Hold *)

\* The phantom-hold defence: refuse a seat that is already sold, before Redis
\* is touched.  A failing lookup refuses as well.
PrecheckSeat(s) ==
    /\ precheck[s] = "none"
    /\ now <= LastCall
    /\ \/ precheck' = [precheck EXCEPT ![s] =
                          IF SeatConfirmed(SeatOf[s]) THEN "refused" ELSE "passed"]
       \/ precheck' = [precheck EXCEPT ![s] = "refused"]
    /\ UNCHANGED <<holdVars, txVars, captured, gaveUp, callStateVars>>

\* The rest of Service.Hold and the adapter's Hold, for a session that passed.
HoldStep(s) ==
    /\ precheck[s] = "passed"
    /\ HoldCall(s)
    /\ UNCHANGED <<txVars, serviceVars>>

-----------------------------------------------------------------------------
(* Service.Release, asked for by a client: one script, nothing else *)

ClientRelease(u, s) ==
    /\ Release(u, s)
    /\ gaveUp' = IF ReleaseReply(u, s) = "ok" THEN gaveUp \union {s} ELSE gaveUp
    /\ UNCHANGED <<txVars, precheck, captured, callStateVars>>

\* The payment of a session is captured, whatever has become of its hold: the
\* webhook path never looks at the hold.
PaymentCaptured(s) ==
    /\ phase[s] = "ok"
    /\ captured' = captured \union {s}
    /\ UNCHANGED <<holdVars, txVars, precheck, gaveUp, callStateVars>>

-----------------------------------------------------------------------------
(* Service.Confirm *)

\* The call returns, and its client hears the answer.
Answer(c, a) ==
    /\ step' = [step EXCEPT ![c] = "done"]
    /\ answer' = [answer EXCEPT ![c] = a]

Goto(c, next) ==
    /\ step' = [step EXCEPT ![c] = next]
    /\ UNCHANGED answer

\* holds.Get, and the owner check on what it returned.
ConfirmGet(u, c, s) ==
    /\ step[c] = "idle"
    /\ phase[s] = "ok"
    /\ confirming' = [confirming EXCEPT ![c] = s]
    /\ CASE ~SessionLive(s) -> Answer(c, "not_found")
         [] SessionLive(s) /\ UserOf[s] # u -> Answer(c, "not_owner")
         [] OTHER -> Goto(c, "loaded")
    /\ UNCHANGED <<holdVars, txVars, precheck, captured, gaveUp>>

\* The domain rule, on a later clock reading and the expiry Get returned.
ConfirmCheckExpiry(c) ==
    /\ step[c] = "loaded"
    /\ IF CanBeConfirmed(confirming[c])
         THEN Goto(c, "in_window")
         ELSE Answer(c, "expired")
    /\ UNCHANGED <<holdVars, txVars, precheck, captured, gaveUp, confirming>>

\* Mutant: the gate is open.
ConfirmSkipPayment(c) ==
    /\ step[c] = "in_window"
    /\ Goto(c, "paid")
    /\ UNCHANGED <<holdVars, txVars, precheck, captured, gaveUp, confirming>>

\* payments.HasCapturedPayment.
ConfirmCheckPayment(c) ==
    /\ step[c] = "in_window"
    /\ IF confirming[c] \in captured
         THEN Goto(c, "paid")
         ELSE Answer(c, "payment_required")
    /\ UNCHANGED <<holdVars, txVars, precheck, captured, gaveUp, confirming>>

\* Mutant: the hold is released before the durable write.
ConfirmReleaseFirst(c) ==
    /\ step[c] = "paid"
    /\ ReleaseScript(UserOf[confirming[c]], confirming[c])
    /\ BeginTx(c, confirming[c])
    /\ Goto(c, "storing")
    /\ UNCHANGED <<now, callVars, precheck, captured, gaveUp, confirming>>

\* bookings.Confirm: the transaction of BookingStore.
ConfirmStore(c) ==
    /\ step[c] = "paid"
    /\ BeginTx(c, confirming[c])
    /\ Goto(c, "storing")
    /\ UNCHANGED <<holdVars, precheck, captured, gaveUp, confirming>>

ConfirmTxStep(c) ==
    /\ step[c] = "storing"
    /\ TxStep(c)
    /\ UNCHANGED <<holdVars, serviceVars>>

ConfirmTxFails(c) ==
    /\ step[c] = "storing"
    /\ Rollback(c)
    /\ UNCHANGED <<holdVars, serviceVars>>

\* cleanupHold, best effort: the release script may or may not run, and the
\* answer is the same; a crash leaves the client without one.
ConfirmCleanup(c) ==
    /\ step[c] = "storing"
    /\ txPhase[c] = "committed"
    /\ \/ ReleaseScript(UserOf[confirming[c]], confirming[c])
       \/ UNCHANGED <<redisVars, released>>
    /\ \E a \in {"created", "error"} : Answer(c, a)
    /\ UNCHANGED <<now, callVars, txVars, precheck, captured, gaveUp, confirming>>

\* Mutant: the domain error is trusted, and no row is looked up.
ConfirmRecoverBlind(c) ==
    /\ step[c] = "storing"
    /\ txPhase[c] \in {"seat_conflict", "session_conflict"}
    /\ Answer(c, IF txPhase[c] = "session_conflict" THEN "replayed" ELSE "seat_booked")
    /\ UNCHANGED <<holdVars, txVars, precheck, captured, gaveUp, confirming>>

\* Mutant: the raw domain error reaches the client.
ConfirmRecoverNothing(c) ==
    /\ step[c] = "storing"
    /\ txPhase[c] \in {"seat_conflict", "session_conflict"}
    /\ Answer(c, txPhase[c])
    /\ UNCHANGED <<holdVars, txVars, precheck, captured, gaveUp, confirming>>

\* recoverConflict: is it this session's own booking?
ConfirmRecover(c) ==
    /\ step[c] = "storing"
    /\ txPhase[c] \in {"seat_conflict", "session_conflict"}
    /\ IF confirming[c] \in BookedSessions
         THEN Answer(c, "replayed")
         ELSE Answer(c, "seat_booked")
    /\ UNCHANGED <<holdVars, txVars, precheck, captured, gaveUp, confirming>>

\* An infrastructure error, a cancelled request or a crash, before or after the
\* transaction; inside it, ConfirmTxFails comes first.
ConfirmFails(c) ==
    /\ \/ step[c] \in {"loaded", "in_window", "paid"}
       \/ /\ step[c] = "storing"
          /\ txPhase[c] \in {"seat_conflict", "session_conflict", "failed"}
    /\ Answer(c, "error")
    /\ UNCHANGED <<holdVars, txVars, precheck, captured, gaveUp, confirming>>

-----------------------------------------------------------------------------
BookingInit ==
    /\ HoldInit
    /\ TxInit
    /\ precheck = [s \in Sessions |-> "none"]
    /\ captured = {}
    /\ gaveUp = {}
    /\ step = [c \in Calls |-> "idle"]
    /\ confirming = [c \in Calls |-> NoSession]
    /\ answer = [c \in Calls |-> "none"]

\* What the handler of a running confirm call does next.
ConfirmStep(c) ==
    \/ ConfirmCheckExpiry(c)
    \/ ConfirmCheckPayment(c)
    \/ ConfirmStore(c)
    \/ ConfirmTxStep(c)
    \/ ConfirmCleanup(c)
    \/ ConfirmRecover(c)

BookingTick == Tick /\ UNCHANGED <<txVars, serviceVars>>

BookingNext ==
    \/ BookingTick
    \/ \E s \in Sessions : PrecheckSeat(s) \/ HoldStep(s) \/ PaymentCaptured(s)
    \/ \E u \in Users, s \in Sessions : ClientRelease(u, s)
    \/ \E u \in Users, c \in Calls, s \in Sessions : ConfirmGet(u, c, s)
    \/ \E c \in Calls : ConfirmStep(c) \/ ConfirmTxFails(c) \/ ConfirmFails(c)

BookingSpec == BookingInit /\ [][BookingNext]_bookingVars

-----------------------------------------------------------------------------
(* What the service guarantees *)

\* The type invariant of the service's own state.
ServiceTypeOK ==
    /\ precheck \in [Sessions -> {"none", "passed", "refused"}]
    /\ captured \subseteq Sessions
    /\ gaveUp \subseteq Sessions
    /\ step \in [Calls -> {"idle", "loaded", "in_window", "paid", "storing", "done"}]
    /\ confirming \in [Calls -> Sessions \union {NoSession}]
    /\ answer \in [Calls -> {"none", "created", "replayed", "seat_booked",
                             "not_found", "not_owner", "expired",
                             "payment_required", "error"}]

\* Sessions whose Hold call succeeded and whose payment was captured.
HeldAndPaid == {s \in captured : phase[s] = "ok"}

Box == INSTANCE BoxOffice WITH paidFor <- HeldAndPaid, soldTo <- BookedSessions

\* "No captured money, no booking", and the seat to one session only: however
\* the gate, the payment and the transaction interleave, every step of the
\* service sells one free seat to a session that was held and paid for, or sells
\* nothing, and no sale is ever taken back.
ImplementsBoxOffice == Box!BoxOfficeSpec

\* What Confirm answers is true for good: 201 to the one call that wrote the
\* session's row, 200 only to a call that lost to its own session's row, and 409
\* only when the seat went to another session and this one bought nothing.
AnswersAreTrue ==
    \A c \in Calls :
        /\ answer[c] = "created" =>
              [call |-> c, session |-> confirming[c]] \in bookings
        /\ answer[c] = "replayed" =>
              \E r \in bookings : r.call # c /\ r.session = confirming[c]
        /\ answer[c] = "seat_booked" =>
              /\ SeatConfirmed(SeatOf[confirming[c]])
              /\ confirming[c] \notin BookedSessions

\* Confirm never costs a buyer the seat: until the sale is durable, a hold that
\* its owner did not give up is still there for the next attempt.  Releasing
\* before the commit "would strand the buyer if the durable write then failed".
BuyerNotStranded ==
    \A s \in Sessions :
        /\ phase[s] = "ok"
        /\ now < expiresAt[s]
        /\ s \notin gaveUp
        /\ s \notin BookedSessions
        => SessionLive(s) /\ seatKey[SeatOf[s]].token = s

-----------------------------------------------------------------------------
(* What the documents say, and the code does not do *)

\* "200 (idempotent replay - the same booking returned again)"; "idempotency
\* survives Redis loss": a confirm of a session that is already booked does not
\* answer that there is no such session.
ReplayIsIdempotent ==
    [][\A c \in Calls :
          step[c] = "idle" /\ answer'[c] = "not_found" =>
              confirming'[c] \notin BookedSessions]_bookingVars

=============================================================================
