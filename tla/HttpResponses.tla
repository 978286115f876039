----------------------------- MODULE HttpResponses -----------------------------
(***************************************************************************)
(* What the handlers of internal/adapters/http answer: the status and the  *)
(* error code a client can branch on, from what the service returned.  An  *)
(* error is named by its sentinel; every other one is "infra".  The text   *)
(* of a message depends on the code alone, and is left out.                *)
(***************************************************************************)
EXTENDS Naturals

Response(status, code) == [status |-> status, code |-> code]

HoldNotFound  == Response(404, "not_found")
InternalError == Response(500, "internal_error")

\* Mutant: somebody else's session is told apart from an unknown one.
BookingErrorForbids(err) ==
    CASE err = "ErrSeatAlreadyHeld" -> Response(409, "seat_taken")
      [] err = "ErrSeatAlreadyBooked" -> Response(409, "seat_booked")
      [] err = "ErrNotHoldOwner" -> Response(403, "forbidden")
      [] err \in {"ErrHoldNotFound", "ErrHoldExpired"} -> HoldNotFound
      [] err = "ErrPaymentNotCaptured" -> Response(402, "payment_required")
      [] OTHER -> InternalError

\* writeBookingError.
BookingError(err) ==
    CASE err = "ErrSeatAlreadyHeld" -> Response(409, "seat_taken")
      [] err = "ErrSeatAlreadyBooked" -> Response(409, "seat_booked")
      [] err = "ErrHoldLimitExceeded" -> Response(409, "hold_limit_exceeded")
      [] err = "ErrSeatOutOfRange" -> Response(400, "validation_error")
      [] err \in {"ErrHoldNotFound", "ErrNotHoldOwner", "ErrHoldExpired"} -> HoldNotFound
      [] err = "ErrPaymentNotCaptured" -> Response(402, "payment_required")
      [] err \in {"ErrScreeningNotFound", "ErrMovieNotFound"} -> Response(404, "not_found")
      [] OTHER -> InternalError

\* HoldHandler: 201 with the session, or the error.
HoldResponse(outcome) ==
    IF outcome = "held" THEN Response(201, "none") ELSE BookingError(outcome)

\* ConfirmHandler: 201 for the confirm that booked, 200 for its replays.
ConfirmResponse(outcome) ==
    CASE outcome = "created" -> Response(201, "none")
      [] outcome = "replayed" -> Response(200, "none")
      [] OTHER -> BookingError(outcome)

\* writePaymentError.
PaymentError(err) ==
    CASE err \in {"ErrHoldNotFound", "ErrNotHoldOwner", "ErrHoldExpired"} -> HoldNotFound
      [] err = "ErrPaymentNotCaptured" -> Response(402, "payment_required")
      [] err = "ErrPaymentDeclined" -> Response(402, "payment_declined")
      [] err = "ErrWebhookInvalid" -> Response(400, "webhook_invalid")
      [] err = "ErrScreeningNotFound" -> Response(404, "not_found")
      [] OTHER -> InternalError

\* PaymentIntentHandler: 201 with a new intent, 200 with the one there was.
IntentResponse(outcome) ==
    CASE outcome = "created" -> Response(201, "none")
      [] outcome = "reused" -> Response(200, "none")
      [] OTHER -> PaymentError(outcome)

\* PaymentConfirmHandler.
PaymentConfirmResponse(outcome) ==
    IF outcome = "paid" THEN Response(200, "none") ELSE PaymentError(outcome)

=============================================================================
