----------------------------- MODULE PaymentGate -----------------------------
(***************************************************************************)
(* What booking.Service.Confirm takes for granted about payments: the      *)
(* PaymentFinder port of internal/application/booking.  The gate is read   *)
(* outside the booking transaction, which is sound only because the        *)
(* answer for a session never goes back from yes to no.                    *)
(***************************************************************************)
CONSTANT Sessions

VARIABLE paid    \* the sessions HasCapturedPayment says yes to

GateInit == paid = {}

Collect(s) == paid' = paid \union {s}

GateNext == \E s \in Sessions : Collect(s)

GateSpec == GateInit /\ [][GateNext]_paid

=============================================================================
