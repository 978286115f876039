--------------------------- MODULE MCPaymentService ---------------------------
(* The calls and webhooks that race for one session.                          *)
EXTENDS PaymentService

CONSTANTS s1, front, ann

MCSeatOf == [s \in Sessions |-> front]
MCUserOf == [s \in Sessions |-> ann]

=============================================================================
