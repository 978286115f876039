------------------------------- MODULE BoxOffice -------------------------------
(***************************************************************************)
(* What the buyers and the cinema may count on, whatever goes on between   *)
(* the hold store, the sales record, the payments table and the provider:  *)
(* money is collected for sessions, and a seat is sold to one session,     *)
(* once, for good, and only after its money was collected.  The docs state *)
(* it as "no captured money, no booking" (ADR 0008) and "the partial       *)
(* unique index is the arbiter" (ADR 0006).                                *)
(***************************************************************************)
EXTENDS Naturals

CONSTANTS Sessions, SeatOf

VARIABLES
    paidFor,    \* sessions whose money was collected, at the price, on record
    soldTo      \* sessions that have bought their seat

boxOfficeVars == <<paidFor, soldTo>>

BoxOfficeInit ==
    /\ paidFor = {}
    /\ soldTo = {}

Pay(s) ==
    /\ paidFor' = paidFor \union {s}
    /\ UNCHANGED soldTo

SellSeat(s) ==
    /\ s \in paidFor
    /\ \A other \in soldTo : SeatOf[other] # SeatOf[s]
    /\ soldTo' = soldTo \union {s}
    /\ UNCHANGED paidFor

BoxOfficeNext == \E s \in Sessions : Pay(s) \/ SellSeat(s)

BoxOfficeSpec == BoxOfficeInit /\ [][BoxOfficeNext]_boxOfficeVars

-----------------------------------------------------------------------------
\* What a buyer and the cinema may conclude from that alone: whoever has a seat has
\* paid for it, and has it alone.
SeatsGoToPayers ==
    /\ soldTo \subseteq paidFor
    /\ \A s, t \in soldTo : SeatOf[s] = SeatOf[t] => s = t

=============================================================================
