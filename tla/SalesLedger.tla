----------------------------- MODULE SalesLedger -----------------------------
(***************************************************************************)
(* What the sales record promises: the BookingStore port of                *)
(* internal/application/booking/bookingstore.go.  Confirm persists a       *)
(* booking and its BookingConfirmed event as one unit, a seat is sold at   *)
(* most once, a session buys at most once, and nothing is ever unsold.     *)
(***************************************************************************)
EXTENDS Naturals

CONSTANTS Calls, Sessions, SeatOf

VARIABLES
    sold,        \* bookings: the call that made each one, and its session
    announced    \* BookingConfirmed events

ledgerVars == <<sold, announced>>

Sale == [call : Calls, session : Sessions]

LedgerInit ==
    /\ sold = {}
    /\ announced = {}

Sell(sale) ==
    /\ \A other \in sold :
          /\ other.session # sale.session
          /\ SeatOf[other.session] # SeatOf[sale.session]
    /\ sold' = sold \union {sale}
    /\ announced' = announced \union {sale}

LedgerNext == \E sale \in Sale : Sell(sale)

LedgerSpec == LedgerInit /\ [][LedgerNext]_ledgerVars

-----------------------------------------------------------------------------
\* What a reader of the tables may conclude from the port alone: every sale has
\* its event and every event its sale, no seat is sold twice, and no session buys
\* twice.
SalesAreExclusive ==
    /\ announced = sold
    /\ sold \subseteq Sale
    /\ \A sale, other \in sold :
          \/ sale = other
          \/ /\ sale.session # other.session
             /\ SeatOf[sale.session] # SeatOf[other.session]

=============================================================================
