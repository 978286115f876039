------------------------------- MODULE SeatMap -------------------------------
(***************************************************************************)
(* Service.SeatMap of internal/application/booking/service.go: the grid of *)
(* a screening is rendered from two reads of two stores, the confirmed     *)
(* seats from Postgres and then the held seats from Redis, while holds,    *)
(* confirms and releases go on (BookingService).                           *)
(***************************************************************************)
EXTENDS BookingService

VARIABLES
    renderStep,   \* "idle", or "reading" between the two reads
    bookedRead,   \* what ConfirmedSeats returned
    shown         \* per seat: the status in the last map the client got

renderVars  == <<renderStep, bookedRead, shown>>
seatMapVars == <<bookingVars, renderVars>>

\* Mutant: a lingering hold hides the sale.
SeatStatusHeldFirst(x, booked, held) ==
    CASE x \in held -> "held"
      [] x \notin held /\ x \in booked -> "booked"
      [] OTHER -> "available"

\* Precedence: booked over held over available.
SeatStatus(x, booked, held) ==
    CASE x \in booked -> "booked"
      [] x \notin booked /\ x \in held -> "held"
      [] OTHER -> "available"

\* bookings.ConfirmedSeats.
ReadBooked ==
    /\ renderStep = "idle"
    /\ renderStep' = "reading"
    /\ bookedRead' = ConfirmedSeats
    /\ UNCHANGED <<bookingVars, shown>>

\* holds.HeldSeats, and the map built from both reads.
ReadHeld ==
    /\ renderStep = "reading"
    /\ shown' = [x \in Seats |-> SeatStatus(x, bookedRead, HeldSeats)]
    /\ renderStep' = "idle"
    /\ bookedRead' = {}
    /\ UNCHANGED bookingVars

\* Everything else the system does meanwhile.
Meanwhile ==
    /\ BookingNext
    /\ UNCHANGED renderVars

SeatMapInit ==
    /\ BookingInit
    /\ renderStep = "idle"
    /\ bookedRead = {}
    /\ shown = [x \in Seats |-> "none"]

SeatMapNext == ReadBooked \/ ReadHeld \/ Meanwhile

SeatMapSpec == SeatMapInit /\ [][SeatMapNext]_seatMapVars

-----------------------------------------------------------------------------

\* Postgres-first availability: a client that has once been shown a seat as
\* booked is never shown it as held or available again, whatever phantom or
\* uncleaned hold lingers in Redis and whatever expires meanwhile.
BookedIsFinal ==
    [][\A x \in Seats : shown[x] = "booked" => shown'[x] = "booked"]_seatMapVars

=============================================================================
