---------------------------- MODULE BookingDomain ----------------------------
(***************************************************************************)
(* The vocabulary the stores and the services share:                       *)
(* internal/domain/booking/booking.go.                                     *)
(*                                                                         *)
(* Service.Hold mints a fresh session ID and a fresh hold token for every  *)
(* call, so a session stands for one call of Hold, for its token, and for  *)
(* the seat and the user of that call.  A seat is a (screening, row,       *)
(* number) triple that passed NewSeat and Screening.HasSeat.               *)
(***************************************************************************)
EXTENDS Naturals, FiniteSets

CONSTANTS
    Sessions,    \* session IDs, each minted by one call of Service.Hold
    Seats,
    Users,
    SeatOf,      \* the seat a session is minted for
    UserOf,      \* the user a session is minted for
    NoSession    \* no session at all

ASSUME DomainAssumption ==
    /\ IsFiniteSet(Sessions)
    /\ SeatOf \in [Sessions -> Seats]
    /\ UserOf \in [Sessions -> Users]
    /\ NoSession \notin Sessions

=============================================================================
