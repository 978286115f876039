------------------------------- MODULE HoldPort -------------------------------
(***************************************************************************)
(* What a hold store promises its callers: the HoldStore interface of      *)
(* internal/application/booking/holdstore.go, as a lease on each seat.     *)
(*                                                                         *)
(*  - Hold claims a seat for one session, if and only if nobody has it and *)
(*    the user is under the limit.  The claim fixes the deadline of the    *)
(*    lease, not before the hold's ExpiresAt and at most MaxLease away.    *)
(*  - Release, by the user of the session, ends its lease and no other.    *)
(*  - A lease lapses at its deadline: not before, and whether or not       *)
(*    anybody comes back for it.                                           *)
(***************************************************************************)
EXTENDS BookingDomain

CONSTANTS
    HoldTTL, MaxHolds,
    MaxLease     \* the longest time a claim keeps others from a seat

VARIABLES
    now,
    expiresAt,   \* per session: the promise made to the client, 0 before it
    lease,       \* per seat: who has it until when, or NoLease
    released     \* sessions that their own user released

portVars == <<now, expiresAt, lease, released>>

NoLease == [session |-> NoSession, until |-> 0]

\* The seats a user has.
LeasedBy(u) == {x \in Seats : lease[x] # NoLease /\ UserOf[lease[x].session] = u}

PortInit ==
    /\ now = 0
    /\ expiresAt = [s \in Sessions |-> 0]
    /\ lease = [x \in Seats |-> NoLease]
    /\ released = {}

\* A caller picks the expiry of the hold it is about to ask for.
Promise(s) ==
    /\ expiresAt[s] = 0
    /\ expiresAt' = [expiresAt EXCEPT ![s] = now + HoldTTL]
    /\ UNCHANGED <<now, lease, released>>

Acquire(s) ==
    /\ expiresAt[s] # 0
    /\ lease[SeatOf[s]] = NoLease
    /\ Cardinality(LeasedBy(UserOf[s])) < MaxHolds
    /\ \E until \in now + 1..now + MaxLease :
          /\ expiresAt[s] <= until
          /\ lease' = [lease EXCEPT ![SeatOf[s]] = [session |-> s, until |-> until]]
    /\ UNCHANGED <<now, expiresAt, released>>

\* The user of s releases it; nobody else's Release changes anything.
GiveUp(s) ==
    /\ lease' = [x \in Seats |-> IF lease[x].session = s THEN NoLease ELSE lease[x]]
    /\ released' = released \union {s}
    /\ UNCHANGED <<now, expiresAt>>

\* Time passes; the leases whose deadline is reached lapse, and no others.
Lapse ==
    /\ now' = now + 1
    /\ lease' = [x \in Seats |-> IF lease[x].until <= now' THEN NoLease ELSE lease[x]]
    /\ UNCHANGED <<expiresAt, released>>

PortNext ==
    \/ Lapse
    \/ \E s \in Sessions : Promise(s) \/ Acquire(s) \/ GiveUp(s)

PortSpec == PortInit /\ [][PortNext]_portVars

-----------------------------------------------------------------------------
\* What callers may conclude from the port alone: a lease is on the seat its
\* session asked for, covers the promise made to the client, and is over at most
\* MaxLease from now whatever becomes of its holder; and no user has more seats
\* than the limit allows.
LeasesAreKept ==
    /\ \A x \in Seats : lease[x] # NoLease =>
          /\ SeatOf[lease[x].session] = x
          /\ expiresAt[lease[x].session] <= lease[x].until
          /\ lease[x].until \in now + 1..now + MaxLease
    /\ \A u \in Users : Cardinality(LeasedBy(u)) <= MaxHolds

=============================================================================
