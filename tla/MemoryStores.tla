----------------------------- MODULE MemoryStores -----------------------------
(***************************************************************************)
(* The in-memory adapters of internal/adapters/memory, which the tests put *)
(* in the place of Redis and Postgres.  Each is a set of maps behind one   *)
(* mutex, so a call of a port is one step.  What the tests show with them  *)
(* holds for the real stores only as far as both keep the same ports.      *)
(***************************************************************************)
EXTENDS BookingDomain

CONSTANTS
    MemHoldTTL, MemMaxHolds,
    MemLastHold,              \* bound: the last moment at which a hold is asked for
    MemCalls,                 \* calls of BookingStore.Confirm
    MemIntents,
    MemTokens

ASSUME MemoryAssumption == MemHoldTTL \in Nat /\ MemMaxHolds \in Nat

VARIABLES
    memNow,        \* the ManualClock
    memExpiresAt,  \* per session: hold.ExpiresAt, 0 before it was minted
    memSeat,       \* per seat: the session whose token is in its entry
    memSessions,   \* sessions with an entry
    memUserHolds,  \* per user: the bookkeeping the limit counts
    memReleased,   \* history: sessions that their own user released
    memBookings,   \* the rows of BookingStore
    memRows,       \* the rows of PaymentStore, in the order of insertion
    memTokens      \* the rows of RefreshTokenStore

memHoldVars == <<memNow, memExpiresAt, memSeat, memSessions, memUserHolds, memReleased>>
memVars     == <<memHoldVars, memBookings, memRows, memTokens>>

-----------------------------------------------------------------------------
(* HoldStore *)

MemLive(s) == memNow < memExpiresAt[s]

\* The session whose claim on a seat stands, if any.
MemHolder(x) == IF memSeat[x] \in {s \in Sessions : MemLive(s)} THEN memSeat[x] ELSE NoSession

\* Service.Hold picks the expiry before it calls the store.
MemMint(s) ==
    /\ memExpiresAt[s] = 0
    /\ memNow <= MemLastHold
    /\ memExpiresAt' = [memExpiresAt EXCEPT ![s] = memNow + MemHoldTTL]
    /\ UNCHANGED <<memNow, memSeat, memSessions, memUserHolds, memReleased>>

\* HoldStore.Hold: the limit counts what lingers; an expired claim does not block the seat.
MemHold(s) ==
    /\ memExpiresAt[s] # 0
    /\ s \notin memSessions \union memReleased
    /\ Cardinality(memUserHolds[UserOf[s]]) < MemMaxHolds
    /\ MemHolder(SeatOf[s]) = NoSession
    /\ memSeat' = [memSeat EXCEPT ![SeatOf[s]] = s]
    /\ memSessions' = memSessions \union {s}
    /\ memUserHolds' = [memUserHolds EXCEPT ![UserOf[s]] = @ \union {s}]
    /\ UNCHANGED <<memNow, memExpiresAt, memReleased>>

MemGivenUp(u, s) == IF UserOf[s] = u THEN memReleased \union {s} ELSE memReleased

\* Mutant: neither the expiry nor the token is looked at, as a bare DEL would do.
MemReleaseAny(u, s) ==
    /\ s \in memSessions /\ UserOf[s] = u
    /\ memSeat' = [memSeat EXCEPT ![SeatOf[s]] = NoSession]
    /\ memSessions' = memSessions \ {s}
    /\ memUserHolds' = [memUserHolds EXCEPT ![u] = @ \ {s}]
    /\ memReleased' = MemGivenUp(u, s)
    /\ UNCHANGED <<memNow, memExpiresAt>>

\* A live session of this user; its seat only while the token is its own.
MemRelease(u, s) ==
    /\ s \in memSessions /\ MemLive(s) /\ UserOf[s] = u
    /\ memSeat' = [memSeat EXCEPT ![SeatOf[s]] = IF @ = s THEN NoSession ELSE @]
    /\ memSessions' = memSessions \ {s}
    /\ memUserHolds' = [memUserHolds EXCEPT ![u] = @ \ {s}]
    /\ memReleased' = MemGivenUp(u, s)
    /\ UNCHANGED <<memNow, memExpiresAt>>

MemAdvance ==
    /\ memNow < MemLastHold + MemHoldTTL
    /\ memNow' = memNow + 1
    /\ UNCHANGED <<memExpiresAt, memSeat, memSessions, memUserHolds, memReleased>>

MemHeldSeats == {SeatOf[s] : s \in {t \in memSessions : MemLive(t)}}

MemHoldNext ==
    \/ MemAdvance
    \/ \E s \in Sessions : MemMint(s) \/ MemHold(s)
    \/ \E u \in Users, s \in Sessions : MemRelease(u, s)

-----------------------------------------------------------------------------
(* BookingStore *)

\* The session first, then the seat; rows are never cancelled.
MemConfirm(c, s) ==
    /\ \A r \in memBookings : r.session # s
    /\ \A r \in memBookings : SeatOf[r.session] # SeatOf[s]
    /\ memBookings' = memBookings \union {[call |-> c, session |-> s]}

-----------------------------------------------------------------------------
(* PaymentStore *)

MemRow(i) == {r \in memRows : r.intent = i}

MemActive(r) == r.status \notin {"failed", "refunded"}

MemInsertIntent(i, s) ==
    /\ MemRow(i) = {}
    /\ \A r \in memRows : ~(r.session = s /\ MemActive(r))
    /\ memRows' = memRows \union {[intent |-> i, session |-> s, status |-> "intent"]}

\* Capture and MarkFailed: the guarded edge, a replay, or an invalid transition.
MemSettle(i, end) ==
    \E r \in MemRow(i) :
        /\ r.status \in {"intent", "authorized"}
        /\ memRows' = (memRows \ {r}) \union {[r EXCEPT !.status = end]}

MemPaymentNext ==
    \E i \in MemIntents :
        \/ \E s \in Sessions : MemInsertIntent(i, s)
        \/ \E end \in {"captured", "failed"} : MemSettle(i, end)

-----------------------------------------------------------------------------
(* RefreshTokenStore *)

MemStored(t) == \E k \in memTokens : k.token = t

\* Create, of a hash minted for this row.
MemCreate(t) ==
    /\ ~MemStored(t)
    /\ memTokens' = memTokens \union
          {[token |-> t, family |-> t, replaced |-> FALSE, revoked |-> FALSE]}

\* Every row of the family is revoked, replaced ones too.
MemRevokeFamily(f) ==
    memTokens' = {IF k.family = f THEN [k EXCEPT !.revoked = TRUE] ELSE k : k \in memTokens}

\* Reuse is decided before expiry; an expired token changes nothing.
MemRotate(k, next) ==
    IF k.revoked \/ k.replaced
      THEN MemRevokeFamily(k.family)
      ELSE /\ ~MemStored(next)
           /\ memTokens' = (memTokens \ {k}) \union
                 {[k EXCEPT !.replaced = TRUE],
                  [token |-> next, family |-> k.family,
                   replaced |-> FALSE, revoked |-> FALSE]}

MemTokenNext ==
    \/ \E t \in MemTokens : MemCreate(t)
    \/ \E k \in memTokens : MemRevokeFamily(k.family)
    \/ \E k \in memTokens, t \in MemTokens : MemRotate(k, t)

-----------------------------------------------------------------------------
MemInit ==
    /\ memNow = 0
    /\ memExpiresAt = [s \in Sessions |-> 0]
    /\ memSeat = [x \in Seats |-> NoSession]
    /\ memSessions = {}
    /\ memUserHolds = [u \in Users |-> {}]
    /\ memReleased = {}
    /\ memBookings = {}
    /\ memRows = {}
    /\ memTokens = {}

=============================================================================
