------------------------------- MODULE Adapters -------------------------------
(***************************************************************************)
(* The two sets of adapters behind the ports.  cmd/api/main.go wires       *)
(* Postgres; the unit tests wire internal/adapters/memory.  A behaviour    *)
(* exercises one adapter, picked at the start: the Postgres booking        *)
(* repository, or one of the in-memory stores.                             *)
(***************************************************************************)
EXTENDS BookingStore, MemoryStores

VARIABLE wired

adapterVars == <<txVars, memVars, wired>>

MemoryAdapters == {"memory.HoldStore", "memory.BookingStore",
                   "memory.PaymentStore", "memory.RefreshTokenStore"}

AdaptersInit ==
    /\ TxInit
    /\ MemInit
    /\ wired \in MemoryAdapters \union {"postgres.BookingRepo"}

\* A call of the wired memory adapter; the others are not there to change.
MemoryNext ==
    \/ /\ wired = "memory.HoldStore"
       /\ MemHoldNext
       /\ UNCHANGED <<memBookings, memRows, memTokens>>
    \/ /\ wired = "memory.BookingStore"
       /\ \E c \in MemCalls, s \in Sessions : MemConfirm(c, s)
       /\ UNCHANGED <<memHoldVars, memRows, memTokens>>
    \/ /\ wired = "memory.PaymentStore"
       /\ MemPaymentNext
       /\ UNCHANGED <<memHoldVars, memBookings, memTokens>>
    \/ /\ wired = "memory.RefreshTokenStore"
       /\ MemTokenNext
       /\ UNCHANGED <<memHoldVars, memBookings, memRows>>

AdaptersNext ==
    /\ UNCHANGED wired
    /\ \/ wired = "postgres.BookingRepo" /\ TxNext /\ UNCHANGED memVars
       \/ MemoryNext /\ UNCHANGED txVars

\* Only the transactions of Postgres take several steps.
FairAdapters ==
    /\ AdaptersInit
    /\ [][AdaptersNext]_adapterVars
    /\ \A c \in Calls : WF_txVars(TxStep(c))

-----------------------------------------------------------------------------
(* What makes the tests over the doubles mean something *)

MemLease(x) ==
    LET s == MemHolder(x)
    IN  [session |-> s, until |-> IF s = NoSession THEN 0 ELSE memExpiresAt[s]]

HoldDouble == INSTANCE HoldPort WITH
    now <- memNow, expiresAt <- memExpiresAt, released <- memReleased,
    lease <- [x \in Seats |-> MemLease(x)],
    HoldTTL <- MemHoldTTL, MaxHolds <- MemMaxHolds, MaxLease <- MemHoldTTL

BookingDouble == INSTANCE SalesLedger WITH
    Calls <- MemCalls, sold <- memBookings, announced <- memBookings

PaymentDouble == INSTANCE PaymentStore WITH
    Intents <- MemIntents, NoIntent <- NoSession,
    payStatus <- [i \in MemIntents |-> IF MemRow(i) = {} THEN "none"
                     ELSE (CHOOSE r \in MemRow(i) : TRUE).status],
    paySession <- [i \in MemIntents |-> IF MemRow(i) = {} THEN NoSession
                     ELSE (CHOOSE r \in MemRow(i) : TRUE).session]

RefreshDouble == INSTANCE RefreshPort WITH
    Tokens <- MemTokens,
    issued <- {[token |-> k.token, family |-> k.family] : k \in memTokens},
    live   <- {k.token : k \in {l \in memTokens : ~(l.replaced \/ l.revoked)}}

\* A test that passes over the doubles speaks of the real stores only when the
\* doubles keep the ports Redis and Postgres keep: the hold double is a lease
\* per seat, whatever order holds, expiries and late releases come in, and the
\* seat map reads that lease off the sessions ("the seat and session entries
\* always share a lifetime, so both views agree", memory/holdstore.go); the
\* booking double sells a seat once and a session once; the payment double
\* takes no step the payments table refuses; the token double exchanges a live
\* token once, and revokes all of a family.
DoublesKeepTheirPorts ==
    /\ HoldDouble!PortSpec
    /\ BookingDouble!LedgerSpec
    /\ [][\E i \in MemIntents :
             \/ \E s \in Sessions : PaymentDouble!InsertIntent(i, s)
             \/ PaymentDouble!CapturePayment(i)
             \/ PaymentDouble!FailPayment(i)]_memRows
    /\ RefreshDouble!RefreshSpec
    /\ [](MemHeldSeats = {x \in Seats : MemHolder(x) # NoSession})

=============================================================================
