---------------------------- MODULE BookingStore ----------------------------
(***************************************************************************)
(* The Postgres booking repository:                                        *)
(* internal/adapters/postgres/repos_booking.go over the tables of          *)
(* migrations/00003 and 00004.                                             *)
(*                                                                         *)
(* A call of BookingRepo.Confirm is one transaction: BEGIN, INSERT of the  *)
(* booking, INSERT of the outbox event, COMMIT, with a deferred ROLLBACK   *)
(* for every other way out.  Other transactions interleave between the     *)
(* statements.  A row is named by the call that inserts it (its generated  *)
(* id) and the session it books; the session fixes seat and user.          *)
(*                                                                         *)
(* The unique indexes behave as Postgres makes them behave: an INSERT that *)
(* collides with a committed row fails with SQLSTATE 23505, and one that   *)
(* collides with the row of a transaction still in progress waits for it.  *)
(***************************************************************************)
EXTENDS BookingDomain

CONSTANT Calls    \* calls of BookingRepo.Confirm, one transaction each

VARIABLES
    txPhase,     \* per call: how far its transaction is, and how it ended
    txSession,   \* per call: the session it books
    bookings,    \* committed rows of confirmed_bookings
    outbox       \* committed rows of outbox

txVars == <<txPhase, txSession, bookings, outbox>>

\* The row a call inserts, and the event that carries the same data.
Row(c) == [call |-> c, session |-> txSession[c]]

Writing(c) == txPhase[c] \in {"inserted", "staged"}

-----------------------------------------------------------------------------
(* The indexes of migrations/00003 *)

\* Both indexes only see confirmed rows here: no path of the program cancels.
SameSeat(r, q)    == SeatOf[r.session] = SeatOf[q.session]
SameSession(r, q) == r.session = q.session

\* Mutant: no unique index, so nothing to wait for.
NeverWait(c) == FALSE

\* Mutant: BEGIN takes a lock on the seat that the INSERT of any other waits for.
MustWaitForOpen(c) ==
    \E d \in Calls \ {c} :
        /\ txPhase[d] \in {"open", "inserted", "staged"}
        /\ SameSeat(Row(c), Row(d)) \/ SameSession(Row(c), Row(d))

\* The index entry of a transaction in progress: the INSERT has to wait.
MustWait(c) ==
    \E d \in Calls \ {c} :
        Writing(d) /\ (SameSeat(Row(c), Row(d)) \/ SameSession(Row(c), Row(d)))

\* The domain errors bookingConflictError can map a 23505 to.  A row that
\* violates both indexes is reported under either of them.
Conflicts(c) ==
    {e \in {"seat_conflict", "session_conflict"} :
        \E r \in bookings : IF e = "seat_conflict" THEN SameSeat(Row(c), r)
                                                   ELSE SameSession(Row(c), r)}

-----------------------------------------------------------------------------
(* The reads of the repository: each sees the committed rows *)

SeatConfirmed(x) == \E r \in bookings : SeatOf[r.session] = x

ConfirmedSeats == {SeatOf[r.session] : r \in bookings}

BookedSessions == {r.session : r \in bookings}

-----------------------------------------------------------------------------
(* BookingRepo.Confirm *)

BeginTx(c, s) ==
    /\ txPhase[c] = "idle"
    /\ txPhase' = [txPhase EXCEPT ![c] = "open"]
    /\ txSession' = [txSession EXCEPT ![c] = s]
    /\ UNCHANGED <<bookings, outbox>>

\* Mutant: a 23505 that bookingConflictError passes on unmapped.
InsertUnmapped(c) ==
    /\ txPhase[c] = "open"
    /\ ~MustWait(c)
    /\ txPhase' = [txPhase EXCEPT ![c] =
                      IF Conflicts(c) = {} THEN "inserted" ELSE "23505"]
    /\ UNCHANGED <<txSession, bookings, outbox>>

\* Mutant: the collision with a row in progress is reported at once.
InsertNoWait(c) ==
    /\ txPhase[c] = "open"
    /\ IF MustWait(c)
         THEN txPhase' = [txPhase EXCEPT ![c] = "seat_conflict"]
         ELSE IF Conflicts(c) = {}
         THEN txPhase' = [txPhase EXCEPT ![c] = "inserted"]
         ELSE \E e \in Conflicts(c) : txPhase' = [txPhase EXCEPT ![c] = e]
    /\ UNCHANGED <<txSession, bookings, outbox>>

InsertConfirmedBooking(c) ==
    /\ txPhase[c] = "open"
    /\ ~MustWait(c)
    /\ IF Conflicts(c) = {}
         THEN txPhase' = [txPhase EXCEPT ![c] = "inserted"]
         ELSE \E e \in Conflicts(c) : txPhase' = [txPhase EXCEPT ![c] = e]
    /\ UNCHANGED <<txSession, bookings, outbox>>

InsertOutboxEvent(c) ==
    /\ txPhase[c] = "inserted"
    /\ txPhase' = [txPhase EXCEPT ![c] = "staged"]
    /\ UNCHANGED <<txSession, bookings, outbox>>

\* Mutant: the event is written outside the transaction, and may be missed.
CommitWithoutEvent(c) ==
    /\ txPhase[c] = "staged"
    /\ bookings' = bookings \union {Row(c)}
    /\ txPhase' = [txPhase EXCEPT ![c] = "committed"]
    /\ UNCHANGED <<txSession, outbox>>

\* COMMIT makes both rows durable; when its reply is lost, or the process
\* dies before reading it, the call ends without knowing.
Commit(c) ==
    /\ txPhase[c] = "staged"
    /\ bookings' = bookings \union {Row(c)}
    /\ outbox' = outbox \union {Row(c)}
    /\ \E end \in {"committed", "failed"} :
          txPhase' = [txPhase EXCEPT ![c] = end]
    /\ UNCHANGED txSession

\* Any statement may fail, the request may be cancelled, the process or the
\* connection may die: the transaction rolls back and leaves nothing behind.
Rollback(c) ==
    /\ txPhase[c] \in {"open", "inserted", "staged"}
    /\ txPhase' = [txPhase EXCEPT ![c] = "failed"]
    /\ UNCHANGED <<txSession, bookings, outbox>>

-----------------------------------------------------------------------------
TxInit ==
    /\ txPhase = [c \in Calls |-> "idle"]
    /\ txSession = [c \in Calls |-> NoSession]
    /\ bookings = {}
    /\ outbox = {}

\* The steps a transaction takes once it is open.
TxStep(c) ==
    \/ InsertConfirmedBooking(c)
    \/ InsertOutboxEvent(c)
    \/ Commit(c)

TxNext ==
    \E c \in Calls :
        \/ \E s \in Sessions : BeginTx(c, s)
        \/ TxStep(c)
        \/ Rollback(c)

TxSpec == TxInit /\ [][TxNext]_txVars

\* A handler keeps executing its transaction, and Postgres wakes a waiting
\* INSERT when the transaction it waits for is over.
FairTxSpec == TxSpec /\ \A c \in Calls : WF_txVars(TxStep(c))

-----------------------------------------------------------------------------
(* What the repository guarantees *)

TxPhases == {"idle", "open", "inserted", "staged",
             "committed", "seat_conflict", "session_conflict", "failed"}

\* The type invariant of the repository's state.
TxTypeOK ==
    /\ txPhase \in [Calls -> TxPhases]
    /\ txSession \in [Calls -> Sessions \union {NoSession}]
    /\ bookings \subseteq [call : Calls, session : Sessions]
    /\ outbox \subseteq [call : Calls, session : Sessions]

\* The arbiter of last resort: whatever the interleaving of transactions, a
\* seat has at most one confirmed booking (confirmed_bookings_seat_unique).
OneBookingPerSeat ==
    \A r, q \in bookings : SameSeat(r, q) => r = q

\* A call that was told of a conflict lost to a row that is there to be read:
\* recoverConflict can rely on the row, because the INSERT waited for the
\* winner to commit rather than failing on a row that might still roll back.
ConflictIsDurable ==
    \A c \in Calls :
        /\ txPhase[c] = "seat_conflict" =>
              \E r \in bookings : r.call # c /\ SameSeat(Row(c), r)
        /\ txPhase[c] = "session_conflict" =>
              \E r \in bookings : r.call # c /\ SameSession(Row(c), r)

Ledger == INSTANCE SalesLedger WITH sold <- bookings, announced <- outbox

\* The repository implements the port: every step sells one free seat to one
\* session together with its event, or changes nothing a reader can see.
ImplementsLedger == Ledger!LedgerSpec

\* No transaction waits for ever on another one: waiting INSERTs cannot form a
\* cycle, because a transaction that waits has written nothing yet.
TxEnds == \A c \in Calls : txPhase[c] = "open" ~> txPhase[c] \notin
                              {"open", "inserted", "staged"}

=============================================================================
