-------------------------- MODULE BookingStoreProofs --------------------------
(***************************************************************************)
(* Proofs about BookingStore, for any number of calls, sessions and seats: *)
(* a seat is sold once, a reported conflict is durable, and the repository *)
(* implements SalesLedger.                                                 *)
(*                                                                         *)
(* OneBookingPerSeat is not inductive by itself.  What carries it is that  *)
(* a row waiting to be committed clashes neither with a committed row nor  *)
(* with another row waiting to be committed (NoClash): an INSERT that      *)
(* would clash has waited, or failed.                                      *)
(***************************************************************************)
EXTENDS BookingStore, TLAPS

Clash(r, q) == SameSeat(r, q) \/ SameSession(r, q)

\* A call that has begun its transaction knows its session.
Started == \A c \in Calls : txPhase[c] # "idle" => txSession[c] \in Sessions

\* A committed row is the row of a call that is over.
RowsAreOwned ==
    \A r \in bookings : r = Row(r.call) /\ txPhase[r.call] \in {"committed", "failed"}

NoClash ==
    \A c \in Calls : Writing(c) =>
        /\ \A r \in bookings : ~Clash(Row(c), r)
        /\ \A d \in Calls \ {c} : Writing(d) => ~Clash(Row(c), Row(d))

\* Every committed booking is announced, and nothing else is.
OutboxMatchesBookings == outbox = bookings

TxInv ==
    /\ TxTypeOK
    /\ Started
    /\ RowsAreOwned
    /\ NoClash
    /\ OneBookingPerSeat
    /\ ConflictIsDurable
    /\ OutboxMatchesBookings

-----------------------------------------------------------------------------
\* The initial state of the repository satisfies the invariant.
LEMMA TxInitInv == TxInit => TxInv
BY DEF TxInit, TxInv, TxTypeOK, TxPhases, Started, RowsAreOwned, NoClash, Writing,
       OneBookingPerSeat, ConflictIsDurable, OutboxMatchesBookings

\* BEGIN: the row of no other call changes, and this one has written nothing.
LEMMA BeginTxInv ==
    ASSUME TxInv, NEW c \in Calls, NEW s \in Sessions, BeginTx(c, s)
    PROVE  TxInv'
<1>1. /\ txPhase[c] = "idle"
      /\ \A d \in Calls \ {c} : /\ Row(d)' = Row(d)
                                /\ txPhase'[d] = txPhase[d]
                                /\ txSession'[d] = txSession[d]
      /\ txPhase'[c] = "open" /\ txSession'[c] = s
  BY DEF TxInv, TxTypeOK, BeginTx, Row
<1>2. bookings' = bookings /\ outbox' = outbox
  BY DEF BeginTx
<1>3. TxTypeOK'
  BY DEF TxInv, TxTypeOK, TxPhases, BeginTx
<1>4. Started'
  BY <1>1 DEF TxInv, Started
<1>5. \A r \in bookings : r.call \in Calls /\ r.call # c
  BY <1>1 DEF TxInv, TxTypeOK, RowsAreOwned
<1>6. RowsAreOwned'
  BY <1>1, <1>2, <1>5 DEF TxInv, RowsAreOwned
<1>7. NoClash'
  BY <1>1, <1>2 DEF TxInv, NoClash, Writing, Clash, SameSeat, SameSession
<1>8. OneBookingPerSeat'
  BY <1>2 DEF TxInv, OneBookingPerSeat, SameSeat
<1>9. ConflictIsDurable'
  BY <1>1, <1>2 DEF TxInv, ConflictIsDurable, SameSeat, SameSession
<1>10. OutboxMatchesBookings'
  BY <1>2 DEF TxInv, OutboxMatchesBookings
<1> QED
  BY <1>3, <1>4, <1>6, <1>7, <1>8, <1>9, <1>10 DEF TxInv

\* INSERT of the booking: it has waited for every writer it clashes with.
LEMMA InsertConfirmedBookingInv ==
    ASSUME TxInv, NEW c \in Calls, InsertConfirmedBooking(c)
    PROVE  TxInv'
<1>1. /\ txPhase[c] = "open"
      /\ \A d \in Calls \ {c} : txPhase'[d] = txPhase[d]
      /\ txPhase'[c] \in {"inserted", "seat_conflict", "session_conflict"}
      /\ txPhase'[c] = "inserted" => Conflicts(c) = {}
      /\ txPhase'[c] # "inserted" => txPhase'[c] \in Conflicts(c)
  BY DEF TxInv, TxTypeOK, InsertConfirmedBooking, Conflicts
<1>2. bookings' = bookings /\ outbox' = outbox /\ txSession' = txSession
  BY DEF InsertConfirmedBooking
<1>3. \A d \in Calls : Row(d)' = Row(d)
  BY <1>2 DEF Row
<1>4. TxTypeOK'
  BY <1>1, <1>2 DEF TxInv, TxTypeOK, TxPhases, InsertConfirmedBooking
<1>5. Started'
  BY <1>1, <1>2 DEF TxInv, Started
<1>6. RowsAreOwned'
  BY <1>1, <1>2, <1>3 DEF TxInv, TxTypeOK, RowsAreOwned
<1>7. NoClash'
  <2>1. txPhase'[c] = "inserted" => \A r \in bookings : ~Clash(Row(c), r)
    BY <1>1 DEF Conflicts, Clash
  <2>2. \A d \in Calls \ {c} : Writing(d) => ~Clash(Row(c), Row(d)) /\ ~Clash(Row(d), Row(c))
    BY DEF InsertConfirmedBooking, MustWait, Clash, SameSeat, SameSession
  <2> QED
    BY <1>1, <1>2, <1>3, <2>1, <2>2
    DEF TxInv, NoClash, Writing, Clash, SameSeat, SameSession
<1>8. OneBookingPerSeat'
  BY <1>2 DEF TxInv, OneBookingPerSeat, SameSeat
<1>9. ConflictIsDurable'
  <2>1. \A r \in bookings : r.call # c
    BY <1>1 DEF TxInv, RowsAreOwned
  <2> QED
    BY <1>1, <1>2, <1>3, <2>1
    DEF TxInv, ConflictIsDurable, Conflicts, SameSeat, SameSession
<1>10. OutboxMatchesBookings'
  BY <1>2 DEF TxInv, OutboxMatchesBookings
<1> QED
  BY <1>4, <1>5, <1>6, <1>7, <1>8, <1>9, <1>10 DEF TxInv

\* INSERT of the event, and ROLLBACK: a writer goes on writing, or stops.
LEMMA QuietStepInv ==
    ASSUME TxInv, NEW c \in Calls, InsertOutboxEvent(c) \/ Rollback(c)
    PROVE  TxInv'
<1>1. /\ txPhase[c] \in {"open", "inserted", "staged"}
      /\ \A d \in Calls \ {c} : txPhase'[d] = txPhase[d]
      /\ \/ txPhase[c] = "inserted" /\ txPhase'[c] = "staged"
         \/ txPhase'[c] = "failed"
  BY DEF TxInv, TxTypeOK, InsertOutboxEvent, Rollback
<1>2. bookings' = bookings /\ outbox' = outbox /\ txSession' = txSession
  BY DEF InsertOutboxEvent, Rollback
<1>3. \A d \in Calls : Row(d)' = Row(d)
  BY <1>2 DEF Row
<1>4. TxTypeOK'
  BY <1>1, <1>2 DEF TxInv, TxTypeOK, TxPhases, InsertOutboxEvent, Rollback
<1>5. Started'
  BY <1>1, <1>2 DEF TxInv, Started
<1>6. RowsAreOwned'
  BY <1>1, <1>2, <1>3 DEF TxInv, TxTypeOK, RowsAreOwned
<1>7. NoClash'
  BY <1>1, <1>2, <1>3 DEF TxInv, NoClash, Writing, Clash, SameSeat, SameSession
<1>8. OneBookingPerSeat'
  BY <1>2 DEF TxInv, OneBookingPerSeat, SameSeat
<1>9. ConflictIsDurable'
  BY <1>1, <1>2, <1>3 DEF TxInv, ConflictIsDurable, SameSeat, SameSession
<1>10. OutboxMatchesBookings'
  BY <1>2 DEF TxInv, OutboxMatchesBookings
<1> QED
  BY <1>4, <1>5, <1>6, <1>7, <1>8, <1>9, <1>10 DEF TxInv

\* COMMIT: the new row clashed with no committed row, and with no other writer.
LEMMA CommitInv ==
    ASSUME TxInv, NEW c \in Calls, Commit(c)
    PROVE  TxInv'
<1>1. /\ txPhase[c] = "staged"
      /\ \A d \in Calls \ {c} : txPhase'[d] = txPhase[d]
      /\ txPhase'[c] \in {"committed", "failed"}
  BY DEF TxInv, TxTypeOK, Commit
<1>2. /\ bookings' = bookings \union {Row(c)}
      /\ outbox' = outbox \union {Row(c)}
      /\ txSession' = txSession
  BY DEF Commit
<1>3. \A d \in Calls : Row(d)' = Row(d)
  BY <1>2 DEF Row
<1>4. Row(c) \in [call : Calls, session : Sessions] /\ Row(c).call = c
  BY <1>1 DEF TxInv, Started, Row
<1>5. TxTypeOK'
  BY <1>1, <1>2, <1>4 DEF TxInv, TxTypeOK, TxPhases, Commit
<1>6. Started'
  BY <1>1, <1>2 DEF TxInv, Started
<1>7. RowsAreOwned'
  BY <1>1, <1>2, <1>3, <1>4 DEF TxInv, TxTypeOK, RowsAreOwned
<1>8. \A r \in bookings : ~Clash(Row(c), r) /\ ~Clash(r, Row(c))
  BY <1>1 DEF TxInv, NoClash, Writing, Clash, SameSeat, SameSession
<1>9. NoClash'
  BY <1>1, <1>2, <1>3 DEF TxInv, NoClash, Writing, Clash, SameSeat, SameSession
<1>10. OneBookingPerSeat'
  BY <1>2, <1>8 DEF TxInv, OneBookingPerSeat, Clash, SameSeat
<1>11. ConflictIsDurable'
  BY <1>1, <1>2, <1>3 DEF TxInv, ConflictIsDurable, SameSeat, SameSession
<1>12. OutboxMatchesBookings'
  BY <1>2 DEF TxInv, OutboxMatchesBookings
<1> QED
  BY <1>5, <1>6, <1>7, <1>9, <1>10, <1>11, <1>12 DEF TxInv

\* The invariant is inductive.
LEMMA TxNextInv == TxInv /\ [TxNext]_txVars => TxInv'
<1> SUFFICES ASSUME TxInv, [TxNext]_txVars
             PROVE  TxInv'
  OBVIOUS
<1>1. ASSUME NEW c \in Calls, NEW s \in Sessions, BeginTx(c, s)
      PROVE  TxInv'
  BY <1>1, BeginTxInv
<1>2. ASSUME NEW c \in Calls, TxStep(c)
      PROVE  TxInv'
  BY <1>2, InsertConfirmedBookingInv, QuietStepInv, CommitInv DEF TxStep
<1>3. ASSUME NEW c \in Calls, Rollback(c)
      PROVE  TxInv'
  BY <1>3, QuietStepInv
<1>4. CASE UNCHANGED txVars
  BY <1>4 DEF txVars, TxInv, TxTypeOK, Started, RowsAreOwned, NoClash, Writing, Clash,
              Row, SameSeat, SameSession, OneBookingPerSeat, ConflictIsDurable,
              OutboxMatchesBookings
<1> QED
  BY <1>1, <1>2, <1>3, <1>4 DEF TxNext

\* Every reachable state of the repository satisfies the invariant.
THEOREM TxInvariant == TxSpec => []TxInv
BY TxInitInv, TxNextInv, PTL DEF TxSpec

-----------------------------------------------------------------------------
\* Type correctness of the repository's state.
THEOREM TxTypeCorrect == TxSpec => []TxTypeOK
<1>1. TxInv => TxTypeOK
  BY DEF TxInv
<1> QED
  BY <1>1, TxInvariant, PTL

\* However many buyers race, in whatever order their transactions run, fail and
\* commit, no seat has two confirmed bookings.
THEOREM SeatSoldOnce == TxSpec => []OneBookingPerSeat
<1>1. TxInv => OneBookingPerSeat
  BY DEF TxInv
<1> QED
  BY <1>1, TxInvariant, PTL

\* A conflict that BookingRepo.Confirm reports stays true: the row that won is
\* committed, so recoverConflict finds it if it is the session's own.
THEOREM ConflictsAreDurable == TxSpec => []ConflictIsDurable
<1>1. TxInv => ConflictIsDurable
  BY DEF TxInv
<1> QED
  BY <1>1, TxInvariant, PTL

-----------------------------------------------------------------------------
\* Every step of the repository sells one free seat together with its event, or
\* is invisible to a reader of the tables.
LEMMA StepIsSale == TxInv /\ [TxNext]_txVars => [Ledger!LedgerNext]_<<bookings, outbox>>
<1> SUFFICES ASSUME TxInv, [TxNext]_txVars
             PROVE  [Ledger!LedgerNext]_<<bookings, outbox>>
  OBVIOUS
<1>1. ASSUME NEW c \in Calls, Commit(c)
      PROVE  Ledger!LedgerNext
  <2>1. Row(c) \in Ledger!Sale
    BY <1>1 DEF Commit, TxInv, Started, Row, Ledger!Sale
  <2>2. \A r \in bookings : /\ r.session # Row(c).session
                            /\ SeatOf[r.session] # SeatOf[Row(c).session]
    BY <1>1 DEF Commit, TxInv, NoClash, Writing, Clash, SameSeat, SameSession
  <2>3. Ledger!Sell(Row(c))
    BY <1>1, <2>2 DEF Commit, Ledger!Sell
  <2> QED
    BY <2>1, <2>3 DEF Ledger!LedgerNext
<1>2. ASSUME NEW c \in Calls, ~Commit(c),
             \/ \E s \in Sessions : BeginTx(c, s)
             \/ TxStep(c)
             \/ Rollback(c)
      PROVE  UNCHANGED <<bookings, outbox>>
  BY <1>2 DEF TxStep, BeginTx, InsertConfirmedBooking, InsertOutboxEvent, Rollback
<1>3. CASE UNCHANGED txVars
  BY <1>3 DEF txVars
<1> QED
  BY <1>1, <1>2, <1>3 DEF TxNext

\* The Postgres repository implements the BookingStore port: booking and event
\* are one unit, a seat is sold once, a session buys once, nothing is unsold.
THEOREM RepositoryImplementsLedger == TxSpec => ImplementsLedger
<1>1. TxInit => Ledger!LedgerInit
  BY DEF TxInit, Ledger!LedgerInit
<1> QED
  BY <1>1, StepIsSale, TxInvariant, PTL
  DEF TxSpec, ImplementsLedger, Ledger!LedgerSpec, Ledger!ledgerVars

\* Whatever keeps the port, Postgres or the in-memory store of the tests, announces
\* each sale, and sells no seat and no session twice.
THEOREM LedgerSellsOnce == Ledger!LedgerSpec => []Ledger!SalesAreExclusive
<1>1. Ledger!LedgerInit => Ledger!SalesAreExclusive
  BY DEF Ledger!LedgerInit, Ledger!SalesAreExclusive
<1>2. Ledger!SalesAreExclusive /\ [Ledger!LedgerNext]_Ledger!ledgerVars
          => Ledger!SalesAreExclusive'
  <2> SUFFICES ASSUME Ledger!SalesAreExclusive, [Ledger!LedgerNext]_Ledger!ledgerVars
               PROVE  Ledger!SalesAreExclusive'
    OBVIOUS
  <2>1. ASSUME NEW sale \in Ledger!Sale, Ledger!Sell(sale)
        PROVE  Ledger!SalesAreExclusive'
    BY <2>1 DEF Ledger!Sell, Ledger!SalesAreExclusive
  <2>2. CASE UNCHANGED Ledger!ledgerVars
    BY <2>2 DEF Ledger!ledgerVars, Ledger!SalesAreExclusive, Ledger!Sale
  <2> QED
    BY <2>1, <2>2 DEF Ledger!LedgerNext
<1> QED
  BY <1>1, <1>2, PTL DEF Ledger!LedgerSpec

\* So does the repository: the outbox and the bookings never differ, and neither
\* index is ever violated, through any crash and any failing statement.
THEOREM RepositorySellsOnce == TxSpec => []Ledger!SalesAreExclusive
BY RepositoryImplementsLedger, LedgerSellsOnce, PTL DEF ImplementsLedger

=============================================================================
