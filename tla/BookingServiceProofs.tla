------------------------- MODULE BookingServiceProofs -------------------------
(***************************************************************************)
(* Proofs about BookingService and SeatMap, over any number of sessions,   *)
(* users, confirm calls and re-sends: the service implements BoxOffice,    *)
(* every answer of Confirm stays true, a failed confirm does not cost the buyer  *)
(* the hold, and a seat shown as booked stays booked.                      *)
(*                                                                         *)
(* A step of the service is a step of the hold store and a step of the     *)
(* repository, or of neither (ServiceStepIsHoldStep, ServiceStepIsTxStep), *)
(* so both stores keep the invariants proved of them alone.  What the      *)
(* service adds is what a confirm call may still rely on after each of its *)
(* round trips (CallsKnow), and why a hold was released (ReleasesHaveCause). *)
(***************************************************************************)
EXTENDS SeatMap, HoldStoreProofs, BookingStoreProofs

\* What a confirm call knows of its session, by how far it has come.
CallsKnow ==
    \A c \in Calls :
        /\ step[c] # "idle" =>
              confirming[c] \in Sessions /\ phase[confirming[c]] = "ok"
        /\ step[c] \in {"idle", "loaded", "in_window", "paid"} =>
              txPhase[c] = "idle" /\ answer[c] = "none"
        /\ step[c] = "storing" => answer[c] = "none"
        /\ step[c] = "paid" => confirming[c] \in captured
        /\ txPhase[c] # "idle" =>
              txSession[c] = confirming[c] /\ confirming[c] \in captured

\* A transaction whose COMMIT was acknowledged has written its row.
CommittedHasRow ==
    \A c \in Calls : txPhase[c] = "committed" => Row(c) \in bookings

\* A hold was released because its owner said so, or because its seat was sold.
ReleasesHaveCause == released \subseteq gaveUp \union BookedSessions

BookingInv ==
    /\ HoldInv
    /\ TxInv
    /\ ServiceTypeOK
    /\ CallsKnow
    /\ CommittedHasRow
    /\ ReleasesHaveCause
    /\ AnswersAreTrue

\* AnswersAreTrue, of one call.
AnswerIsTrue(c) ==
    /\ answer[c] = "created" =>
          [call |-> c, session |-> confirming[c]] \in bookings
    /\ answer[c] = "replayed" =>
          \E r \in bookings : r.call # c /\ r.session = confirming[c]
    /\ answer[c] = "seat_booked" =>
          /\ SeatConfirmed(SeatOf[confirming[c]])
          /\ confirming[c] \notin BookedSessions

\* The state of one confirm call.
CallStays(d) ==
    /\ step'[d] = step[d] /\ confirming'[d] = confirming[d] /\ answer'[d] = answer[d]
    /\ txPhase'[d] = txPhase[d] /\ txSession'[d] = txSession[d]

-----------------------------------------------------------------------------
(* The steps of the service, seen by the stores *)

\* No session's Hold call succeeds twice, or is undone.
LEMMA HeldStaysHeld ==
    ASSUME HoldInv, [HoldNext]_holdVars, NEW s \in Sessions, phase[s] = "ok"
    PROVE  phase'[s] = "ok"
BY DEF HoldInv, HoldTypeOK, HoldNext, HoldCall, Tick, Mint, Validate, ComputeTTL,
       HoldAnswered, HoldReplyLost, HoldRequestLost, NoReply, CallEnds, Release,
       callVars, holdVars

\* A step of the service is a step of the Redis hold store, or none.
LEMMA ServiceStepIsHoldStep ==
    ASSUME BookingInv, [BookingNext]_bookingVars
    PROVE  [HoldNext]_holdVars
<1>1. CASE BookingTick
  BY <1>1 DEF BookingTick, HoldNext
<1>2. ASSUME NEW s \in Sessions, PrecheckSeat(s) \/ HoldStep(s) \/ PaymentCaptured(s)
      PROVE  [HoldNext]_holdVars
  BY <1>2 DEF PrecheckSeat, HoldStep, PaymentCaptured, HoldNext
<1>3. ASSUME NEW u \in Users, NEW s \in Sessions, ClientRelease(u, s)
      PROVE  [HoldNext]_holdVars
  BY <1>3 DEF ClientRelease, HoldNext
<1>4. ASSUME NEW c \in Calls, ConfirmCleanup(c)
      PROVE  [HoldNext]_holdVars
  <2>1. confirming[c] \in Sessions /\ phase[confirming[c]] = "ok"
    BY <1>4 DEF BookingInv, CallsKnow, ConfirmCleanup
  <2>2. UserOf[confirming[c]] \in Users
    BY <2>1, DomainAssumption
  <2>3. CASE ReleaseScript(UserOf[confirming[c]], confirming[c])
    BY <1>4, <2>1, <2>2, <2>3 DEF ConfirmCleanup, Release, HoldNext
  <2>4. CASE UNCHANGED <<redisVars, released>>
    BY <1>4, <2>4 DEF ConfirmCleanup, holdVars
  <2> QED
    BY <1>4, <2>3, <2>4 DEF ConfirmCleanup
<1>5. ASSUME NEW c \in Calls, ~ConfirmCleanup(c),
             ConfirmStep(c) \/ ConfirmTxFails(c) \/ ConfirmFails(c)
      PROVE  UNCHANGED holdVars
  BY <1>5 DEF ConfirmStep, ConfirmCheckExpiry, ConfirmCheckPayment, ConfirmStore,
              ConfirmTxStep, ConfirmRecover, ConfirmTxFails, ConfirmFails
<1>6. ASSUME NEW u \in Users, NEW c \in Calls, NEW s \in Sessions, ConfirmGet(u, c, s)
      PROVE  UNCHANGED holdVars
  BY <1>6 DEF ConfirmGet
<1>7. CASE UNCHANGED bookingVars
  BY <1>7 DEF bookingVars
<1> QED
  BY <1>1, <1>2, <1>3, <1>4, <1>5, <1>6, <1>7 DEF BookingNext

\* A step of the service is a statement of one of its transactions, or none.
LEMMA ServiceStepIsTxStep ==
    ASSUME BookingInv, [BookingNext]_bookingVars
    PROVE  [TxNext]_txVars
<1>1. ASSUME NEW c \in Calls, ConfirmStore(c)
      PROVE  TxNext
  BY <1>1 DEF BookingInv, CallsKnow, ConfirmStore, TxNext
<1>2. ASSUME NEW c \in Calls, ConfirmTxStep(c) \/ ConfirmTxFails(c)
      PROVE  TxNext
  BY <1>2 DEF ConfirmTxStep, ConfirmTxFails, TxNext
<1>3. ASSUME NEW c \in Calls, ~ConfirmStore(c), ~ConfirmTxStep(c), ~ConfirmTxFails(c),
             ConfirmStep(c) \/ ConfirmTxFails(c) \/ ConfirmFails(c)
      PROVE  UNCHANGED txVars
  BY <1>3 DEF ConfirmStep, ConfirmCheckExpiry, ConfirmCheckPayment, ConfirmCleanup,
              ConfirmRecover, ConfirmFails
<1>4. ASSUME NEW u \in Users, NEW c \in Calls, NEW s \in Sessions, ConfirmGet(u, c, s)
      PROVE  UNCHANGED txVars
  BY <1>4 DEF ConfirmGet
<1>5. ASSUME NEW s \in Sessions, PrecheckSeat(s) \/ HoldStep(s) \/ PaymentCaptured(s)
      PROVE  UNCHANGED txVars
  BY <1>5 DEF PrecheckSeat, HoldStep, PaymentCaptured
<1>6. ASSUME NEW u \in Users, NEW s \in Sessions, ClientRelease(u, s)
      PROVE  UNCHANGED txVars
  BY <1>6 DEF ClientRelease
<1>7. CASE BookingTick \/ UNCHANGED bookingVars
  BY <1>7 DEF BookingTick, bookingVars
<1> QED
  BY <1>1, <1>2, <1>3, <1>4, <1>5, <1>6, <1>7 DEF BookingNext

\* Rows are for good.
LEMMA BookingsStay == ASSUME [TxNext]_txVars PROVE bookings \subseteq bookings'
BY DEF TxNext, TxStep, BeginTx, InsertConfirmedBooking, InsertOutboxEvent, Commit,
       Rollback, txVars

\* What a step of the service leaves in place: both stores' invariants, held
\* sessions, rows and payments.
LEMMA StoresKeepTheirs ==
    ASSUME BookingInv, [BookingNext]_bookingVars
    PROVE  /\ HoldInv' /\ TxInv'
           /\ bookings \subseteq bookings'
           /\ \A s \in Sessions : phase[s] = "ok" => phase'[s] = "ok"
<1>1. HoldInv'
  BY ServiceStepIsHoldStep, HoldStepInv DEF BookingInv
<1>2. TxInv' /\ bookings \subseteq bookings'
  BY ServiceStepIsTxStep, TxNextInv, BookingsStay DEF BookingInv
<1>3. \A s \in Sessions : phase[s] = "ok" => phase'[s] = "ok"
  BY ServiceStepIsHoldStep, HeldStaysHeld DEF BookingInv
<1> QED
  BY <1>1, <1>2, <1>3

\* An answer that was true stays true: rows stay, and a seat has but one.
LEMMA AnswerStaysTrue ==
    ASSUME BookingInv, bookings \subseteq bookings', OneBookingPerSeat',
           NEW c \in Calls, answer'[c] = answer[c],
           confirming'[c] = confirming[c] \/ answer[c] = "none"
    PROVE  AnswerIsTrue(c)'
<1>1. AnswerIsTrue(c)
  BY DEF BookingInv, AnswersAreTrue, AnswerIsTrue
<1>2. CASE answer[c] = "none"
  BY <1>2 DEF AnswerIsTrue
<1>3. CASE confirming'[c] = confirming[c] /\ answer[c] # "seat_booked"
  BY <1>1, <1>3 DEF AnswerIsTrue
<1>4. CASE confirming'[c] = confirming[c] /\ answer[c] = "seat_booked"
  <2>1. PICK r \in bookings : SeatOf[r.session] = SeatOf[confirming[c]]
    BY <1>1, <1>4 DEF AnswerIsTrue, SeatConfirmed
  <2>2. \A q \in bookings' : q.session = confirming[c] => q = r
    BY <2>1 DEF OneBookingPerSeat, SameSeat
  <2> QED
    BY <1>1, <1>4, <2>1, <2>2 DEF AnswerIsTrue, SeatConfirmed, BookedSessions
<1> QED
  BY <1>2, <1>3, <1>4

-----------------------------------------------------------------------------
(* Every step keeps the invariant *)

\* Steps outside Confirm: time, Hold, payments, and releases by clients.
LEMMA OutsideConfirmInv ==
    ASSUME BookingInv,
           \/ BookingTick
           \/ \E s \in Sessions : PrecheckSeat(s) \/ HoldStep(s) \/ PaymentCaptured(s)
           \/ \E u \in Users, s \in Sessions : ClientRelease(u, s)
    PROVE  BookingInv'
<1>1. [BookingNext]_bookingVars
  BY DEF BookingNext
<1>2. /\ HoldInv' /\ TxInv'
      /\ bookings \subseteq bookings'
      /\ \A s \in Sessions : phase[s] = "ok" => phase'[s] = "ok"
  BY <1>1, StoresKeepTheirs
<1>3. UNCHANGED <<txVars, callStateVars>> /\ captured \subseteq captured'
  BY DEF BookingTick, PrecheckSeat, HoldStep, PaymentCaptured, ClientRelease, serviceVars
<1>4. ServiceTypeOK'
  BY <1>3 DEF BookingInv, ServiceTypeOK, BookingTick, PrecheckSeat, HoldStep,
              PaymentCaptured, ClientRelease, serviceVars, callStateVars
<1>5. CallsKnow'
  BY <1>2, <1>3 DEF BookingInv, CallsKnow, txVars, callStateVars
<1>6. CommittedHasRow'
  BY <1>3 DEF BookingInv, CommittedHasRow, Row, txVars
<1>7. ReleasesHaveCause'
  <2>1. released' \subseteq released \union gaveUp' /\ gaveUp \subseteq gaveUp'
    <3>1. CASE BookingTick
      BY <3>1 DEF BookingTick, Tick, serviceVars
    <3>2. ASSUME NEW s \in Sessions, PrecheckSeat(s) \/ HoldStep(s) \/ PaymentCaptured(s)
          PROVE  released' = released /\ gaveUp' = gaveUp
      BY <3>2 DEF PrecheckSeat, HoldStep, PaymentCaptured, HoldCall, Mint, Validate,
                  ComputeTTL, HoldAnswered, HoldReplyLost, HoldRequestLost, holdVars,
                  serviceVars
    <3>3. ASSUME NEW u \in Users, NEW s \in Sessions, ClientRelease(u, s)
          PROVE  released' \subseteq released \union gaveUp' /\ gaveUp \subseteq gaveUp'
      BY <3>3 DEF ClientRelease, Release, ReleaseScript, GivenUp
    <3> QED
      BY <3>1, <3>2, <3>3
  <2> QED
    BY <1>3, <2>1 DEF BookingInv, ReleasesHaveCause, BookedSessions, txVars
<1>8. AnswersAreTrue'
  BY <1>3 DEF BookingInv, AnswersAreTrue, SeatConfirmed, BookedSessions, txVars, callStateVars
<1> QED
  BY <1>2, <1>4, <1>5, <1>6, <1>7, <1>8 DEF BookingInv

\* The steps of Confirm that read and decide: they change the state of one call.
LEMMA ConfirmReadsInv ==
    ASSUME BookingInv, NEW c \in Calls,
           \/ \E u \in Users, s \in Sessions : ConfirmGet(u, c, s)
           \/ ConfirmCheckExpiry(c)
           \/ ConfirmCheckPayment(c)
           \/ ConfirmRecover(c)
           \/ ConfirmFails(c)
    PROVE  BookingInv'
<1>1. UNCHANGED <<holdVars, txVars, precheck, captured, gaveUp>>
  BY DEF ConfirmGet, ConfirmCheckExpiry, ConfirmCheckPayment, ConfirmRecover, ConfirmFails
<1>2. [BookingNext]_bookingVars
  BY DEF BookingNext, ConfirmStep
<1>3. HoldInv' /\ TxInv'
  BY <1>2, StoresKeepTheirs
<1>4. /\ \A d \in Calls \ {c} : CallStays(d)
      /\ step' \in [Calls -> {"idle", "loaded", "in_window", "paid", "storing", "done"}]
      /\ confirming' \in [Calls -> Sessions \union {NoSession}]
      /\ answer' \in [Calls -> {"none", "created", "replayed", "seat_booked",
                                "not_found", "not_owner", "expired",
                                "payment_required", "error"}]
  BY <1>1 DEF BookingInv, ServiceTypeOK, CallStays, ConfirmGet, ConfirmCheckExpiry,
              ConfirmCheckPayment, ConfirmRecover, ConfirmFails, Answer, Goto, txVars
<1>5. /\ confirming'[c] \in Sessions /\ phase[confirming'[c]] = "ok"
      /\ txPhase[c] # "idle" => confirming'[c] = confirming[c]
      /\ step'[c] \in {"loaded", "in_window", "paid", "done"}
      /\ step'[c] # "done" => txPhase[c] = "idle" /\ answer'[c] = "none"
      /\ step'[c] = "paid" => confirming'[c] \in captured
  <2>1. ASSUME NEW u \in Users, NEW s \in Sessions, ConfirmGet(u, c, s)
        PROVE  <1>5!:
    BY <2>1 DEF BookingInv, ServiceTypeOK, CallsKnow, ConfirmGet, Answer, Goto
  <2>2. CASE ConfirmCheckExpiry(c) \/ ConfirmCheckPayment(c)
    BY <2>2 DEF BookingInv, ServiceTypeOK, CallsKnow, ConfirmCheckExpiry,
                ConfirmCheckPayment, Answer, Goto
  <2>3. CASE ConfirmRecover(c) \/ ConfirmFails(c)
    BY <2>3 DEF BookingInv, ServiceTypeOK, CallsKnow, ConfirmRecover, ConfirmFails, Answer
  <2> QED
    BY <2>1, <2>2, <2>3
<1>6. ServiceTypeOK'
  BY <1>1, <1>4 DEF BookingInv, ServiceTypeOK
<1>7. CallsKnow'
  <2>1. UNCHANGED <<phase, captured, txPhase, txSession>>
    BY <1>1 DEF holdVars, callVars, txVars
  <2> QED
    BY <1>4, <1>5, <2>1 DEF BookingInv, CallsKnow, CallStays
<1>8. CommittedHasRow' /\ ReleasesHaveCause'
  BY <1>1 DEF BookingInv, CommittedHasRow, Row, ReleasesHaveCause, BookedSessions,
              txVars, holdVars
<1>9. AnswersAreTrue'
  <2>1. \A d \in Calls \ {c} : AnswerIsTrue(d)'
    BY <1>1, <1>3, <1>4, AnswerStaysTrue DEF CallStays, TxInv, txVars
  <2>2. CASE answer'[c] \notin {"created", "replayed", "seat_booked"}
    BY <2>1, <2>2 DEF AnswersAreTrue, AnswerIsTrue
  <2>3. CASE ConfirmRecover(c)
    <3>1. /\ txPhase[c] \in {"seat_conflict", "session_conflict"}
          /\ confirming' = confirming /\ txSession[c] = confirming[c]
          /\ answer'[c] = IF confirming[c] \in BookedSessions THEN "replayed" ELSE "seat_booked"
      BY <2>3 DEF BookingInv, ServiceTypeOK, CallsKnow, ConfirmRecover, Answer
    <3>2. \A r \in bookings : r.call # c
      BY <3>1 DEF BookingInv, TxInv, RowsAreOwned
    <3>3. confirming[c] \notin BookedSessions => SeatConfirmed(SeatOf[confirming[c]])
      BY <3>1 DEF BookingInv, TxInv, ConflictIsDurable, SameSeat, SameSession, Row,
                  SeatConfirmed, BookedSessions
    <3>4. AnswerIsTrue(c)'
      BY <1>1, <3>1, <3>2, <3>3 DEF AnswerIsTrue, SeatConfirmed, BookedSessions, txVars
    <3> QED
      BY <2>1, <3>4 DEF AnswersAreTrue, AnswerIsTrue
  <2>4. ConfirmRecover(c) \/ answer'[c] \notin {"created", "replayed", "seat_booked"}
    BY DEF BookingInv, ServiceTypeOK, CallsKnow, ConfirmGet, ConfirmCheckExpiry,
           ConfirmCheckPayment, ConfirmFails, Answer, Goto
  <2> QED
    BY <2>2, <2>3, <2>4
<1> QED
  BY <1>3, <1>6, <1>7, <1>8, <1>9 DEF BookingInv

\* The transaction of Confirm: it is opened for a paid session, and its
\* statements change no call's answer.
LEMMA ConfirmWritesInv ==
    ASSUME BookingInv, NEW c \in Calls,
           ConfirmStore(c) \/ ConfirmTxStep(c) \/ ConfirmTxFails(c)
    PROVE  BookingInv'
<1>1. [BookingNext]_bookingVars
  BY DEF BookingNext, ConfirmStep
<1>2. HoldInv' /\ TxInv' /\ bookings \subseteq bookings'
  BY <1>1, StoresKeepTheirs
<1>3. UNCHANGED <<holdVars, precheck, captured, gaveUp, confirming, answer>>
  BY DEF ConfirmStore, ConfirmTxStep, ConfirmTxFails, Goto, serviceVars, callStateVars
<1>4. /\ step' \in [Calls -> {"idle", "loaded", "in_window", "paid", "storing", "done"}]
      /\ \A d \in Calls \ {c} : CallStays(d)
      /\ step[c] \in {"paid", "storing"} /\ step'[c] = "storing"
      /\ step[c] = "paid" => txSession'[c] = confirming[c]
      /\ step[c] = "storing" => txSession'[c] = txSession[c] /\ txPhase[c] # "idle"
  <2>1. CASE ConfirmStore(c)
    BY <1>3, <2>1 DEF BookingInv, ServiceTypeOK, TxInv, TxTypeOK, CallStays, ConfirmStore,
                      BeginTx, Goto
  <2>2. CASE ConfirmTxStep(c) \/ ConfirmTxFails(c)
    <3>1. /\ txPhase[c] # "idle" /\ txSession' = txSession
          /\ \A d \in Calls \ {c} : txPhase'[d] = txPhase[d]
      BY <2>2 DEF BookingInv, TxInv, TxTypeOK, ConfirmTxStep, ConfirmTxFails, TxStep,
                  InsertConfirmedBooking, InsertOutboxEvent, Commit, Rollback
    <3>2. step[c] = "storing" /\ step' = step
      BY <2>2 DEF ConfirmTxStep, ConfirmTxFails, serviceVars, callStateVars
    <3> QED
      BY <1>3, <3>1, <3>2 DEF BookingInv, ServiceTypeOK, CallStays
  <2> QED
    BY <2>1, <2>2
<1>5. ServiceTypeOK'
  BY <1>3, <1>4 DEF BookingInv, ServiceTypeOK
<1>6. CallsKnow'
  <2>1. UNCHANGED <<phase, captured>>
    BY <1>3 DEF holdVars, callVars
  <2> QED
    BY <1>3, <1>4, <2>1 DEF BookingInv, CallsKnow, CallStays
<1>7. CommittedHasRow'
  <2>1. \A d \in Calls \ {c} : Row(d)' = Row(d) /\ txPhase'[d] = txPhase[d]
    BY <1>4 DEF CallStays, Row
  <2>2. txPhase'[c] = "committed" => Row(c)' \in bookings'
    BY DEF BookingInv, TxInv, TxTypeOK, Row, ConfirmStore, ConfirmTxStep, ConfirmTxFails,
           TxStep, BeginTx, InsertConfirmedBooking, Conflicts, InsertOutboxEvent, Commit,
           Rollback
  <2> QED
    BY <1>2, <2>1, <2>2 DEF BookingInv, CommittedHasRow
<1>8. ReleasesHaveCause'
  BY <1>2, <1>3 DEF BookingInv, ReleasesHaveCause, BookedSessions, holdVars
<1>9. AnswersAreTrue'
  <2>1. \A d \in Calls : AnswerIsTrue(d)'
    BY <1>2, <1>3, AnswerStaysTrue DEF TxInv
  <2> QED
    BY <2>1 DEF AnswersAreTrue, AnswerIsTrue
<1> QED
  BY <1>2, <1>5, <1>6, <1>7, <1>8, <1>9 DEF BookingInv

\* The release after the commit: the seat is sold, and 201 is the truth.
LEMMA ConfirmCleanupInv ==
    ASSUME BookingInv, NEW c \in Calls, ConfirmCleanup(c)
    PROVE  BookingInv'
<1>1. [BookingNext]_bookingVars
  BY DEF BookingNext, ConfirmStep
<1>2. HoldInv' /\ TxInv'
  BY <1>1, StoresKeepTheirs
<1>3. UNCHANGED <<phase, txVars, precheck, captured, gaveUp, confirming>>
  BY DEF ConfirmCleanup, callVars
<1>4. /\ step[c] = "storing" /\ txPhase[c] = "committed"
      /\ txSession[c] = confirming[c] /\ Row(c) \in bookings
  BY DEF BookingInv, CallsKnow, CommittedHasRow, ConfirmCleanup
<1>5. /\ step' = [step EXCEPT ![c] = "done"]
      /\ answer'[c] \in {"created", "error"}
      /\ \A d \in Calls \ {c} : CallStays(d)
      /\ answer' \in [Calls -> {"none", "created", "replayed", "seat_booked",
                                "not_found", "not_owner", "expired",
                                "payment_required", "error"}]
  BY <1>3 DEF BookingInv, ServiceTypeOK, CallStays, ConfirmCleanup, Answer, txVars
<1>6. ServiceTypeOK'
  BY <1>3, <1>5 DEF BookingInv, ServiceTypeOK
<1>7. CallsKnow'
  BY <1>3, <1>4, <1>5 DEF BookingInv, ServiceTypeOK, CallsKnow, CallStays, txVars
<1>8. CommittedHasRow'
  BY <1>3 DEF BookingInv, CommittedHasRow, Row, txVars
<1>9. ReleasesHaveCause'
  <2>1. confirming[c] \in BookedSessions
    BY <1>4 DEF Row, BookedSessions
  <2>2. released' \subseteq released \union {confirming[c]}
    BY DEF ConfirmCleanup, ReleaseScript, GivenUp
  <2> QED
    BY <1>3, <2>1, <2>2 DEF BookingInv, ReleasesHaveCause, BookedSessions, txVars
<1>10. AnswersAreTrue'
  <2>1. \A d \in Calls \ {c} : AnswerIsTrue(d)'
    BY <1>2, <1>3, <1>5, AnswerStaysTrue DEF CallStays, TxInv, txVars
  <2>2. AnswerIsTrue(c)'
    BY <1>3, <1>4, <1>5 DEF AnswerIsTrue, Row, txVars
  <2> QED
    BY <2>1, <2>2 DEF AnswersAreTrue, AnswerIsTrue
<1> QED
  BY <1>2, <1>6, <1>7, <1>8, <1>9, <1>10 DEF BookingInv

\* Doing nothing keeps the invariant.
LEMMA BookingStutterInv == ASSUME BookingInv, UNCHANGED bookingVars PROVE BookingInv'
<1>1. HoldInv' /\ TxInv'
  BY StoresKeepTheirs
<1> QED
  BY <1>1 DEF BookingInv, ServiceTypeOK, CallsKnow, CommittedHasRow, Row,
              ReleasesHaveCause, AnswersAreTrue, SeatConfirmed, BookedSessions,
              bookingVars, serviceVars, callStateVars, holdVars, callVars, txVars

\* Every step of the booking service keeps the invariant.
LEMMA BookingStepInv == BookingInv /\ [BookingNext]_bookingVars => BookingInv'
<1> SUFFICES ASSUME BookingInv, [BookingNext]_bookingVars PROVE BookingInv'
  OBVIOUS
<1>1. CASE \/ BookingTick
           \/ \E s \in Sessions : PrecheckSeat(s) \/ HoldStep(s) \/ PaymentCaptured(s)
           \/ \E u \in Users, s \in Sessions : ClientRelease(u, s)
  BY <1>1, OutsideConfirmInv
<1>2. ASSUME NEW u \in Users, NEW c \in Calls, NEW s \in Sessions, ConfirmGet(u, c, s)
      PROVE  BookingInv'
  BY <1>2, ConfirmReadsInv
<1>3. ASSUME NEW c \in Calls, ConfirmStep(c) \/ ConfirmTxFails(c) \/ ConfirmFails(c)
      PROVE  BookingInv'
  BY <1>3, ConfirmReadsInv, ConfirmWritesInv, ConfirmCleanupInv DEF ConfirmStep
<1>4. CASE UNCHANGED bookingVars
  BY <1>4, BookingStutterInv
<1> QED
  BY <1>1, <1>2, <1>3, <1>4 DEF BookingNext

\* The initial state satisfies the invariant.
LEMMA BookingInitInv == BookingInit => BookingInv
<1> SUFFICES ASSUME BookingInit PROVE BookingInv
  OBVIOUS
<1>1. HoldInv /\ TxInv
  BY HoldInitInv, TxInitInv DEF BookingInit
<1> QED
  BY <1>1 DEF BookingInit, BookingInv, HoldInit, TxInit, ServiceTypeOK, CallsKnow,
              CommittedHasRow, ReleasesHaveCause, AnswersAreTrue

-----------------------------------------------------------------------------
(* The theorems *)

\* In every behaviour of the booking service the invariant holds.
THEOREM BookingInvariant == BookingSpec => []BookingInv
<1> QED
  BY BookingInitInv, BookingStepInv, PTL DEF BookingSpec

\* The service drives both stores as they are specified, so whatever is proved of
\* a store alone is true of it behind the service.
THEOREM ServiceRunsBothStores == BookingSpec => HoldSpec /\ TxSpec
<1>1. BookingInit => HoldInit /\ TxInit
  BY DEF BookingInit
<1>2. BookingInv /\ [BookingNext]_bookingVars => [HoldNext]_holdVars /\ [TxNext]_txVars
  BY ServiceStepIsHoldStep, ServiceStepIsTxStep
<1> QED
  BY <1>1, <1>2, BookingInvariant, PTL DEF BookingSpec, HoldSpec, TxSpec

\* Behind the service both stores keep the promises of their ports.
THEOREM ServiceKeepsPorts == BookingSpec => ImplementsPort /\ ImplementsLedger
BY ServiceRunsBothStores, AdapterImplementsPort, RepositoryImplementsLedger

\* The booking service keeps to its types.
THEOREM ServiceTypeCorrect == BookingSpec => []ServiceTypeOK
<1>1. BookingInv => ServiceTypeOK
  BY DEF BookingInv
<1> QED
  BY <1>1, BookingInvariant, PTL

\* Every row is of a session that was held and paid for.
LEMMA SoldWasPaid ==
    ASSUME BookingInv, NEW c \in Calls, txPhase[c] # "idle"
    PROVE  txSession[c] \in HeldAndPaid /\ txSession[c] \in Sessions
BY DEF BookingInv, CallsKnow, HeldAndPaid

\* A sale adds its session to those that have bought.
LEMMA RowBooks ==
    ASSUME NEW row, bookings' = bookings \union {row}
    PROVE  BookedSessions' = BookedSessions \union {row.session}
<1>1. BookedSessions' = {r.session : r \in bookings \union {row}}
  BY DEF BookedSessions
<1>2. {r.session : r \in bookings \union {row}} = {r.session : r \in bookings} \union {row.session}
  BY Zenon
<1> QED
  BY <1>1, <1>2 DEF BookedSessions

\* A step of the service collects at most one session's money, and takes none
\* back.
LEMMA PaidStep ==
    ASSUME BookingInv, [BookingNext]_bookingVars
    PROVE  /\ HeldAndPaid \subseteq HeldAndPaid'
           /\ HeldAndPaid' # HeldAndPaid =>
                 /\ bookings' = bookings
                 /\ \E s \in Sessions : HeldAndPaid' = HeldAndPaid \union {s}
<1>1. \A s \in Sessions : phase[s] = "ok" => phase'[s] = "ok"
  BY StoresKeepTheirs
<1>2. captured \subseteq Sessions
  BY DEF BookingInv, ServiceTypeOK
<1>3. ASSUME NEW s \in Sessions, PaymentCaptured(s) \/ HoldStep(s)
      PROVE  /\ HeldAndPaid' \subseteq HeldAndPaid \union {s}
             /\ bookings' = bookings /\ captured \subseteq captured'
  <2>1. CASE PaymentCaptured(s)
    BY <2>1 DEF PaymentCaptured, HeldAndPaid, holdVars, callVars, txVars
  <2>2. CASE HoldStep(s)
    <3>1. \A j \in Sessions \ {s} : phase'[j] = phase[j]
      BY <2>2 DEF BookingInv, HoldInv, HoldTypeOK, HoldStep, HoldCall, Mint, Validate,
                  ComputeTTL, HoldAnswered, HoldReplyLost, HoldRequestLost, NoReply, CallEnds,
                  Release, callVars, holdVars
    <3> QED
      BY <1>2, <2>2, <3>1 DEF HoldStep, HeldAndPaid, serviceVars, txVars
  <2> QED
    BY <1>3, <2>1, <2>2
<1>4. ASSUME ~\E s \in Sessions : PaymentCaptured(s) \/ HoldStep(s)
      PROVE  phase' = phase /\ captured' = captured
  BY <1>4 DEF BookingNext, BookingTick, Tick, PrecheckSeat, ClientRelease, Release,
              ConfirmGet, ConfirmStep, ConfirmCheckExpiry, ConfirmCheckPayment, ConfirmStore,
              ConfirmTxStep, ConfirmCleanup, ConfirmRecover, ConfirmTxFails, ConfirmFails,
              bookingVars, holdVars, callVars, serviceVars
<1> QED
  BY <1>1, <1>2, <1>3, <1>4 DEF HeldAndPaid

\* A step of the service sells at most one seat, which is free, and only to a
\* session that was held and paid for.
LEMMA SaleStep ==
    ASSUME BookingInv, [BookingNext]_bookingVars, bookings' # bookings
    PROVE  \E s \in Sessions \intersect HeldAndPaid :
              /\ \A other \in BookedSessions : SeatOf[other] # SeatOf[s]
              /\ BookedSessions' = BookedSessions \union {s}
<1>1. TxInv /\ [TxNext]_txVars
  BY ServiceStepIsTxStep DEF BookingInv
<1>2. PICK c \in Calls : Commit(c)
  BY <1>1 DEF TxNext, TxStep, BeginTx, InsertConfirmedBooking, InsertOutboxEvent, Rollback,
              txVars
<1>3. \A r \in bookings : SeatOf[r.session] # SeatOf[txSession[c]]
  BY <1>1, <1>2 DEF Commit, TxInv, NoClash, Writing, Clash, SameSeat, Row
<1>4. txSession[c] \in Sessions \intersect HeldAndPaid
  BY <1>2, SoldWasPaid DEF Commit
<1>5. BookedSessions' = BookedSessions \union {txSession[c]}
  <2>1. BookedSessions' = BookedSessions \union {Row(c).session}
    BY <1>2, RowBooks DEF Commit
  <2> QED
    BY <2>1 DEF Row
<1> QED
  BY <1>3, <1>4, <1>5 DEF BookedSessions

\* A step of the service is a step of the box office, or none.
LEMMA ServiceStepIsBoxOfficeStep ==
    ASSUME BookingInv, [BookingNext]_bookingVars
    PROVE  [Box!BoxOfficeNext]_(Box!boxOfficeVars)
<1> USE DEF Box!BoxOfficeNext, Box!Pay, Box!SellSeat, Box!boxOfficeVars
<1>1. CASE HeldAndPaid' # HeldAndPaid
  <2>1. BookedSessions' = BookedSessions
    BY <1>1, PaidStep DEF BookedSessions
  <2> QED
    BY <1>1, <2>1, PaidStep
<1>2. CASE HeldAndPaid' = HeldAndPaid /\ bookings' # bookings
  BY <1>2, SaleStep
<1>3. CASE HeldAndPaid' = HeldAndPaid /\ bookings' = bookings
  BY <1>3 DEF BookedSessions
<1> QED
  BY <1>1, <1>2, <1>3

\* "No captured money, no booking": the gate is read outside the transaction, and
\* still the service sells as the box office does, each seat once, to a session
\* that was held and paid for.
THEOREM ServiceImplementsBoxOffice == BookingSpec => ImplementsBoxOffice
<1>1. BookingInit => Box!BoxOfficeInit
  BY DEF BookingInit, TxInit, HeldAndPaid, BookedSessions, Box!BoxOfficeInit
<1>2. BookingInv /\ [BookingNext]_bookingVars => [Box!BoxOfficeNext]_(Box!boxOfficeVars)
  BY ServiceStepIsBoxOfficeStep
<1> QED
  BY <1>1, <1>2, BookingInvariant, PTL
  DEF BookingSpec, ImplementsBoxOffice, Box!BoxOfficeSpec

\* 201, 200 and 409 of Confirm are true when they are given, and stay true.
THEOREM ConfirmTellsTheTruth == BookingSpec => []AnswersAreTrue
<1>1. BookingInv => AnswersAreTrue
  BY DEF BookingInv
<1> QED
  BY <1>1, BookingInvariant, PTL

\* Until the sale is durable, a hold that its owner did not give up is there for
\* the next attempt, whatever became of the attempts before.
THEOREM BuyerKeepsTheHold == BookingSpec => []BuyerNotStranded
<1>1. BookingInv => BuyerNotStranded
  <2> SUFFICES ASSUME BookingInv, NEW s \in Sessions, phase[s] = "ok", now < expiresAt[s],
                      s \notin gaveUp, s \notin BookedSessions
               PROVE  SessionLive(s) /\ seatKey[SeatOf[s]].token = s
    BY DEF BuyerNotStranded
  <2>1. s \notin released
    BY DEF BookingInv, ReleasesHaveCause
  <2>2. /\ seatKey[SeatOf[s]].token = s
        /\ seatKey[SeatOf[s]].until >= expiresAt[s]
    BY <2>1 DEF BookingInv, HoldInv, KeptInv
  <2>3. SeatOf[s] \in Seats /\ SeatLive(SeatOf[s])
    BY <2>2, DomainAssumption DEF SeatLive, BookingInv, HoldInv, HoldTypeOK
  <2>4. sessionUntil[s] >= seatKey[SeatOf[s]].until
    BY <2>2, <2>3 DEF BookingInv, HoldInv, KeyInv, KeyOf
  <2> QED
    BY <2>2, <2>3, <2>4 DEF SessionLive, SeatLive, BookingInv, HoldInv, HoldTypeOK
<1> QED
  BY <1>1, BookingInvariant, PTL

-----------------------------------------------------------------------------
(* The seat map *)

\* What has been shown as booked is sold, and every read still under way has it.
ShownIsSold ==
    /\ bookedRead \subseteq ConfirmedSeats
    /\ shown \in [Seats -> {"none", "booked", "held", "available"}]
    /\ \A x \in Seats : shown[x] = "booked" =>
          /\ x \in ConfirmedSeats
          /\ renderStep = "reading" => x \in bookedRead

\* Each step of the seat map or of anything else keeps it.
LEMMA SeatMapStepInv ==
    BookingInv /\ ShownIsSold /\ [SeatMapNext]_seatMapVars => (BookingInv /\ ShownIsSold)'
<1> SUFFICES ASSUME BookingInv, ShownIsSold, [SeatMapNext]_seatMapVars
             PROVE  BookingInv' /\ ShownIsSold'
  OBVIOUS
<1>1. CASE ReadBooked \/ ReadHeld \/ UNCHANGED seatMapVars
  <2>1. UNCHANGED bookingVars
    BY <1>1 DEF ReadBooked, ReadHeld, seatMapVars
  <2>2. ConfirmedSeats' = ConfirmedSeats
    BY <2>1 DEF ConfirmedSeats, bookingVars, txVars
  <2>3. ShownIsSold'
    BY <1>1, <2>2 DEF ShownIsSold, ReadBooked, ReadHeld, SeatStatus, seatMapVars, renderVars
  <2> QED
    BY <2>1, <2>3, BookingStutterInv
<1>2. CASE Meanwhile
  <2>1. BookingInv' /\ bookings \subseteq bookings'
    BY <1>2, BookingStepInv, StoresKeepTheirs DEF Meanwhile
  <2>2. ConfirmedSeats \subseteq ConfirmedSeats'
    BY <2>1 DEF ConfirmedSeats
  <2>3. ShownIsSold'
    BY <1>2, <2>2 DEF ShownIsSold, Meanwhile, renderVars
  <2> QED
    BY <2>1, <2>3
<1> QED
  BY <1>1, <1>2 DEF SeatMapNext

\* The seat map only reads: what is proved of the service is true of it while any
\* client renders the map.
THEOREM SeatMapOnlyReads == SeatMapSpec => BookingSpec
<1>1. SeatMapInit => BookingInit
  BY DEF SeatMapInit
<1>2. [SeatMapNext]_seatMapVars => [BookingNext]_bookingVars
  BY DEF SeatMapNext, ReadBooked, ReadHeld, Meanwhile, seatMapVars
<1> QED
  BY <1>1, <1>2, PTL DEF SeatMapSpec, BookingSpec

\* Rendered from two reads of two stores, a seat that was once shown as booked is
\* never shown as held or available again.
THEOREM BookedStaysBooked == SeatMapSpec => BookedIsFinal
<1>1. SeatMapInit => BookingInv /\ ShownIsSold
  BY BookingInitInv DEF SeatMapInit, ShownIsSold
<1>2. ShownIsSold /\ [SeatMapNext]_seatMapVars =>
          [\A x \in Seats : shown[x] = "booked" => shown'[x] = "booked"]_seatMapVars
  BY DEF ShownIsSold, SeatMapNext, ReadBooked, ReadHeld, Meanwhile, SeatStatus, renderVars,
         seatMapVars
<1> QED
  BY <1>1, <1>2, SeatMapStepInv, PTL DEF SeatMapSpec, BookedIsFinal

=============================================================================
