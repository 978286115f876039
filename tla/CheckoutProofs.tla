---------------------------- MODULE CheckoutProofs ----------------------------
(***************************************************************************)
(* Proofs about Checkout, for any number of buyers, seats, intents and     *)
(* calls: a purchase runs the payment service, it implements BoxOffice     *)
(* (one sale per seat, and only of money collected), and what the routes   *)
(* answer is true.                                                         *)
(*                                                                         *)
(* The gate of Service.Confirm is read in one step and acted upon in       *)
(* another.  What carries the proof is that the two facts a confirm call   *)
(* takes along cannot be taken back meanwhile: a paid session stays paid   *)
(* (PaidStays, from PaymentServiceProofs), and a sale is never undone.     *)
(***************************************************************************)
EXTENDS Checkout, PaymentServiceProofs

\* A confirm call past its gate is its owner's, for a session that has been
\* handed out, and what it and its client heard of the payment is still so.
ConfirmsKnow ==
    \A c \in Calls :
        /\ confirmStep[c] = "idle" => asker[c] = Nobody /\ ~toldPaid[c]
        /\ confirmStep[c] # "idle" => confirming[c] \in Sessions /\ Known(confirming[c])
        /\ confirmStep[c] \notin {"idle", "ErrHoldNotFound", "ErrNotHoldOwner"} =>
              UserOf[confirming[c]] = asker[c]
        /\ toldPaid[c] => HasCapturedPayment(confirming[c])
        /\ confirmStep[c] = "ErrPaymentNotCaptured" => ~toldPaid[c]
        /\ confirmStep[c] = "paid" => HasCapturedPayment(confirming[c])

\* What a confirm call has learnt of the sales record is still there.
SalesKnown ==
    \A c \in Calls :
        /\ confirmStep[c] \in {"seat_conflict", "ErrSeatAlreadyBooked"} =>
              SeatSold(SeatOf[confirming[c]])
        /\ confirmStep[c] \in {"session_conflict", "replayed"} =>
              confirming[c] \in BookedSessions
        /\ confirmStep[c] \in {"sold", "created"} =>
              [call |-> c, session |-> confirming[c]] \in sold
        /\ confirmStep[c] = "ErrSeatAlreadyBooked" =>
              confirming[c] \notin BookedSessions

\* Only sessions that were handed out have bought, and what a Hold call was told
\* of a sale is still so.
HoldsKnow ==
    /\ \A s \in BookedSessions : Known(s)
    /\ \A s \in Sessions :
          holdCall[s] = "ErrSeatAlreadyBooked" => SeatSold(SeatOf[s])

\* The intent of a call that lost the race was never inserted; what a call of
\* CreateIntent gives out as new is its own, and as old another's.
IntentsKnow ==
    \A i \in Intents :
        /\ createStep[i] = "lost" => payStatus[i] = "none"
        /\ createStep[i] = "created" => offered[i] = i
        /\ createStep[i] = "reused" => offered[i] \in Intents \ {i}

CheckInv ==
    /\ PayInv
    /\ CheckoutTypeOK
    /\ ConfirmsKnow
    /\ SalesKnown
    /\ HoldsKnow
    /\ IntentsKnow

-----------------------------------------------------------------------------
\* Every step of a purchase is a step of the payment service, or none of its
\* business.
LEMMA CheckoutStepIsPaymentStep ==
    ASSUME CheckInv, [CheckoutNext]_checkoutVars
    PROVE  [PaymentNext]_paymentVars
<1>1. ASSUME NEW s \in Sessions, HoldPrecheck(s) \/ HoldClaim(s) \/ HoldLapses(s)
      PROVE  [PaymentNext]_paymentVars
  BY <1>1 DEF HoldPrecheck, HoldClaim, HoldLapses, PaymentNext
<1>2. CASE PaymentStep
  BY <1>2 DEF PaymentStep, PaymentNext
<1>3. ASSUME NEW c \in Calls, ConfirmNext(c)
      PROVE  [PaymentNext]_paymentVars
  <2>1. CASE ConfirmCleanup(c)
    <3>1. confirming[c] \in Sessions
      BY <2>1 DEF CheckInv, ConfirmsKnow, ConfirmCleanup
    <3> QED
      BY <2>1, <3>1 DEF ConfirmCleanup, PaymentNext
  <2>2. CASE ~ConfirmCleanup(c)
    BY <1>3, <2>2 DEF ConfirmNext, ConfirmGate, ConfirmPayment, ConfirmSell,
                      ConfirmConflict, ConfirmRecover, ConfirmFails
  <2> QED
    BY <2>1, <2>2
<1>4. CASE UNCHANGED checkoutVars
  BY <1>4 DEF checkoutVars
<1> QED
  BY <1>1, <1>2, <1>3, <1>4 DEF CheckoutNext

\* A session that is paid for stays so.
LEMMA PaidStays ==
    ASSUME PayInv, [PaymentNext]_paymentVars, NEW s \in Sessions, HasCapturedPayment(s)
    PROVE  HasCapturedPayment(s)'
<1> DEFINE gate == {t \in Sessions : HasCapturedPayment(t)}
<1>1. gate' = gate \/ \E t \in Sessions : gate' = gate \union {t}
  BY GateStep
<1>2. s \in gate'
  BY <1>1
<1> QED
  BY <1>2

\* What the provider was paid, and what the payments table says, are the same
\* sessions.
LEMMA PaidIsCaptured == PayInv => PaidFor = {s \in Sessions : HasCapturedPayment(s)}
BY DEF PayInv, CapturedWasCollected, PaidFor, HasCapturedPayment

\* A payment confirm that was answered 200 has a captured row.
LEMMA ToldPaidIsPaid ==
    ASSUME PayInv, NEW s \in Sessions, ToldPaid(s)
    PROVE  HasCapturedPayment(s)
<1>1. PICK p \in Payers : /\ payerSession[p] = s
                          /\ PaymentConfirmResponse(payerStep[p]).status = 200
  BY DEF ToldPaid
<1>2. payerStep[p] = "paid"
  BY <1>1 DEF PaymentConfirmResponse, PaymentError, HoldNotFound, InternalError, Response
<1>3. payerIntent[p] \in Intents /\ payStatus[payerIntent[p]] = "captured"
      /\ paySession[payerIntent[p]] = s
  BY <1>1, <1>2 DEF PayInv, PayersKnow, AnswersAreRecorded
<1> QED
  BY <1>3 DEF HasCapturedPayment

-----------------------------------------------------------------------------
\* The intents of CreateIntent calls, through any step of the payment service.
LEMMA IntentsInv ==
    ASSUME PayInv, IntentsKnow, [PaymentNext]_paymentVars
    PROVE  IntentsKnow'
<1>1. \A i \in Intents : createStep[i] = "lost" => payStatus'[i] = "none"
  <2> SUFFICES ASSUME NEW i \in Intents, createStep[i] = "lost"
               PROVE  payStatus'[i] = "none"
    OBVIOUS
  <2>1. payStatus[i] = "none"
    BY DEF IntentsKnow
  <2>2. CASE UNCHANGED payRows
    BY <2>1, <2>2 DEF payRows
  <2>3. ASSUME NEW j \in Intents, createStep[j] = "minted", InsertIntent(j, createSession[j])
        PROVE  payStatus'[i] = "none"
    BY <2>1, <2>3 DEF PayInv, PaymentTypeOK, InsertIntent
  <2>4. ASSUME NEW j \in Intents, CapturePayment(j) \/ FailPayment(j)
        PROVE  payStatus'[i] = "none"
    BY <2>1, <2>4 DEF PayInv, PaymentTypeOK, CapturePayment, FailPayment, IsOpen
  <2> QED
    BY <2>2, <2>3, <2>4, RowSteps
<1>2. CASE UNCHANGED createVars
  BY <1>1, <1>2 DEF IntentsKnow, createVars
<1>3. ASSUME NEW i \in Intents, CreateNext(i)
      PROVE  IntentsKnow'
  <2>1. \A j \in Intents \ {i} : createStep'[j] = createStep[j] /\ offered'[j] = offered[j]
    BY <1>3 DEF PayInv, PaymentTypeOK, CreateNext, CreateGate, CreateLookup, CreateMint,
                CreateInsert, CreateRecover, CreateFails, CreateEnds
  <2>2. /\ createStep'[i] = "lost" => payStatus'[i] = "none"
        /\ createStep'[i] = "created" => offered'[i] = i
        /\ createStep'[i] = "reused" => offered'[i] \in Intents \ {i}
    <3>1. CASE \E s \in Sessions, mine \in BOOLEAN : CreateGate(i, s, mine)
      BY <3>1 DEF PayInv, PaymentTypeOK, CreateGate
    <3>2. CASE CreateLookup(i) \/ CreateRecover(i)
      <4>1. payStatus[i] = "none"
        BY <3>2 DEF PayInv, NoRowYet, IntentsKnow, CreateLookup, CreateRecover
      <4>2. i \notin ActiveIntents(createSession[i])
        BY <4>1 DEF ActiveIntents, IsActive
      <4> QED
        BY <3>2, <4>2 DEF PayInv, PaymentTypeOK, CreateLookup, CreateRecover, CreateEnds,
                          ActiveIntents
    <3>3. CASE CreateMint(i) \/ CreateFails(i)
      BY <3>3 DEF PayInv, PaymentTypeOK, CreateMint, CreateFails, CreateEnds
    <3>4. CASE CreateInsert(i)
      <4>1. payStatus[i] = "none"
        BY <3>4 DEF PayInv, NoRowYet, CreateInsert
      <4> QED
        BY <3>4, <4>1 DEF PayInv, PaymentTypeOK, CreateInsert, CreateEnds, payRows
    <3> QED
      BY <1>3, <3>1, <3>2, <3>3, <3>4 DEF CreateNext
  <2> QED
    BY <1>1, <2>1, <2>2 DEF IntentsKnow
<1>4. CASE ~ \E i \in Intents : CreateNext(i)
  <2>1. UNCHANGED createVars
    BY <1>4 DEF PaymentNext, paymentVars, HoldEnds, ProviderSettles, PayerNext, PayerGate,
                PayerLookup, PayerCharge, PayerDeclined, PayerRecord, PayerClassify,
                PayerFails, WebhookArrives, WebhookApplies, WebhookFails
  <2> QED
    BY <1>2, <2>1
<1> QED
  BY <1>3, <1>4

-----------------------------------------------------------------------------
\* The initial state satisfies the invariant.
LEMMA CheckoutInitInv == CheckoutInit => CheckInv
<1> SUFFICES ASSUME CheckoutInit PROVE CheckInv
  OBVIOUS
<1>1. PayInv
  BY PaymentInitInv DEF CheckoutInit
<1>2. CheckoutTypeOK
  BY DEF CheckoutInit, CheckoutTypeOK
<1>3. ConfirmsKnow /\ SalesKnown /\ HoldsKnow
  BY DEF CheckoutInit, ConfirmsKnow, SalesKnown, HoldsKnow, BookedSessions
<1>4. IntentsKnow
  BY DEF CheckoutInit, PaymentInit, IntentsKnow
<1> QED
  BY <1>1, <1>2, <1>3, <1>4 DEF CheckInv

\* A step that leaves the calls of the confirm route alone: what they know stays,
\* as long as no sale is added and no session is taken back.
LEMMA CallsStay ==
    ASSUME CheckInv, [PaymentNext]_paymentVars, UNCHANGED <<sold, confirmVars>>,
           \A s \in Sessions : Known(s) => Known(s)'
    PROVE  ConfirmsKnow' /\ SalesKnown'
<1>1. ConfirmsKnow'
  <2> SUFFICES ASSUME NEW c \in Calls
               PROVE  /\ confirming[c] \in Sessions /\ Known(confirming[c])
                             => Known(confirming[c])'
                      /\ confirming[c] \in Sessions /\ HasCapturedPayment(confirming[c])
                             => HasCapturedPayment(confirming[c])'
    BY DEF CheckInv, ConfirmsKnow, confirmVars
  <2>1. confirming' = confirming
    BY DEF confirmVars
  <2> QED
    BY <2>1, PaidStays DEF CheckInv
<1>2. SalesKnown'
  BY DEF CheckInv, SalesKnown, SeatSold, BookedSessions, confirmVars
<1> QED
  BY <1>1, <1>2

\* Service.Hold, and the end of a hold.
LEMMA HoldSideInv ==
    ASSUME CheckInv, NEW s \in Sessions, [PaymentNext]_paymentVars,
           HoldPrecheck(s) \/ HoldClaim(s) \/ HoldLapses(s)
    PROVE  CheckInv'
<1>1. /\ UNCHANGED <<sold, confirmVars>>
      /\ phantoms' \subseteq Sessions
      /\ holdCall' \in [Sessions -> {"none", "checked", "held", "orphaned",
                                     "ErrSeatAlreadyBooked", "ErrSeatAlreadyHeld", "infra"}]
      /\ \A t \in Sessions : Known(t) => Known(t)'
      /\ holdCall'[s] = "ErrSeatAlreadyBooked" => SeatSold(SeatOf[s])
      /\ \A t \in Sessions \ {s} : holdCall'[t] = holdCall[t]
  <2>1. CASE HoldPrecheck(s)
    BY <2>1 DEF CheckInv, CheckoutTypeOK, HoldPrecheck, HoldGoto, Known
  <2>2. CASE HoldClaim(s)
    BY <2>2 DEF CheckInv, CheckoutTypeOK, HoldClaim, HoldGoto, Known
  <2>3. CASE HoldLapses(s)
    BY <2>3 DEF CheckInv, CheckoutTypeOK, HoldsKnow, HoldLapses, bookingSide, Known
  <2> QED
    BY <2>1, <2>2, <2>3
<1>2. PayInv' /\ IntentsKnow'
  BY PaymentStepInv, IntentsInv DEF CheckInv
<1>3. CheckoutTypeOK'
  BY <1>1 DEF CheckInv, CheckoutTypeOK, confirmVars
<1>4. ConfirmsKnow' /\ SalesKnown'
  BY <1>1, CallsStay
<1>5. HoldsKnow'
  <2>1. \A t \in BookedSessions : t \in Sessions
    BY DEF CheckInv, CheckoutTypeOK, BookedSessions
  <2> QED
    BY <1>1, <2>1 DEF CheckInv, HoldsKnow, SeatSold, BookedSessions
<1> QED
  BY <1>2, <1>3, <1>4, <1>5 DEF CheckInv

\* The payment routes and the webhook, and steps of nobody here.
LEMMA PaymentSideInv ==
    ASSUME CheckInv, [PaymentNext]_paymentVars, UNCHANGED bookingSide
    PROVE  CheckInv'
<1>1. PayInv' /\ IntentsKnow'
  BY PaymentStepInv, IntentsInv DEF CheckInv
<1>2. UNCHANGED <<holdCall, phantoms, sold, confirmVars>>
  BY DEF bookingSide
<1>3. CheckoutTypeOK' /\ HoldsKnow'
  BY <1>2 DEF CheckInv, CheckoutTypeOK, HoldsKnow, Known, SeatSold, BookedSessions, confirmVars
<1>4. ConfirmsKnow' /\ SalesKnown'
  BY <1>2, CallsStay DEF Known
<1> QED
  BY <1>1, <1>3, <1>4 DEF CheckInv

-----------------------------------------------------------------------------
\* The steps of Service.Confirm: what a call knows when it goes on.
LEMMA ConfirmStepKnows ==
    ASSUME CheckInv, NEW c \in Calls, ConfirmNext(c)
    PROVE  /\ UNCHANGED <<holdCall, phantoms>>
           /\ confirmStep' \in [Calls -> {"idle", "gated", "paid", "sold", "seat_conflict",
                                  "session_conflict", "created", "replayed",
                                  "ErrHoldNotFound", "ErrNotHoldOwner",
                                  "ErrPaymentNotCaptured", "ErrSeatAlreadyBooked",
                                  "infra"}]
           /\ confirming' \in [Calls -> Sessions \union {NoSession}]
           /\ asker' \in [Calls -> Users \union {Nobody}]
           /\ toldPaid' \in [Calls -> BOOLEAN]
           /\ \A d \in Calls \ {c} : /\ confirmStep'[d] = confirmStep[d]
                                     /\ confirming'[d] = confirming[d]
                                     /\ asker'[d] = asker[d]
                                     /\ toldPaid'[d] = toldPaid[d]
           /\ confirmStep'[c] # "idle"
           /\ confirming'[c] \in Sessions /\ Known(confirming'[c])
           /\ confirmStep'[c] \notin {"ErrHoldNotFound", "ErrNotHoldOwner"} =>
                 UserOf[confirming'[c]] = asker'[c]
           /\ toldPaid'[c] => HasCapturedPayment(confirming'[c])
           /\ confirmStep'[c] = "ErrPaymentNotCaptured" => ~toldPaid'[c]
           /\ confirmStep'[c] = "paid" => HasCapturedPayment(confirming'[c])
<1>1. CASE \E u \in Users, s \in Sessions : ConfirmGate(u, c, s)
  <2> PICK u \in Users, s \in Sessions : ConfirmGate(u, c, s)
    BY <1>1
  <2>1. /\ UNCHANGED <<holdCall, phantoms>>
        /\ confirming' = [confirming EXCEPT ![c] = s]
        /\ asker' = [asker EXCEPT ![c] = u]
        /\ toldPaid' = [toldPaid EXCEPT ![c] = ToldPaid(s)]
        /\ \E next \in {"ErrHoldNotFound", "ErrNotHoldOwner", "gated"} :
              /\ confirmStep' = [confirmStep EXCEPT ![c] = next]
              /\ next = "gated" => UserOf[s] = u
        /\ Known(s)
    BY DEF ConfirmGate, ConfirmGoto
  <2>2. ToldPaid(s) \in BOOLEAN
    BY DEF ToldPaid
  <2>3. ToldPaid(s) => HasCapturedPayment(s)
    BY ToldPaidIsPaid DEF CheckInv
  <2> QED
    BY <2>1, <2>2, <2>3 DEF CheckInv, CheckoutTypeOK
<1>2. CASE ~ \E u \in Users, s \in Sessions : ConfirmGate(u, c, s)
  <2>1. /\ UNCHANGED <<holdCall, phantoms, confirming, asker, toldPaid>>
        /\ confirmStep[c] \in {"gated", "paid", "sold", "seat_conflict", "session_conflict"}
    BY <1>2 DEF ConfirmNext, ConfirmPayment, ConfirmSell, ConfirmConflict, ConfirmRecover,
                ConfirmCleanup, ConfirmFails
  <2>2. /\ confirmStep' \in [Calls -> {"idle", "gated", "paid", "sold", "seat_conflict",
                                  "session_conflict", "created", "replayed",
                                  "ErrHoldNotFound", "ErrNotHoldOwner",
                                  "ErrPaymentNotCaptured", "ErrSeatAlreadyBooked",
                                  "infra"}]
        /\ \A d \in Calls \ {c} : confirmStep'[d] = confirmStep[d]
        /\ confirmStep'[c] \notin {"idle", "ErrHoldNotFound", "ErrNotHoldOwner"}
        /\ confirmStep'[c] = "paid" => HasCapturedPayment(confirming[c])
        /\ confirmStep'[c] = "ErrPaymentNotCaptured" => ~HasCapturedPayment(confirming[c])
    <3>1. CASE ConfirmPayment(c)
      BY <3>1 DEF CheckInv, CheckoutTypeOK, ConfirmPayment, ConfirmGoto
    <3>2. CASE ConfirmSell(c) \/ ConfirmConflict(c) \/ ConfirmCleanup(c) \/ ConfirmFails(c)
      BY <3>2 DEF CheckInv, CheckoutTypeOK, ConfirmSell, ConfirmConflict, ConfirmCleanup,
                  ConfirmFails, ConfirmGoto
    <3>3. CASE ConfirmRecover(c)
      BY <3>3 DEF CheckInv, CheckoutTypeOK, SalesKnown, ConfirmRecover, ConfirmGoto
    <3> QED
      BY <1>2, <3>1, <3>2, <3>3 DEF ConfirmNext
  <2> QED
    BY <2>1, <2>2 DEF CheckInv, CheckoutTypeOK, ConfirmsKnow
<1> QED
  BY <1>1, <1>2

\* The steps of Service.Confirm: what they do to the sales record, and what they
\* read from it.
LEMMA ConfirmStepSells ==
    ASSUME CheckInv, NEW c \in Calls, ConfirmNext(c)
    PROVE  /\ \/ sold' = sold
              \/ /\ sold' = sold \union {[call |-> c, session |-> confirming[c]]}
                 /\ confirming' = confirming
                 /\ confirmStep[c] = "paid"
                 /\ ~SeatSold(SeatOf[confirming[c]])
                 /\ confirmStep'[c] \in {"sold", "infra"}
           /\ confirmStep'[c] \in {"seat_conflict", "ErrSeatAlreadyBooked"} =>
                 SeatSold(SeatOf[confirming'[c]])
           /\ confirmStep'[c] \in {"session_conflict", "replayed"} =>
                 confirming'[c] \in BookedSessions
           /\ confirmStep'[c] \in {"sold", "created"} =>
                 [call |-> c, session |-> confirming'[c]] \in sold'
           /\ confirmStep'[c] = "ErrSeatAlreadyBooked" => confirming'[c] \notin BookedSessions
<1>1. CASE \E u \in Users, s \in Sessions : ConfirmGate(u, c, s)
  <2> PICK u \in Users, s \in Sessions : ConfirmGate(u, c, s)
    BY <1>1
  <2> QED
    BY DEF CheckInv, CheckoutTypeOK, ConfirmGate, ConfirmGoto
<1>2. CASE ConfirmPayment(c)
  BY <1>2 DEF CheckInv, CheckoutTypeOK, ConfirmPayment, ConfirmGoto
<1>3. CASE ConfirmSell(c)
  BY <1>3 DEF CheckInv, CheckoutTypeOK, ConfirmSell, ConfirmGoto, Ledger!Sell, SeatSold
<1>4. CASE ConfirmConflict(c)
  BY <1>4 DEF CheckInv, CheckoutTypeOK, ConfirmConflict, ConfirmGoto
<1>5. CASE ConfirmRecover(c)
  BY <1>5 DEF CheckInv, CheckoutTypeOK, SalesKnown, ConfirmRecover, ConfirmGoto
<1>6. CASE ConfirmCleanup(c)
  BY <1>6 DEF CheckInv, CheckoutTypeOK, SalesKnown, ConfirmCleanup, ConfirmGoto
<1>7. CASE ConfirmFails(c)
  BY <1>7 DEF CheckInv, CheckoutTypeOK, ConfirmFails, ConfirmGoto
<1> QED
  BY <1>1, <1>2, <1>3, <1>4, <1>5, <1>6, <1>7 DEF ConfirmNext

\* A sale adds its session to those that have bought.
LEMMA SaleBooks ==
    ASSUME NEW c, NEW s, sold' = sold \union {[call |-> c, session |-> s]}
    PROVE  BookedSessions' = BookedSessions \union {s}
<1> DEFINE sale == [call |-> c, session |-> s]
<1>1. sale.session = s
  OBVIOUS
<1>2. BookedSessions' = {r.session : r \in sold \union {sale}}
  BY DEF BookedSessions
<1> HIDE DEF sale
<1>3. {r.session : r \in sold \union {sale}} = {r.session : r \in sold} \union {sale.session}
  BY Zenon
<1> QED
  BY <1>1, <1>2, <1>3 DEF BookedSessions

\* Service.Confirm keeps the invariant.
LEMMA ConfirmInv ==
    ASSUME CheckInv, NEW c \in Calls, ConfirmNext(c), [PaymentNext]_paymentVars
    PROVE  CheckInv'
<1>1. PayInv' /\ IntentsKnow'
  BY PaymentStepInv, IntentsInv DEF CheckInv
<1>2. \A s \in Sessions : HasCapturedPayment(s) => HasCapturedPayment(s)'
  BY PaidStays DEF CheckInv
<1>3. /\ sold \subseteq sold'
      /\ sold' \subseteq [call : Calls, session : Sessions]
      /\ \A x : SeatSold(x) => SeatSold(x)'
      /\ BookedSessions \subseteq BookedSessions'
      /\ \A s \in BookedSessions' : Known(s) /\ s \in Sessions
      /\ \A s \in Sessions : SeatSold(SeatOf[s]) /\ s \notin BookedSessions =>
                                s \notin BookedSessions'
  <2>1. CASE sold' = sold
    BY <2>1 DEF CheckInv, CheckoutTypeOK, HoldsKnow, SeatSold, BookedSessions
  <2>2. CASE /\ sold' = sold \union {[call |-> c, session |-> confirming[c]]}
             /\ confirmStep[c] = "paid"
             /\ ~SeatSold(SeatOf[confirming[c]])
    <3>1. confirming[c] \in Sessions /\ Known(confirming[c])
      BY <2>2 DEF CheckInv, ConfirmsKnow
    <3>2. BookedSessions' = BookedSessions \union {confirming[c]}
      BY <2>2, SaleBooks
    <3>3. BookedSessions \subseteq Sessions
      BY DEF CheckInv, CheckoutTypeOK, BookedSessions
    <3> QED
      BY <2>2, <3>1, <3>2, <3>3 DEF CheckInv, CheckoutTypeOK, HoldsKnow, SeatSold
  <2> QED
    BY <2>1, <2>2, ConfirmStepSells
<1>4. CheckoutTypeOK'
  BY <1>3, ConfirmStepKnows DEF CheckInv, CheckoutTypeOK
<1>5. HoldsKnow'
  BY <1>3, ConfirmStepKnows DEF CheckInv, HoldsKnow, Known
<1>6. ConfirmsKnow'
  <2> SUFFICES ASSUME NEW d \in Calls PROVE ConfirmsKnow!(d)'
    BY DEF ConfirmsKnow
  <2>1. CASE d = c
    BY <1>2, <2>1, ConfirmStepKnows DEF Known
  <2>2. CASE d # c
    <3>1. ConfirmsKnow!(d)
      BY DEF CheckInv, ConfirmsKnow
    <3>2. toldPaid[d] => confirming[d] \in Sessions
      BY <3>1
    <3>3. confirmStep[d] # "idle" => confirming[d] \in Sessions
      BY <3>1
    <3> QED
      BY <1>2, <2>2, <3>1, <3>2, <3>3, ConfirmStepKnows DEF Known
  <2> QED
    BY <2>1, <2>2
<1>7. SalesKnown'
  <2> SUFFICES ASSUME NEW d \in Calls PROVE SalesKnown!(d)'
    BY DEF SalesKnown
  <2>1. CASE d = c
    BY <1>3, <2>1, ConfirmStepKnows, ConfirmStepSells
  <2>2. CASE d # c
    <3>1. /\ SalesKnown!(d)
          /\ confirmStep[d] # "idle" => confirming[d] \in Sessions
      BY DEF CheckInv, SalesKnown, ConfirmsKnow
    <3> QED
      BY <1>3, <2>2, <3>1, ConfirmStepKnows
  <2> QED
    BY <2>1, <2>2
<1> QED
  BY <1>1, <1>4, <1>5, <1>6, <1>7 DEF CheckInv

-----------------------------------------------------------------------------
\* Every step of a purchase keeps the invariant.
LEMMA CheckoutStepInv == CheckInv /\ [CheckoutNext]_checkoutVars => CheckInv'
<1> SUFFICES ASSUME CheckInv, [CheckoutNext]_checkoutVars PROVE CheckInv'
  OBVIOUS
<1>1. [PaymentNext]_paymentVars
  BY CheckoutStepIsPaymentStep
<1>2. ASSUME NEW s \in Sessions, HoldPrecheck(s) \/ HoldClaim(s) \/ HoldLapses(s)
      PROVE  CheckInv'
  BY <1>1, <1>2, HoldSideInv
<1>3. CASE PaymentStep \/ UNCHANGED checkoutVars
  BY <1>1, <1>3, PaymentSideInv DEF PaymentStep, checkoutVars
<1>4. ASSUME NEW c \in Calls, ConfirmNext(c)
      PROVE  CheckInv'
  BY <1>1, <1>4, ConfirmInv
<1> QED
  BY <1>2, <1>3, <1>4 DEF CheckoutNext

\* In every behaviour of a purchase the invariant holds.
THEOREM CheckoutInvariant == CheckoutSpec => []CheckInv
<1>1. CheckoutInit => CheckInv
  BY CheckoutInitInv
<1> QED
  BY <1>1, CheckoutStepInv, PTL DEF CheckoutSpec

\* A purchase keeps to its types: no confirm call, in particular, surfaces the
\* conflict on the session index that recoverConflict is there to resolve.
THEOREM CheckoutTypeCorrect == CheckoutSpec => []CheckoutTypeOK
<1>1. CheckInv => CheckoutTypeOK
  BY DEF CheckInv
<1> QED
  BY <1>1, CheckoutInvariant, PTL

\* The payment service sees nothing of the composition that it does not see
\* alone: what PaymentServiceProofs shows of it holds in a purchase.
THEOREM CheckoutRunsPayments == CheckoutSpec => PaymentSpec
<1>1. CheckoutInit => PaymentInit
  BY DEF CheckoutInit
<1>2. CheckInv /\ [CheckoutNext]_checkoutVars => [PaymentNext]_paymentVars
  BY CheckoutStepIsPaymentStep
<1> QED
  BY <1>1, <1>2, CheckoutInvariant, PTL DEF CheckoutSpec, PaymentSpec

\* "No captured money, no booking", and one booking per seat, across both
\* services and everything that happens between their round trips.
THEOREM CheckoutImplementsBoxOffice == CheckoutSpec => ImplementsBoxOffice
<1>1. CheckoutInit => Box!BoxOfficeInit
  BY DEF CheckoutInit, PaymentInit, PayInit, PaidFor, BookedSessions, Box!BoxOfficeInit
<1>2. CheckInv /\ [CheckoutNext]_checkoutVars => [Box!BoxOfficeNext]_(Box!boxOfficeVars)
  <2> SUFFICES ASSUME CheckInv, [CheckoutNext]_checkoutVars
               PROVE  \/ PaidFor' = PaidFor /\ BookedSessions' = BookedSessions
                      \/ \E s \in Sessions :
                            /\ PaidFor' = PaidFor \union {s}
                            /\ BookedSessions' = BookedSessions
                      \/ \E s \in Sessions :
                            /\ s \in PaidFor
                            /\ \A other \in BookedSessions : SeatOf[other] # SeatOf[s]
                            /\ BookedSessions' = BookedSessions \union {s}
                            /\ PaidFor' = PaidFor
    BY DEF Box!BoxOfficeNext, Box!Pay, Box!SellSeat, Box!boxOfficeVars
  <2>1. [PaymentNext]_paymentVars /\ PayInv /\ PayInv'
    BY CheckoutStepIsPaymentStep, CheckoutStepInv DEF CheckInv
  <2>2. PaidFor' = PaidFor \/ \E s \in Sessions : PaidFor' = PaidFor \union {s}
    <3> DEFINE gate == {s \in Sessions : HasCapturedPayment(s)}
    <3>1. gate' = gate \/ \E s \in Sessions : gate' = gate \union {s}
      BY <2>1, GateStep
    <3>2. PaidFor = gate
      BY <2>1, PaidIsCaptured
    <3>3. PaidFor' = gate'
      BY <2>1 DEF PayInv, CapturedWasCollected, PaidFor, HasCapturedPayment
    <3> QED
      BY <3>1, <3>2, <3>3
  <2>3. CASE sold' = sold
    BY <2>2, <2>3 DEF BookedSessions
  <2>4. ASSUME NEW c \in Calls, ConfirmSell(c)
        PROVE  \E s \in Sessions :
                  /\ s \in PaidFor
                  /\ \A other \in BookedSessions : SeatOf[other] # SeatOf[s]
                  /\ BookedSessions' = BookedSessions \union {s}
                  /\ PaidFor' = PaidFor
    <3>1. /\ confirming[c] \in Sessions
          /\ HasCapturedPayment(confirming[c])
      BY <2>4 DEF CheckInv, ConfirmsKnow, ConfirmSell
    <3>2. confirming[c] \in PaidFor
      BY <2>1, <3>1, PaidIsCaptured
    <3>3. /\ BookedSessions' = BookedSessions \union {confirming[c]}
          /\ \A other \in BookedSessions : SeatOf[other] # SeatOf[confirming[c]]
      <4>1. sold' = sold \union {[call |-> c, session |-> confirming[c]]}
        BY <2>4 DEF ConfirmSell, Ledger!Sell
      <4>2. \A other \in sold : SeatOf[other.session] # SeatOf[confirming[c]]
        BY <2>4 DEF ConfirmSell, Ledger!Sell
      <4> QED
        BY <4>1, <4>2, SaleBooks DEF BookedSessions
    <3>4. PaidFor' = PaidFor
      BY <2>4 DEF ConfirmSell, PaidFor, paymentVars, payRows
    <3> QED
      BY <3>1, <3>2, <3>3, <3>4
  <2>5. sold' = sold \/ \E c \in Calls : ConfirmSell(c)
    BY DEF CheckoutNext, checkoutVars, bookingSide, HoldPrecheck, HoldClaim, HoldLapses,
           PaymentStep, ConfirmNext, ConfirmGate, ConfirmPayment, ConfirmConflict,
           ConfirmRecover, ConfirmCleanup, ConfirmFails
  <2> QED
    BY <2>3, <2>4, <2>5
<1> QED
  BY <1>1, <1>2, CheckoutInvariant, PTL
  DEF CheckoutSpec, ImplementsBoxOffice, Box!BoxOfficeSpec

\* A client that has been told it has paid is never asked to pay by a confirm it
\* sends after that.
THEOREM PaidClientsAreBelieved == CheckoutSpec => []PaidIsBelieved
<1>1. CheckInv => PaidIsBelieved
  <2> SUFFICES ASSUME CheckInv, NEW c \in Calls, toldPaid[c]
               PROVE  ConfirmResponse(confirmStep[c]).code # "payment_required"
    BY DEF PaidIsBelieved
  <2>1. confirmStep[c] # "ErrPaymentNotCaptured"
    BY DEF CheckInv, ConfirmsKnow
  <2> QED
    BY <2>1 DEF ConfirmResponse, BookingError, HoldNotFound, InternalError, Response
<1> QED
  BY <1>1, CheckoutInvariant, PTL

\* What the hold, intent and confirm routes answer is so: see ResponsesAreHonest.
THEOREM RoutesAreHonest == CheckoutSpec => []ResponsesAreHonest
<1>1. CheckInv => ResponsesAreHonest
  <2> SUFFICES ASSUME CheckInv PROVE ResponsesAreHonest
    OBVIOUS
  <2>1. ASSUME NEW c \in Calls
        PROVE  LET r == ConfirmResponse(confirmStep[c])
               IN  /\ r.status = 201 => [call |-> c, session |-> confirming[c]] \in sold
                   /\ r.status = 200 => confirming[c] \in BookedSessions
                   /\ r.code = "seat_booked" => /\ SeatSold(SeatOf[confirming[c]])
                                                /\ confirming[c] \notin BookedSessions
                   /\ r = InternalError => confirmStep[c] \in {"infra"} \union InProgress
                   /\ asker[c] \in Users /\ UserOf[confirming[c]] # asker[c] =>
                         r = HoldNotFound
    <3> DEFINE r == ConfirmResponse(confirmStep[c])
    <3>1. /\ r.status = 201 => confirmStep[c] = "created"
          /\ r.status = 200 => confirmStep[c] = "replayed"
          /\ r.code = "seat_booked" => confirmStep[c] = "ErrSeatAlreadyBooked"
      BY DEF ConfirmResponse, BookingError, HoldNotFound, InternalError, Response
    <3>2. confirmStep[c] \in {"ErrHoldNotFound", "ErrNotHoldOwner"} => r = HoldNotFound
      BY DEF ConfirmResponse, BookingError, HoldNotFound, Response
    <3>3. r = InternalError => confirmStep[c] \in {"infra"} \union InProgress
      <4>1. confirmStep[c] \in {"created", "replayed", "ErrHoldNotFound", "ErrNotHoldOwner",
                                "ErrPaymentNotCaptured", "ErrSeatAlreadyBooked"}
              => r.status # 500
        BY DEF ConfirmResponse, BookingError, HoldNotFound, Response
      <4>2. InternalError.status = 500
        BY DEF InternalError, Response
      <4> QED
        BY <4>1, <4>2 DEF CheckInv, CheckoutTypeOK, InProgress
    <3>4. asker[c] \in Users /\ UserOf[confirming[c]] # asker[c] =>
              confirmStep[c] \in {"ErrHoldNotFound", "ErrNotHoldOwner"}
      BY CheckoutAssumption DEF CheckInv, ConfirmsKnow
    <3> QED
      BY <3>1, <3>2, <3>3, <3>4 DEF CheckInv, SalesKnown
  <2>2. ASSUME NEW s \in Sessions, HoldResponse(holdCall[s]).code = "seat_booked"
        PROVE  SeatSold(SeatOf[s]) /\ s \notin BookedSessions
    <3>1. holdCall[s] = "ErrSeatAlreadyBooked"
      BY <2>2 DEF HoldResponse, BookingError, HoldNotFound, InternalError, Response
    <3> QED
      BY <3>1 DEF CheckInv, HoldsKnow, Known
  <2>3. ASSUME NEW i \in Intents
        PROVE  LET status == IntentResponse(createStep[i]).status
               IN  /\ status = 201 => offered[i] = i
                   /\ status = 200 => offered[i] \in Intents \ {i}
    <3>1. /\ IntentResponse(createStep[i]).status = 201 => createStep[i] = "created"
          /\ IntentResponse(createStep[i]).status = 200 => createStep[i] = "reused"
      BY DEF IntentResponse, PaymentError, HoldNotFound, InternalError, Response
    <3> QED
      BY <3>1 DEF CheckInv, IntentsKnow
  <2> QED
    BY <2>1, <2>2, <2>3 DEF ResponsesAreHonest
<1> QED
  BY <1>1, CheckoutInvariant, PTL

-----------------------------------------------------------------------------
\* Whatever implements the abstract sale gives a seat to one payer.
THEOREM OfficeSellsToPayers == Box!BoxOfficeSpec => []Box!SeatsGoToPayers
<1>1. Box!BoxOfficeInit => Box!SeatsGoToPayers
  BY DEF Box!BoxOfficeInit, Box!SeatsGoToPayers
<1>2. Box!SeatsGoToPayers /\ [Box!BoxOfficeNext]_Box!boxOfficeVars => Box!SeatsGoToPayers'
  BY DEF Box!BoxOfficeNext, Box!Pay, Box!SellSeat, Box!boxOfficeVars, Box!SeatsGoToPayers
<1> QED
  BY <1>1, <1>2, PTL DEF Box!BoxOfficeSpec

\* Across holds that end at any moment, payments that race their webhooks and
\* confirms that race each other: who has a seat has paid for it, and has it alone.
THEOREM CheckoutSellsToPayers == CheckoutSpec => []Box!SeatsGoToPayers
BY CheckoutImplementsBoxOffice, OfficeSellsToPayers, PTL DEF ImplementsBoxOffice

=============================================================================
