------------------------- MODULE PaymentServiceProofs -------------------------
(***************************************************************************)
(* Proofs about PaymentService, for any number of calls, deliveries and    *)
(* sessions, whatever the provider collects and whether or not its replies *)
(* get lost: a session has one active intent, a captured row was collected *)
(* in full, every answer is that of a row, rows follow the domain's state  *)
(* machine, and the service implements PaymentGate.                        *)
(*                                                                         *)
(* What carries them is what a handler may still believe about a row it    *)
(* has read earlier: a row is never removed and never moved to another     *)
(* session (RowsStay), an intent about to be inserted has no row           *)
(* (NoRowYet), and money a payer or an event has seen moved has moved for  *)
(* good (PayersKnow, EventsAreTrue).                                       *)
(***************************************************************************)
EXTENDS PaymentService, FiniteSetTheorems, TLAPS

\* A row belongs to a session.
RowsAreOfSessions ==
    \A i \in Intents : payStatus[i] # "none" => paySession[i] \in Sessions

\* What the index of migration 00009 keeps, row by row.
ActiveRowsDiffer ==
    \A i, j \in Intents :
        IsActive(i) /\ IsActive(j) /\ paySession[i] = paySession[j] => i = j

\* A call that has not inserted its intent: there is no row of that name.
NoRowYet ==
    \A i \in Intents :
        createStep[i] \in {"idle", "gated", "absent", "minted"} =>
            payStatus[i] = "none"

\* A call of CreateIntent that has passed the gate knows its session, and has
\* promised nothing before it ends.
CreatorsKnow ==
    \A i \in Intents :
        /\ createStep[i] \in {"gated", "absent", "minted", "lost"} =>
              createSession[i] \in Sessions
        /\ createStep[i] \in {"idle", "gated", "absent", "minted", "lost"} =>
              offered[i] = NoIntent

\* A call of ConfirmByClient that has read a row: the row is of its session; what
\* CaptureIntent has confirmed has been collected.
PayersKnow ==
    \A p \in Payers :
        /\ payerStep[p] \in {"charging", "declined", "recording", "classifying", "paid"} =>
              /\ payerIntent[p] \in Intents
              /\ payStatus[payerIntent[p]] # "none"
              /\ paySession[payerIntent[p]] = payerSession[p]
        /\ payerStep[p] \in {"recording", "classifying"} =>
              collected[payerIntent[p]] = "frozen"

\* An event being applied is about a row, and still true.
EventsAreTrue ==
    \A w \in Deliveries : webhook[w] # NoEvent =>
        /\ webhook[w].intent \in Intents
        /\ payStatus[webhook[w].intent] # "none"
        /\ webhook[w].kind # "none"
        /\ webhook[w].kind = collected[webhook[w].intent]

PayInv ==
    /\ PaymentTypeOK
    /\ RowsAreOfSessions
    /\ ActiveRowsDiffer
    /\ NoRowYet
    /\ CreatorsKnow
    /\ PayersKnow
    /\ EventsAreTrue
    /\ CapturedWasCollected
    /\ AnswersAreRecorded

\* A row stays, stays with its session, and stays captured or failed.
RowsStay ==
    \A i \in Intents : payStatus[i] # "none" =>
        /\ payStatus'[i] # "none"
        /\ paySession'[i] = paySession[i]
        /\ payStatus[i] \in {"captured", "failed"} => payStatus'[i] = payStatus[i]

\* Money that has been collected, or given up, stays so.
MoneyStays ==
    \A i \in Intents : collected[i] # "nothing" => collected'[i] = collected[i]

-----------------------------------------------------------------------------
\* The initial state satisfies the invariant.
LEMMA PaymentInitInv == PaymentInit => PayInv
BY PaymentAssumption
DEF PaymentInit, PayInit, PayInv, PaymentTypeOK, RowsAreOfSessions,
    ActiveRowsDiffer, IsActive, NoRowYet, CreatorsKnow, PayersKnow, EventsAreTrue,
    CapturedWasCollected, AnswersAreRecorded, NoEvent

\* The guarded UPDATEs of Capture and MarkFailed keep the rows, their sessions
\* and the index, and make no row.
LEMMA GuardedUpdate ==
    ASSUME PayInv, NEW i \in Intents, CapturePayment(i) \/ FailPayment(i)
    PROVE  /\ payStatus' \in [Intents -> {"none", "intent", "captured", "failed"}]
           /\ paySession' = paySession
           /\ RowsStay
           /\ RowsAreOfSessions'
           /\ ActiveRowsDiffer'
           /\ \A j \in Intents : payStatus[j] = "none" => payStatus'[j] = "none"
BY DEF PayInv, PaymentTypeOK, CapturePayment, FailPayment, IsOpen, RowsStay,
       RowsAreOfSessions, ActiveRowsDiffer, IsActive

\* The INSERT under the index: no other row of the session is active, and the
\* row is new.
LEMMA GuardedInsert ==
    ASSUME PayInv, NEW i \in Intents, createStep[i] = "minted",
           InsertIntent(i, createSession[i])
    PROVE  /\ payStatus' \in [Intents -> {"none", "intent", "captured", "failed"}]
           /\ paySession' \in [Intents -> Sessions \union {NoSession}]
           /\ payStatus'[i] = "intent" /\ paySession'[i] = createSession[i]
           /\ \A j \in Intents \ {i} : /\ payStatus'[j] = payStatus[j]
                                       /\ paySession'[j] = paySession[j]
           /\ RowsStay
           /\ RowsAreOfSessions'
           /\ ActiveRowsDiffer'
<1>1. payStatus[i] = "none" /\ createSession[i] \in Sessions
  BY DEF PayInv, NoRowYet, CreatorsKnow
<1>2. /\ payStatus' \in [Intents -> {"none", "intent", "captured", "failed"}]
      /\ paySession' \in [Intents -> Sessions \union {NoSession}]
      /\ payStatus'[i] = "intent" /\ paySession'[i] = createSession[i]
      /\ \A j \in Intents \ {i} : /\ payStatus'[j] = payStatus[j]
                                  /\ paySession'[j] = paySession[j]
  BY <1>1 DEF PayInv, PaymentTypeOK, InsertIntent
<1>3. RowsStay
  BY <1>1, <1>2 DEF RowsStay
<1>4. RowsAreOfSessions'
  BY <1>1, <1>2 DEF PayInv, RowsAreOfSessions
<1>5. ActiveRowsDiffer'
  <2>1. \A j \in Intents : ~(IsActive(j) /\ paySession[j] = createSession[i])
    BY DEF InsertIntent, ActiveIntents
  <2> QED
    BY <1>2, <2>1 DEF PayInv, ActiveRowsDiffer, IsActive
<1> QED
  BY <1>2, <1>3, <1>4, <1>5

\* What a payer, an event and an answer believe of rows survives a step in which
\* rows and money stay, and they do nothing themselves.
LEMMA BeliefsStay ==
    ASSUME PayInv, RowsStay, MoneyStays
    PROVE  /\ UNCHANGED payerVars => PayersKnow'
           /\ UNCHANGED webhook => EventsAreTrue'
           /\ UNCHANGED <<createSession, offered, payerVars, acked>> => AnswersAreRecorded'
<1>1. UNCHANGED payerVars => PayersKnow'
  BY DEF PayInv, PaymentTypeOK, payerVars, PayersKnow, RowsStay, MoneyStays
<1>2. UNCHANGED webhook => EventsAreTrue'
  <2> SUFFICES ASSUME UNCHANGED webhook, NEW w \in Deliveries, webhook[w] # NoEvent
               PROVE  /\ webhook[w].intent \in Intents
                      /\ payStatus'[webhook[w].intent] # "none"
                      /\ webhook[w].kind # "none"
                      /\ webhook[w].kind = collected'[webhook[w].intent]
    BY DEF EventsAreTrue, NoEvent
  <2>1. webhook[w].kind \in {"none", "died", "frozen", "other"}
    BY DEF PayInv, PaymentTypeOK
  <2> QED
    BY <2>1 DEF PayInv, EventsAreTrue, RowsStay, MoneyStays
<1>3. UNCHANGED <<createSession, offered, payerVars, acked>> => AnswersAreRecorded'
  <2> SUFFICES ASSUME UNCHANGED <<createSession, offered, payerVars, acked>>
               PROVE  AnswersAreRecorded'
    OBVIOUS
  <2>1. \A i \in Intents : offered[i] # NoIntent => offered[i] \in Intents
    BY DEF PayInv, PaymentTypeOK
  <2>2. \A p \in Payers : payerStep[p] = "paid" => payerIntent[p] \in Intents
    BY DEF PayInv, PayersKnow
  <2>3. acked \subseteq Intents
    BY DEF PayInv, PaymentTypeOK
  <2> QED
    BY <2>1, <2>2, <2>3 DEF PayInv, AnswersAreRecorded, RowsStay, payerVars
<1> QED
  BY <1>1, <1>2, <1>3

-----------------------------------------------------------------------------
\* A hold ends; the provider settles with the buyer: no row changes, and money
\* that was settled is not touched.
LEMMA WorldInv ==
    ASSUME PayInv,
           \/ \E s \in Sessions : HoldEnds(s)
           \/ \E i \in Intents : ProviderSettles(i)
    PROVE  PayInv'
<1>1. /\ UNCHANGED <<payRows, createVars, payerVars, webhookVars>>
      /\ holdGone' \subseteq Sessions
      /\ collected' \in [Intents -> Amounts \union {"nothing", "died", "frozen"}]
      /\ MoneyStays
  BY DEF PayInv, PaymentTypeOK, HoldEnds, ProviderSettles, MoneyStays
<1>2. RowsStay
  BY <1>1 DEF RowsStay, payRows
<1>3. PaymentTypeOK'
  BY <1>1 DEF PayInv, PaymentTypeOK, payRows, createVars, payerVars, webhookVars
<1>4. RowsAreOfSessions' /\ ActiveRowsDiffer' /\ NoRowYet' /\ CreatorsKnow'
  BY <1>1 DEF PayInv, RowsAreOfSessions, ActiveRowsDiffer, IsActive, NoRowYet,
              CreatorsKnow, payRows, createVars
<1>5. PayersKnow' /\ EventsAreTrue' /\ AnswersAreRecorded'
  BY <1>1, <1>2, BeliefsStay DEF createVars, webhookVars
<1>6. CapturedWasCollected'
  BY <1>1 DEF PayInv, CapturedWasCollected, MoneyStays, payRows
<1> QED
  BY <1>3, <1>4, <1>5, <1>6 DEF PayInv

\* CreateIntent reads and decides: no row changes, and what it gives its client
\* is an active row of its session.
LEMMA CreateReadsInv ==
    ASSUME PayInv, NEW i \in Intents,
           \/ \E s \in Sessions, mine \in BOOLEAN : CreateGate(i, s, mine)
           \/ CreateLookup(i) \/ CreateMint(i) \/ CreateRecover(i) \/ CreateFails(i)
    PROVE  PayInv'
<1>1. UNCHANGED <<payRows, holdGone, collected, payerVars, webhookVars>>
  BY DEF CreateGate, CreateLookup, CreateMint, CreateRecover, CreateFails, createVars
<1>2. RowsStay /\ MoneyStays
  BY <1>1 DEF RowsStay, MoneyStays, payRows
<1>3. \A j \in ActiveIntents(createSession[i]) :
          j \in Intents /\ payStatus[j] # "none" /\ paySession[j] = createSession[i]
  BY DEF ActiveIntents, IsActive
<1>4. /\ createStep' \in [Intents -> {"idle", "gated", "absent", "minted", "lost",
                                      "created", "reused", "ErrHoldNotFound",
                                      "ErrPaymentIntentExists", "infra"}]
      /\ createSession' \in [Intents -> Sessions \union {NoSession}]
      /\ offered' \in [Intents -> Intents \union {NoIntent}]
      /\ \A j \in Intents \ {i} : /\ createStep'[j] = createStep[j]
                                  /\ createSession'[j] = createSession[j]
                                  /\ offered'[j] = offered[j]
      /\ \/ /\ createStep[i] = "idle" /\ createSession'[i] \in Sessions
            /\ createStep'[i] \in {"gated", "ErrHoldNotFound"}
            /\ offered'[i] = offered[i]
         \/ /\ createStep[i] \in {"gated", "absent", "minted", "lost"}
            /\ createSession'[i] = createSession[i]
            /\ createStep'[i] \in {"absent", "minted", "ErrPaymentIntentExists", "infra"}
            /\ createStep[i] = "lost" => createStep'[i] \notin {"absent", "minted"}
            /\ offered'[i] = NoIntent
         \/ /\ createStep[i] \in {"gated", "lost"}
            /\ createSession'[i] = createSession[i]
            /\ createStep'[i] = "reused"
            /\ offered'[i] \in ActiveIntents(createSession[i])
  <2>1. ASSUME NEW s \in Sessions, NEW mine \in BOOLEAN, CreateGate(i, s, mine)
        PROVE  <1>4!:
    BY <2>1 DEF PayInv, PaymentTypeOK, CreateGate
  <2>2. CASE CreateLookup(i)
    BY <2>2, <1>3 DEF PayInv, PaymentTypeOK, CreateLookup, CreateEnds
  <2>3. CASE CreateMint(i)
    BY <2>3 DEF PayInv, PaymentTypeOK, CreateMint, CreateEnds
  <2>4. CASE CreateRecover(i)
    BY <2>4, <1>3 DEF PayInv, PaymentTypeOK, CreateRecover, CreateEnds
  <2>5. CASE CreateFails(i)
    BY <2>5 DEF PayInv, PaymentTypeOK, CreateFails, CreateEnds
  <2> QED
    BY <2>1, <2>2, <2>3, <2>4, <2>5
<1>5. PaymentTypeOK'
  BY <1>1, <1>4 DEF PayInv, PaymentTypeOK, payRows, payerVars, webhookVars
<1>6. RowsAreOfSessions' /\ ActiveRowsDiffer' /\ CapturedWasCollected'
  BY <1>1 DEF PayInv, RowsAreOfSessions, ActiveRowsDiffer, IsActive,
              CapturedWasCollected, payRows
<1>7. NoRowYet' /\ CreatorsKnow'
  BY <1>1, <1>4 DEF PayInv, NoRowYet, CreatorsKnow, payRows
<1>8. PayersKnow' /\ EventsAreTrue'
  BY <1>1, <1>2, BeliefsStay DEF webhookVars
<1>9. AnswersAreRecorded'
  <2>1. ASSUME NEW j \in Intents, offered'[j] # NoIntent
        PROVE  payStatus'[offered'[j]] # "none" /\ paySession'[offered'[j]] = createSession'[j]
    <3>1. CASE j = i /\ createStep[i] = "idle"
      BY <1>1, <1>4, <2>1, <3>1 DEF PayInv, CreatorsKnow
    <3>2. CASE j = i /\ createStep[i] # "idle"
      BY <1>1, <1>3, <1>4, <2>1, <3>2 DEF payRows
    <3>3. CASE j # i
      BY <1>1, <1>4, <2>1, <3>3 DEF PayInv, AnswersAreRecorded, payRows
    <3> QED
      BY <3>1, <3>2, <3>3
  <2>2. \A p \in Payers : payerStep'[p] = "paid" =>
            payStatus'[payerIntent'[p]] = "captured" /\ paySession'[payerIntent'[p]] = payerSession'[p]
    BY <1>1 DEF PayInv, AnswersAreRecorded, payRows, payerVars
  <2>3. \A j \in acked' : payStatus'[j] \in {"captured", "failed"}
    BY <1>1 DEF PayInv, AnswersAreRecorded, payRows, webhookVars
  <2> QED
    BY <2>1, <2>2, <2>3 DEF AnswersAreRecorded
<1> QED
  BY <1>5, <1>6, <1>7, <1>8, <1>9 DEF PayInv

\* CreateIntent inserts: the row is new, so nobody's belief is about it.
LEMMA CreateInsertInv ==
    ASSUME PayInv, NEW i \in Intents, CreateInsert(i)
    PROVE  PayInv'
<1>1. /\ createStep[i] = "minted"
      /\ createSession[i] \in Sessions
      /\ UNCHANGED <<holdGone, collected, createSession, payerVars, webhookVars>>
  BY DEF PayInv, CreatorsKnow, CreateInsert
<1>2. /\ createStep' \in [Intents -> {"idle", "gated", "absent", "minted", "lost",
                                      "created", "reused", "ErrHoldNotFound",
                                      "ErrPaymentIntentExists", "infra"}]
      /\ offered' \in [Intents -> Intents \union {NoIntent}]
      /\ createStep'[i] \in {"created", "infra", "lost"}
      /\ \A j \in Intents \ {i} : createStep'[j] = createStep[j] /\ offered'[j] = offered[j]
  BY DEF PayInv, PaymentTypeOK, CreateInsert, CreateEnds
<1>3. \/ InsertIntent(i, createSession[i]) /\ offered'[i] \in {i, NoIntent}
      \/ UNCHANGED payRows /\ createStep'[i] = "lost" /\ offered'[i] = NoIntent
  BY DEF PayInv, PaymentTypeOK, CreateInsert, CreateEnds
<1>4. MoneyStays
  BY <1>1 DEF MoneyStays
<1>5. CASE InsertIntent(i, createSession[i]) /\ offered'[i] \in {i, NoIntent}
  <2>1. /\ payStatus' \in [Intents -> {"none", "intent", "captured", "failed"}]
        /\ paySession' \in [Intents -> Sessions \union {NoSession}]
        /\ payStatus'[i] = "intent" /\ paySession'[i] = createSession[i]
        /\ \A j \in Intents \ {i} : /\ payStatus'[j] = payStatus[j]
                                    /\ paySession'[j] = paySession[j]
        /\ RowsStay
        /\ RowsAreOfSessions'
        /\ ActiveRowsDiffer'
    BY <1>1, <1>5, GuardedInsert
  <2>2. createStep'[i] # "lost"
    BY <1>1, <1>5 DEF PayInv, PaymentTypeOK, CreateInsert, CreateEnds, InsertIntent
  <2>3. PaymentTypeOK'
    BY <1>1, <1>2, <2>1 DEF PayInv, PaymentTypeOK, payerVars, webhookVars
  <2>4. NoRowYet' /\ CreatorsKnow'
    BY <1>1, <1>2, <2>1, <2>2 DEF PayInv, NoRowYet, CreatorsKnow
  <2>5. PayersKnow' /\ EventsAreTrue'
    BY <1>1, <1>4, <2>1, BeliefsStay DEF webhookVars
  <2>6. CapturedWasCollected'
    BY <1>1, <2>1 DEF PayInv, CapturedWasCollected
  <2>7. AnswersAreRecorded'
    <3>1. ASSUME NEW j \in Intents, offered'[j] # NoIntent
          PROVE  payStatus'[offered'[j]] # "none" /\ paySession'[offered'[j]] = createSession'[j]
      <4>1. CASE j = i
        BY <1>1, <1>5, <2>1, <3>1, <4>1
      <4>2. CASE j # i
        BY <1>1, <1>2, <2>1, <3>1, <4>2
        DEF PayInv, PaymentTypeOK, AnswersAreRecorded, RowsStay
      <4> QED
        BY <4>1, <4>2
    <3>2. \A p \in Payers : payerStep'[p] = "paid" =>
              payStatus'[payerIntent'[p]] = "captured" /\ paySession'[payerIntent'[p]] = payerSession'[p]
      BY <1>1, <2>1 DEF PayInv, AnswersAreRecorded, PayersKnow, RowsStay, payerVars
    <3>3. \A j \in acked' : payStatus'[j] \in {"captured", "failed"}
      BY <1>1, <2>1 DEF PayInv, PaymentTypeOK, AnswersAreRecorded, RowsStay, webhookVars
    <3> QED
      BY <3>1, <3>2, <3>3 DEF AnswersAreRecorded
  <2> QED
    BY <2>1, <2>3, <2>4, <2>5, <2>6, <2>7 DEF PayInv
<1>6. CASE UNCHANGED payRows /\ createStep'[i] = "lost" /\ offered'[i] = NoIntent
  <2>1. RowsStay
    BY <1>6 DEF RowsStay, payRows
  <2>2. PaymentTypeOK'
    BY <1>1, <1>2, <1>6 DEF PayInv, PaymentTypeOK, payRows, payerVars, webhookVars
  <2>3. RowsAreOfSessions' /\ ActiveRowsDiffer' /\ CapturedWasCollected'
    BY <1>1, <1>6 DEF PayInv, RowsAreOfSessions, ActiveRowsDiffer, IsActive,
                      CapturedWasCollected, payRows
  <2>4. NoRowYet' /\ CreatorsKnow'
    BY <1>1, <1>2, <1>6 DEF PayInv, NoRowYet, CreatorsKnow, payRows
  <2>5. PayersKnow' /\ EventsAreTrue'
    BY <1>1, <1>4, <2>1, BeliefsStay DEF webhookVars
  <2>6. AnswersAreRecorded'
    BY <1>1, <1>2, <1>6 DEF PayInv, AnswersAreRecorded, payRows, payerVars, webhookVars
  <2> QED
    BY <2>2, <2>3, <2>4, <2>5, <2>6 DEF PayInv
<1> QED
  BY <1>3, <1>5, <1>6

-----------------------------------------------------------------------------
\* ConfirmByClient reads, charges and decides: no row changes; it goes on with an
\* active row of its session, and answers "paid" only of a captured one.
LEMMA PayerReadsInv ==
    ASSUME PayInv, NEW p \in Payers,
           \/ \E s \in Sessions, mine \in BOOLEAN : PayerGate(p, s, mine)
           \/ PayerLookup(p) \/ PayerCharge(p) \/ PayerClassify(p) \/ PayerFails(p)
    PROVE  PayInv'
<1> DEFINE Knows == /\ payerIntent'[p] \in Intents
                    /\ payStatus[payerIntent'[p]] # "none"
                    /\ paySession[payerIntent'[p]] = payerSession'[p]
<1>1. UNCHANGED <<payRows, holdGone, createVars, webhookVars>>
  BY DEF PayerGate, PayerLookup, PayerCharge, PayerClassify, PayerFails
<1>2. MoneyStays /\ collected' \in [Intents -> Amounts \union {"nothing", "died", "frozen"}]
  BY DEF PayInv, PaymentTypeOK, PayersKnow, MoneyStays, PayerGate, PayerLookup,
         PayerCharge, PayerClassify, PayerFails
<1>3. RowsStay
  BY <1>1 DEF RowsStay, payRows
<1>4. /\ payerStep' \in [Payers -> {"idle", "gated", "charging", "declined",
                                    "recording", "classifying", "paid",
                                    "ErrHoldNotFound", "ErrPaymentNotCaptured",
                                    "ErrPaymentDeclined", "ErrPaymentInvalidTransition",
                                    "infra"}]
      /\ payerSession' \in [Payers -> Sessions \union {NoSession}]
      /\ payerIntent' \in [Payers -> Intents \union {NoIntent}]
      /\ \A q \in Payers \ {p} : /\ payerStep'[q] = payerStep[q]
                                 /\ payerSession'[q] = payerSession[q]
                                 /\ payerIntent'[q] = payerIntent[q]
      /\ payerStep'[p] \in {"charging", "declined", "recording", "classifying", "paid"} => Knows
      /\ payerStep'[p] \in {"recording", "classifying"} => collected'[payerIntent'[p]] = "frozen"
      /\ payerStep'[p] = "paid" => payStatus[payerIntent'[p]] = "captured"
  <2>1. ASSUME NEW s \in Sessions, NEW mine \in BOOLEAN, PayerGate(p, s, mine)
        PROVE  <1>4!:
    BY <2>1 DEF PayInv, PaymentTypeOK, PayerGate, PayerGoto
  <2>2. CASE PayerLookup(p)
    <3>1. \A j \in ActiveIntents(payerSession[p]) :
              j \in Intents /\ payStatus[j] # "none" /\ paySession[j] = payerSession[p]
      BY DEF ActiveIntents, IsActive
    <3> QED
      BY <2>2, <3>1 DEF PayInv, PaymentTypeOK, PayerLookup, PayerGoto
  <2>3. CASE PayerCharge(p)
    BY <2>3 DEF PayInv, PaymentTypeOK, PayersKnow, PayerCharge, PayerGoto
  <2>4. CASE PayerClassify(p)
    BY <2>4 DEF PayInv, PaymentTypeOK, PayersKnow, PayerClassify, PayerGoto
  <2>5. CASE PayerFails(p)
    BY <2>5 DEF PayInv, PaymentTypeOK, PayerFails, PayerGoto
  <2> QED
    BY <2>1, <2>2, <2>3, <2>4, <2>5
<1>5. PaymentTypeOK'
  BY <1>1, <1>2, <1>4 DEF PayInv, PaymentTypeOK, payRows, createVars, webhookVars
<1>6. RowsAreOfSessions' /\ ActiveRowsDiffer' /\ NoRowYet' /\ CreatorsKnow'
  BY <1>1 DEF PayInv, RowsAreOfSessions, ActiveRowsDiffer, IsActive, NoRowYet,
              CreatorsKnow, payRows, createVars
<1>7. CapturedWasCollected'
  BY <1>1, <1>2 DEF PayInv, CapturedWasCollected, MoneyStays, payRows
<1>8. EventsAreTrue'
  BY <1>1, <1>2, <1>3, BeliefsStay DEF webhookVars
<1>9. PayersKnow'
  BY <1>1, <1>2, <1>4 DEF PayInv, PayersKnow, MoneyStays, payRows
<1>10. AnswersAreRecorded'
  BY <1>1, <1>4 DEF PayInv, AnswersAreRecorded, payRows, createVars, webhookVars
<1> QED
  BY <1>5, <1>6, <1>7, <1>8, <1>9, <1>10 DEF PayInv

\* ConfirmByClient writes: the row it captures has been collected.
LEMMA PayerWritesInv ==
    ASSUME PayInv, NEW p \in Payers, PayerDeclined(p) \/ PayerRecord(p)
    PROVE  PayInv'
<1>1. /\ payerStep[p] \in {"declined", "recording"}
      /\ payerIntent[p] \in Intents
      /\ paySession[payerIntent[p]] = payerSession[p]
      /\ payStatus[payerIntent[p]] # "none"
      /\ payerStep[p] = "recording" => collected[payerIntent[p]] = "frozen"
  BY DEF PayInv, PayersKnow, PayerDeclined, PayerRecord
<1>2. /\ UNCHANGED <<holdGone, collected, createVars, payerSession, payerIntent, webhookVars>>
      /\ \/ CapturePayment(payerIntent[p]) /\ payerStep[p] = "recording"
         \/ FailPayment(payerIntent[p])
         \/ UNCHANGED payRows
  BY DEF PayerDeclined, PayerRecord
<1>3. /\ payStatus' \in [Intents -> {"none", "intent", "captured", "failed"}]
      /\ paySession' = paySession
      /\ RowsStay
      /\ RowsAreOfSessions'
      /\ ActiveRowsDiffer'
      /\ \A j \in Intents : payStatus[j] = "none" => payStatus'[j] = "none"
  <2>1. CASE UNCHANGED payRows
    BY <2>1 DEF PayInv, PaymentTypeOK, RowsStay, RowsAreOfSessions, ActiveRowsDiffer,
                IsActive, payRows
  <2>2. CASE CapturePayment(payerIntent[p]) \/ FailPayment(payerIntent[p])
    BY <1>1, <2>2, GuardedUpdate
  <2> QED
    BY <1>2, <2>1, <2>2
<1>4. /\ payerStep' \in [Payers -> {"idle", "gated", "charging", "declined",
                                    "recording", "classifying", "paid",
                                    "ErrHoldNotFound", "ErrPaymentNotCaptured",
                                    "ErrPaymentDeclined", "ErrPaymentInvalidTransition",
                                    "infra"}]
      /\ \A q \in Payers \ {p} : payerStep'[q] = payerStep[q]
      /\ payerStep'[p] \in {"paid", "classifying", "ErrPaymentDeclined", "infra"}
      /\ payerStep'[p] # "ErrPaymentDeclined" => payerStep[p] = "recording"
      /\ payerStep'[p] = "paid" => payStatus'[payerIntent[p]] = "captured"
  BY <1>1 DEF PayInv, PaymentTypeOK, PayerDeclined, PayerRecord, PayerGoto, CapturePayment
<1>5. MoneyStays
  BY <1>2 DEF MoneyStays
<1>6. PaymentTypeOK'
  BY <1>2, <1>3, <1>4 DEF PayInv, PaymentTypeOK, createVars, webhookVars
<1>7. NoRowYet' /\ CreatorsKnow'
  BY <1>2, <1>3 DEF PayInv, NoRowYet, CreatorsKnow, createVars
<1>8. CapturedWasCollected'
  BY <1>1, <1>2 DEF PayInv, PaymentTypeOK, CapturedWasCollected, CapturePayment,
                    FailPayment, payRows
<1>9. EventsAreTrue'
  BY <1>2, <1>3, <1>5, BeliefsStay DEF webhookVars
<1>10. PayersKnow'
  BY <1>1, <1>2, <1>3, <1>4 DEF PayInv, PayersKnow, RowsStay
<1>11. AnswersAreRecorded'
  <2>1. \A j \in Intents : offered[j] # NoIntent => offered[j] \in Intents
    BY DEF PayInv, PaymentTypeOK
  <2>2. \A q \in Payers : payerStep[q] = "paid" => payerIntent[q] \in Intents
    BY DEF PayInv, PayersKnow
  <2>3. \A j \in acked' : payStatus'[j] \in {"captured", "failed"}
    BY <1>2, <1>3 DEF PayInv, PaymentTypeOK, AnswersAreRecorded, RowsStay, webhookVars
  <2> QED
    BY <1>1, <1>2, <1>3, <1>4, <2>1, <2>2, <2>3
    DEF PayInv, AnswersAreRecorded, RowsStay, createVars
<1> QED
  BY <1>3, <1>6, <1>7, <1>8, <1>9, <1>10, <1>11 DEF PayInv

-----------------------------------------------------------------------------
\* A verified event arrives: it comes from the provider, which tells the truth.
LEMMA WebhookArrivesInv ==
    ASSUME PayInv, NEW w \in Deliveries, NEW i \in Intents, WebhookArrives(w, i)
    PROVE  PayInv'
<1>1. UNCHANGED <<payRows, holdGone, collected, createVars, payerVars, acked>>
  BY DEF WebhookArrives
<1>2. PICK d \in Requests : /\ d.intent = i
                            /\ CanBeSent(d)
                            /\ VerifyWebhook(d)
                            /\ d.kind # "unhandled"
                            /\ webhook' = [webhook EXCEPT ![w] = [kind |-> d.kind, intent |-> i]]
  BY DEF WebhookArrives
<1>3. /\ d.kind \in {"died", "frozen", "other"}
      /\ d.kind = collected[i]
      /\ payStatus[i] # "none"
  BY <1>2 DEF WebhookArrives, Requests, CanBeSent, VerifyWebhook
<1>4. /\ webhook'[w] = [kind |-> d.kind, intent |-> i]
      /\ \A v \in Deliveries \ {w} : webhook'[v] = webhook[v]
      /\ webhook' \in [Deliveries -> [kind : {"none", "died", "frozen", "other"},
                                      intent : Intents \union {NoIntent}]]
  BY <1>2, <1>3 DEF PayInv, PaymentTypeOK
<1>5. PaymentTypeOK'
  BY <1>1, <1>4 DEF PayInv, PaymentTypeOK, payRows, createVars, payerVars
<1>6. RowsAreOfSessions' /\ ActiveRowsDiffer' /\ NoRowYet' /\ CreatorsKnow'
  BY <1>1 DEF PayInv, RowsAreOfSessions, ActiveRowsDiffer, IsActive, NoRowYet,
              CreatorsKnow, payRows, createVars
<1>7. PayersKnow' /\ CapturedWasCollected' /\ AnswersAreRecorded'
  BY <1>1 DEF PayInv, PayersKnow, CapturedWasCollected, AnswersAreRecorded, payRows,
              createVars, payerVars
<1>8. EventsAreTrue'
  BY <1>1, <1>3, <1>4 DEF PayInv, EventsAreTrue, NoEvent, payRows
<1> QED
  BY <1>5, <1>6, <1>7, <1>8 DEF PayInv

\* An event is applied, or not: the row it captures has been collected in full.
LEMMA WebhookEndsInv ==
    ASSUME PayInv, NEW w \in Deliveries, WebhookApplies(w) \/ WebhookFails(w)
    PROVE  PayInv'
<1> DEFINE i == webhook[w].intent
<1>1. /\ i \in Intents
      /\ payStatus[i] # "none"
      /\ webhook[w].kind = "frozen" => collected[i] = "frozen"
  BY DEF PayInv, EventsAreTrue, WebhookApplies, WebhookFails
<1>2. /\ UNCHANGED <<holdGone, collected, createVars, payerVars>>
      /\ acked' \subseteq Intents
      /\ webhook' = [webhook EXCEPT ![w] = NoEvent]
      /\ \/ CapturePayment(i) /\ webhook[w].kind = "frozen"
         \/ FailPayment(i)
         \/ UNCHANGED payRows
  BY <1>1 DEF PayInv, PaymentTypeOK, WebhookApplies, WebhookFails, WebhookAcked, WebhookEnds
<1>3. /\ payStatus' \in [Intents -> {"none", "intent", "captured", "failed"}]
      /\ paySession' = paySession
      /\ RowsStay
      /\ RowsAreOfSessions'
      /\ ActiveRowsDiffer'
      /\ \A j \in Intents : payStatus[j] = "none" => payStatus'[j] = "none"
  <2>1. CASE UNCHANGED payRows
    BY <2>1 DEF PayInv, PaymentTypeOK, RowsStay, RowsAreOfSessions, ActiveRowsDiffer,
                IsActive, payRows
  <2>2. CASE CapturePayment(i) \/ FailPayment(i)
    BY <1>1, <2>2, GuardedUpdate
  <2> QED
    BY <1>2, <2>1, <2>2
<1>4. MoneyStays
  BY <1>2 DEF MoneyStays
<1>5. /\ webhook' \in [Deliveries -> [kind : {"none", "died", "frozen", "other"},
                                      intent : Intents \union {NoIntent}]]
      /\ \A v \in Deliveries : webhook'[v] \in {webhook[v], NoEvent}
  BY <1>2 DEF PayInv, PaymentTypeOK, NoEvent
<1>6. PaymentTypeOK'
  BY <1>2, <1>3, <1>5 DEF PayInv, PaymentTypeOK, createVars, payerVars
<1>7. NoRowYet' /\ CreatorsKnow'
  BY <1>2, <1>3 DEF PayInv, NoRowYet, CreatorsKnow, createVars
<1>8. CapturedWasCollected'
  BY <1>1, <1>2 DEF PayInv, PaymentTypeOK, CapturedWasCollected, CapturePayment,
                    FailPayment, payRows
<1>9. PayersKnow' /\ AnswersAreRecorded'
  <2>1. PayersKnow'
    BY <1>2, <1>3, <1>4, BeliefsStay
  <2>2. \A j \in acked' : payStatus'[j] \in {"captured", "failed"}
    <3>1. \A j \in acked : payStatus'[j] \in {"captured", "failed"}
      BY <1>3 DEF PayInv, PaymentTypeOK, AnswersAreRecorded, RowsStay
    <3>2. \/ acked' = acked
          \/ /\ acked' = acked \union {i}
             /\ CapturePayment(i) \/ FailPayment(i)
      BY DEF WebhookApplies, WebhookFails, WebhookAcked
    <3>3. CapturePayment(i) \/ FailPayment(i) => payStatus'[i] \in {"captured", "failed"}
      BY <1>1 DEF PayInv, PaymentTypeOK, CapturePayment, FailPayment, IsOpen
    <3> QED
      BY <3>1, <3>2, <3>3
  <2>3. /\ \A j \in Intents : offered[j] # NoIntent => offered[j] \in Intents
        /\ \A p \in Payers : payerStep[p] = "paid" => payerIntent[p] \in Intents
    BY DEF PayInv, PaymentTypeOK, PayersKnow
  <2> QED
    BY <1>2, <1>3, <2>1, <2>2, <2>3
    DEF PayInv, AnswersAreRecorded, RowsStay, createVars, payerVars
<1>10. EventsAreTrue'
  <2> SUFFICES ASSUME NEW v \in Deliveries, webhook'[v] # NoEvent
               PROVE  /\ webhook'[v].intent \in Intents
                      /\ payStatus'[webhook'[v].intent] # "none"
                      /\ webhook'[v].kind # "none"
                      /\ webhook'[v].kind = collected'[webhook'[v].intent]
    BY DEF EventsAreTrue, NoEvent
  <2> QED
    BY <1>2, <1>3, <1>5 DEF PayInv, EventsAreTrue, RowsStay
<1> QED
  BY <1>3, <1>6, <1>7, <1>8, <1>9, <1>10 DEF PayInv

-----------------------------------------------------------------------------
\* Every step of the payment service keeps the invariant.
LEMMA PaymentStepInv == PayInv /\ [PaymentNext]_paymentVars => PayInv'
<1> SUFFICES ASSUME PayInv, [PaymentNext]_paymentVars PROVE PayInv'
  OBVIOUS
<1>1. CASE \E s \in Sessions : HoldEnds(s)
  BY <1>1, WorldInv
<1>2. CASE \E i \in Intents : ProviderSettles(i)
  BY <1>2, WorldInv
<1>3. ASSUME NEW i \in Intents, CreateNext(i) PROVE PayInv'
  BY <1>3, CreateReadsInv, CreateInsertInv DEF CreateNext
<1>4. ASSUME NEW p \in Payers, PayerNext(p) PROVE PayInv'
  BY <1>4, PayerReadsInv, PayerWritesInv DEF PayerNext
<1>5. CASE \E w \in Deliveries, i \in Intents : WebhookArrives(w, i)
  BY <1>5, WebhookArrivesInv
<1>6. CASE \E w \in Deliveries : WebhookApplies(w) \/ WebhookFails(w)
  BY <1>6, WebhookEndsInv
<1>7. CASE UNCHANGED paymentVars
  BY <1>7 DEF PayInv, PaymentTypeOK, RowsAreOfSessions, ActiveRowsDiffer, IsActive,
              NoRowYet, CreatorsKnow, PayersKnow, EventsAreTrue, NoEvent,
              CapturedWasCollected, AnswersAreRecorded, paymentVars, payRows,
              createVars, payerVars, webhookVars
<1> QED
  BY <1>1, <1>2, <1>3, <1>4, <1>5, <1>6, <1>7 DEF PaymentNext

\* In every behaviour of the payment service the invariant holds.
THEOREM PaymentInvariant == PaymentSpec => []PayInv
<1>1. PaymentInit => PayInv
  BY PaymentInitInv
<1>2. PayInv /\ [PaymentNext]_paymentVars => PayInv'
  BY PaymentStepInv
<1> QED
  BY <1>1, <1>2, PTL DEF PaymentSpec

\* The payment service keeps to its types.
THEOREM PaymentTypeCorrect == PaymentSpec => []PaymentTypeOK
<1>1. PayInv => PaymentTypeOK
  BY DEF PayInv
<1> QED
  BY <1>1, PaymentInvariant, PTL

\* However many calls of CreateIntent race for a session, it has at most one
\* intent that is not failed: no double charge.
THEOREM OnlyOneActiveIntent == PaymentSpec => []OneActiveIntent
<1>1. PayInv => OneActiveIntent
  <2> SUFFICES ASSUME PayInv, NEW s \in Sessions
               PROVE  Cardinality(ActiveIntents(s)) <= 1
    BY DEF OneActiveIntent
  <2>1. CASE ActiveIntents(s) = {}
    BY <2>1, FS_EmptySet
  <2>2. ASSUME NEW i \in ActiveIntents(s)
        PROVE  Cardinality(ActiveIntents(s)) <= 1
    <3>1. ActiveIntents(s) = {i}
      BY <2>2 DEF PayInv, ActiveRowsDiffer, ActiveIntents
    <3>2. Cardinality({i}) = 1
      BY FS_Singleton
    <3> QED
      BY <3>1, <3>2
  <2> QED
    BY <2>1, <2>2
<1> QED
  BY <1>1, PaymentInvariant, PTL

\* A row that says captured is of an intent whose frozen amount the provider has
\* collected.
THEOREM CapturedIsTrue == PaymentSpec => []CapturedWasCollected
<1>1. PayInv => CapturedWasCollected
  BY DEF PayInv
<1> QED
  BY <1>1, PaymentInvariant, PTL

\* No client is given an intent without a row, or told "paid" without a captured
\* row of its own session, and no event is acknowledged that has not been
\* written down.
THEOREM AnswersHaveRows == PaymentSpec => []AnswersAreRecorded
<1>1. PayInv => AnswersAreRecorded
  BY DEF PayInv
<1> QED
  BY <1>1, PaymentInvariant, PTL

-----------------------------------------------------------------------------
\* What a step does to the rows: at most one of them is inserted, captured or
\* failed, each under its guard.
LEMMA RowSteps ==
    ASSUME PayInv, [PaymentNext]_paymentVars
    PROVE  \/ UNCHANGED payRows
           \/ \E i \in Intents : /\ createStep[i] = "minted"
                                 /\ InsertIntent(i, createSession[i])
           \/ \E i \in Intents : /\ payStatus[i] # "none"
                                 /\ CapturePayment(i) \/ FailPayment(i)
<1>1. CASE UNCHANGED paymentVars
  BY <1>1 DEF paymentVars
<1>2. CASE \E s \in Sessions : HoldEnds(s)
  BY <1>2 DEF HoldEnds
<1>3. ASSUME NEW i \in Intents, ProviderSettles(i) \/ CreateNext(i)
      PROVE  \/ UNCHANGED payRows
             \/ createStep[i] = "minted" /\ InsertIntent(i, createSession[i])
  BY <1>3 DEF ProviderSettles, CreateNext, CreateGate, CreateLookup, CreateMint,
              CreateInsert, CreateRecover, CreateFails
<1>4. ASSUME NEW p \in Payers, PayerNext(p)
      PROVE  \/ UNCHANGED payRows
             \/ /\ payerIntent[p] \in Intents /\ payStatus[payerIntent[p]] # "none"
                /\ CapturePayment(payerIntent[p]) \/ FailPayment(payerIntent[p])
  <2>1. CASE PayerDeclined(p) \/ PayerRecord(p)
    BY <2>1 DEF PayInv, PayersKnow, PayerDeclined, PayerRecord
  <2>2. CASE ~(PayerDeclined(p) \/ PayerRecord(p))
    BY <1>4, <2>2 DEF PayerNext, PayerGate, PayerLookup, PayerCharge, PayerClassify, PayerFails
  <2> QED
    BY <2>1, <2>2
<1>5. CASE \E w \in Deliveries, i \in Intents : WebhookArrives(w, i)
  BY <1>5 DEF WebhookArrives
<1>6. ASSUME NEW w \in Deliveries, WebhookApplies(w) \/ WebhookFails(w)
      PROVE  \/ UNCHANGED payRows
             \/ /\ webhook[w].intent \in Intents /\ payStatus[webhook[w].intent] # "none"
                /\ CapturePayment(webhook[w].intent) \/ FailPayment(webhook[w].intent)
  BY <1>6 DEF PayInv, EventsAreTrue, WebhookApplies, WebhookFails
<1> QED
  BY <1>1, <1>2, <1>3, <1>4, <1>5, <1>6 DEF PaymentNext

\* The UPDATEs allow exactly the edges of Status.CanTransitionTo, whatever
\* events and calls come in whatever order.
THEOREM StateMachineIsKept == PaymentSpec => RowsFollowStateMachine
<1>1. ASSUME PayInv, [PaymentNext]_paymentVars
      PROVE  \A i \in Intents : payStatus[i] \notin {"none", payStatus'[i]} =>
                 CanTransitionTo(payStatus[i], payStatus'[i])
  <2>1. CASE UNCHANGED payRows
    BY <2>1 DEF payRows
  <2>2. ASSUME NEW i \in Intents, createStep[i] = "minted",
               InsertIntent(i, createSession[i])
        PROVE  \A j \in Intents : payStatus[j] = "none" \/ payStatus'[j] = payStatus[j]
    BY <1>1, <2>2 DEF PayInv, PaymentTypeOK, NoRowYet, InsertIntent
  <2>3. ASSUME NEW i \in Intents, CapturePayment(i) \/ FailPayment(i)
        PROVE  \A j \in Intents : \/ payStatus'[j] = payStatus[j]
                                  \/ /\ payStatus[j] = "intent"
                                     /\ payStatus'[j] \in {"captured", "failed"}
    BY <1>1, <2>3 DEF PayInv, PaymentTypeOK, CapturePayment, FailPayment, IsOpen
  <2> QED
    BY <1>1, <2>1, <2>2, <2>3, RowSteps DEF CanTransitionTo
<1>2. PayInv /\ [PaymentNext]_paymentVars =>
          [\A i \in Intents : payStatus[i] \notin {"none", payStatus'[i]} =>
               CanTransitionTo(payStatus[i], payStatus'[i])]_paymentVars
  BY <1>1
<1> QED
  BY <1>2, PaymentInvariant, PTL DEF PaymentSpec, RowsFollowStateMachine

\* A step of the payment service opens the gate for at most one session, and
\* never closes it.
LEMMA GateStep ==
    ASSUME PayInv, [PaymentNext]_paymentVars
    PROVE  LET gate == {s \in Sessions : HasCapturedPayment(s)}
           IN  gate' = gate \/ \E s \in Sessions : gate' = gate \union {s}
<1> DEFINE gate == {s \in Sessions : HasCapturedPayment(s)}
<1>1. CASE UNCHANGED payRows
  BY <1>1 DEF HasCapturedPayment, payRows
<1>2. ASSUME NEW i \in Intents, createStep[i] = "minted",
             InsertIntent(i, createSession[i])
      PROVE  gate' = gate
  <2>1. /\ payStatus[i] = "none" /\ payStatus'[i] = "intent"
        /\ \A j \in Intents \ {i} : /\ payStatus'[j] = payStatus[j]
                                    /\ paySession'[j] = paySession[j]
    BY <1>2 DEF PayInv, PaymentTypeOK, NoRowYet, InsertIntent
  <2> QED
    BY <2>1 DEF HasCapturedPayment
<1>3. ASSUME NEW i \in Intents, payStatus[i] # "none", CapturePayment(i) \/ FailPayment(i)
      PROVE  gate' = gate \/ gate' = gate \union {paySession[i]}
  <2>1. /\ paySession' = paySession
        /\ \A j \in Intents \ {i} : payStatus'[j] = payStatus[j]
        /\ payStatus[i] = "captured" => payStatus'[i] = "captured"
        /\ paySession[i] \in Sessions
    BY <1>3 DEF PayInv, PaymentTypeOK, RowsAreOfSessions, CapturePayment, FailPayment, IsOpen
  <2>2. CASE payStatus'[i] = "captured"
    BY <2>1, <2>2 DEF HasCapturedPayment
  <2>3. CASE payStatus'[i] # "captured"
    BY <2>1, <2>3 DEF HasCapturedPayment
  <2> QED
    BY <2>2, <2>3
<1> QED
  BY <1>1, <1>2, <1>3, RowSteps DEF PayInv, RowsAreOfSessions

\* The gate that Service.Confirm reads outside its transaction never closes: each
\* step of the payment service opens it for at most one session.
THEOREM ServiceImplementsGate == PaymentSpec => ImplementsGate
<1> DEFINE gate == {s \in Sessions : HasCapturedPayment(s)}
<1>1. PaymentInit => Gate!GateInit
  BY DEF PaymentInit, PayInit, HasCapturedPayment, Gate!GateInit
<1>2. PayInv /\ [PaymentNext]_paymentVars => [Gate!GateNext]_gate
  BY GateStep DEF Gate!GateNext, Gate!Collect
<1> QED
  BY <1>1, <1>2, PaymentInvariant, PTL DEF PaymentSpec, ImplementsGate, Gate!GateSpec

=============================================================================
