---------------------------- MODULE PaymentService ----------------------------
(***************************************************************************)
(* The payment use cases: internal/application/payment/service.go, between *)
(* the hold store, the payment gateway and the payments table              *)
(* (PaymentStore).  A call of CreateIntent is named by the intent it may   *)
(* mint; calls of ConfirmByClient are Payers; Deliveries are the webhook   *)
(* requests in progress, of which there may be any number over time.       *)
(*                                                                         *)
(* The provider is external: it is known by the PaymentGateway port and by *)
(* what the handlers have to expect of it.  It collects the money of an    *)
(* intent at most once, by our CaptureIntent or by the buyer's dealing     *)
(* with it directly; it tells the truth, late, in any order, and again     *)
(* until it is answered 200.  Who does not know the webhook secret may     *)
(* tell anything.                                                          *)
(***************************************************************************)
EXTENDS PaymentStore, Integers

CONSTANTS
    Payers,          \* calls of ConfirmByClient
    Deliveries,      \* webhook requests handled at the same time
    Amounts,         \* what the provider may collect: "frozen", or "other"
    DealsDirectly,   \* whether buyers can pay the provider without CaptureIntent
    LosesReplies,    \* whether a reply of CaptureIntent can be lost
    Tolerance        \* webhookTolerance: how old a signature may be

ASSUME PaymentAssumption ==
    /\ Amounts \subseteq {"frozen", "other"}
    /\ DealsDirectly \in BOOLEAN
    /\ LosesReplies \in BOOLEAN
    /\ Tolerance \in Nat
    /\ NoIntent \notin Intents

VARIABLES
    holdGone,       \* sessions whose hold has expired or was released
    collected,      \* per intent, at the provider: "nothing", "died", an amount
    createStep,     \* per CreateIntent call: how far it has come
    createSession,  \* per CreateIntent call: the session it is for
    offered,        \* per CreateIntent call: the intent its client was given
    payerStep,      \* per ConfirmByClient call: how far it has come
    payerSession,   \* per ConfirmByClient call: the session it is for
    payerIntent,    \* per ConfirmByClient call: the row it read
    webhook,        \* per delivery: the event being applied
    acked           \* intents of which the provider was answered 200

createVars  == <<createStep, createSession, offered>>
payerVars   == <<payerStep, payerSession, payerIntent>>
webhookVars == <<webhook, acked>>
paymentVars == <<payRows, holdGone, collected, createVars, payerVars, webhookVars>>

NoEvent == [kind |-> "none", intent |-> NoIntent]

\* holdGate: a live hold of this user, at the moment it is read.  The three ways
\* to fail are one outcome here, "ErrHoldNotFound": they have one response.
HoldGate(s, mine) == mine /\ s \notin holdGone

-----------------------------------------------------------------------------
(* The world around the service *)

\* A hold expires, is released, or is cleaned up after a confirm.
HoldEnds(s) ==
    /\ holdGone' = holdGone \union {s}
    /\ UNCHANGED <<payRows, collected, createVars, payerVars, webhookVars>>

\* The intents some client knows of and can pay.
Payable == {offered[i] : i \in Intents} \ {NoIntent}

\* The buyer deals with the provider directly, which collects or declines; the
\* sandbox gateway has no such way to pay.
ProviderSettles(i) ==
    /\ DealsDirectly
    /\ i \in Payable
    /\ collected[i] = "nothing"
    /\ \E end \in Amounts \union {"died"} :
          collected' = [collected EXCEPT ![i] = end]
    /\ UNCHANGED <<payRows, holdGone, createVars, payerVars, webhookVars>>

-----------------------------------------------------------------------------
(* Service.CreateIntent *)

CreateEnds(i, end, given) ==
    /\ createStep' = [createStep EXCEPT ![i] = end]
    /\ offered' = [offered EXCEPT ![i] = given]

\* The hold gate.
CreateGate(i, s, mine) ==
    /\ createStep[i] = "idle"
    /\ createSession' = [createSession EXCEPT ![i] = s]
    /\ createStep' = [createStep EXCEPT ![i] =
                         IF HoldGate(s, mine) THEN "gated" ELSE "ErrHoldNotFound"]
    /\ UNCHANGED <<payRows, holdGone, collected, offered, payerVars, webhookVars>>

\* Reuse before minting.
CreateLookup(i) ==
    /\ createStep[i] = "gated"
    /\ IF ActiveIntents(createSession[i]) = {}
         THEN CreateEnds(i, "absent", NoIntent)
         ELSE \E j \in ActiveIntents(createSession[i]) : CreateEnds(i, "reused", j)
    /\ UNCHANGED <<payRows, holdGone, collected, createSession, payerVars, webhookVars>>

\* gateway.CreateIntent, with the screening's price.
CreateMint(i) ==
    /\ createStep[i] = "absent"
    /\ CreateEnds(i, "minted", NoIntent)
    /\ UNCHANGED <<payRows, holdGone, collected, createSession, payerVars, webhookVars>>

\* store.InsertIntent; its reply is lost when the call ends in an error.
CreateInsert(i) ==
    /\ createStep[i] = "minted"
    /\ \/ /\ InsertIntent(i, createSession[i])
          /\ \/ CreateEnds(i, "created", i)
             \/ CreateEnds(i, "infra", NoIntent)
       \/ /\ ActiveIntents(createSession[i]) # {}
          /\ CreateEnds(i, "lost", NoIntent)
          /\ UNCHANGED payRows
    /\ UNCHANGED <<holdGone, collected, createSession, payerVars, webhookVars>>

\* Mutant: the loser of the race gives its client the intent it minted itself.
CreateKeepsOwn(i) ==
    /\ createStep[i] = "lost"
    /\ CreateEnds(i, "reused", i)
    /\ UNCHANGED <<payRows, holdGone, collected, createSession, payerVars, webhookVars>>

\* Mutant: a winner that has failed meanwhile surfaces as "not found".
CreateSurfacesNothing(i) ==
    /\ createStep[i] = "lost"
    /\ IF ActiveIntents(createSession[i]) = {}
         THEN CreateEnds(i, "ErrPaymentNotFound", NoIntent)
         ELSE \E j \in ActiveIntents(createSession[i]) : CreateEnds(i, "reused", j)
    /\ UNCHANGED <<payRows, holdGone, collected, createSession, payerVars, webhookVars>>

\* The loser of the race reads the winner back.  The conflict itself is its
\* answer when the winner has failed meanwhile, or when the read does.
CreateRecover(i) ==
    /\ createStep[i] = "lost"
    /\ \/ CreateEnds(i, "ErrPaymentIntentExists", NoIntent)
       \/ \E j \in ActiveIntents(createSession[i]) : CreateEnds(i, "reused", j)
    /\ UNCHANGED <<payRows, holdGone, collected, createSession, payerVars, webhookVars>>

\* A failed lookup, a gateway outage, a cancelled request or a crash.
CreateFails(i) ==
    /\ createStep[i] \in {"gated", "absent", "minted", "lost"}
    /\ CreateEnds(i, "infra", NoIntent)
    /\ UNCHANGED <<payRows, holdGone, collected, createSession, payerVars, webhookVars>>

-----------------------------------------------------------------------------
(* Service.ConfirmByClient *)

PayerGoto(p, next) == payerStep' = [payerStep EXCEPT ![p] = next]

PayerGate(p, s, mine) ==
    /\ payerStep[p] = "idle"
    /\ payerSession' = [payerSession EXCEPT ![p] = s]
    /\ PayerGoto(p, IF HoldGate(s, mine) THEN "gated" ELSE "ErrHoldNotFound")
    /\ UNCHANGED <<payRows, holdGone, collected, createVars, payerIntent, webhookVars>>

\* Mutant: an intent that is there is taken for a paid one.
PayerLookupTrusts(p) ==
    /\ payerStep[p] = "gated"
    /\ IF ActiveIntents(payerSession[p]) = {}
         THEN PayerGoto(p, "ErrPaymentNotCaptured") /\ UNCHANGED payerIntent
         ELSE \E i \in ActiveIntents(payerSession[p]) :
                 /\ payerIntent' = [payerIntent EXCEPT ![p] = i]
                 /\ PayerGoto(p, "paid")
    /\ UNCHANGED <<payRows, holdGone, collected, createVars, payerSession, webhookVars>>

\* The session's active intent, if there is one, and whether it is paid.
PayerLookup(p) ==
    /\ payerStep[p] = "gated"
    /\ IF ActiveIntents(payerSession[p]) = {}
         THEN PayerGoto(p, "ErrPaymentNotCaptured") /\ UNCHANGED payerIntent
         ELSE \E i \in ActiveIntents(payerSession[p]) :
                 /\ payerIntent' = [payerIntent EXCEPT ![p] = i]
                 /\ PayerGoto(p, IF payStatus[i] = "captured" THEN "paid"
                                                              ELSE "charging")
    /\ UNCHANGED <<payRows, holdGone, collected, createVars, payerSession, webhookVars>>

\* gateway.CaptureIntent: the money moves, or has moved before, or does not.
PayerCharge(p) ==
    LET i == payerIntent[p]
    IN  /\ payerStep[p] = "charging"
        /\ \/ /\ collected[i] \in {"nothing", "frozen"}
              /\ collected' = [collected EXCEPT ![i] = "frozen"]
              /\ \/ PayerGoto(p, "recording")
                 \/ LosesReplies /\ PayerGoto(p, "declined")
           \/ /\ PayerGoto(p, "declined")
              /\ UNCHANGED collected
        /\ UNCHANGED <<payRows, holdGone, createVars, payerSession, payerIntent, webhookVars>>

\* Best-effort MarkFailed; the answer is the same when the write fails.
PayerDeclined(p) ==
    /\ payerStep[p] = "declined"
    /\ FailPayment(payerIntent[p]) \/ UNCHANGED payRows
    /\ PayerGoto(p, "ErrPaymentDeclined")
    /\ UNCHANGED <<holdGone, collected, createVars, payerSession, payerIntent, webhookVars>>

\* store.Capture: the UPDATE, which matches the row or no row; its reply is lost
\* when the call ends in an error.
PayerRecord(p) ==
    /\ payerStep[p] = "recording"
    /\ CapturePayment(payerIntent[p])
    /\ \/ PayerGoto(p, IF IsOpen(payerIntent[p]) THEN "paid" ELSE "classifying")
       \/ PayerGoto(p, "infra")
    /\ UNCHANGED <<holdGone, collected, createVars, payerSession, payerIntent, webhookVars>>

\* store.Capture: the SELECT that tells a replay from a dead intent.
PayerClassify(p) ==
    /\ payerStep[p] = "classifying"
    /\ PayerGoto(p, IF payStatus[payerIntent[p]] = "captured"
                       THEN "paid" ELSE "ErrPaymentInvalidTransition")
    /\ UNCHANGED <<payRows, holdGone, collected, createVars, payerSession,
                   payerIntent, webhookVars>>

\* A failed statement, a cancelled request or a crash.
PayerFails(p) ==
    /\ payerStep[p] \in {"gated", "charging", "recording", "classifying"}
    /\ PayerGoto(p, "infra")
    /\ UNCHANGED <<payRows, holdGone, collected, createVars, payerSession,
                   payerIntent, webhookVars>>

-----------------------------------------------------------------------------
(* PaymentWebhookHandler, FakeGateway.VerifyWebhook, Service.HandleWebhook *)

\* A request to the webhook route: whether header and body have the shape that
\* parses, how far its timestamp is from our clock, whose secret signed it, and
\* the event in it.
Requests ==
    [wellFormed : BOOLEAN,
     age : {0, Tolerance, Tolerance + 1, -(Tolerance + 1)},
     signer : {"provider", "stranger"},
     kind : {"died", "frozen", "other", "unhandled"},
     intent : Intents]

\* The provider tells what happened to the money; anyone else tells anything.
CanBeSent(d) ==
    d.signer = "provider" =>
        \/ d.kind = "unhandled"
        \/ collected[d.intent] # "nothing" /\ d.kind = collected[d.intent]

\* Mutant: the signature is not compared.
VerifyShapeOnly(d) == d.wellFormed /\ d.age \in -Tolerance..Tolerance

VerifyWebhook(d) ==
    /\ d.wellFormed
    /\ d.age \in -Tolerance..Tolerance
    /\ d.signer = "provider"

\* A verified event, and the row it is about.  A request that does not verify
\* is answered 400, an unknown intent or kind 200, and nothing changes.
WebhookArrives(w, i) ==
    /\ webhook[w] = NoEvent
    /\ payStatus[i] # "none"
    /\ \E d \in Requests :
          /\ d.intent = i
          /\ CanBeSent(d)
          /\ VerifyWebhook(d)
          /\ d.kind # "unhandled"
          /\ webhook' = [webhook EXCEPT ![w] = [kind |-> d.kind, intent |-> i]]
    /\ UNCHANGED <<payRows, holdGone, collected, createVars, payerVars, acked>>

WebhookEnds(w) == webhook' = [webhook EXCEPT ![w] = NoEvent]

WebhookAcked(w) ==
    /\ WebhookEnds(w)
    /\ acked' = acked \union {webhook[w].intent}

\* Mutant: the amount of the event is not compared with the row's.
WebhookAppliesAny(w) ==
    /\ webhook[w] # NoEvent
    /\ IF webhook[w].kind = "died" THEN FailPayment(webhook[w].intent)
                                   ELSE CapturePayment(webhook[w].intent)
    /\ WebhookAcked(w)
    /\ UNCHANGED <<holdGone, collected, createVars, payerVars>>

\* A captured event of the frozen amount captures the row; a failed event, and
\* an amount that does not match, fail it; both under the guard of the store.
WebhookApplies(w) ==
    /\ webhook[w] # NoEvent
    /\ IF webhook[w].kind = "frozen" THEN CapturePayment(webhook[w].intent)
                                     ELSE FailPayment(webhook[w].intent)
    /\ WebhookAcked(w)
    /\ UNCHANGED <<holdGone, collected, createVars, payerVars>>

\* Mutant: an infrastructure error is answered 200 like everything else.
WebhookFailsQuietly(w) ==
    /\ webhook[w] # NoEvent
    /\ WebhookAcked(w)
    /\ UNCHANGED <<payRows, holdGone, collected, createVars, payerVars>>

\* An infrastructure error, answered 500, or a crash: it will be sent again.
WebhookFails(w) ==
    /\ webhook[w] # NoEvent
    /\ WebhookEnds(w)
    /\ UNCHANGED <<payRows, holdGone, collected, createVars, payerVars, acked>>

-----------------------------------------------------------------------------
PaymentInit ==
    /\ PayInit
    /\ holdGone = {}
    /\ collected = [i \in Intents |-> "nothing"]
    /\ createStep = [i \in Intents |-> "idle"]
    /\ createSession = [i \in Intents |-> NoSession]
    /\ offered = [i \in Intents |-> NoIntent]
    /\ payerStep = [p \in Payers |-> "idle"]
    /\ payerSession = [p \in Payers |-> NoSession]
    /\ payerIntent = [p \in Payers |-> NoIntent]
    /\ webhook = [w \in Deliveries |-> NoEvent]
    /\ acked = {}

CreateNext(i) ==
    \/ \E s \in Sessions, mine \in BOOLEAN : CreateGate(i, s, mine)
    \/ CreateLookup(i)
    \/ CreateMint(i)
    \/ CreateInsert(i)
    \/ CreateRecover(i)
    \/ CreateFails(i)

PayerNext(p) ==
    \/ \E s \in Sessions, mine \in BOOLEAN : PayerGate(p, s, mine)
    \/ PayerLookup(p)
    \/ PayerCharge(p)
    \/ PayerDeclined(p)
    \/ PayerRecord(p)
    \/ PayerClassify(p)
    \/ PayerFails(p)

PaymentNext ==
    \/ \E s \in Sessions : HoldEnds(s)
    \/ \E i \in Intents : ProviderSettles(i) \/ CreateNext(i)
    \/ \E p \in Payers : PayerNext(p)
    \/ \E w \in Deliveries, i \in Intents : WebhookArrives(w, i)
    \/ \E w \in Deliveries : WebhookApplies(w) \/ WebhookFails(w)

PaymentSpec == PaymentInit /\ [][PaymentNext]_paymentVars

\* The provider sends an event until it is answered 200, and gets it delivered;
\* a webhook handler that keeps being asked is not always hit by an error.
FairPaymentSpec ==
    /\ PaymentSpec
    /\ \A w \in Deliveries, i \in Intents :
          /\ SF_paymentVars(/\ i \notin acked
                            /\ WebhookArrives(w, i)
                            /\ webhook'[w].kind = collected[i])
          /\ SF_paymentVars(webhook[w].intent = i /\ WebhookApplies(w))

-----------------------------------------------------------------------------
(* What the service guarantees *)

\* The type invariant of the payment service and its table.
PaymentTypeOK ==
    /\ payStatus \in [Intents -> {"none", "intent", "captured", "failed"}]
    /\ paySession \in [Intents -> Sessions \union {NoSession}]
    /\ holdGone \subseteq Sessions
    /\ collected \in [Intents -> Amounts \union {"nothing", "died", "frozen"}]
    /\ createStep \in [Intents -> {"idle", "gated", "absent", "minted", "lost",
                                   "created", "reused", "ErrHoldNotFound",
                                   "ErrPaymentIntentExists", "infra"}]
    /\ createSession \in [Intents -> Sessions \union {NoSession}]
    /\ offered \in [Intents -> Intents \union {NoIntent}]
    /\ payerStep \in [Payers -> {"idle", "gated", "charging", "declined",
                                 "recording", "classifying", "paid",
                                 "ErrHoldNotFound", "ErrPaymentNotCaptured",
                                 "ErrPaymentDeclined", "ErrPaymentInvalidTransition",
                                 "infra"}]
    /\ payerSession \in [Payers -> Sessions \union {NoSession}]
    /\ payerIntent \in [Payers -> Intents \union {NoIntent}]
    /\ webhook \in [Deliveries ->
                      [kind : {"none", "died", "frozen", "other"},
                       intent : Intents \union {NoIntent}]]
    /\ acked \subseteq Intents

\* A double-clicked pay button never leaves two live intents for one seat:
\* CreateIntent checks before it mints, and two calls can both pass the check.
OneActiveIntent ==
    \A s \in Sessions : Cardinality(ActiveIntents(s)) <= 1

\* A row says captured only when the provider collected exactly the amount that
\* was frozen, whichever of the client and the webhooks came first.
CapturedWasCollected ==
    \A i \in Intents : payStatus[i] = "captured" => collected[i] = "frozen"

\* Every answer refers to a row: a client is never given an intent that only the
\* gateway knows, or of another session; "paid" means there is a captured row;
\* and what the provider was answered 200 for, and so will not tell again, has
\* been written down, whatever else raced for the row.
AnswersAreRecorded ==
    /\ \A i \in Intents : offered[i] # NoIntent =>
          /\ payStatus[offered[i]] # "none"
          /\ paySession[offered[i]] = createSession[i]
    /\ \A p \in Payers : payerStep[p] = "paid" =>
          /\ payStatus[payerIntent[p]] = "captured"
          /\ paySession[payerIntent[p]] = payerSession[p]
    /\ \A i \in acked : payStatus[i] \in {"captured", "failed"}

\* The guards in SQL allow exactly the edges of the domain's state machine:
\* duplicated, late and contradictory events included.
RowsFollowStateMachine ==
    [][\A i \in Intents :
          payStatus[i] \notin {"none", payStatus'[i]} =>
              CanTransitionTo(payStatus[i], payStatus'[i])]_paymentVars

Gate == INSTANCE PaymentGate WITH paid <- {s \in Sessions : HasCapturedPayment(s)}

\* The payment side keeps the promise the booking side is built on: the gate
\* of Service.Confirm never closes again for a session it has opened for.
ImplementsGate == Gate!GateSpec

\* Money that moved at the provider does not stay unknown: when the call that
\* moved it dies before store.Capture, the webhook settles the row.
CollectedIsSettled ==
    \A i \in Intents :
        collected[i] = "frozen" ~> payStatus[i] \in {"captured", "failed"}

-----------------------------------------------------------------------------
(* What the documents say, and the code does not do *)

\* "`402 payment_declined` (gateway refused; the intent is marked failed and a
\* superseding intent can be minted)" (docs/api.md): a client is not told so
\* while the row of the intent it tried says captured.
DeclinedIsNotPaid ==
    [][\A p \in Payers :
          payerStep[p] # "ErrPaymentDeclined" /\ payerStep'[p] = "ErrPaymentDeclined" =>
              payStatus'[payerIntent[p]] # "captured"]_paymentVars

=============================================================================
