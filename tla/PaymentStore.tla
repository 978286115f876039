----------------------------- MODULE PaymentStore -----------------------------
(***************************************************************************)
(* The Postgres payment repository:                                        *)
(* internal/adapters/postgres/repos_payment.go over the payments table of  *)
(* migrations/00005 and 00009.                                             *)
(*                                                                         *)
(* Every write is one statement, committed by itself, whose guard is in    *)
(* SQL; the SELECT that classifies an UPDATE of no rows is a statement of  *)
(* its own, and so a step of its own.  A row is named by its intent.  The  *)
(* statuses authorized, refunding and refunded exist in the domain table   *)
(* (CanTransitionTo) and no path of the program writes them.               *)
(***************************************************************************)
EXTENDS BookingDomain

CONSTANTS
    Intents,     \* payment intents, each minted by one call of CreateIntent
    NoIntent

VARIABLES
    payStatus,   \* per intent: the status of its row; "none" without a row
    paySession   \* per intent: the hold session its row pays for

payRows == <<payStatus, paySession>>

\* Status.CanTransitionTo.
CanTransitionTo(from, to) ==
    CASE from = "intent" -> to \in {"authorized", "captured", "failed"}
      [] from = "authorized" -> to \in {"captured", "failed"}
      [] from = "captured" -> to = "refunding"
      [] from = "refunding" -> to = "refunded"
      [] OTHER -> FALSE

\* The predicate of payments_active_session_unique, and of the read that
\* mirrors it.
IsActive(i) == payStatus[i] \notin {"none", "failed", "refunded"}

ActiveIntents(s) == {i \in Intents : IsActive(i) /\ paySession[i] = s}

\* The WHERE clause of CapturePayment and FailPayment.
IsOpen(i) == payStatus[i] \in {"intent", "authorized"}

HasCapturedPayment(s) ==
    \E i \in Intents : payStatus[i] = "captured" /\ paySession[i] = s

-----------------------------------------------------------------------------
\* Mutant: the index of migration 00009 is missing.
InsertAnyIntent(i, s) ==
    /\ payStatus' = [payStatus EXCEPT ![i] = "intent"]
    /\ paySession' = [paySession EXCEPT ![i] = s]

\* InsertPaymentIntent: the row, or 23505 on the active-session index.
InsertIntent(i, s) ==
    /\ ActiveIntents(s) = {}
    /\ payStatus' = [payStatus EXCEPT ![i] = "intent"]
    /\ paySession' = [paySession EXCEPT ![i] = s]

\* Mutant: no status predicate, so a dead intent comes back to life.
CaptureAnyPayment(i) ==
    /\ payStatus' = [payStatus EXCEPT ![i] = "captured"]
    /\ UNCHANGED paySession

\* The guarded UPDATE of Capture.
CapturePayment(i) ==
    /\ payStatus' = [payStatus EXCEPT ![i] = IF IsOpen(i) THEN "captured" ELSE @]
    /\ UNCHANGED paySession

\* Mutant: no status predicate, so captured money becomes failed.
FailAnyPayment(i) ==
    /\ payStatus' = [payStatus EXCEPT ![i] = "failed"]
    /\ UNCHANGED paySession

\* The guarded UPDATE of MarkFailed.
FailPayment(i) ==
    /\ payStatus' = [payStatus EXCEPT ![i] = IF IsOpen(i) THEN "failed" ELSE @]
    /\ UNCHANGED paySession

PayInit ==
    /\ payStatus = [i \in Intents |-> "none"]
    /\ paySession = [i \in Intents |-> NoSession]

=============================================================================
