---------------------------- MODULE RefreshTokens ----------------------------
(***************************************************************************)
(* Sessions: internal/application/auth/service.go over the refresh-token   *)
(* ledger of internal/adapters/postgres/repos_auth.go.                     *)
(*                                                                         *)
(* Every Register, Login and Refresh call mints one fresh token, so such a *)
(* call is named by its token; Logouts are the calls of Logout.  A family  *)
(* is named by the token that opened it.                                   *)
(*                                                                         *)
(* Rotate is a transaction of several statements under READ COMMITTED: a   *)
(* row it locked, inserted or updated is invisible, and not to be locked   *)
(* by another one, until it ends.  The UPDATE that revokes a family works  *)
(* on the rows that were committed when it started, locks them one by one, *)
(* waiting where it must, and looks at each again once it has the lock.    *)
(***************************************************************************)
EXTENDS Naturals, FiniteSets

CONSTANTS
    Tokens,      \* refresh tokens, and the calls that mint them
    Logouts,     \* calls of Logout
    Mortal,      \* bound: the tokens that may expire
    NoToken

ASSUME TokenAssumption ==
    /\ Tokens \intersect Logouts = {}
    /\ Mortal \subseteq Tokens
    /\ NoToken \notin Tokens

Txs == Tokens \union Logouts

VARIABLES
    family,      \* committed rows: per token its family; NoToken without a row
    successor,   \* committed rows: replaced_by
    revoked,     \* committed rows: those with a revoked_at
    expired,     \* tokens whose expires_at has passed
    step,        \* per call: how far it has come
    presented,   \* per call: the token its client sent
    holds,       \* per call: the rows its transaction has locked
    doomed       \* per call: the rows its UPDATE has still to revoke

rowVars   == <<family, successor, revoked>>
lockVars  == <<holds, doomed>>
tokenVars == <<rowVars, expired, step, presented, lockVars>>

-----------------------------------------------------------------------------
Stored == {t \in Tokens : family[t] # NoToken}

\* RefreshToken.ReuseIsTheft.
ReuseIsTheft(t) == successor[t] # NoToken \/ t \in revoked

\* No other transaction has the row locked.
Free(c, t) == \A d \in Txs \ {c} : t \notin holds[d]

\* What a client can send: a token it was given, or one that is unknown.
Presentable == {t \in Tokens : step[t] = "done"} \union {NoToken}

End(c, outcome) ==
    /\ step' = [step EXCEPT ![c] = outcome]
    /\ holds' = [holds EXCEPT ![c] = {}]
    /\ doomed' = [doomed EXCEPT ![c] = {}]

Goto(c, next) == step' = [step EXCEPT ![c] = next]

-----------------------------------------------------------------------------
(* Register and Login *)

\* newSession: one INSERT, of the first token of a fresh family.  Whatever fails
\* afterwards, the client has no token.
NewSession(t) ==
    /\ step[t] = "idle"
    /\ family' = [family EXCEPT ![t] = t]
    /\ \E outcome \in {"done", "error"} : Goto(t, outcome)
    /\ UNCHANGED <<successor, revoked, expired, presented, lockVars>>

-----------------------------------------------------------------------------
(* Refresh, and Rotate *)

RefreshBegin(t, p) ==
    /\ step[t] = "idle"
    /\ presented' = [presented EXCEPT ![t] = p]
    /\ Goto(t, IF p = NoToken THEN "unknown" ELSE "begun")
    /\ UNCHANGED <<rowVars, expired, lockVars>>

\* Mutant: GetRefreshTokenByHash where the FOR UPDATE query belongs.
RotateReadsUnlocked(t) ==
    LET p == presented[t]
    IN  /\ step[t] = "begun"
        /\ Goto(t, IF ReuseIsTheft(p) THEN "theft"
                   ELSE IF p \in expired THEN "expired" ELSE "locked")
        /\ UNCHANGED <<rowVars, expired, presented, lockVars>>

\* Mutant: the expiry branch returns without the deferred ROLLBACK.
RotateLeaksLock(t) ==
    LET p == presented[t]
    IN  /\ step[t] = "begun"
        /\ Free(t, p)
        /\ holds' = [holds EXCEPT ![t] = {p}]
        /\ Goto(t, IF ReuseIsTheft(p) THEN "theft"
                   ELSE IF p \in expired THEN "expired" ELSE "locked")
        /\ UNCHANGED <<rowVars, expired, presented, doomed>>

\* SELECT ... FOR UPDATE, and the decision on the row as it is once locked:
\* reuse before expiry, expiry before rotation.
RotateLock(t) ==
    LET p == presented[t]
    IN  /\ step[t] = "begun"
        /\ Free(t, p)
        /\ IF ~ReuseIsTheft(p) /\ p \in expired
             THEN End(t, "expired")
             ELSE /\ Goto(t, IF ReuseIsTheft(p) THEN "theft" ELSE "locked")
                  /\ holds' = [holds EXCEPT ![t] = {p}]
                  /\ UNCHANGED doomed
        /\ UNCHANGED <<rowVars, expired, presented>>

\* CreateRefreshToken and MarkRefreshTokenReplaced: not visible before COMMIT.
RotateInsert(t) ==
    /\ step[t] = "locked"
    /\ Goto(t, "inserted")
    /\ UNCHANGED <<rowVars, expired, presented, lockVars>>

RotateMarkReplaced(t) ==
    /\ step[t] = "inserted"
    /\ Goto(t, "marked")
    /\ UNCHANGED <<rowVars, expired, presented, lockVars>>

\* COMMIT, and the way back to the client, who may never see the new token.
RotateCommit(t) ==
    /\ step[t] = "marked"
    /\ family' = [family EXCEPT ![t] = family[presented[t]]]
    /\ successor' = [successor EXCEPT ![presented[t]] = t]
    /\ \E outcome \in {"done", "error"} : End(t, outcome)
    /\ UNCHANGED <<revoked, expired, presented>>

-----------------------------------------------------------------------------
(* Logout *)

\* Mutant: a token that is not in the ledger is an error after all.
LogoutNotIdempotent(l, p) ==
    /\ step[l] = "idle"
    /\ presented' = [presented EXCEPT ![l] = p]
    /\ Goto(l, IF p = NoToken THEN "unknown" ELSE "found")
    /\ UNCHANGED <<rowVars, expired, lockVars>>

\* GetByHash; an unknown token has nothing to revoke.
LogoutLookup(l, p) ==
    /\ step[l] = "idle"
    /\ presented' = [presented EXCEPT ![l] = p]
    /\ Goto(l, IF p = NoToken THEN "closed" ELSE "found")
    /\ UNCHANGED <<rowVars, expired, lockVars>>

-----------------------------------------------------------------------------
(* RevokeRefreshTokenFamily, in Rotate's theft branch and in Logout *)

\* Mutant: the WHERE clause forgets the family.
RevokeSnapshotOfAll(c) ==
    /\ step[c] \in {"theft", "found"}
    /\ doomed' = [doomed EXCEPT ![c] = Stored \ revoked]
    /\ Goto(c, "revoking")
    /\ UNCHANGED <<rowVars, expired, presented, holds>>

\* The UPDATE starts: the committed, not yet revoked rows of the family.
RevokeSnapshot(c) ==
    /\ step[c] \in {"theft", "found"}
    /\ doomed' = [doomed EXCEPT ![c] =
                     {t \in Stored \ revoked : family[t] = family[presented[c]]}]
    /\ Goto(c, "revoking")
    /\ UNCHANGED <<rowVars, expired, presented, holds>>

\* The UPDATE locks one more row, and passes it over if it has been revoked
\* while it waited for the lock.
RevokeLock(c, t) ==
    /\ step[c] = "revoking"
    /\ t \in doomed[c]
    /\ Free(c, t)
    /\ doomed' = [doomed EXCEPT ![c] = @ \ {t}]
    /\ holds' = [holds EXCEPT ![c] = IF t \in revoked THEN @ ELSE @ \union {t}]
    /\ UNCHANGED <<rowVars, expired, step, presented>>

\* How a call that revoked a family answers, if its client hears it.
Answer(c) == IF c \in Logouts THEN "closed" ELSE "reused"

\* Mutant: the theft branch leaves it to the deferred ROLLBACK.
RevokeCommitForgotten(c) ==
    /\ step[c] = "revoking"
    /\ doomed[c] = {}
    /\ revoked' = IF c \in Logouts THEN revoked \union holds[c] ELSE revoked
    /\ \E outcome \in {Answer(c), "error"} : End(c, outcome)
    /\ UNCHANGED <<family, successor, expired, presented>>

\* COMMIT of the revocation.
RevokeCommit(c) ==
    /\ step[c] = "revoking"
    /\ doomed[c] = {}
    /\ revoked' = revoked \union holds[c]
    /\ \E outcome \in {Answer(c), "error"} : End(c, outcome)
    /\ UNCHANGED <<family, successor, expired, presented>>

-----------------------------------------------------------------------------
(* Time, and failures *)

Expire(t) ==
    /\ t \in Stored \intersect Mortal
    /\ expired' = expired \union {t}
    /\ UNCHANGED <<rowVars, step, presented, lockVars>>

InProgress == {"begun", "locked", "inserted", "marked", "theft", "found", "revoking"}

\* A failed statement, a cancelled request or a crash: the transaction of the
\* call is rolled back.
CallFails(c) ==
    /\ step[c] \in InProgress
    /\ End(c, "error")
    /\ UNCHANGED <<rowVars, expired, presented>>

\* The rows a call waits for, and the calls that have them locked.
Wanted(c) ==
    CASE step[c] = "begun"    -> {presented[c]}
      [] step[c] = "revoking" -> doomed[c]
      [] OTHER                -> {}

WaitsFor(c) ==
    IF \E t \in Wanted(c) : Free(c, t) THEN {}
    ELSE {d \in Txs \ {c} : holds[d] \intersect Wanted(c) # {}}

\* Postgres aborts one of two transactions that wait for each other.
DeadlockVictim(c) ==
    /\ \E d \in WaitsFor(c) : c \in WaitsFor(d)
    /\ CallFails(c)

-----------------------------------------------------------------------------
TokenInit ==
    /\ family = [t \in Tokens |-> NoToken]
    /\ successor = [t \in Tokens |-> NoToken]
    /\ revoked = {}
    /\ expired = {}
    /\ step = [c \in Txs |-> "idle"]
    /\ presented = [c \in Txs |-> NoToken]
    /\ holds = [c \in Txs |-> {}]
    /\ doomed = [c \in Txs |-> {}]

\* What a call does next once it is under way.
Proceed(c) ==
    \/ /\ c \in Tokens
       /\ \/ RotateLock(c)
          \/ RotateInsert(c)
          \/ RotateMarkReplaced(c)
          \/ RotateCommit(c)
    \/ RevokeSnapshot(c)
    \/ \E t \in Tokens : RevokeLock(c, t)
    \/ RevokeCommit(c)

TokenNext ==
    \/ \E t \in Tokens : NewSession(t) \/ Expire(t)
    \/ \E t \in Tokens, p \in Presentable : RefreshBegin(t, p)
    \/ \E l \in Logouts, p \in Presentable : LogoutLookup(l, p)
    \/ \E c \in Txs : Proceed(c) \/ CallFails(c)

TokenSpec == TokenInit /\ [][TokenNext]_tokenVars

\* Handlers go on, and Postgres breaks a deadlock within deadlock_timeout.
FairTokenSpec ==
    /\ TokenSpec
    /\ \A c \in Txs : WF_tokenVars(Proceed(c) \/ DeadlockVictim(c))

-----------------------------------------------------------------------------
(* What the ledger guarantees *)

\* The type invariant of the ledger and of the calls on it.
TokenTypeOK ==
    /\ family \in [Tokens -> Tokens \union {NoToken}]
    /\ successor \in [Tokens -> Tokens \union {NoToken}]
    /\ revoked \subseteq Tokens
    /\ expired \subseteq Tokens
    /\ \A t \in Tokens :
          step[t] \in {"idle", "begun", "locked", "inserted", "marked", "theft",
                       "revoking", "done", "unknown", "expired", "reused", "error"}
    /\ \A l \in Logouts :
          step[l] \in {"idle", "found", "revoking", "closed", "error"}
    /\ presented \in [Txs -> Tokens \union {NoToken}]
    /\ holds \in [Txs -> SUBSET Tokens]
    /\ doomed \in [Txs -> SUBSET Tokens]

\* A family is one chain: however many refreshes of however many of its tokens
\* overlap, at most one of its tokens can still be exchanged.
OneLiveTokenPerFamily ==
    \A t, u \in Stored :
        family[t] = family[u] /\ ~ReuseIsTheft(t) /\ ~ReuseIsTheft(u) => t = u

\* The rows as the port sees them.
RowOf(t) == [token |-> t, family |-> family[t]]

Port == INSTANCE RefreshPort WITH
    issued <- {RowOf(t) : t \in Stored},
    live   <- {t \in Stored : ~ReuseIsTheft(t)}

\* "Rotate must behave as one indivisible read-decide-write": its statements,
\* and those of the UPDATE that revokes a family, interleaved with those of any
\* other calls, have the effect of one step each.  A token is exchanged once, and
\* only when no logout and no theft has revoked it by the moment the exchange
\* becomes durable; what a revocation commits is the end of all that is live in
\* the family at that moment, or nothing.
ImplementsRefreshPort == Port!RefreshSpec

\* A revocation that is reported has taken effect, whatever was exchanged while it
\* waited for its locks: a replayed token and the token that was minted from it
\* are dead by then, and for good, and so is the token a logout was asked for.
RevocationTookEffect ==
    /\ \A t \in Tokens : step[t] = "reused" =>
          {presented[t], successor[presented[t]]} \ {NoToken} \subseteq revoked
    /\ \A l \in Logouts : step[l] = "closed" =>
          {presented[l]} \ {NoToken} \subseteq revoked

\* "Reuse (revoked or already replaced) is checked BEFORE expiry" (Rotate): a call
\* that is told its token has expired did not send one that had been exchanged,
\* and nobody exchanges that token later, whoever was waiting for the row.
ExpiredWasNotUsed ==
    \A t \in Tokens : step[t] = "expired" => successor[presented[t]] = NoToken

\* What a call was told about its token is true, and stays true: a replay is never
\* excused as an expired token, and one that is reported has been acted on.
TokenAnswersAreTrue == RevocationTookEffect /\ ExpiredWasNotUsed

\* A session nobody logged out of, and none of whose tokens was sent by one call
\* and exchanged by another, is never revoked: not by an expiry, and not by what happens to
\* other sessions of the same user.
NobodyElseIsLoggedOut ==
    \A t \in revoked :
        \/ \E l \in Logouts :
              presented[l] # NoToken /\ family[presented[l]] = family[t]
        \/ \E c \in Tokens :
              /\ step[c] \in {"reused", "error"}
              /\ presented[c] # NoToken
              /\ family[presented[c]] = family[t]
              /\ successor[presented[c]] \notin {NoToken, c}

\* Two revocations of one family, or a theft and a logout, can lock its rows
\* crosswise.  Whatever locks are taken in whatever order by whatever number of
\* calls, when nobody can go on two calls wait for each other: there is always a
\* pair for Postgres to find, and no lock is held by a call that has ended.
StandstillIsAPair ==
    (\E c \in Txs : step[c] \in InProgress) =>
        \E c \in Txs :
            /\ step[c] \in InProgress
            /\ \/ WaitsFor(c) = {}
               \/ \E d \in WaitsFor(c) : c \in WaitsFor(d)

\* No call waits for ever: two revocations of one family, or a theft and a
\* logout, can lock its rows crosswise, and every lock is given back.
CallsEnd == \A c \in Txs : step[c] \in InProgress ~> step[c] \notin InProgress

-----------------------------------------------------------------------------
(* What the documents say, and the code does not do *)

\* "Logout revokes the whole token family of the presented refresh token,
\* closing every session in the chain": once it has answered, no token of the
\* family can be exchanged any more.
LogoutClosesFamily ==
    \A l \in Logouts : step[l] = "closed" /\ presented[l] # NoToken =>
        \A t \in Stored : family[t] = family[presented[l]] => t \in revoked

=============================================================================
