------------------------- MODULE RefreshTokensProofs -------------------------
(***************************************************************************)
(* Proofs about RefreshTokens, for any number of sessions, refreshes and   *)
(* logouts, whichever tokens expire: the transactions implement the port,  *)
(* a revocation that is reported has taken effect, nobody else is logged   *)
(* out, and the row locks never bring everybody to a stop.                 *)
(*                                                                         *)
(* The argument is about who holds which row lock.  A row that a rotation  *)
(* has locked changes under nobody else's hand before it commits, so what  *)
(* it saw under the lock is still so (CallKnows); and a row, once it is    *)
(* there, keeps its family, its successor and its revocation (RowsStay).   *)
(* That calls go on rests on the order in which the UPDATEs of a family    *)
(* started, which what each found still tells (SnapshotsAreOrdered).       *)
(***************************************************************************)
EXTENDS RefreshTokens, FiniteSetTheorems, TLAPS

Steps == {"idle", "begun", "locked", "inserted", "marked", "theft", "found",
          "revoking", "done", "unknown", "expired", "reused", "closed", "error"}

LocksAreExclusive ==
    \A c, d \in Txs : c # d => holds[c] \intersect holds[d] = {}

\* A call has no row before it commits, and a token was given out with a row.
RowsOfCalls ==
    \A t \in Tokens :
        /\ step[t] \notin {"done", "error"} => family[t] = NoToken
        /\ step[t] = "done" => family[t] # NoToken

\* Families are named by tokens that have a row, successors are kin, and what is
\* revoked has a row.
RowsAreLinked ==
    \A t \in Tokens :
        /\ family[t] # NoToken =>
              family[t] \in Tokens /\ family[family[t]] # NoToken
        /\ successor[t] # NoToken =>
              /\ successor[t] \in Tokens
              /\ family[t] # NoToken
              /\ family[successor[t]] = family[t]
        /\ t \in revoked => family[t] # NoToken

\* What call c may still rely on, by how far it has come.
CallKnows(c) ==
    LET p == presented[c]
    IN  /\ p # NoToken => p \in Tokens /\ family[p] # NoToken
        /\ step[c] \in InProgress \union {"reused"} => p # NoToken
        /\ step[c] = "idle" => p = NoToken
        /\ step[c] \in {"locked", "inserted", "marked"} =>
              /\ c \in Tokens
              /\ holds[c] = {p}
              /\ successor[p] = NoToken /\ p \notin revoked
        /\ step[c] = "theft" =>
              c \in Tokens /\ holds[c] = {p} /\ ReuseIsTheft(p)
        /\ step[c] = "revoking" =>
              /\ \A t \in holds[c] \union doomed[c] : family[t] = family[p]
              /\ p \in holds[c] \union doomed[c] \union revoked
              /\ c \in Tokens =>
                    /\ p \in holds[c] /\ ReuseIsTheft(p)
                    /\ successor[p] # NoToken =>
                          successor[p] \in holds[c] \union doomed[c] \union revoked
        /\ step[c] \notin {"locked", "inserted", "marked", "theft", "revoking"} =>
              holds[c] = {}
        /\ step[c] # "revoking" => doomed[c] = {}

CallsKnow == \A c \in Txs : CallKnows(c)

TokenInv ==
    /\ TokenTypeOK
    /\ step \in [Txs -> Steps]
    /\ LocksAreExclusive
    /\ RowsOfCalls
    /\ RowsAreLinked
    /\ CallsKnow
    /\ OneLiveTokenPerFamily
    /\ RevocationTookEffect
    /\ NobodyElseIsLoggedOut

\* A row keeps its family, its successor and its revocation, and a revoked token
\* is not exchanged.
RowsStay ==
    \A t \in Tokens :
        /\ family[t] # NoToken => family'[t] = family[t]
        /\ successor[t] # NoToken \/ t \in revoked => successor'[t] = successor[t]
        /\ t \in revoked => t \in revoked'

\* Call d does nothing.
CallStays(d) ==
    /\ step'[d] = step[d] /\ presented'[d] = presented[d]
    /\ holds'[d] = holds[d] /\ doomed'[d] = doomed[d]

-----------------------------------------------------------------------------
\* The initial state satisfies the invariant.
LEMMA TokenInitInv == TokenInit => TokenInv
BY TokenAssumption
DEF TokenInit, TokenInv, TokenTypeOK, Steps, Txs, LocksAreExclusive, RowsOfCalls,
    RowsAreLinked, CallsKnow, CallKnows, InProgress, OneLiveTokenPerFamily, Stored,
    RevocationTookEffect, NobodyElseIsLoggedOut

\* What a call knows survives a step of another one that leaves the rows it has
\* locked alone.
LEMMA OtherKnows ==
    ASSUME TokenInv, RowsStay, NEW d \in Txs, CallStays(d),
           \A t \in holds[d] : successor'[t] = successor[t] /\ (t \in revoked' <=> t \in revoked)
    PROVE  CallKnows(d)'
<1>1. CallKnows(d)
  BY DEF TokenInv, CallsKnow
<1>2. holds[d] \subseteq Tokens /\ doomed[d] \subseteq Tokens
  BY DEF TokenInv, TokenTypeOK
<1>3. /\ presented[d] # NoToken => family'[presented[d]] # NoToken
      /\ \A t \in Tokens : family[t] # NoToken => family'[t] = family[t]
      /\ \A t \in Tokens : ReuseIsTheft(t) => ReuseIsTheft(t)'
  BY <1>1 DEF CallKnows, RowsStay, ReuseIsTheft
<1>4. CASE step[d] # "revoking"
  BY <1>1, <1>2, <1>3, <1>4 DEF CallKnows, CallStays, InProgress
<1>5. CASE step[d] = "revoking"
  <2>1. \A t \in holds[d] \union doomed[d] : family'[t] = family'[presented[d]]
    BY <1>1, <1>2, <1>3, <1>5 DEF CallKnows, InProgress
  <2>2. d \in Tokens => /\ presented[d] \in holds[d] /\ ReuseIsTheft(presented[d])'
                        /\ successor'[presented[d]] # NoToken =>
                              successor'[presented[d]] \in holds[d] \union doomed[d] \union revoked'
    BY <1>1, <1>2, <1>3, <1>5
    DEF CallKnows, CallStays, InProgress, RowsStay, TokenInv, TokenTypeOK
  <2>3. presented[d] \in holds[d] \union doomed[d] \union revoked'
    BY <1>1, <1>5 DEF CallKnows, InProgress, RowsStay
  <2> QED
    BY <1>1, <1>3, <1>5, <2>1, <2>2, <2>3 DEF CallKnows, CallStays, InProgress
<1> QED
  BY <1>4, <1>5

\* What the ledger says stays true when no row changes: the outcomes of calls may.
LEMMA RowsUnchanged ==
    ASSUME TokenInv, UNCHANGED rowVars, NEW c \in Txs,
           \A d \in Txs \ {c} : CallStays(d),
           CallKnows(c)',
           step[c] \notin {"done", "reused", "error"} \/ UNCHANGED <<step, presented>>,
           step'[c] \notin {"done", "reused"} \/ UNCHANGED <<step, presented>>,
           step'[c] = "closed" => presented'[c] = NoToken \/ UNCHANGED <<step, presented>>
    PROVE  /\ CallsKnow'
           /\ RowsOfCalls'
           /\ RowsAreLinked'
           /\ OneLiveTokenPerFamily'
           /\ RevocationTookEffect'
           /\ (presented[c] # NoToken => presented'[c] = presented[c]) => NobodyElseIsLoggedOut'
<1>1. RowsStay
  BY DEF RowsStay, rowVars
<1>2. CallsKnow'
  BY <1>1, OtherKnows DEF CallsKnow, rowVars
<1>3. RowsOfCalls'
  BY DEF TokenInv, RowsOfCalls, CallStays, rowVars, Txs
<1>4. RowsAreLinked' /\ OneLiveTokenPerFamily'
  BY DEF TokenInv, RowsAreLinked, OneLiveTokenPerFamily, Stored, ReuseIsTheft, rowVars
<1>5. RevocationTookEffect'
  BY DEF TokenInv, RevocationTookEffect, CallStays, rowVars, Txs
<1>6. ASSUME presented[c] # NoToken => presented'[c] = presented[c]
      PROVE  NobodyElseIsLoggedOut'
  BY <1>6 DEF TokenInv, NobodyElseIsLoggedOut, CallStays, rowVars, Txs
<1> QED
  BY <1>2, <1>3, <1>4, <1>5, <1>6

\* The token a client sends has been given out, so it has a row.
LEMMA PresentableHasRow ==
    ASSUME TokenInv, NEW p \in Presentable, p # NoToken
    PROVE  p \in Tokens /\ family[p] # NoToken
BY DEF TokenInv, RowsOfCalls, Presentable

\* The beginning of Refresh, and of Logout.
LEMMA BeginInv ==
    ASSUME TokenInv, NEW p \in Presentable, NEW c \in Txs,
           \/ c \in Tokens /\ RefreshBegin(c, p)
           \/ c \in Logouts /\ LogoutLookup(c, p)
    PROVE  TokenInv'
<1>1. /\ step[c] = "idle" /\ UNCHANGED <<rowVars, expired, lockVars>>
      /\ presented' = [presented EXCEPT ![c] = p]
      /\ \/ c \in Tokens /\ step' = [step EXCEPT ![c] = IF p = NoToken THEN "unknown" ELSE "begun"]
         \/ c \in Logouts /\ step' = [step EXCEPT ![c] = IF p = NoToken THEN "closed" ELSE "found"]
  BY DEF RefreshBegin, LogoutLookup, Goto
<1>2. p \in Tokens \union {NoToken} /\ presented[c] = NoToken
  BY <1>1 DEF Presentable, TokenInv, CallsKnow, CallKnows
<1>3. TokenTypeOK' /\ step' \in [Txs -> Steps]
  BY <1>1, <1>2, TokenAssumption DEF TokenInv, TokenTypeOK, Steps, Txs, rowVars, lockVars
<1>4. LocksAreExclusive'
  BY <1>1 DEF TokenInv, LocksAreExclusive, lockVars
<1>5. \A d \in Txs \ {c} : CallStays(d)
  BY <1>1 DEF TokenInv, TokenTypeOK, CallStays, lockVars
<1>6. CallKnows(c)'
  BY <1>1, PresentableHasRow
  DEF TokenInv, TokenTypeOK, CallsKnow, CallKnows, InProgress, Steps, rowVars, lockVars
<1>7. /\ step'[c] \notin {"done", "reused"}
      /\ step'[c] = "closed" => presented'[c] = NoToken
  BY <1>1, TokenAssumption DEF TokenInv, TokenTypeOK, Txs
<1> QED
  BY <1>1, <1>2, <1>3, <1>4, <1>5, <1>6, <1>7, RowsUnchanged DEF TokenInv, rowVars

\* A token expires: nothing but RotateLock looks at that.
LEMMA ExpireInv ==
    ASSUME TokenInv, NEW t \in Tokens, Expire(t)
    PROVE  TokenInv'
BY DEF Expire, TokenInv, TokenTypeOK, LocksAreExclusive, RowsOfCalls, RowsAreLinked,
       CallsKnow, CallKnows, OneLiveTokenPerFamily, RevocationTookEffect,
       NobodyElseIsLoggedOut, Stored, ReuseIsTheft, rowVars, lockVars

\* SELECT ... FOR UPDATE: what it reads, it has locked.
LEMMA RotateLockInv ==
    ASSUME TokenInv, NEW c \in Tokens, RotateLock(c)
    PROVE  TokenInv'
<1> DEFINE p == presented[c]
<1>1. /\ step[c] = "begun" /\ c \in Txs
      /\ p # NoToken /\ p \in Tokens /\ family[p] # NoToken /\ Free(c, p)
      /\ UNCHANGED <<rowVars, expired, presented>>
      /\ doomed[c] = {}
  BY DEF RotateLock, TokenInv, CallsKnow, CallKnows, InProgress, Txs
<1>2. \/ /\ step' = [step EXCEPT ![c] = "expired"]
         /\ holds' = [holds EXCEPT ![c] = {}]
         /\ doomed' = [doomed EXCEPT ![c] = {}]
      \/ /\ step' = [step EXCEPT ![c] = IF ReuseIsTheft(p) THEN "theft" ELSE "locked"]
         /\ holds' = [holds EXCEPT ![c] = {p}]
         /\ doomed' = doomed
  BY DEF RotateLock, End, Goto
<1>3. TokenTypeOK' /\ step' \in [Txs -> Steps]
  BY <1>1, <1>2, TokenAssumption DEF TokenInv, TokenTypeOK, Steps, Txs, rowVars
<1>4. LocksAreExclusive'
  BY <1>1, <1>2 DEF TokenInv, TokenTypeOK, LocksAreExclusive, Free
<1>5. \A d \in Txs \ {c} : CallStays(d)
  BY <1>1, <1>2 DEF TokenInv, TokenTypeOK, CallStays
<1>6. CallKnows(c)'
  <2>1. UNCHANGED <<family, successor, revoked, presented>>
    BY <1>1 DEF rowVars
  <2>2. CASE step'[c] = "expired"
    <3>1. holds'[c] = {} /\ doomed'[c] = {}
      BY <1>1, <1>2, <2>2 DEF TokenInv, TokenTypeOK
    <3> QED
      BY <1>1, <2>1, <2>2, <3>1 DEF CallKnows, InProgress
  <2>3. CASE step'[c] # "expired"
    <3>1. /\ holds'[c] = {p} /\ doomed'[c] = {}
          /\ step'[c] = IF ReuseIsTheft(p) THEN "theft" ELSE "locked"
      BY <1>1, <1>2, <2>3 DEF TokenInv, TokenTypeOK
    <3> QED
      BY <1>1, <2>1, <3>1 DEF CallKnows, InProgress, ReuseIsTheft
  <2> QED
    BY <2>2, <2>3
<1>7. step'[c] \notin {"done", "reused", "closed"}
  BY <1>1, <1>2 DEF TokenInv
<1> QED
  BY <1>1, <1>3, <1>4, <1>5, <1>6, <1>7, RowsUnchanged DEF TokenInv, rowVars

\* The statements of Rotate that nobody sees before COMMIT, and a ROLLBACK.
LEMMA InvisibleInv ==
    ASSUME TokenInv, NEW c \in Txs,
           \/ c \in Tokens /\ (RotateInsert(c) \/ RotateMarkReplaced(c))
           \/ CallFails(c)
    PROVE  TokenInv'
<1>1. /\ UNCHANGED <<rowVars, expired, presented>>
      /\ \/ /\ step[c] \in {"locked", "inserted"} /\ c \in Tokens
            /\ step' = [step EXCEPT ![c] = IF step[c] = "locked" THEN "inserted" ELSE "marked"]
            /\ UNCHANGED lockVars
         \/ /\ step[c] \in InProgress
            /\ step' = [step EXCEPT ![c] = "error"]
            /\ holds' = [holds EXCEPT ![c] = {}]
            /\ doomed' = [doomed EXCEPT ![c] = {}]
  BY DEF RotateInsert, RotateMarkReplaced, CallFails, Goto, End
<1>2. TokenTypeOK' /\ step' \in [Txs -> Steps]
  BY <1>1, TokenAssumption DEF TokenInv, TokenTypeOK, Steps, Txs, rowVars, lockVars
<1>3. LocksAreExclusive'
  BY <1>1 DEF TokenInv, TokenTypeOK, LocksAreExclusive, lockVars
<1>4. \A d \in Txs \ {c} : CallStays(d)
  BY <1>1 DEF TokenInv, TokenTypeOK, CallStays, lockVars
<1>5. CallKnows(c)'
  BY <1>1
  DEF TokenInv, TokenTypeOK, CallsKnow, CallKnows, InProgress, ReuseIsTheft, rowVars, lockVars
<1>6. /\ step[c] \notin {"done", "reused", "error"}
      /\ step'[c] \notin {"done", "reused", "closed"}
  BY <1>1 DEF TokenInv, InProgress
<1> QED
  BY <1>1, <1>2, <1>3, <1>4, <1>5, <1>6, RowsUnchanged DEF TokenInv, rowVars

\* The UPDATE starts: the committed successor of a replayed token is among the
\* rows it is going to revoke, or revoked already.
LEMMA RevokeSnapshotInv ==
    ASSUME TokenInv, NEW c \in Txs, RevokeSnapshot(c)
    PROVE  TokenInv'
<1> DEFINE p == presented[c]
           family_of_p == {t \in Stored \ revoked : family[t] = family[p]}
<1>1. /\ step[c] \in {"theft", "found"}
      /\ UNCHANGED <<rowVars, expired, presented, holds>>
      /\ step' = [step EXCEPT ![c] = "revoking"]
      /\ doomed' = [doomed EXCEPT ![c] = family_of_p]
      /\ p # NoToken /\ p \in Tokens /\ family[p] # NoToken
  BY DEF RevokeSnapshot, Goto, TokenInv, CallsKnow, CallKnows, InProgress
<1>2. TokenTypeOK' /\ step' \in [Txs -> Steps]
  BY <1>1, TokenAssumption DEF TokenInv, TokenTypeOK, Steps, Stored, Txs, rowVars
<1>3. LocksAreExclusive'
  BY <1>1 DEF TokenInv, LocksAreExclusive
<1>4. \A d \in Txs \ {c} : CallStays(d)
  BY <1>1 DEF TokenInv, TokenTypeOK, CallStays
<1>5. CallKnows(c)'
  <2>1. /\ step'[c] = "revoking" /\ doomed'[c] = family_of_p
        /\ UNCHANGED <<family, successor, revoked, presented, holds>>
    BY <1>1 DEF TokenInv, TokenTypeOK, rowVars
  <2>2. successor[p] # NoToken => successor[p] \in family_of_p \union revoked
    BY <1>1 DEF TokenInv, RowsAreLinked, Stored
  <2>3. /\ c \in Tokens => holds[c] = {p} /\ ReuseIsTheft(p)
        /\ \A t \in holds[c] : t = p
    BY <1>1, TokenAssumption DEF TokenInv, TokenTypeOK, CallsKnow, CallKnows
  <2>4. \A t \in holds'[c] \union doomed'[c] : family'[t] = family'[p]
    BY <2>1, <2>3
  <2>5. c \in Tokens =>
            /\ p \in holds'[c] /\ ReuseIsTheft(p)'
            /\ successor'[p] # NoToken =>
                  successor'[p] \in holds'[c] \union doomed'[c] \union revoked'
    BY <2>1, <2>2, <2>3 DEF ReuseIsTheft
  <2>6. p \in holds'[c] \union doomed'[c] \union revoked'
    BY <1>1, <2>1 DEF Stored
  <2> QED
    BY <1>1, <2>1, <2>4, <2>5, <2>6 DEF CallKnows, InProgress, ReuseIsTheft
<1>6. /\ step[c] \notin {"done", "reused", "error"}
      /\ step'[c] \notin {"done", "reused", "closed"}
  BY <1>1 DEF TokenInv
<1> QED
  BY <1>1, <1>2, <1>3, <1>4, <1>5, <1>6, RowsUnchanged DEF TokenInv, rowVars

\* The UPDATE gets one more lock: the row is going to be revoked, or has been.
LEMMA RevokeLockInv ==
    ASSUME TokenInv, NEW c \in Txs, NEW t \in Tokens, RevokeLock(c, t)
    PROVE  TokenInv'
<1>1. /\ step[c] = "revoking" /\ t \in doomed[c] /\ Free(c, t)
      /\ UNCHANGED <<rowVars, expired, step, presented>>
      /\ doomed' = [doomed EXCEPT ![c] = @ \ {t}]
      /\ holds' = [holds EXCEPT ![c] = IF t \in revoked THEN @ ELSE @ \union {t}]
  BY DEF RevokeLock
<1>2. TokenTypeOK' /\ step' \in [Txs -> Steps]
  BY <1>1 DEF TokenInv, TokenTypeOK, rowVars
<1>3. LocksAreExclusive'
  BY <1>1 DEF TokenInv, TokenTypeOK, LocksAreExclusive, Free
<1>4. \A d \in Txs \ {c} : CallStays(d)
  BY <1>1 DEF TokenInv, TokenTypeOK, CallStays
<1>5. CallKnows(c)'
  <2>1. /\ doomed'[c] = doomed[c] \ {t}
        /\ holds'[c] = IF t \in revoked THEN holds[c] ELSE holds[c] \union {t}
        /\ UNCHANGED <<family, successor, revoked, presented, step>>
    BY <1>1 DEF TokenInv, TokenTypeOK, rowVars
  <2> QED
    BY <1>1, <2>1 DEF TokenInv, CallsKnow, CallKnows, InProgress, ReuseIsTheft
<1> QED
  BY <1>1, <1>2, <1>3, <1>4, <1>5, RowsUnchanged DEF TokenInv, rowVars

-----------------------------------------------------------------------------
(* The steps that change rows *)

\* Register and Login: the new family has no other row.
LEMMA NewSessionInv ==
    ASSUME TokenInv, NEW t \in Tokens, NewSession(t)
    PROVE  TokenInv'
<1>1. /\ step[t] = "idle" /\ t \in Txs /\ t # NoToken
      /\ family' = [family EXCEPT ![t] = t]
      /\ UNCHANGED <<successor, revoked, expired, presented, lockVars>>
  BY TokenAssumption DEF NewSession, Txs
<1>2. PICK outcome \in {"done", "error"} : step' = [step EXCEPT ![t] = outcome]
  BY DEF NewSession, Goto
<1>3. /\ family[t] = NoToken
      /\ \A u \in Tokens : family[u] # t /\ successor[u] # t
      /\ successor[t] = NoToken /\ t \notin revoked
  BY <1>1 DEF TokenInv, TokenTypeOK, RowsOfCalls, RowsAreLinked
<1>4. RowsStay
  BY <1>1, <1>3 DEF RowsStay, TokenInv, TokenTypeOK
<1>5. TokenTypeOK' /\ step' \in [Txs -> Steps]
  BY <1>1, <1>2, TokenAssumption DEF TokenInv, TokenTypeOK, Steps, Txs, lockVars
<1>6. LocksAreExclusive'
  BY <1>1 DEF TokenInv, LocksAreExclusive, lockVars
<1>7. \A d \in Txs \ {t} : CallStays(d)
  BY <1>1, <1>2 DEF TokenInv, CallStays, lockVars
<1>8. CallsKnow'
  <2>1. \A d \in Txs \ {t} : CallKnows(d)'
    BY <1>1, <1>4, <1>7, OtherKnows
  <2>2. CallKnows(t)'
    BY <1>1, <1>2 DEF TokenInv, CallsKnow, CallKnows, InProgress, lockVars
  <2> QED
    BY <2>1, <2>2 DEF CallsKnow
<1>9. RowsOfCalls'
  BY <1>1, <1>2 DEF TokenInv, TokenTypeOK, RowsOfCalls, Txs
<1>10. RowsAreLinked'
  BY <1>1, <1>3 DEF TokenInv, TokenTypeOK, RowsAreLinked
<1>11. OneLiveTokenPerFamily'
  BY <1>1, <1>3 DEF TokenInv, TokenTypeOK, OneLiveTokenPerFamily, Stored, ReuseIsTheft
<1>12. RevocationTookEffect'
  BY <1>1, <1>2 DEF TokenInv, RevocationTookEffect, Txs
<1>13. NobodyElseIsLoggedOut'
  <2>1. \A u \in Tokens : family[u] # NoToken => family'[u] = family[u]
    BY <1>4 DEF RowsStay
  <2>2. \A c \in Txs : presented[c] # NoToken =>
            presented[c] \in Tokens /\ family[presented[c]] # NoToken
    BY DEF TokenInv, CallsKnow, CallKnows
  <2>3. \A r \in revoked : r \in Tokens /\ family[r] # NoToken
    BY DEF TokenInv, TokenTypeOK, RowsAreLinked
  <2> QED
    BY <1>1, <1>2, <2>1, <2>2, <2>3 DEF TokenInv, NobodyElseIsLoggedOut, Txs
<1> QED
  BY <1>5, <1>6, <1>8, <1>9, <1>10, <1>11, <1>12, <1>13 DEF TokenInv

\* COMMIT of a rotation: the exchanged token was the live one of its family.
LEMMA RotateCommitInv ==
    ASSUME TokenInv, NEW t \in Tokens, RotateCommit(t)
    PROVE  TokenInv'
<1> DEFINE p == presented[t]
<1>1. /\ step[t] = "marked" /\ t \in Txs /\ t # NoToken
      /\ family' = [family EXCEPT ![t] = family[p]]
      /\ successor' = [successor EXCEPT ![p] = t]
      /\ holds' = [holds EXCEPT ![t] = {}] /\ doomed' = [doomed EXCEPT ![t] = {}]
      /\ UNCHANGED <<revoked, expired, presented>>
  BY TokenAssumption DEF RotateCommit, End, Txs
<1>2. PICK outcome \in {"done", "error"} : step' = [step EXCEPT ![t] = outcome]
  BY DEF RotateCommit, End
<1>3. /\ p \in Tokens /\ family[p] # NoToken /\ family[p] \in Tokens
      /\ holds[t] = {p} /\ successor[p] = NoToken /\ p \notin revoked
  BY <1>1 DEF TokenInv, CallsKnow, CallKnows, InProgress, RowsAreLinked
<1>4. /\ family[t] = NoToken /\ p # t
      /\ \A u \in Tokens : family[u] # t /\ successor[u] # t
      /\ successor[t] = NoToken /\ t \notin revoked
  BY <1>1, <1>3 DEF TokenInv, TokenTypeOK, RowsOfCalls, RowsAreLinked
<1>5. RowsStay
  BY <1>1, <1>3, <1>4 DEF RowsStay, TokenInv, TokenTypeOK
<1>6. TokenTypeOK' /\ step' \in [Txs -> Steps]
  BY <1>1, <1>2, <1>3, TokenAssumption DEF TokenInv, TokenTypeOK, Steps, Txs
<1>7. LocksAreExclusive'
  BY <1>1 DEF TokenInv, TokenTypeOK, LocksAreExclusive
<1>8. \A d \in Txs \ {t} : CallStays(d)
  BY <1>1, <1>2 DEF TokenInv, TokenTypeOK, CallStays
<1>9. CallsKnow'
  <2>1. ASSUME NEW d \in Txs \ {t} PROVE CallKnows(d)'
    <3>1. p \notin holds[d]
      BY <1>1, <1>3 DEF TokenInv, LocksAreExclusive
    <3>2. \A u \in holds[d] : successor'[u] = successor[u]
      BY <1>1, <3>1 DEF TokenInv, TokenTypeOK
    <3> QED
      BY <1>1, <1>5, <1>8, <3>2, OtherKnows
  <2>2. /\ holds'[t] = {} /\ doomed'[t] = {} /\ step'[t] \in {"done", "error"}
        /\ family'[p] # NoToken
    BY <1>1, <1>2, <1>3, <1>4 DEF TokenInv, TokenTypeOK
  <2>3. CallKnows(t)'
    BY <1>1, <1>3, <2>2 DEF CallKnows, InProgress
  <2> QED
    BY <2>1, <2>3 DEF CallsKnow
<1>10. RowsOfCalls'
  BY <1>1, <1>2, <1>3 DEF TokenInv, TokenTypeOK, RowsOfCalls, Txs
<1>11. RowsAreLinked'
  BY <1>1, <1>3, <1>4 DEF TokenInv, TokenTypeOK, RowsAreLinked
<1>12. OneLiveTokenPerFamily'
  <2>1. p \in Stored /\ ~ReuseIsTheft(p)
    BY <1>3 DEF Stored, ReuseIsTheft
  <2>2. ASSUME NEW u \in Stored', ~ReuseIsTheft(u)', u # t
        PROVE  u \in Stored /\ ~ReuseIsTheft(u) /\ u # p /\ family'[u] = family[u]
    BY <1>1, <1>3, <1>4, <2>2 DEF TokenInv, TokenTypeOK, Stored, ReuseIsTheft
  <2>3. \A u \in Stored' : ~ReuseIsTheft(u)' /\ u # t => family'[u] # family[p]
    BY <2>1, <2>2 DEF TokenInv, OneLiveTokenPerFamily
  <2> QED
    BY <1>1, <2>2, <2>3 DEF TokenInv, TokenTypeOK, OneLiveTokenPerFamily
<1>13. RevocationTookEffect'
  <2>1. ASSUME NEW u \in Tokens, step[u] = "reused"
        PROVE  presented[u] \in Tokens /\ presented[u] \in revoked
    BY <2>1, TokenAssumption
    DEF TokenInv, RevocationTookEffect, CallsKnow, CallKnows, Txs
  <2> QED
    BY <1>1, <1>2, <1>5, <2>1 DEF TokenInv, RevocationTookEffect, RowsStay, Txs
<1>14. NobodyElseIsLoggedOut'
  <2>1. /\ \A u \in Tokens : family[u] # NoToken => family'[u] = family[u]
        /\ \A u \in Tokens : successor[u] # NoToken => successor'[u] = successor[u]
    BY <1>5 DEF RowsStay
  <2>2. \A c \in Txs : presented[c] # NoToken =>
            presented[c] \in Tokens /\ family[presented[c]] # NoToken
    BY DEF TokenInv, CallsKnow, CallKnows
  <2>3. \A r \in revoked : r \in Tokens /\ family[r] # NoToken
    BY DEF TokenInv, TokenTypeOK, RowsAreLinked
  <2> QED
    BY <1>1, <1>2, <2>1, <2>2, <2>3 DEF TokenInv, NobodyElseIsLoggedOut, Txs
<1> QED
  BY <1>6, <1>7, <1>9, <1>10, <1>11, <1>12, <1>13, <1>14 DEF TokenInv

\* COMMIT of a revocation: by a logout of the family, or because another call had
\* exchanged the token this one sent, or because the family was revoked before.
LEMMA RevokeCommitInv ==
    ASSUME TokenInv, NEW c \in Txs, RevokeCommit(c)
    PROVE  TokenInv'
<1> DEFINE p == presented[c]
<1>1. /\ step[c] = "revoking" /\ doomed[c] = {}
      /\ revoked' = revoked \union holds[c]
      /\ holds' = [holds EXCEPT ![c] = {}] /\ doomed' = [doomed EXCEPT ![c] = {}]
      /\ UNCHANGED <<family, successor, expired, presented>>
  BY DEF RevokeCommit, End
<1>2. PICK outcome \in {Answer(c), "error"} : step' = [step EXCEPT ![c] = outcome]
  BY DEF RevokeCommit, End
<1>3. outcome \in {"closed", "reused", "error"} /\ (c \in Tokens => outcome # "closed")
      /\ (c \in Logouts => outcome # "reused")
  BY TokenAssumption DEF Answer
<1>4. /\ p # NoToken /\ p \in Tokens /\ family[p] # NoToken
      /\ \A t \in holds[c] : t \in Tokens /\ family[t] = family[p]
      /\ p \in holds[c] \union revoked
      /\ c \in Tokens =>
            /\ p \in holds[c] /\ ReuseIsTheft(p)
            /\ successor[p] # NoToken => successor[p] \in holds[c] \union revoked
  BY <1>1 DEF TokenInv, TokenTypeOK, CallsKnow, CallKnows, InProgress
<1>5. RowsStay
  BY <1>1 DEF RowsStay
<1>6. TokenTypeOK' /\ step' \in [Txs -> Steps]
  BY <1>1, <1>2, <1>3, TokenAssumption DEF TokenInv, TokenTypeOK, Steps, Txs
<1>7. LocksAreExclusive'
  BY <1>1 DEF TokenInv, TokenTypeOK, LocksAreExclusive
<1>8. \A d \in Txs \ {c} : CallStays(d)
  BY <1>1, <1>2 DEF TokenInv, TokenTypeOK, CallStays
<1>9. CallsKnow'
  <2>1. ASSUME NEW d \in Txs \ {c} PROVE CallKnows(d)'
    <3>1. \A u \in holds[d] : u \notin holds[c]
      BY DEF TokenInv, LocksAreExclusive
    <3> QED
      BY <1>1, <1>5, <1>8, <3>1, OtherKnows
  <2>2. holds'[c] = {} /\ doomed'[c] = {} /\ step'[c] \in {"closed", "reused", "error"}
    BY <1>1, <1>2, <1>3 DEF TokenInv, TokenTypeOK
  <2>3. CallKnows(c)'
    BY <1>1, <1>4, <2>2 DEF CallKnows, InProgress
  <2> QED
    BY <2>1, <2>3 DEF CallsKnow
<1>10. RowsOfCalls'
  BY <1>1, <1>2, <1>3 DEF TokenInv, RowsOfCalls, Txs
<1>11. RowsAreLinked'
  BY <1>1, <1>4 DEF TokenInv, RowsAreLinked
<1>12. OneLiveTokenPerFamily'
  BY <1>1 DEF TokenInv, OneLiveTokenPerFamily, Stored, ReuseIsTheft
<1>13. RevocationTookEffect'
  BY <1>1, <1>2, <1>4 DEF TokenInv, RevocationTookEffect, Txs
<1>14. NobodyElseIsLoggedOut'
  <2> SUFFICES ASSUME NEW t \in revoked'
               PROVE  \/ \E l \in Logouts :
                            presented'[l] # NoToken /\ family'[presented'[l]] = family'[t]
                      \/ \E d \in Tokens :
                            /\ step'[d] \in {"reused", "error"}
                            /\ presented'[d] # NoToken
                            /\ family'[presented'[d]] = family'[t]
                            /\ successor'[presented'[d]] \notin {NoToken, d}
    BY DEF NobodyElseIsLoggedOut
  <2>1. ASSUME NEW r \in revoked, family[t] = family[r]
        PROVE  \/ \E l \in Logouts :
                     presented'[l] # NoToken /\ family'[presented'[l]] = family'[t]
               \/ \E d \in Tokens :
                     /\ step'[d] \in {"reused", "error"}
                     /\ presented'[d] # NoToken
                     /\ family'[presented'[d]] = family'[t]
                     /\ successor'[presented'[d]] \notin {NoToken, d}
    BY <1>1, <1>2, <2>1 DEF TokenInv, NobodyElseIsLoggedOut, Txs
  <2>2. CASE t \in revoked
    BY <2>1, <2>2
  <2>3. CASE t \in holds[c] /\ c \in Logouts
    BY <1>1, <1>4, <2>3
  <2>4. CASE t \in holds[c] /\ c \in Tokens /\ p \in revoked
    BY <1>4, <2>1, <2>4
  <2>5. CASE t \in holds[c] /\ c \in Tokens /\ successor[p] # NoToken
    <3>1. successor[p] # c
      BY <1>1, <1>4, <2>5 DEF TokenInv, RowsOfCalls, RowsAreLinked
    <3>2. step'[c] \in {"reused", "error"}
      BY <1>2, <1>3, <2>5 DEF TokenInv
    <3> QED
      BY <1>1, <1>4, <2>5, <3>1, <3>2
  <2> QED
    BY <1>1, <1>4, <2>2, <2>3, <2>4, <2>5 DEF ReuseIsTheft, Txs
<1> QED
  BY <1>6, <1>7, <1>9, <1>10, <1>11, <1>12, <1>13, <1>14 DEF TokenInv

-----------------------------------------------------------------------------
(* The theorems *)

\* Every step of the ledger keeps the invariant.
LEMMA TokenStepInv == TokenInv /\ [TokenNext]_tokenVars => TokenInv'
<1> SUFFICES ASSUME TokenInv, [TokenNext]_tokenVars PROVE TokenInv'
  OBVIOUS
<1>1. CASE \E t \in Tokens : NewSession(t) \/ Expire(t)
  BY <1>1, NewSessionInv, ExpireInv
<1>2. ASSUME NEW t \in Tokens, NEW p \in Presentable, RefreshBegin(t, p)
      PROVE  TokenInv'
  BY <1>2, BeginInv DEF Txs
<1>3. ASSUME NEW l \in Logouts, NEW p \in Presentable, LogoutLookup(l, p)
      PROVE  TokenInv'
  BY <1>3, BeginInv DEF Txs
<1>4. ASSUME NEW c \in Txs, Proceed(c) \/ CallFails(c)
      PROVE  TokenInv'
  <2>1. CASE c \in Tokens /\ (RotateLock(c) \/ RotateCommit(c))
    BY <2>1, RotateLockInv, RotateCommitInv
  <2>2. CASE \/ c \in Tokens /\ (RotateInsert(c) \/ RotateMarkReplaced(c))
             \/ CallFails(c)
    BY <2>2, InvisibleInv
  <2>3. CASE RevokeSnapshot(c) \/ RevokeCommit(c)
    BY <2>3, RevokeSnapshotInv, RevokeCommitInv
  <2>4. ASSUME NEW t \in Tokens, RevokeLock(c, t) PROVE TokenInv'
    BY <2>4, RevokeLockInv
  <2> QED
    BY <1>4, <2>1, <2>2, <2>3, <2>4 DEF Proceed
<1>5. CASE UNCHANGED tokenVars
  BY <1>5 DEF tokenVars, TokenInv, TokenTypeOK, LocksAreExclusive, RowsOfCalls,
              RowsAreLinked, CallsKnow, CallKnows, OneLiveTokenPerFamily,
              RevocationTookEffect, NobodyElseIsLoggedOut, Stored, ReuseIsTheft,
              rowVars, lockVars
<1> QED
  BY <1>1, <1>2, <1>3, <1>4, <1>5 DEF TokenNext

\* In every behaviour of the ledger the invariant holds.
THEOREM TokenInvariant == TokenSpec => []TokenInv
<1> QED
  BY TokenInitInv, TokenStepInv, PTL DEF TokenSpec

\* The ledger and the calls on it keep to their types.
THEOREM TokenTypeCorrect == TokenSpec => []TokenTypeOK
<1>1. TokenInv => TokenTypeOK
  BY DEF TokenInv
<1> QED
  BY <1>1, TokenInvariant, PTL

\* However many refreshes of however many tokens of a family overlap, at most one
\* of its tokens can still be exchanged.
THEOREM FamilyHasOneLiveToken == TokenSpec => []OneLiveTokenPerFamily
<1>1. TokenInv => OneLiveTokenPerFamily
  BY DEF TokenInv
<1> QED
  BY <1>1, TokenInvariant, PTL

\* The row of a token that was found to have expired is exchanged by nobody: it
\* was not, and no rotation that may still commit has it.
ExpiredIsFinal ==
    \A t \in Tokens : step[t] = "expired" =>
        /\ presented[t] \in expired
        /\ successor[presented[t]] = NoToken
        /\ \A c \in Txs : step[c] \in {"locked", "inserted", "marked"} =>
              presented[c] # presented[t]

\* Under its lock, a rotation sees what the expiry of a token has decided.
LEMMA RotateLockIsFinal ==
    ASSUME TokenInv, ExpiredIsFinal, NEW c \in Tokens, RotateLock(c)
    PROVE  ExpiredIsFinal'
<1>1. /\ c \in Txs /\ step \in [Txs -> Steps]
      /\ UNCHANGED <<successor, expired, presented>>
      /\ \A d \in Txs \ {c} : step'[d] = step[d]
      /\ step'[c] \in {"expired", "theft", "locked"}
      /\ step'[c] = "expired" => ~ReuseIsTheft(presented[c]) /\ presented[c] \in expired
      /\ step'[c] = "locked" => presented[c] \notin expired
      /\ Free(c, presented[c])
  BY DEF RotateLock, End, Goto, TokenInv, Txs, rowVars
<1>2. \A d \in Txs \ {c} :
          step[d] \in {"locked", "inserted", "marked"} => presented[d] # presented[c]
  BY <1>1 DEF Free, TokenInv, CallsKnow, CallKnows
<1> QED
  BY <1>1, <1>2 DEF ExpiredIsFinal, ReuseIsTheft, Txs

\* Every step of the ledger keeps it so.
LEMMA ExpiredStaysFinal ==
    TokenInv /\ ExpiredIsFinal /\ [TokenNext]_tokenVars => ExpiredIsFinal'
<1> SUFFICES ASSUME TokenInv, ExpiredIsFinal, [TokenNext]_tokenVars
             PROVE  ExpiredIsFinal'
  OBVIOUS
<1>1. step \in [Txs -> Steps] /\ presented \in [Txs -> Tokens \union {NoToken}]
      /\ successor \in [Tokens -> Tokens \union {NoToken}] /\ expired \subseteq Tokens
  BY DEF TokenInv, TokenTypeOK
<1>2. ASSUME NEW t \in Tokens, NewSession(t) \/ Expire(t)
      PROVE  ExpiredIsFinal'
  BY <1>1, <1>2 DEF NewSession, Expire, Goto, ExpiredIsFinal, rowVars, Txs
<1>3. ASSUME NEW c \in Txs, NEW p \in Presentable,
             (c \in Tokens /\ RefreshBegin(c, p)) \/ (c \in Logouts /\ LogoutLookup(c, p))
      PROVE  ExpiredIsFinal'
  BY <1>1, <1>3 DEF RefreshBegin, LogoutLookup, Goto, ExpiredIsFinal, rowVars, Txs
<1>4. ASSUME NEW c \in Tokens, RotateCommit(c)
      PROVE  ExpiredIsFinal'
  BY <1>1, <1>4 DEF RotateCommit, End, ExpiredIsFinal, Txs
<1>5. ASSUME NEW c \in Txs,
             \/ c \in Tokens /\ (RotateInsert(c) \/ RotateMarkReplaced(c))
             \/ RevokeSnapshot(c) \/ RevokeCommit(c) \/ CallFails(c)
             \/ \E t \in Tokens : RevokeLock(c, t)
      PROVE  ExpiredIsFinal'
  <2>1. /\ UNCHANGED <<successor, expired, presented>>
        /\ \A d \in Txs \ {c} : step'[d] = step[d]
        /\ step'[c] # "expired" \/ step'[c] = step[c]
        /\ step'[c] \in {"locked", "inserted", "marked"} =>
              step[c] \in {"locked", "inserted", "marked"}
    BY <1>1, <1>5 DEF RotateInsert, RotateMarkReplaced, RevokeSnapshot, RevokeLock,
                      RevokeCommit, CallFails, End, Goto, Answer, rowVars
  <2> QED
    BY <2>1 DEF ExpiredIsFinal, Txs
<1>6. CASE UNCHANGED tokenVars
  BY <1>6 DEF tokenVars, rowVars, ExpiredIsFinal
<1> QED
  BY <1>2, <1>3, <1>4, <1>5, <1>6, RotateLockIsFinal DEF TokenNext, Proceed, Txs

\* What a call was told about its token is so, for good: a reported reuse has been
\* acted on, an answered logout too, and no replay is taken for an expiry.
THEOREM TokenAnswersHold == TokenSpec => []TokenAnswersAreTrue
<1>1. TokenInit => ExpiredIsFinal
  BY DEF TokenInit, ExpiredIsFinal, Txs
<1>2. TokenInv /\ ExpiredIsFinal => TokenAnswersAreTrue
  BY DEF TokenInv, ExpiredIsFinal, ExpiredWasNotUsed, TokenAnswersAreTrue
<1> QED
  BY <1>1, <1>2, TokenInvariant, ExpiredStaysFinal, PTL DEF TokenSpec

\* A revoked token was logged out of, or is of a family in which a token was sent
\* by one call and exchanged by another.
THEOREM OthersStayLoggedIn == TokenSpec => []NobodyElseIsLoggedOut
<1>1. TokenInv => NobodyElseIsLoggedOut
  BY DEF TokenInv
<1> QED
  BY <1>1, TokenInvariant, PTL

-----------------------------------------------------------------------------
(* The ledger implements the port *)

\* What the port sees of the rows.
Rows == {RowOf(t) : t \in Stored}
Live == {t \in Stored : ~ReuseIsTheft(t)}

\* The INSERT of Register and Login opens a family.
LEMMA NewSessionIssues ==
    ASSUME TokenInv, NEW t \in Tokens, NewSession(t)
    PROVE  Port!Issue(t)
<1>1. /\ family' = [family EXCEPT ![t] = t]
      /\ UNCHANGED <<successor, revoked>>
      /\ family[t] = NoToken /\ successor[t] = NoToken /\ t \notin revoked /\ t # NoToken
  BY TokenAssumption
  DEF NewSession, TokenInv, TokenTypeOK, RowsOfCalls, RowsAreLinked
<1>2. Port!Fresh(t)
  BY <1>1 DEF Port!Fresh, RowOf, Stored
<1>3. Stored' = Stored \union {t}
  BY <1>1 DEF Stored, TokenInv, TokenTypeOK
<1>4. RowOf(t)' = [token |-> t, family |-> t] /\ \A u \in Stored : RowOf(u)' = RowOf(u)
  BY <1>1 DEF Stored, RowOf, TokenInv, TokenTypeOK
<1>5. Rows' = Rows \union {[token |-> t, family |-> t]}
  BY <1>3, <1>4 DEF Rows
<1>6. Live' = Live \union {t}
  BY <1>1, <1>3 DEF Live, ReuseIsTheft, TokenInv, TokenTypeOK
<1> QED
  BY <1>2, <1>5, <1>6 DEF Port!Issue, Rows, Live

\* The COMMIT of a rotation exchanges the presented token, live at that moment
\* because its row has been locked since it was found to be.
LEMMA RotateCommitExchanges ==
    ASSUME TokenInv, NEW t \in Tokens, RotateCommit(t)
    PROVE  \E k \in Rows : Port!Exchange(k, t)
<1> DEFINE p == presented[t]
<1>1. /\ p \in Tokens /\ family[p] # NoToken /\ family[p] \in Tokens
      /\ successor[p] = NoToken /\ p \notin revoked
      /\ family[t] = NoToken /\ successor[t] = NoToken /\ t \notin revoked
      /\ p # t /\ t # NoToken
      /\ family' = [family EXCEPT ![t] = family[p]]
      /\ successor' = [successor EXCEPT ![p] = t]
      /\ UNCHANGED revoked
  BY TokenAssumption
  DEF RotateCommit, TokenInv, TokenTypeOK, CallsKnow, CallKnows, InProgress,
      RowsOfCalls, RowsAreLinked, Txs
<1>2. RowOf(p) \in Rows /\ RowOf(p).token = p /\ RowOf(p).family = family[p]
  BY <1>1 DEF Rows, RowOf, Stored
<1>3. Port!Fresh(t) /\ p \in Live
  BY <1>1 DEF Port!Fresh, RowOf, Live, Stored, ReuseIsTheft
<1>4. Stored' = Stored \union {t}
  BY <1>1, TokenAssumption DEF Stored, TokenInv, TokenTypeOK
<1>5. RowOf(t)' = [token |-> t, family |-> family[p]]
      /\ \A u \in Stored : RowOf(u)' = RowOf(u)
  BY <1>1 DEF Stored, RowOf, TokenInv, TokenTypeOK
<1>6. Rows' = Rows \union {[token |-> t, family |-> RowOf(p).family]}
  BY <1>2, <1>4, <1>5 DEF Rows
<1>7. Live' = (Live \ {p}) \union {t}
  BY <1>1, <1>4 DEF Live, ReuseIsTheft, TokenInv, TokenTypeOK
<1>8. Port!Exchange(RowOf(p), t)
  BY <1>2, <1>3, <1>6, <1>7 DEF Port!Exchange, Rows, Live
<1> QED
  BY <1>2, <1>8

\* The COMMIT of a revocation ends all that is live in the family, because that is
\* one token at most; or it comes too late for it, and ends nothing.
LEMMA RevokeCommitRevokes ==
    ASSUME TokenInv, NEW c \in Txs, RevokeCommit(c)
    PROVE  (\E k \in Rows : Port!Revoke(k.family)) \/ UNCHANGED <<Rows, Live>>
<1> DEFINE p == presented[c]
           f == family[p]
<1>1. /\ p \in Tokens /\ f # NoToken
      /\ \A t \in holds[c] : family[t] = f
      /\ revoked' = revoked \union holds[c]
      /\ UNCHANGED <<family, successor>>
  BY DEF RevokeCommit, TokenInv, CallsKnow, CallKnows, InProgress
<1>2. /\ Rows' = Rows
      /\ Live' = {t \in Live : t \notin holds[c]}
  BY <1>1 DEF Rows, RowOf, Live, Stored, ReuseIsTheft
<1>3. CASE holds[c] \intersect Live = {}
  BY <1>2, <1>3
<1>4. CASE holds[c] \intersect Live # {}
  <2>1. PICK t \in holds[c] : t \in Live
    BY <1>4
  <2>2. \A u \in Live : family[u] = f => u = t
    BY <1>1, <2>1 DEF TokenInv, OneLiveTokenPerFamily, Live
  <2>3. Live' = {u \in Live : family[u] # f}
    BY <1>1, <1>2, <2>1, <2>2
  <2>4. ASSUME NEW u \in Live
        PROVE  family[u] # f <=> \A k \in Rows : k.token = u => k.family # f
    <3>1. /\ RowOf(u) \in Rows /\ RowOf(u).token = u /\ RowOf(u).family = family[u]
          /\ \A k \in Rows : k.token = u => k = RowOf(u)
      BY DEF Rows, RowOf, Live
    <3> QED
      BY <3>1
  <2>5. RowOf(p) \in Rows /\ RowOf(p).family = f
    BY <1>1 DEF Rows, RowOf, Stored
  <2>6. Port!Revoke(RowOf(p).family)
    <3>1. Live' = {u \in Live : \A k \in Rows : k.token = u => k.family # f}
      BY <2>3, <2>4
    <3> QED
      BY <1>2, <2>5, <3>1 DEF Port!Revoke, Rows, Live
  <2> QED
    BY <2>5, <2>6
<1> QED
  BY <1>3, <1>4

\* No other step is seen through the port.
LEMMA TokenStepIsPortStep ==
    ASSUME TokenInv, [TokenNext]_tokenVars
    PROVE  [Port!RefreshNext]_Port!refreshVars
<1>1. CASE UNCHANGED rowVars
  BY <1>1 DEF rowVars, Port!refreshVars, RowOf, Stored, ReuseIsTheft
<1>2. CASE \E t \in Tokens : NewSession(t)
  BY <1>2, NewSessionIssues DEF Port!RefreshNext
<1>3. CASE \E t \in Tokens : RotateCommit(t)
  BY <1>3, RotateCommitExchanges DEF Port!RefreshNext, Rows
<1>4. CASE \E c \in Txs : RevokeCommit(c)
  BY <1>4, RevokeCommitRevokes DEF Port!RefreshNext, Port!refreshVars, Rows, Live
<1>5. \/ UNCHANGED rowVars
      \/ \E t \in Tokens : NewSession(t) \/ RotateCommit(t)
      \/ \E c \in Txs : RevokeCommit(c)
  BY DEF TokenNext, Expire, RefreshBegin, LogoutLookup, Proceed, RotateLock,
         RotateInsert, RotateMarkReplaced, RevokeSnapshot, RevokeLock, CallFails, tokenVars
<1> QED
  BY <1>1, <1>2, <1>3, <1>4, <1>5

\* The transactions of Rotate and RevokeFamily, statement by statement and under
\* any interleaving, are the indivisible steps their callers count on.
THEOREM LedgerImplementsPort == TokenSpec => ImplementsRefreshPort
<1>1. TokenInit => Port!RefreshInit
  BY DEF TokenInit, Port!RefreshInit, Stored
<1> QED
  BY <1>1, TokenInvariant, TokenStepIsPortStep, PTL
  DEF TokenSpec, ImplementsRefreshPort, Port!RefreshSpec

\* What the port's callers conclude needs more to be inductive: rows have names of
\* their own, what is live has a row, and a family is named by one of its rows.
PortInv ==
    /\ Port!FamilyIsOneSession
    /\ \A j, k \in Rows : j.token = k.token => j = k
    /\ \A t \in Live : \E k \in Rows : k.token = t
    /\ \A k \in Rows : \E r \in Rows : r.token = k.family

LEMMA PortInvReads ==
    /\ Port!FamilyIsOneSession <=>
          \A j, k \in Rows : j.token \in Live /\ k.token \in Live /\ j.family = k.family => j = k
    /\ Port!FamilyIsOneSession' <=>
          \A j, k \in Rows' : j.token \in Live' /\ k.token \in Live' /\ j.family = k.family => j = k
BY DEF Port!FamilyIsOneSession, Rows, Live

LEMMA PortStepInv ==
    ASSUME PortInv, [Port!RefreshNext]_Port!refreshVars
    PROVE  PortInv'
<1>1. CASE UNCHANGED <<Rows, Live>>
  BY <1>1, PortInvReads DEF PortInv
<1>2. ASSUME NEW t \in Tokens, Port!Issue(t) PROVE PortInv'
  <2> DEFINE row == [token |-> t, family |-> t]
  <2>1. /\ \A k \in Rows : k.token # t
        /\ Rows' = Rows \union {row} /\ Live' = Live \union {t}
    BY <1>2 DEF Port!Issue, Port!Fresh, Rows, Live
  <2>2. row.token = t /\ row.family = t
    OBVIOUS
  <2> HIDE DEF row
  <2>3. \A k \in Rows : k.family # t
    BY <2>1 DEF PortInv
  <2> QED
    BY <2>1, <2>2, <2>3, PortInvReads DEF PortInv
<1>3. ASSUME NEW k \in Rows, NEW t \in Tokens, Port!Exchange(k, t) PROVE PortInv'
  <2> DEFINE row == [token |-> t, family |-> k.family]
  <2>1. /\ k.token \in Live /\ \A r \in Rows : r.token # t
        /\ Rows' = Rows \union {row} /\ Live' = (Live \ {k.token}) \union {t}
    BY <1>3 DEF Port!Exchange, Port!Fresh, Rows, Live
  <2>2. row.token = t /\ row.family = k.family
    OBVIOUS
  <2> HIDE DEF row
  <2> QED
    BY <2>1, <2>2, PortInvReads DEF PortInv
<1>4. ASSUME NEW k \in Rows, Port!Revoke(k.family) PROVE PortInv'
  <2>1. Rows' = Rows /\ Live' \subseteq Live
    BY <1>4 DEF Port!Revoke, Rows, Live
  <2> QED
    BY <2>1, PortInvReads DEF PortInv
<1>5. \/ UNCHANGED <<Rows, Live>>
      \/ \E t \in Tokens : Port!Issue(t)
      \/ \E k \in Rows, t \in Tokens : Port!Exchange(k, t)
      \/ \E k \in Rows : Port!Revoke(k.family)
  BY DEF Port!RefreshNext, Port!refreshVars, Rows, Live
<1> QED
  BY <1>1, <1>2, <1>3, <1>4, <1>5

\* Whatever keeps the port has one live token per family: a caller of the store
\* need not know by which locks it does.
THEOREM PortKeepsOneSession == Port!RefreshSpec => []Port!FamilyIsOneSession
<1>1. Port!RefreshInit => PortInv
  BY DEF Port!RefreshInit, PortInv, Port!FamilyIsOneSession, Rows, Live
<1>2. PortInv => Port!FamilyIsOneSession
  BY DEF PortInv
<1> QED
  BY <1>1, <1>2, PortStepInv, PTL DEF Port!RefreshSpec

-----------------------------------------------------------------------------
(* When nobody can go on, two calls wait for each other *)

Revoking == {c \in Txs : step[c] = "revoking"}

\* What the UPDATE of c found and nobody has revoked since.
Remaining(c) == (holds[c] \union doomed[c]) \ revoked

\* before[c] stands for the rows that were revoked when the UPDATE of c started.
\* Of two UPDATEs on one family the earlier one found fewer rows revoked, and no
\* row, unless it has been revoked since, that the later one did not find too.
Earlier(before, c, d) ==
    before[c] \subseteq before[d] /\ Remaining(c) \subseteq Remaining(d)

OrderedBy(before) ==
    /\ \A c \in Revoking :
          /\ before[c] \subseteq revoked
          /\ before[c] \intersect doomed[c] = {}
          /\ holds[c] \intersect revoked \subseteq before[c]
    /\ \A c, d \in Revoking : family[presented[c]] = family[presented[d]] =>
          Earlier(before, c, d) \/ Earlier(before, d, c)

SnapshotsAreOrdered == \E before \in [Txs -> SUBSET Tokens] : OrderedBy(before)

OrderInv == TokenInv /\ IsFiniteSet(Stored) /\ SnapshotsAreOrdered

\* Rows come one at a time, and stay.
LEMMA StoredStaysFinite ==
    ASSUME TokenInv, IsFiniteSet(Stored), [TokenNext]_tokenVars
    PROVE  IsFiniteSet(Stored')
<1>1. \/ family' = family
      \/ \E t \in Tokens : \E f : family' = [family EXCEPT ![t] = f]
  BY DEF TokenNext, NewSession, Expire, RefreshBegin, LogoutLookup, Proceed, RotateLock,
         RotateInsert, RotateMarkReplaced, RotateCommit, RevokeSnapshot, RevokeLock,
         RevokeCommit, CallFails, tokenVars, rowVars
<1>2. CASE family' = family
  BY <1>2 DEF Stored
<1>3. ASSUME NEW t \in Tokens, NEW f, family' = [family EXCEPT ![t] = f]
      PROVE  IsFiniteSet(Stored')
  <2>1. Stored' \subseteq Stored \union {t}
    BY <1>3 DEF Stored, TokenInv, TokenTypeOK
  <2>2. IsFiniteSet(Stored \union {t})
    BY FS_AddElement
  <2> QED
    BY <2>1, <2>2, FS_Subset
<1> QED
  BY <1>1, <1>2, <1>3

LEMMA StepRowsStay ==
    ASSUME TokenInv, [TokenNext]_tokenVars
    PROVE  /\ \A t \in Tokens : family[t] # NoToken => family'[t] = family[t]
           /\ revoked \subseteq revoked'
<1>1. CASE \E t \in Tokens : NewSession(t)
  BY <1>1 DEF NewSession, TokenInv, TokenTypeOK, RowsOfCalls
<1>2. CASE \E t \in Tokens : RotateCommit(t)
  BY <1>2 DEF RotateCommit, TokenInv, TokenTypeOK, RowsOfCalls
<1>3. CASE UNCHANGED family /\ revoked \subseteq revoked'
  BY <1>3
<1>4. \/ UNCHANGED family /\ revoked \subseteq revoked'
      \/ \E t \in Tokens : NewSession(t) \/ RotateCommit(t)
  BY DEF TokenNext, Expire, RefreshBegin, LogoutLookup, Proceed, RotateLock, RotateInsert,
         RotateMarkReplaced, RevokeSnapshot, RevokeLock, RevokeCommit, CallFails,
         tokenVars, rowVars
<1> QED
  BY <1>1, <1>2, <1>3, <1>4

\* The token of a revoking call has a row.
LEMMA RevokerHasRow ==
    ASSUME TokenInv, NEW c \in Revoking
    PROVE  /\ presented[c] \in Tokens /\ family[presented[c]] # NoToken
           /\ \A t \in holds[c] \union doomed[c] :
                 t \in Stored /\ family[t] = family[presented[c]]
BY DEF Revoking, TokenInv, TokenTypeOK, CallsKnow, CallKnows, InProgress, Stored

\* The order survives a step that leaves the UPDATEs it does not end alone.
LEMMA OrderStays ==
    ASSUME TokenInv, NEW before, OrderedBy(before),
           \A t \in Tokens : family[t] # NoToken => family'[t] = family[t],
           revoked \subseteq revoked',
           \A c \in Revoking' :
               /\ c \in Revoking /\ CallStays(c)
               /\ holds[c] \intersect revoked' = holds[c] \intersect revoked
    PROVE  OrderedBy(before)'
<1>1. ASSUME NEW c \in Revoking'
      PROVE  /\ before[c] \subseteq revoked'
             /\ before[c] \intersect doomed'[c] = {}
             /\ holds'[c] \intersect revoked' \subseteq before[c]
  BY DEF OrderedBy, CallStays
<1>2. ASSUME NEW c \in Revoking', NEW d \in Revoking',
             family'[presented'[c]] = family'[presented'[d]]
      PROVE  Earlier(before, c, d)' \/ Earlier(before, d, c)'
  <2>1. family[presented[c]] = family[presented[d]]
    BY <1>2, RevokerHasRow DEF CallStays
  <2>2. \A e \in {c, d} : Remaining(e)' = Remaining(e) \ revoked'
    BY DEF Remaining, CallStays
  <2> QED
    BY <2>1, <2>2 DEF OrderedBy, Earlier
<1> QED
  BY <1>1, <1>2 DEF OrderedBy

\* The UPDATE that starts now finds every row an earlier one may still revoke.
LEMMA SnapshotIsLatest ==
    ASSUME TokenInv, SnapshotsAreOrdered, NEW c \in Txs, RevokeSnapshot(c)
    PROVE  SnapshotsAreOrdered'
<1>1. PICK before \in [Txs -> SUBSET Tokens] : OrderedBy(before)
  BY DEF SnapshotsAreOrdered
<1> DEFINE p == presented[c]
<1>2. /\ step[c] \in {"theft", "found"}
      /\ UNCHANGED <<family, successor, revoked, presented, holds>>
      /\ step' = [step EXCEPT ![c] = "revoking"]
      /\ doomed' = [doomed EXCEPT ![c] = {t \in Stored \ revoked : family[t] = family[p]}]
  BY DEF RevokeSnapshot, Goto, rowVars
<1>3. PICK after \in [Txs -> SUBSET Tokens] :
         after[c] = revoked /\ \A d \in Txs \ {c} : after[d] = before[d]
  <2>1. [before EXCEPT ![c] = revoked] \in [Txs -> SUBSET Tokens]
    BY DEF TokenInv, TokenTypeOK
  <2> QED
    BY <2>1
<1>4. /\ Revoking' = Revoking \union {c} /\ c \notin Revoking
      /\ doomed'[c] = {t \in Stored \ revoked : family[t] = family[p]}
      /\ \A d \in Revoking : doomed'[d] = doomed[d]
  BY <1>2 DEF Revoking, TokenInv, TokenTypeOK
<1>5. ASSUME NEW d \in Revoking'
      PROVE  /\ after[d] \subseteq revoked'
             /\ after[d] \intersect doomed'[d] = {}
             /\ holds'[d] \intersect revoked' \subseteq after[d]
  BY <1>1, <1>2, <1>3, <1>4 DEF OrderedBy, Revoking
<1>6. ASSUME NEW d \in Revoking, family[presented[d]] = family[p]
      PROVE  Earlier(after, d, c)'
  <2>1. Remaining(d)' \subseteq Remaining(c)'
    BY <1>2, <1>4, <1>6, RevokerHasRow DEF Remaining
  <2>2. after[d] \subseteq after[c]
    BY <1>1, <1>3, <1>4 DEF OrderedBy, Revoking
  <2> QED
    BY <2>1, <2>2 DEF Earlier
<1>7. ASSUME NEW d \in Revoking, NEW e \in Revoking,
             family[presented[d]] = family[presented[e]]
      PROVE  Earlier(after, d, e)' \/ Earlier(after, e, d)'
  BY <1>1, <1>2, <1>3, <1>4, <1>7 DEF OrderedBy, Earlier, Remaining, Revoking
<1>8. Earlier(after, c, c)'
  BY DEF Earlier
<1>9. OrderedBy(after)'
  BY <1>2, <1>4, <1>5, <1>6, <1>7, <1>8 DEF OrderedBy
<1> QED
  BY <1>3, <1>9 DEF SnapshotsAreOrdered

\* A row the UPDATE locks is still its to revoke, or has been revoked.
LEMMA LockKeepsOrder ==
    ASSUME TokenInv, NEW before, OrderedBy(before),
           NEW c \in Txs, NEW t \in Tokens, RevokeLock(c, t)
    PROVE  OrderedBy(before)'
<1>1. /\ t \in doomed[c] /\ c \in Revoking
      /\ UNCHANGED <<family, successor, revoked, step, presented>>
      /\ doomed'[c] = doomed[c] \ {t}
      /\ holds'[c] = IF t \in revoked THEN holds[c] ELSE holds[c] \union {t}
      /\ \A d \in Txs \ {c} : doomed'[d] = doomed[d] /\ holds'[d] = holds[d]
  BY DEF RevokeLock, Revoking, TokenInv, TokenTypeOK, rowVars
<1>2. Revoking' = Revoking /\ Revoking \subseteq Txs
  BY <1>1 DEF Revoking
<1>3. \A d \in Revoking : Remaining(d)' = Remaining(d)
  BY <1>1, <1>2 DEF Remaining
<1>4. \A d \in Revoking : /\ before[d] \intersect doomed'[d] = {}
                          /\ holds'[d] \intersect revoked' \subseteq before[d]
  BY <1>1, <1>2 DEF OrderedBy
<1> QED
  BY <1>1, <1>2, <1>3, <1>4 DEF OrderedBy, Earlier

LEMMA OrderStepInv ==
    ASSUME TokenInv, SnapshotsAreOrdered, [TokenNext]_tokenVars
    PROVE  SnapshotsAreOrdered'
<1>1. PICK before \in [Txs -> SUBSET Tokens] : OrderedBy(before)
  BY DEF SnapshotsAreOrdered
<1>2. CASE \E c \in Txs : RevokeSnapshot(c)
  BY <1>2, SnapshotIsLatest
<1>3. CASE \E c \in Txs, t \in Tokens : RevokeLock(c, t)
  BY <1>1, <1>3, LockKeepsOrder DEF SnapshotsAreOrdered
<1>4. ASSUME \A c \in Revoking' :
                /\ c \in Revoking /\ CallStays(c)
                /\ holds[c] \intersect revoked' = holds[c] \intersect revoked
      PROVE  SnapshotsAreOrdered'
  <2>1. OrderedBy(before)'
    BY <1>1, <1>4, StepRowsStay, OrderStays
  <2> QED
    BY <2>1 DEF SnapshotsAreOrdered
<1>5. CASE \E t \in Tokens : NewSession(t) \/ Expire(t)
  BY <1>4, <1>5
  DEF NewSession, Expire, Goto, CallStays, Revoking, TokenInv, rowVars, lockVars
<1>6. CASE \E p \in Presentable : \/ \E t \in Tokens : RefreshBegin(t, p)
                                  \/ \E l \in Logouts : LogoutLookup(l, p)
  BY <1>4, <1>6
  DEF RefreshBegin, LogoutLookup, Goto, CallStays, Revoking, TokenInv, TokenTypeOK,
      Txs, rowVars, lockVars
<1>7. CASE \E t \in Tokens : RotateInsert(t) \/ RotateMarkReplaced(t)
  BY <1>4, <1>7
  DEF RotateInsert, RotateMarkReplaced, Goto, CallStays, Revoking, TokenInv, Txs,
      rowVars, lockVars
<1>8. ASSUME NEW t \in Tokens, RotateLock(t) \/ RotateCommit(t) \/ CallFails(t)
      PROVE  SnapshotsAreOrdered'
  <2>1. UNCHANGED <<revoked, presented>> /\ t \in Txs
    BY <1>8 DEF RotateLock, RotateCommit, CallFails, rowVars, Txs
  <2>2. step'[t] # "revoking"
    BY <1>8 DEF RotateLock, RotateCommit, CallFails, End, Goto, TokenInv, Txs
  <2>3. \A d \in Txs \ {t} : CallStays(d)
    BY <1>8 DEF RotateLock, RotateCommit, CallFails, End, Goto, CallStays, TokenInv, TokenTypeOK
  <2> QED
    BY <1>4, <2>1, <2>2, <2>3 DEF Revoking, CallStays
<1>9. ASSUME NEW c \in Txs, RevokeCommit(c) \/ CallFails(c)
      PROVE  SnapshotsAreOrdered'
  <2>1. revoked' \in {revoked, revoked \union holds[c]} /\ step'[c] # "revoking"
    BY <1>9 DEF RevokeCommit, CallFails, End, Answer, TokenInv, rowVars
  <2>2. \A d \in Txs \ {c} : CallStays(d) /\ holds[d] \intersect holds[c] = {}
    BY <1>9
    DEF RevokeCommit, CallFails, End, CallStays, TokenInv, TokenTypeOK, LocksAreExclusive
  <2> QED
    BY <1>4, <2>1, <2>2 DEF Revoking, CallStays
<1>10. CASE UNCHANGED tokenVars
  BY <1>4, <1>10 DEF tokenVars, CallStays, Revoking, rowVars, lockVars
<1> QED
  BY <1>2, <1>3, <1>5, <1>6, <1>7, <1>8, <1>9, <1>10 DEF TokenNext, Proceed

\* A finite family of finite sets has a smallest one, and a largest one.
LEMMA MinimalSet ==
    ASSUME NEW S, IsFiniteSet(S), NEW F, F \subseteq SUBSET S, F # {}
    PROVE  \E x \in F : \A y \in F : y \subseteq x => y = x
<1>1. FiniteSubsetsOf(S) = SUBSET S
  BY FS_FiniteSubsetsOfFinite
<1>2. IsWellFoundedOn(StrictSubsetOrdering(S), SUBSET S)
  BY <1>1, FS_StrictSubsetOrderingWellFounded
<1>3. PICK x \in F : \A y \in F : <<y, x>> \notin StrictSubsetOrdering(S)
  BY <1>2, WFMin
<1>4. ASSUME NEW y \in F, y \subseteq x PROVE y = x
  BY <1>3, <1>4 DEF StrictSubsetOrdering
<1> QED
  BY <1>4

LEMMA MaximalSet ==
    ASSUME NEW S, IsFiniteSet(S), NEW F, F \subseteq SUBSET S, F # {}
    PROVE  \E x \in F : \A y \in F : x \subseteq y => y = x
<1> DEFINE rest(x) == S \ x
           G == {rest(x) : x \in F}
<1>1. PICK z \in G : \A y \in G : y \subseteq z => y = z
  <2>1. PICK y \in F : TRUE
    OBVIOUS
  <2>2. rest(y) \in G /\ G \subseteq SUBSET S
    OBVIOUS
  <2> HIDE DEF G
  <2> QED
    BY <2>2, MinimalSet
<1>2. PICK x \in F : z = rest(x)
  BY <1>1
<1>3. ASSUME NEW y \in F, x \subseteq y PROVE y = x
  <2>1. rest(y) \in G /\ rest(y) \subseteq rest(x)
    BY <1>3
  <2>2. rest(y) = rest(x)
    BY <1>1, <1>2, <2>1
  <2> QED
    BY <1>3, <2>2
<1> QED
  BY <1>3

\* Nobody goes on, and no two calls wait for each other.
Stuck ==
    /\ \E c \in Txs : step[c] \in InProgress
    /\ \A c \in Txs : step[c] \in InProgress =>
          WaitsFor(c) # {} /\ \A d \in WaitsFor(c) : c \notin WaitsFor(d)

\* Then whoever is waited for is revoking a family.
LEMMA StuckOnRevokers ==
    ASSUME TokenInv, Stuck
    PROVE  /\ Revoking # {}
           /\ \A c \in Revoking :
                 /\ doomed[c] # {}
                 /\ \A t \in doomed[c] : \E d \in Revoking \ {c} : t \in holds[d]
           /\ \A c, d \in Revoking : c # d =>
                 holds[d] \intersect doomed[c] = {} \/ holds[c] \intersect doomed[d] = {}
<1>1. ASSUME NEW c \in Txs, step[c] \in InProgress
      PROVE  /\ Wanted(c) # {} /\ step[c] \in {"begun", "revoking"}
             /\ \A t \in Wanted(c) : ~Free(c, t)
             /\ WaitsFor(c) = {d \in Txs \ {c} : holds[d] \intersect Wanted(c) # {}}
  <2>1. WaitsFor(c) # {}
    BY <1>1 DEF Stuck
  <2>2. /\ \A t \in Wanted(c) : ~Free(c, t)
        /\ WaitsFor(c) = {d \in Txs \ {c} : holds[d] \intersect Wanted(c) # {}}
    BY <2>1 DEF WaitsFor
  <2>3. Wanted(c) # {}
    BY <2>1, <2>2
  <2> QED
    BY <2>2, <2>3 DEF Wanted
<1>2. ASSUME NEW d \in Txs, holds[d] # {} PROVE d \in Revoking
  <2>1. step[d] \in {"locked", "inserted", "marked", "theft", "revoking"}
    BY <1>2 DEF TokenInv, CallsKnow, CallKnows
  <2> QED
    BY <1>1, <2>1 DEF InProgress, Revoking
<1>3. ASSUME NEW c \in Txs, step[c] \in InProgress, NEW t \in Wanted(c)
      PROVE  \E d \in Revoking \ {c} : t \in holds[d]
  BY <1>1, <1>2, <1>3 DEF Free
<1>4. Revoking # {}
  BY <1>1, <1>3 DEF Stuck
<1>5. ASSUME NEW c \in Revoking
      PROVE  /\ c \in Txs /\ step[c] \in InProgress /\ Wanted(c) = doomed[c]
             /\ WaitsFor(c) = {d \in Txs \ {c} : holds[d] \intersect doomed[c] # {}}
  <2>1. c \in Txs /\ step[c] \in InProgress /\ Wanted(c) = doomed[c]
    BY DEF Revoking, InProgress, Wanted
  <2> QED
    BY <1>1, <2>1
<1>6. ASSUME NEW c \in Revoking, NEW d \in Revoking, c # d
      PROVE  holds[d] \intersect doomed[c] = {} \/ holds[c] \intersect doomed[d] = {}
  BY <1>5, <1>6 DEF Stuck
<1> QED
  BY <1>1, <1>3, <1>4, <1>5, <1>6

\* Take the UPDATE with the least left to revoke among those that hold something
\* to revoke.  It waits for one that found all of that too, so each waits for the
\* other.  If none holds anything to revoke, each waits for one that started after
\* it, and the last one for nobody.
LEMMA NobodyIsStuck == OrderInv => ~Stuck
<1> SUFFICES ASSUME OrderInv, Stuck PROVE FALSE
  OBVIOUS
<1>1. PICK before \in [Txs -> SUBSET Tokens] : OrderedBy(before)
  BY DEF OrderInv, SnapshotsAreOrdered
<1>2. Revoking # {} /\ Revoking \subseteq Txs
  BY StuckOnRevokers DEF OrderInv, Revoking
<1>3. ASSUME NEW c \in Revoking
      PROVE  \E d \in Revoking \ {c}, t \in doomed[c] :
                /\ t \in holds[d]
                /\ Earlier(before, c, d) \/ Earlier(before, d, c)
                /\ Remaining(c) \subseteq Remaining(d) => holds[c] \subseteq revoked
                /\ t \notin before[c] /\ (t \in revoked => t \in before[d])
  <2>1. PICK t \in doomed[c], d \in Revoking \ {c} : t \in holds[d]
    BY StuckOnRevokers DEF OrderInv
  <2>2. Earlier(before, c, d) \/ Earlier(before, d, c)
    BY <1>1, <2>1, RevokerHasRow DEF OrderInv, OrderedBy
  <2>3. ASSUME Remaining(c) \subseteq Remaining(d), NEW r \in holds[c], r \notin revoked
        PROVE  FALSE
    <3>1. r \in doomed[d]
      BY <1>2, <2>1, <2>3 DEF Remaining, OrderInv, TokenInv, LocksAreExclusive
    <3> QED
      BY <2>1, <3>1, StuckOnRevokers DEF OrderInv
  <2>4. t \notin before[c] /\ (t \in revoked => t \in before[d])
    BY <1>1, <2>1 DEF OrderedBy
  <2> QED
    BY <2>1, <2>2, <2>3, <2>4
<1> DEFINE Holders == {c \in Revoking : ~(holds[c] \subseteq revoked)}
<1>4. IsFiniteSet(Stored)
  BY DEF OrderInv
<1>5. CASE Holders # {}
  <2> DEFINE F == {Remaining(c) : c \in Holders}
  <2>1. \A c \in Holders : Remaining(c) \subseteq Stored
    BY RevokerHasRow DEF Remaining, OrderInv
  <2>2. F \subseteq SUBSET Stored /\ F # {}
    BY <1>5, <2>1
  <2> HIDE DEF F
  <2>3. PICK x \in F : \A y \in F : y \subseteq x => y = x
    BY <1>4, <2>2, MinimalSet
  <2>4. PICK c \in Holders : x = Remaining(c)
    BY DEF F
  <2>5. PICK d \in Revoking \ {c}, t \in doomed[c] :
           /\ t \in holds[d]
           /\ Earlier(before, c, d) \/ Earlier(before, d, c)
           /\ ~(Remaining(c) \subseteq Remaining(d))
           /\ t \notin before[c] /\ (t \in revoked => t \in before[d])
    BY <1>3, <2>4
  <2>6. Remaining(d) \subseteq Remaining(c) /\ before[d] \subseteq before[c]
    BY <2>5 DEF Earlier
  <2>7. d \in Holders
    BY <2>5, <2>6
  <2> QED
    BY <2>3, <2>4, <2>5, <2>6, <2>7 DEF F
<1>6. CASE Holders = {}
  <2> DEFINE F == {before[c] : c \in Revoking}
  <2>1. F \subseteq SUBSET Stored /\ F # {}
    BY <1>1, <1>2 DEF OrderedBy, Stored, OrderInv, TokenInv, TokenTypeOK, RowsAreLinked
  <2> HIDE DEF F
  <2>2. PICK x \in F : \A y \in F : x \subseteq y => y = x
    BY <1>4, <2>1, MaximalSet
  <2>3. PICK c \in Revoking : x = before[c]
    BY DEF F
  <2>4. PICK d \in Revoking \ {c}, t \in doomed[c] :
           /\ t \in holds[d]
           /\ Earlier(before, c, d) \/ Earlier(before, d, c)
           /\ t \notin before[c] /\ (t \in revoked => t \in before[d])
    BY <1>3
  <2>5. t \in before[d]
    BY <1>6, <2>4
  <2>6. before[c] \subseteq before[d]
    BY <2>4, <2>5 DEF Earlier
  <2> QED
    BY <2>2, <2>3, <2>4, <2>5, <2>6 DEF F
<1> QED
  BY <1>5, <1>6

\* Whenever calls are in progress, one of them can go on, or two wait for each
\* other and Postgres aborts one: no cycle of three, no lock that outlives its call.
THEOREM SomebodyGoesOn == TokenSpec => []StandstillIsAPair
<1>1. TokenInit => IsFiniteSet(Stored) /\ SnapshotsAreOrdered
  <2>1. ASSUME TokenInit PROVE IsFiniteSet(Stored)
    <3>1. Stored = {}
      BY <2>1 DEF TokenInit, Stored
    <3> QED
      BY <3>1, FS_EmptySet
  <2>2. ASSUME TokenInit PROVE SnapshotsAreOrdered
    <3>1. [c \in Txs |-> {}] \in [Txs -> SUBSET Tokens] /\ Revoking = {}
      BY <2>2 DEF TokenInit, Revoking
    <3>2. OrderedBy([c \in Txs |-> {}])
      BY <3>1 DEF OrderedBy
    <3> QED
      BY <3>1, <3>2 DEF SnapshotsAreOrdered
  <2> QED
    BY <2>1, <2>2
<1>2. OrderInv /\ TokenInv' /\ [TokenNext]_tokenVars => OrderInv'
  BY StoredStaysFinite, OrderStepInv DEF OrderInv
<1>3. OrderInv => StandstillIsAPair
  BY NobodyIsStuck DEF Stuck, StandstillIsAPair
<1>4. TokenInit => OrderInv
  BY <1>1, TokenInitInv DEF OrderInv
<1> QED
  BY <1>2, <1>3, <1>4, TokenInvariant, PTL DEF TokenSpec

=============================================================================
