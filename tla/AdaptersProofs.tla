----------------------------- MODULE AdaptersProofs -----------------------------
(***************************************************************************)
(* The in-memory adapters keep the ports the real ones keep, for any       *)
(* number of sessions, seats, users, intents and tokens.  One store is     *)
(* wired in a behaviour, so the stores are treated one after the other.    *)
(***************************************************************************)
EXTENDS Adapters, FiniteSetTheorems, FunctionTheorems, TLAPS

-----------------------------------------------------------------------------
(* memory.HoldStore: a lease on each seat *)

MemHoldTyped ==
    /\ memNow \in Nat
    /\ memExpiresAt \in [Sessions -> Nat]
    /\ memSeat \in [Seats -> Sessions \union {NoSession}]
    /\ memSessions \subseteq Sessions
    /\ memUserHolds \in [Users -> SUBSET Sessions]
    /\ memReleased \subseteq Sessions

\* A seat's entry names a session that was minted, for that seat.
EntriesAreMinted ==
    /\ \A s \in memSessions : memExpiresAt[s] # 0
    /\ \A x \in Seats : memSeat[x] # NoSession =>
          memExpiresAt[memSeat[x]] # 0 /\ SeatOf[memSeat[x]] = x

\* "The seat and session entries always share a lifetime."
EntriesShareLifetime ==
    \A s \in Sessions : MemLive(s) => (s \in memSessions <=> memSeat[SeatOf[s]] = s)

\* No claim is longer than the TTL.
ExpiryIsNear == \A s \in Sessions : memExpiresAt[s] <= memNow + MemHoldTTL

LimitCountsSessions ==
    \A u \in Users : memUserHolds[u] = {s \in memSessions : UserOf[s] = u}

MemHoldInv ==
    /\ MemHoldTyped
    /\ EntriesAreMinted
    /\ EntriesShareLifetime
    /\ ExpiryIsNear
    /\ LimitCountsSessions

\* Every step of the hold double keeps the invariant.
LEMMA MemHoldStepInv ==
    ASSUME MemHoldInv, [MemHoldNext]_memHoldVars
    PROVE  MemHoldInv'
<1> USE DomainAssumption, MemoryAssumption
<1> USE DEF MemHoldInv, MemHoldTyped, EntriesAreMinted, EntriesShareLifetime,
            ExpiryIsNear, LimitCountsSessions, MemLive
<1>1. CASE MemAdvance
  BY <1>1 DEF MemAdvance
<1>2. ASSUME NEW s \in Sessions, MemMint(s) PROVE MemHoldInv'
  <2>1. s \notin memSessions /\ memSeat[SeatOf[s]] # s
    BY <1>2 DEF MemMint
  <2> QED
    BY <1>2, <2>1 DEF MemMint
<1>3. ASSUME NEW s \in Sessions, MemHold(s) PROVE MemHoldInv'
  <2>1. memSeat[SeatOf[s]] # NoSession => ~MemLive(memSeat[SeatOf[s]])
    BY <1>3 DEF MemHold, MemHolder
  <2>2. MemHoldTyped'
    BY <1>3 DEF MemHold
  <2>3. EntriesAreMinted'
    BY <1>3 DEF MemHold
  <2>4. EntriesShareLifetime'
    BY <1>3, <2>1 DEF MemHold
  <2>5. LimitCountsSessions' /\ ExpiryIsNear'
    BY <1>3 DEF MemHold
  <2> QED
    BY <2>2, <2>3, <2>4, <2>5
<1>4. ASSUME NEW u \in Users, NEW s \in Sessions, MemRelease(u, s) PROVE MemHoldInv'
  <2>1. MemHoldTyped'
    BY <1>4 DEF MemRelease, MemGivenUp
  <2>2. EntriesAreMinted'
    BY <1>4 DEF MemRelease
  <2>3. EntriesShareLifetime'
    BY <1>4 DEF MemRelease
  <2>4. LimitCountsSessions' /\ ExpiryIsNear'
    BY <1>4 DEF MemRelease
  <2> QED
    BY <2>1, <2>2, <2>3, <2>4
<1>5. CASE UNCHANGED memHoldVars
  BY <1>5 DEF memHoldVars
<1> QED
  BY <1>1, <1>2, <1>3, <1>4, <1>5 DEF MemHoldNext

\* The limit counts at least the seats the port says the user has.
LEMMA LeasesAreCounted ==
    ASSUME MemHoldInv, NEW u \in Users
    PROVE  /\ Cardinality(HoldDouble!LeasedBy(u)) \in Nat
           /\ Cardinality(memUserHolds[u]) \in Nat
           /\ Cardinality(HoldDouble!LeasedBy(u)) <= Cardinality(memUserHolds[u])
<1> DEFINE leases == {x \in Seats : MemHolder(x) # NoSession /\ UserOf[MemHolder(x)] = u}
           counted == memUserHolds[u]
           token  == [x \in leases |-> memSeat[x]]
<1>1. ASSUME NEW x \in Seats, MemHolder(x) # NoSession
      PROVE  /\ MemHolder(x) = memSeat[x] /\ memSeat[x] \in memSessions
             /\ SeatOf[memSeat[x]] = x
  BY <1>1 DEF MemHolder, MemHoldInv, EntriesAreMinted, EntriesShareLifetime, MemHoldTyped
<1>2. HoldDouble!LeasedBy(u) = leases
  BY DomainAssumption DEF HoldDouble!LeasedBy, HoldDouble!NoLease, MemLease
<1>3. token \in Injection(leases, counted)
  <2>1. token \in [leases -> counted]
    BY <1>1 DEF MemHoldInv, LimitCountsSessions
  <2>2. \A x, y \in leases : token[x] = token[y] => x = y
    BY <1>1
  <2> QED
    BY <2>1, <2>2, Fun_IsInj
<1>4. IsFiniteSet(counted)
  BY DomainAssumption, FS_Subset DEF MemHoldInv, MemHoldTyped
<1> HIDE DEF leases, counted, token
<1>5. IsFiniteSet(leases) /\ Cardinality(leases) <= Cardinality(counted)
  BY <1>3, <1>4, FS_Injection
<1> QED
  BY <1>2, <1>4, <1>5, FS_CardinalityType DEF counted

\* Every step of the hold double is a step of the port, or none.
LEMMA MemHoldStepIsPortStep ==
    ASSUME MemHoldInv, [MemHoldNext]_memHoldVars
    PROVE  [HoldDouble!PortNext]_HoldDouble!portVars
<1> USE DomainAssumption, MemoryAssumption
<1> USE DEF HoldDouble!NoLease
<1>1. CASE MemAdvance
  <2>1. ASSUME NEW x \in Seats
        PROVE  MemLease(x)' = IF MemLease(x).until <= memNow'
                                THEN HoldDouble!NoLease ELSE MemLease(x)
    BY <1>1 DEF MemAdvance, MemLease, MemHolder, MemLive, MemHoldInv, MemHoldTyped
  <2>2. HoldDouble!Lapse
    BY <1>1, <2>1 DEF MemAdvance, HoldDouble!Lapse
  <2> QED
    BY <2>2 DEF HoldDouble!PortNext
<1>2. ASSUME NEW s \in Sessions, MemMint(s) PROVE HoldDouble!PortNext
  <2>1. \A x \in Seats : MemHolder(x)' = MemHolder(x) /\ MemHolder(x) # s
    BY <1>2 DEF MemMint, MemHolder, MemLive, MemHoldInv, MemHoldTyped, EntriesAreMinted
  <2>2. \A x \in Seats : MemLease(x)' = MemLease(x)
    BY <1>2, <2>1 DEF MemMint, MemLease, MemHoldInv, MemHoldTyped
  <2>3. HoldDouble!Promise(s)
    BY <1>2, <2>2 DEF MemMint, HoldDouble!Promise
  <2> QED
    BY <2>3 DEF HoldDouble!PortNext
<1>3. ASSUME NEW s \in Sessions, MemHold(s)
      PROVE  HoldDouble!PortNext \/ UNCHANGED HoldDouble!portVars
  <2>1. \A x \in Seats :
           MemHolder(x)' = IF x = SeatOf[s] /\ MemLive(s) THEN s ELSE MemHolder(x)
    BY <1>3 DEF MemHold, MemHolder, MemLive, MemHoldInv, MemHoldTyped
  <2>2. CASE ~MemLive(s)
    BY <1>3, <2>1, <2>2 DEF MemHold, MemLease, HoldDouble!portVars
  <2>3. CASE MemLive(s)
    <3>1. Cardinality(HoldDouble!LeasedBy(UserOf[s])) < MemMaxHolds
      BY <1>3, LeasesAreCounted DEF MemHold
    <3>2. HoldDouble!Cardinality(HoldDouble!LeasedBy(UserOf[s])) < MemMaxHolds
      BY <3>1 DEF HoldDouble!Cardinality, Cardinality
    <3>3. [x \in Seats |-> MemLease(x)]'
             = [[x \in Seats |-> MemLease(x)] EXCEPT ![SeatOf[s]] =
                   [session |-> s, until |-> memExpiresAt[s]]]
      BY <1>3, <2>1, <2>3 DEF MemHold, MemLease
    <3>4. /\ memExpiresAt[s] \in memNow + 1..memNow + MemHoldTTL
          /\ memExpiresAt[s] # 0 /\ memExpiresAt[s] <= memExpiresAt[s]
      BY <2>3 DEF MemLive, MemHoldInv, MemHoldTyped, ExpiryIsNear
    <3>5. [x \in Seats |-> MemLease(x)][SeatOf[s]] = HoldDouble!NoLease
      BY <1>3 DEF MemHold, MemLease
    <3>6. UNCHANGED <<memNow, memExpiresAt, memReleased>>
      BY <1>3 DEF MemHold
    <3>7. \E until \in memNow + 1..memNow + MemHoldTTL :
             /\ memExpiresAt[s] <= until
             /\ [x \in Seats |-> MemLease(x)]'
                  = [[x \in Seats |-> MemLease(x)] EXCEPT ![SeatOf[s]] =
                        [session |-> s, until |-> until]]
      BY <3>3, <3>4, Zenon
    <3>8. HoldDouble!Acquire(s)
      BY <3>2, <3>4, <3>5, <3>6, <3>7 DEF HoldDouble!Acquire
    <3> QED
      BY <3>8 DEF HoldDouble!PortNext
  <2> QED
    BY <2>2, <2>3
<1>4. ASSUME NEW u \in Users, NEW s \in Sessions, MemRelease(u, s)
      PROVE  HoldDouble!PortNext
  <2>1. ASSUME NEW x \in Seats
        PROVE  MemHolder(x)' = IF MemHolder(x) = s THEN NoSession ELSE MemHolder(x)
    BY <1>4 DEF MemRelease, MemHolder, MemLive, MemHoldInv, MemHoldTyped, EntriesAreMinted
  <2>2. ASSUME NEW x \in Seats
        PROVE  MemLease(x)' = IF MemLease(x).session = s
                                THEN HoldDouble!NoLease ELSE MemLease(x)
    BY <1>4, <2>1 DEF MemRelease, MemLease
  <2>3. HoldDouble!GiveUp(s)
    BY <1>4, <2>2 DEF MemRelease, MemGivenUp, HoldDouble!GiveUp
  <2> QED
    BY <2>3 DEF HoldDouble!PortNext
<1>5. CASE UNCHANGED memHoldVars
  BY <1>5 DEF memHoldVars, HoldDouble!portVars, MemLease, MemHolder, MemLive
<1> QED
  BY <1>1, <1>2, <1>3, <1>4, <1>5 DEF MemHoldNext

\* A live session's entry is the entry of its seat, and the other way round.
HeldViewsAgree == MemHeldSeats = {x \in Seats : MemHolder(x) # NoSession}

LEMMA ViewsAgree == MemHoldInv => HeldViewsAgree
<1> SUFFICES ASSUME MemHoldInv PROVE HeldViewsAgree
  OBVIOUS
<1>1. ASSUME NEW s \in memSessions, MemLive(s)
      PROVE  SeatOf[s] \in Seats /\ MemHolder(SeatOf[s]) # NoSession
  BY <1>1, DomainAssumption
  DEF MemHoldInv, MemHoldTyped, EntriesShareLifetime, MemHolder
<1>2. ASSUME NEW x \in Seats, MemHolder(x) # NoSession
      PROVE  \E s \in memSessions : MemLive(s) /\ SeatOf[s] = x
  <2>1. /\ memSeat[x] \in Sessions /\ MemLive(memSeat[x]) /\ SeatOf[memSeat[x]] = x
    BY <1>2 DEF MemHolder, MemHoldInv, EntriesAreMinted
  <2> QED
    BY <2>1 DEF MemHoldInv, EntriesShareLifetime
<1> QED
  BY <1>1, <1>2 DEF HeldViewsAgree, MemHeldSeats

-----------------------------------------------------------------------------
(* memory.BookingStore: the sales record *)

\* The double checks the session, then the seat, and sells both or nothing.
LEMMA MemConfirmIsSale ==
    ASSUME NEW c \in MemCalls, NEW s \in Sessions, MemConfirm(c, s)
    PROVE  BookingDouble!LedgerNext
<1> DEFINE sale == [call |-> c, session |-> s]
<1>1. sale \in BookingDouble!Sale
  BY DEF BookingDouble!Sale
<1>2. BookingDouble!Sell(sale)
  BY DEF MemConfirm, BookingDouble!Sell
<1> QED
  BY <1>1, <1>2 DEF BookingDouble!LedgerNext

-----------------------------------------------------------------------------
(* memory.PaymentStore: the payments table *)

MemPayment == [intent : MemIntents, session : Sessions,
               status : {"intent", "captured", "failed"}]

\* An intent names at most one row.
MemRowsInv ==
    /\ memRows \subseteq MemPayment
    /\ \A r, q \in memRows : r.intent = q.intent => r = q

\* What the maps of rows by intent say, row by row.
StatusOf(i)  == IF MemRow(i) = {} THEN "none" ELSE (CHOOSE r \in MemRow(i) : TRUE).status
SessionOf(i) == IF MemRow(i) = {} THEN NoSession ELSE (CHOOSE r \in MemRow(i) : TRUE).session

LEMMA RowIsRead ==
    ASSUME NEW i, NEW r, MemRow(i) = {r}
    PROVE  StatusOf(i) = r.status /\ SessionOf(i) = r.session
BY DEF StatusOf, SessionOf

LEMMA RowIsAlone ==
    ASSUME MemRowsInv, NEW r \in memRows
    PROVE  MemRow(r.intent) = {r}
BY DEF MemRowsInv, MemRow

\* A step the double takes is a statement of the payments table.
MemTableStep ==
    \E i \in MemIntents :
        \/ \E s \in Sessions : PaymentDouble!InsertIntent(i, s)
        \/ PaymentDouble!CapturePayment(i)
        \/ PaymentDouble!FailPayment(i)

\* A new intent is refused while its session has an active one, as the partial
\* unique index refuses it.
LEMMA MemInsertIsInsert ==
    ASSUME MemRowsInv, NEW i \in MemIntents, NEW s \in Sessions, MemInsertIntent(i, s)
    PROVE  MemRowsInv' /\ PaymentDouble!InsertIntent(i, s)
<1> DEFINE row == [intent |-> i, session |-> s, status |-> "intent"]
<1>1. memRows' = memRows \union {row} /\ MemRow(i) = {}
  BY DEF MemInsertIntent
<1>2. MemRowsInv'
  BY <1>1 DEF MemRowsInv, MemPayment, MemRow
<1>3. MemRow(i)' = {row} /\ row = [intent |-> i, session |-> s, status |-> "intent"]
  BY <1>1 DEF MemRow
<1> HIDE DEF row
<1>4. StatusOf(i)' = "intent" /\ SessionOf(i)' = s
  BY <1>3 DEF StatusOf, SessionOf
<1>5. ASSUME NEW j \in MemIntents, j # i
      PROVE  StatusOf(j)' = StatusOf(j) /\ SessionOf(j)' = SessionOf(j)
  <2>1. MemRow(j)' = MemRow(j)
    BY <1>1, <1>3, <1>5 DEF MemRow
  <2> QED
    BY <2>1 DEF StatusOf, SessionOf
<1>6. ASSUME NEW j \in MemIntents, SessionOf(j) = s
      PROVE  StatusOf(j) \in {"none", "failed", "refunded"}
  <2>1. SUFFICES ASSUME NEW r \in MemRow(j)
                 PROVE  StatusOf(j) \in {"failed", "refunded"}
    BY DEF StatusOf
  <2>2. r \in memRows /\ MemRow(j) = {r}
    BY RowIsAlone DEF MemRow
  <2>3. StatusOf(j) = r.status /\ r.session = s
    BY <1>6, <2>2, RowIsRead
  <2> QED
    BY <2>2, <2>3 DEF MemInsertIntent, MemActive
<1>7. PaymentDouble!ActiveIntents(s) = {}
  BY <1>6 DEF PaymentDouble!ActiveIntents, PaymentDouble!IsActive, StatusOf, SessionOf
<1>8. [j \in MemIntents |-> StatusOf(j)]'
         = [[j \in MemIntents |-> StatusOf(j)] EXCEPT ![i] = "intent"]
  BY <1>4, <1>5
<1>9. [j \in MemIntents |-> SessionOf(j)]'
         = [[j \in MemIntents |-> SessionOf(j)] EXCEPT ![i] = s]
  BY <1>4, <1>5
<1> QED
  BY <1>2, <1>7, <1>8, <1>9 DEF PaymentDouble!InsertIntent, StatusOf, SessionOf

\* The edge out of an open status, and no other row touched.
LEMMA MemSettleIsUpdate ==
    ASSUME MemRowsInv, NEW i \in MemIntents, NEW end \in {"captured", "failed"},
           MemSettle(i, end)
    PROVE  /\ MemRowsInv'
           /\ PaymentDouble!CapturePayment(i) \/ PaymentDouble!FailPayment(i)
<1>1. PICK r \in MemRow(i) :
         /\ r.status \in {"intent", "authorized"}
         /\ memRows' = (memRows \ {r}) \union {[r EXCEPT !.status = end]}
  BY DEF MemSettle
<1> DEFINE settled == [r EXCEPT !.status = end]
<1>2. r \in memRows /\ r.intent = i /\ MemRow(i) = {r}
  BY RowIsAlone DEF MemRow
<1>3. /\ memRows' = (memRows \ {r}) \union {settled}
      /\ settled \in MemPayment /\ settled.intent = i
      /\ settled.status = end /\ settled.session = r.session
  BY <1>1, <1>2 DEF MemRowsInv, MemPayment
<1> HIDE DEF settled
<1>4. MemRowsInv'
  BY <1>2, <1>3 DEF MemRowsInv
<1>5. MemRow(i)' = {settled}
  BY <1>2, <1>3 DEF MemRow
<1>6. /\ StatusOf(i) = r.status /\ SessionOf(i) = r.session
      /\ StatusOf(i)' = end /\ SessionOf(i)' = r.session
  BY <1>2, <1>3, <1>5, RowIsRead DEF StatusOf, SessionOf
<1>7. ASSUME NEW j \in MemIntents, j # i
      PROVE  StatusOf(j)' = StatusOf(j) /\ SessionOf(j)' = SessionOf(j)
  <2>1. MemRow(j)' = MemRow(j)
    BY <1>2, <1>3, <1>7 DEF MemRow
  <2> QED
    BY <2>1 DEF StatusOf, SessionOf
<1> DEFINE payStatus == [j \in MemIntents |-> StatusOf(j)]
<1>8. payStatus' = [payStatus EXCEPT ![i] = end]
  BY <1>6, <1>7
<1>9. [j \in MemIntents |-> SessionOf(j)]' = [j \in MemIntents |-> SessionOf(j)]
  BY <1>6, <1>7
<1>10. payStatus[i] \in {"intent", "authorized"}
  BY <1>1, <1>6
<1>11. CASE end = "captured"
  BY <1>4, <1>8, <1>9, <1>10, <1>11
  DEF PaymentDouble!CapturePayment, PaymentDouble!IsOpen, StatusOf, SessionOf
<1>12. CASE end = "failed"
  BY <1>4, <1>8, <1>9, <1>10, <1>12
  DEF PaymentDouble!FailPayment, PaymentDouble!IsOpen, StatusOf, SessionOf
<1> QED
  BY <1>11, <1>12

LEMMA MemPaymentStep ==
    ASSUME MemRowsInv, [MemPaymentNext]_memRows
    PROVE  MemRowsInv' /\ [MemTableStep]_memRows
<1>1. CASE UNCHANGED memRows
  BY <1>1 DEF MemRowsInv
<1>2. CASE MemPaymentNext
  BY <1>2, MemInsertIsInsert, MemSettleIsUpdate DEF MemPaymentNext, MemTableStep
<1> QED
  BY <1>1, <1>2

-----------------------------------------------------------------------------
(* memory.RefreshTokenStore: families with one live token *)

MemToken == [token : MemTokens, family : MemTokens, replaced : BOOLEAN, revoked : BOOLEAN]

Dead(k) == k.replaced \/ k.revoked

\* A family is named by its first token, which is never deleted.
FamiliesAreRooted == \A k \in memTokens : \E l \in memTokens : l.token = k.family

OneLiveTokenInDouble ==
    \A k, l \in memTokens : k.family = l.family /\ ~Dead(k) /\ ~Dead(l) => k = l

TokensAreUnique == \A k, l \in memTokens : k.token = l.token => k = l

MemTokensInv ==
    /\ memTokens \subseteq MemToken
    /\ FamiliesAreRooted
    /\ OneLiveTokenInDouble
    /\ TokensAreUnique

\* What the port sees.
MemRows == {[token |-> k.token, family |-> k.family] : k \in memTokens}
MemLiveTokens == {k.token : k \in {l \in memTokens : ~(l.replaced \/ l.revoked)}}

LEMMA MemCreateIsIssue ==
    ASSUME MemTokensInv, NEW t \in MemTokens, MemCreate(t)
    PROVE  MemTokensInv' /\ RefreshDouble!Issue(t)
<1> DEFINE first == [token |-> t, family |-> t, replaced |-> FALSE, revoked |-> FALSE]
           row   == [token |-> t, family |-> t]
<1>1. memTokens' = memTokens \union {first} /\ \A k \in memTokens : k.token # t
  BY DEF MemCreate, MemStored
<1>2. first \in MemToken /\ first.token = t /\ first.family = t /\ ~Dead(first)
  BY DEF MemToken, Dead
<1>3. \A k \in memTokens : k.family # t
  BY <1>1 DEF MemTokensInv, FamiliesAreRooted
<1> HIDE DEF first
<1>4. MemTokensInv'
  BY <1>1, <1>2, <1>3 DEF MemTokensInv, FamiliesAreRooted, OneLiveTokenInDouble, TokensAreUnique
<1>5. RefreshDouble!Fresh(t)
  BY <1>1 DEF RefreshDouble!Fresh
<1>6. MemRows' = MemRows \union {row}
  BY <1>1, <1>2 DEF MemRows
<1>7. MemLiveTokens' = MemLiveTokens \union {t}
  BY <1>1, <1>2 DEF MemLiveTokens, Dead
<1> QED
  BY <1>4, <1>5, <1>6, <1>7 DEF RefreshDouble!Issue, MemRows, MemLiveTokens

\* Revoking makes no token live, and keeps the name of every row.
LEMMA MemRevokeIsRevoke ==
    ASSUME MemTokensInv, NEW f, MemRevokeFamily(f)
    PROVE  MemTokensInv' /\ RefreshDouble!Revoke(f)
<1> DEFINE after(k) == IF k.family = f THEN [k EXCEPT !.revoked = TRUE] ELSE k
<1>1. memTokens' = {after(k) : k \in memTokens}
  BY DEF MemRevokeFamily
<1>2. ASSUME NEW k \in memTokens
      PROVE  /\ after(k) \in MemToken
             /\ after(k).token = k.token /\ after(k).family = k.family
             /\ IF k.family = f THEN Dead(after(k)) ELSE after(k) = k
  BY <1>2 DEF MemTokensInv, MemToken, Dead
<1> HIDE DEF after
<1>3. memTokens' \subseteq MemToken /\ FamiliesAreRooted' /\ TokensAreUnique'
  BY <1>1, <1>2 DEF MemTokensInv, FamiliesAreRooted, TokensAreUnique
<1>4. OneLiveTokenInDouble'
  BY <1>1, <1>2 DEF MemTokensInv, OneLiveTokenInDouble, Dead
<1>5. MemRows' = MemRows
  BY <1>1, <1>2 DEF MemRows
<1>6. MemLiveTokens' = {k.token : k \in {l \in memTokens : ~Dead(l) /\ l.family # f}}
  BY <1>1, <1>2 DEF MemLiveTokens, Dead
<1>7. ASSUME NEW l \in memTokens
      PROVE  l.family # f <=> \A k \in MemRows : k.token = l.token => k.family # f
  <2> DEFINE row == [token |-> l.token, family |-> l.family]
  <2>1. row \in MemRows /\ row.token = l.token /\ row.family = l.family
    BY DEF MemRows
  <2>2. \A k \in MemRows : k.token = l.token => k = row
    BY DEF MemTokensInv, TokensAreUnique, MemRows
  <2> HIDE DEF row
  <2> QED
    BY <2>1, <2>2
<1>8. MemLiveTokens = {k.token : k \in {l \in memTokens : ~Dead(l)}}
  BY DEF MemLiveTokens, Dead
<1>9. MemLiveTokens' = {t \in MemLiveTokens : \A k \in MemRows : k.token = t => k.family # f}
  BY <1>6, <1>7, <1>8
<1> QED
  BY <1>3, <1>4, <1>5, <1>9 DEF MemTokensInv, RefreshDouble!Revoke, MemRows, MemLiveTokens

\* A rotation replaces the one live token by its successor; a token used before
\* ends its family.
LEMMA MemRotateIsExchange ==
    ASSUME MemTokensInv, NEW k \in memTokens, NEW next \in MemTokens, MemRotate(k, next)
    PROVE  /\ MemTokensInv'
           /\ \E r \in MemRows : RefreshDouble!Exchange(r, next) \/ RefreshDouble!Revoke(r.family)
<1> DEFINE seen == [token |-> k.token, family |-> k.family]
<1>1. seen \in MemRows /\ seen.token = k.token /\ seen.family = k.family
  BY DEF MemRows
<1> HIDE DEF seen
<1>2. CASE Dead(k)
  BY <1>1, <1>2, MemRevokeIsRevoke DEF MemRotate, Dead
<1>3. CASE ~Dead(k)
  <2> DEFINE old == [k EXCEPT !.replaced = TRUE]
             new == [token |-> next, family |-> k.family,
                     replaced |-> FALSE, revoked |-> FALSE]
             row == [token |-> next, family |-> k.family]
  <2>1. /\ memTokens' = (memTokens \ {k}) \union {old, new}
        /\ \A l \in memTokens : l.token # next
    BY <1>3 DEF MemRotate, MemStored, Dead
  <2>2. /\ old \in MemToken /\ old.token = k.token /\ old.family = k.family /\ Dead(old)
        /\ new \in MemToken /\ new.token = next /\ new.family = k.family /\ ~Dead(new)
    BY DEF MemTokensInv, MemToken, Dead
  <2>3. \A l \in memTokens \ {k} : (l.family = k.family => Dead(l)) /\ l.token # k.token
    BY <1>3 DEF MemTokensInv, OneLiveTokenInDouble, TokensAreUnique
  <2> HIDE DEF old, new
  <2>4. memTokens' \subseteq MemToken /\ FamiliesAreRooted' /\ TokensAreUnique'
    BY <2>1, <2>2, <2>3 DEF MemTokensInv, FamiliesAreRooted, TokensAreUnique
  <2>5. OneLiveTokenInDouble'
    BY <2>1, <2>2, <2>3 DEF MemTokensInv, OneLiveTokenInDouble
  <2>6. RefreshDouble!Fresh(next) /\ k.token \in MemLiveTokens
    BY <1>3, <2>1 DEF RefreshDouble!Fresh, MemLiveTokens, Dead
  <2>7. MemRows' = MemRows \union {row}
    BY <2>1, <2>2 DEF MemRows
  <2>8. MemLiveTokens' = (MemLiveTokens \ {k.token}) \union {next}
    BY <1>3, <2>1, <2>2, <2>3 DEF MemLiveTokens, Dead
  <2>9. RefreshDouble!Exchange(seen, next)
    BY <1>1, <2>6, <2>7, <2>8 DEF RefreshDouble!Exchange, MemRows, MemLiveTokens
  <2> QED
    BY <1>1, <2>4, <2>5, <2>9 DEF MemTokensInv
<1> QED
  BY <1>2, <1>3

\* Every call of the token double keeps its invariant, and is a step of the port.
LEMMA MemTokenStep ==
    ASSUME MemTokensInv, [MemTokenNext]_memTokens
    PROVE  MemTokensInv' /\ [RefreshDouble!RefreshNext]_RefreshDouble!refreshVars
<1>1. CASE UNCHANGED memTokens
  BY <1>1 DEF MemTokensInv, FamiliesAreRooted, OneLiveTokenInDouble, TokensAreUnique,
              RefreshDouble!refreshVars
<1>2. ASSUME NEW t \in MemTokens, MemCreate(t)
      PROVE  MemTokensInv' /\ RefreshDouble!RefreshNext
  BY <1>2, MemCreateIsIssue DEF RefreshDouble!RefreshNext
<1>3. ASSUME NEW k \in memTokens, MemRevokeFamily(k.family)
      PROVE  MemTokensInv' /\ RefreshDouble!RefreshNext
  <2> DEFINE seen == [token |-> k.token, family |-> k.family]
  <2>1. seen \in MemRows /\ seen.family = k.family
    BY DEF MemRows
  <2> HIDE DEF seen
  <2> QED
    BY <1>3, <2>1, MemRevokeIsRevoke DEF RefreshDouble!RefreshNext, MemRows
<1>4. ASSUME NEW k \in memTokens, NEW t \in MemTokens, MemRotate(k, t)
      PROVE  MemTokensInv' /\ RefreshDouble!RefreshNext
  BY <1>4, MemRotateIsExchange DEF RefreshDouble!RefreshNext, MemRows
<1> QED
  BY <1>1, <1>2, <1>3, <1>4 DEF MemTokenNext

-----------------------------------------------------------------------------
(* One of them is wired *)

MemInv == MemHoldInv /\ MemRowsInv /\ MemTokensInv

\* Whatever is wired, each store takes a step of its own or none.
LEMMA EachStoreSteps ==
    ASSUME [AdaptersNext]_adapterVars
    PROVE  /\ [MemHoldNext]_memHoldVars
           /\ [\E c \in MemCalls, s \in Sessions : MemConfirm(c, s)]_memBookings
           /\ [MemPaymentNext]_memRows
           /\ [MemTokenNext]_memTokens
<1>1. CASE UNCHANGED adapterVars
  BY <1>1 DEF adapterVars, memVars
<1>2. CASE UNCHANGED memVars
  BY <1>2 DEF memVars
<1>3. CASE MemoryNext
  BY <1>3 DEF MemoryNext
<1> QED
  BY <1>1, <1>2, <1>3 DEF AdaptersNext

\* The invariant of the doubles, in every reachable state.
THEOREM MemoryInvariant == FairAdapters => []MemInv
<1>1. AdaptersInit => MemInv
  BY MemoryAssumption
  DEF AdaptersInit, MemInit, MemInv, MemHoldInv, MemHoldTyped, EntriesAreMinted,
         EntriesShareLifetime, ExpiryIsNear, LimitCountsSessions, MemLive, MemRowsInv,
         MemTokensInv, FamiliesAreRooted, OneLiveTokenInDouble, TokensAreUnique
<1>2. MemInv /\ [AdaptersNext]_adapterVars => MemInv'
  BY EachStoreSteps, MemHoldStepInv, MemPaymentStep, MemTokenStep DEF MemInv
<1> QED
  BY <1>1, <1>2, PTL DEF FairAdapters

\* A test over the in-memory stores speaks of the real ones: the doubles keep
\* the ports the Redis and the Postgres adapters keep.
THEOREM DoublesAreFaithful == FairAdapters => DoublesKeepTheirPorts
<1>1. AdaptersInit => /\ HoldDouble!PortInit
                      /\ BookingDouble!LedgerInit
                      /\ RefreshDouble!RefreshInit
  BY DomainAssumption
  DEF AdaptersInit, MemInit, MemHolder, MemLease, HoldDouble!NoLease,
      HoldDouble!PortInit, BookingDouble!LedgerInit, RefreshDouble!RefreshInit
<1>2. MemInv /\ [AdaptersNext]_adapterVars => [HoldDouble!PortNext]_HoldDouble!portVars
  BY EachStoreSteps, MemHoldStepIsPortStep DEF MemInv
<1>3. [AdaptersNext]_adapterVars => [BookingDouble!LedgerNext]_BookingDouble!ledgerVars
  BY EachStoreSteps, MemConfirmIsSale DEF BookingDouble!ledgerVars
<1>4. MemInv /\ [AdaptersNext]_adapterVars => [MemTableStep]_memRows
  BY EachStoreSteps, MemPaymentStep DEF MemInv
<1>5. MemInv /\ [AdaptersNext]_adapterVars
          => [RefreshDouble!RefreshNext]_RefreshDouble!refreshVars
  BY EachStoreSteps, MemTokenStep DEF MemInv
<1>6. MemInv => HeldViewsAgree
  BY ViewsAgree DEF MemInv
<1> QED
  BY <1>1, <1>2, <1>3, <1>4, <1>5, <1>6, MemoryInvariant, PTL
  DEF FairAdapters, DoublesKeepTheirPorts, MemTableStep, HeldViewsAgree,
      HoldDouble!PortSpec, BookingDouble!LedgerSpec, RefreshDouble!RefreshSpec

=============================================================================
