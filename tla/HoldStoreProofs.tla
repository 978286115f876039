--------------------------- MODULE HoldStoreProofs ---------------------------
(***************************************************************************)
(* Proofs about HoldStore, for any number of sessions, seats and users and *)
(* any TTL, limit, clock resolution, skew and number of re-sends: the keys *)
(* of a promised hold outlive its ExpiresAt, every live seat key belongs   *)
(* to a hold that can be found, and no user passes the hold limit.         *)
(*                                                                         *)
(* The properties are made inductive by remembering what the clock cannot  *)
(* undo: a script under way carries an EX that covers its ExpiresAt        *)
(* (ClockInv), and deadlines are ordered, expiresAt before the seat key's  *)
(* before the session's (KeyInv).                                          *)
(***************************************************************************)
EXTENDS HoldStore, FiniteSetTheorems, FunctionTheorems, TLAPS

ClockInv ==
    \A s \in Sessions :
        /\ phase[s] = "unused" <=> expiresAt[s] = 0
        /\ phase[s] = "sent" =>
              /\ ttlSeconds[s] >= 1
              /\ now + ttlSeconds[s] * TicksPerSecond >= expiresAt[s]

\* No expiry is further away than the hold TTL, and no EX longer than it.
TTLInv ==
    \A s \in Sessions :
        /\ expiresAt[s] <= now + HoldTTL
        /\ phase[s] = "sent" => ttlSeconds[s] <= CeilSeconds(HoldTTL)

\* What a seat key that Redis serves says about its session.
KeyOf(x, s) ==
    /\ s \in Sessions
    /\ SeatOf[s] = x
    /\ phase[s] # "unused"
    /\ seatKey[x].until >= expiresAt[s]
    /\ sessionUntil[s] >= seatKey[x].until
    /\ s \in userHolds[UserOf[s]]
    /\ s \in globalHolds

KeyInv == \A x \in Seats : SeatLive(x) => KeyOf(x, seatKey[x].token)

KeptInv ==
    \A s \in Sessions :
        phase[s] = "ok" /\ s \notin released /\ now < expiresAt[s] =>
            /\ seatKey[SeatOf[s]].token = s
            /\ seatKey[SeatOf[s]].until >= expiresAt[s]

LimitInv == \A u \in Users : Cardinality(userHolds[u]) <= MaxHolds

HoldInv ==
    /\ HoldTypeOK
    /\ ClockInv
    /\ TTLInv
    /\ KeyInv
    /\ KeptInv
    /\ LimitInv

-----------------------------------------------------------------------------
(* The arithmetic of Hold's round-up *)

\* Rounding up to whole seconds covers the lifetime it is computed from, so
\* Redis never drops a key before the ExpiresAt the TTL stands for.
LEMMA CeilCovers ==
    ASSUME NEW t \in Nat, t > 0
    PROVE  /\ CeilSeconds(t) \in Nat
           /\ CeilSeconds(t) >= 1
           /\ CeilSeconds(t) * TicksPerSecond >= t
<1> DEFINE whole == t \div TicksPerSecond
<1>1. /\ whole \in Nat
      /\ whole * TicksPerSecond <= t
      /\ t < whole * TicksPerSecond + TicksPerSecond
  BY HoldStoreAssumption, SMTT(20)
<1> HIDE DEF whole
<1>2. (whole + 1) * TicksPerSecond = whole * TicksPerSecond + TicksPerSecond
  BY <1>1, HoldStoreAssumption
<1>3. (IF t > whole * TicksPerSecond THEN whole + 1 ELSE whole) * TicksPerSecond >= t
  BY <1>1, <1>2, HoldStoreAssumption
<1> QED
  BY <1>1, <1>3, HoldStoreAssumption DEF CeilSeconds, whole

\* Rounding up adds less than a second, so a lifetime that is not longer is not
\* rounded to more seconds.
LEMMA CeilIsMonotone ==
    ASSUME NEW t \in Nat, NEW longer \in Nat, t > 0, t <= longer
    PROVE  CeilSeconds(t) <= CeilSeconds(longer)
<1> DEFINE a == t \div TicksPerSecond
           b == longer \div TicksPerSecond
<1>1. /\ a \in Nat /\ a * TicksPerSecond <= t
      /\ b \in Nat /\ longer < b * TicksPerSecond + TicksPerSecond
      /\ b * TicksPerSecond <= longer
  BY HoldStoreAssumption, SMTT(20)
<1> HIDE DEF a, b
<1>2. (b + 1) * TicksPerSecond = b * TicksPerSecond + TicksPerSecond
  BY <1>1, HoldStoreAssumption
<1>3. a <= b
  <2>1. a * TicksPerSecond < (b + 1) * TicksPerSecond
    BY <1>1, <1>2, HoldStoreAssumption
  <2>2. a >= b + 1 => a * TicksPerSecond >= (b + 1) * TicksPerSecond
    BY <1>1, HoldStoreAssumption
  <2>3. a * TicksPerSecond \in Nat /\ (b + 1) * TicksPerSecond \in Nat
    BY <1>1, HoldStoreAssumption
  <2> QED
    BY <1>1, <2>1, <2>2, <2>3
<1>4. a = b => a * TicksPerSecond = b * TicksPerSecond
  OBVIOUS
<1>5. a * TicksPerSecond \in Nat /\ b * TicksPerSecond \in Nat
  BY <1>1, HoldStoreAssumption
<1>6. (IF t > a * TicksPerSecond THEN a + 1 ELSE a)
        <= (IF longer > b * TicksPerSecond THEN b + 1 ELSE b)
  BY <1>1, <1>3, <1>4, <1>5
<1> QED
  BY <1>6 DEF CeilSeconds, a, b

\* Rounding an expiry down to whole seconds takes less than a second off it.
LEMMA FloorCutsLessThanASecond ==
    ASSUME NEW s \in Sessions, expiresAt[s] \in Nat
    PROVE  /\ StoredExpiry(s) \in Nat
           /\ StoredExpiry(s) <= expiresAt[s]
           /\ expiresAt[s] < StoredExpiry(s) + TicksPerSecond
<1> DEFINE whole == expiresAt[s] \div TicksPerSecond
<1>1. /\ whole \in Nat
      /\ whole * TicksPerSecond <= expiresAt[s]
      /\ expiresAt[s] < whole * TicksPerSecond + TicksPerSecond
  BY HoldStoreAssumption, SMTT(20)
<1> HIDE DEF whole
<1>2. whole * TicksPerSecond \in Nat
  BY <1>1, HoldStoreAssumption
<1> QED
  BY <1>1, <1>2 DEF StoredExpiry, UnixSeconds, whole

\* A product of a TTL and the clock's resolution, for provers that shy from it.
LEMMA ProductIsNat ==
    ASSUME NEW k \in Nat
    PROVE  /\ k * TicksPerSecond \in Nat
           /\ k >= 1 => k * TicksPerSecond >= 1
BY HoldStoreAssumption

LEMMA ProductIsMonotone ==
    ASSUME NEW k \in Nat, NEW m \in Nat, k <= m
    PROVE  k * TicksPerSecond <= m * TicksPerSecond
BY HoldStoreAssumption

\* The hold sets of a user are finite.
LEMMA HoldsAreFinite ==
    ASSUME HoldTypeOK, NEW u \in Users
    PROVE  /\ IsFiniteSet(userHolds[u])
           /\ Cardinality(userHolds[u]) \in Nat
BY DomainAssumption, FS_Subset, FS_CardinalityType DEF HoldTypeOK

-----------------------------------------------------------------------------
(* Initial states, and the steps that do not touch Redis *)

\* The empty Redis satisfies the invariant.
LEMMA HoldInitInv == HoldInit => HoldInv
<1> SUFFICES ASSUME HoldInit PROVE HoldInv
  OBVIOUS
<1>1. HoldTypeOK
  BY HoldStoreAssumption DEF HoldInit, HoldTypeOK, Phases
<1>2. ClockInv /\ TTLInv
  BY HoldStoreAssumption DEF HoldInit, ClockInv, TTLInv
<1>3. KeyInv /\ KeptInv
  BY DEF HoldInit, KeyInv, KeptInv, SeatLive
<1>4. LimitInv
  BY FS_EmptySet, HoldStoreAssumption DEF HoldInit, LimitInv
<1> QED
  BY <1>1, <1>2, <1>3, <1>4 DEF HoldInv

\* The steps of a Hold call before its script runs, and a script that never
\* reached Redis.
LEMMA LocalStepInv ==
    ASSUME HoldInv, NEW s \in Sessions,
           Mint(s) \/ Validate(s) \/ ComputeTTL(s) \/ HoldRequestLost(s)
    PROVE  HoldInv'
<1>1. /\ now' = now /\ released' = released
      /\ seatKey' = seatKey /\ sessionUntil' = sessionUntil
      /\ userHolds' = userHolds /\ globalHolds' = globalHolds
  BY DEF Mint, Validate, ComputeTTL, HoldRequestLost, redisVars
<1>2. /\ phase[s] \notin {"ok", "taken", "limit", "refused", "error"}
      /\ \A t \in Sessions \ {s} : /\ phase'[t] = phase[t]
                                   /\ expiresAt'[t] = expiresAt[t]
                                   /\ ttlSeconds'[t] = ttlSeconds[t]
      /\ phase'[s] \notin {"unused", "ok"}
      /\ phase[s] # "unused" => expiresAt'[s] = expiresAt[s]
  BY DEF HoldInv, HoldTypeOK, Mint, Validate, ComputeTTL, HoldRequestLost, NoReply, CallEnds
<1>3. HoldTypeOK'
  <2>1. CASE Mint(s)
    BY <2>1, HoldStoreAssumption DEF HoldInv, HoldTypeOK, Phases, Mint, redisVars
  <2>2. CASE Validate(s)
    BY <2>2 DEF HoldInv, HoldTypeOK, Phases, Validate, redisVars
  <2>3. CASE ComputeTTL(s)
    <3>1. expiresAt[s] > now => CeilSeconds(expiresAt[s] - now) \in Nat
      BY CeilCovers DEF HoldInv, HoldTypeOK
    <3> QED
      BY <2>3, <3>1 DEF HoldInv, HoldTypeOK, Phases, ComputeTTL, redisVars
  <2>4. CASE HoldRequestLost(s)
    BY <2>4, HoldStoreAssumption
    DEF HoldInv, HoldTypeOK, Phases, HoldRequestLost, NoReply, CallEnds, redisVars
  <2> QED
    BY <2>1, <2>2, <2>3, <2>4
<1>4. ClockInv'
  <2>1. CASE Mint(s)
    BY <2>1, <1>1, <1>2, HoldStoreAssumption DEF HoldInv, HoldTypeOK, ClockInv, Mint
  <2>2. CASE Validate(s)
    BY <2>2, <1>1, <1>2 DEF HoldInv, HoldTypeOK, ClockInv, Validate
  <2>3. CASE ComputeTTL(s)
    <3> DEFINE ttl == CeilSeconds(expiresAt[s] - now)
    <3>1. ASSUME expiresAt[s] > now
          PROVE  ttl >= 1 /\ ttl \in Nat /\ now + ttl * TicksPerSecond >= expiresAt[s]
      <4>1. ttl \in Nat /\ ttl >= 1 /\ ttl * TicksPerSecond >= expiresAt[s] - now
        BY <3>1, CeilCovers DEF HoldInv, HoldTypeOK
      <4>2. ttl * TicksPerSecond \in Nat
        BY <4>1, ProductIsNat
      <4> QED
        BY <4>1, <4>2 DEF HoldInv, HoldTypeOK
    <3> HIDE DEF ttl
    <3>2. /\ expiresAt' = expiresAt
          /\ phase'[s] = "sent" => expiresAt[s] > now /\ ttlSeconds'[s] = ttl
      BY <2>3 DEF HoldInv, HoldTypeOK, ComputeTTL, ttl
    <3>3. phase[s] = "validated"
      BY <2>3 DEF ComputeTTL
    <3> QED
      BY <1>1, <1>2, <3>1, <3>2, <3>3 DEF HoldInv, ClockInv
  <2>4. CASE HoldRequestLost(s)
    BY <2>4, <1>1, <1>2 DEF HoldInv, HoldTypeOK, ClockInv, HoldRequestLost, NoReply, CallEnds
  <2> QED
    BY <2>1, <2>2, <2>3, <2>4
<1>8. TTLInv'
  <2>1. CASE Mint(s)
    BY <2>1, <1>1, <1>2, HoldStoreAssumption DEF HoldInv, HoldTypeOK, TTLInv, Mint
  <2>2. CASE Validate(s)
    BY <2>2, <1>1, <1>2 DEF HoldInv, HoldTypeOK, TTLInv, Validate
  <2>3. CASE ComputeTTL(s)
    <3>1. expiresAt[s] > now =>
              CeilSeconds(expiresAt[s] - now) <= CeilSeconds(HoldTTL)
      BY CeilIsMonotone, HoldStoreAssumption DEF HoldInv, HoldTypeOK, TTLInv
    <3> QED
      BY <1>1, <1>2, <2>3, <3>1 DEF HoldInv, HoldTypeOK, TTLInv, ComputeTTL
  <2>4. CASE HoldRequestLost(s)
    BY <2>4, <1>1, <1>2 DEF HoldInv, HoldTypeOK, TTLInv, HoldRequestLost, NoReply, CallEnds
  <2> QED
    BY <2>1, <2>2, <2>3, <2>4
<1>5. KeyInv'
  <2> SUFFICES ASSUME NEW x \in Seats, SeatLive(x)'
               PROVE  KeyOf(x, seatKey[x].token)'
    BY DEF KeyInv
  <2>1. KeyOf(x, seatKey[x].token)
    BY <1>1 DEF HoldInv, KeyInv, SeatLive
  <2> QED
    BY <1>1, <1>2, <2>1 DEF KeyOf
<1>6. KeptInv'
  BY <1>1, <1>2 DEF HoldInv, KeptInv
<1>7. LimitInv'
  BY <1>1 DEF HoldInv, LimitInv
<1> QED
  BY <1>3, <1>4, <1>5, <1>6, <1>7, <1>8 DEF HoldInv

\* Time only takes keys away.
LEMMA TickInv == ASSUME HoldInv, Tick PROVE HoldInv'
<1>1. now' = now + 1 /\ UNCHANGED <<callVars, redisVars, released>>
  BY DEF Tick
<1>2. HoldTypeOK'
  BY <1>1 DEF HoldInv, HoldTypeOK, callVars, redisVars
<1>3. ClockInv'
  <2>1. \A s \in Sessions : ttlSeconds[s] * TicksPerSecond \in Nat
    BY ProductIsNat DEF HoldInv, HoldTypeOK
  <2> QED
    BY <1>1, <2>1 DEF HoldInv, HoldTypeOK, ClockInv, callVars
<1>7. TTLInv'
  BY <1>1, HoldStoreAssumption DEF HoldInv, HoldTypeOK, TTLInv, callVars
<1>4. KeyInv'
  BY <1>1 DEF HoldInv, HoldTypeOK, KeyInv, KeyOf, SeatLive, callVars, redisVars
<1>5. KeptInv'
  BY <1>1 DEF HoldInv, HoldTypeOK, KeptInv, callVars, redisVars
<1>6. LimitInv'
  BY <1>1 DEF HoldInv, LimitInv, redisVars
<1> QED
  BY <1>2, <1>3, <1>4, <1>5, <1>6, <1>7 DEF HoldInv

-----------------------------------------------------------------------------
(* The scripts *)

\* holdScript answers "ok" only for a free seat of a user below the limit.
LEMMA OkReply ==
    ASSUME HoldTypeOK, NEW s \in Sessions, HoldReply(s) = "ok"
    PROVE  /\ ~SeatLive(SeatOf[s])
           /\ Cardinality(userHolds[UserOf[s]]) < MaxHolds
<1>1. UserOf[s] \in Users
  BY DomainAssumption
<1>2. Cardinality(userHolds[UserOf[s]]) \in Nat
  BY <1>1, HoldsAreFinite
<1> QED
  BY <1>2, HoldStoreAssumption DEF HoldReply, LimitReached

\* What holdScript does to the rest of the invariant when it claims the seat.
LEMMA HoldScriptInv ==
    ASSUME HoldInv, NEW s \in Sessions, phase[s] = "sent", HoldScript(s),
           now' = now, expiresAt' = expiresAt, released' = released,
           \A t \in Sessions \ {s} : phase'[t] = phase[t],
           phase'[s] \in {"sent", "error", HoldReply(s)}
    PROVE  KeyInv' /\ KeptInv' /\ LimitInv'
<1>0. HoldReply(s) \in {"limit", "taken", "ok"}
  BY DEF HoldReply
<1>1. SeatOf[s] \in Seats /\ UserOf[s] \in Users
  BY DomainAssumption
<1>2. CASE HoldReply(s) # "ok"
  <2>1. UNCHANGED redisVars
    BY <1>2 DEF HoldScript
  <2>2. KeyInv'
    <3> SUFFICES ASSUME NEW x \in Seats, SeatLive(x)'
                 PROVE  KeyOf(x, seatKey[x].token)'
      BY DEF KeyInv
    <3>1. KeyOf(x, seatKey[x].token)
      BY <2>1 DEF HoldInv, KeyInv, SeatLive, redisVars
    <3> QED
      BY <1>0, <2>1, <3>1 DEF KeyOf, redisVars
  <2>3. KeptInv'
    BY <1>0, <1>2, <2>1 DEF HoldInv, KeptInv, redisVars
  <2>4. LimitInv'
    BY <2>1 DEF HoldInv, LimitInv, redisVars
  <2> QED
    BY <2>2, <2>3, <2>4
<1>3. CASE HoldReply(s) = "ok"
  <2> DEFINE deadline == now + ttlSeconds[s] * TicksPerSecond
             home     == SeatOf[s]
             buyer    == UserOf[s]
  <2>1. /\ deadline \in Nat
        /\ deadline >= expiresAt[s]
    BY ProductIsNat DEF HoldInv, HoldTypeOK, ClockInv
  <2>2. /\ seatKey' = [seatKey EXCEPT ![home] = [token |-> s, until |-> deadline]]
        /\ userHolds' = [userHolds EXCEPT ![buyer] = @ \union {s}]
        /\ globalHolds' = globalHolds \union {s}
    BY <1>3 DEF HoldScript
  <2>3. PICK skew \in 0..ExpireSkew :
           sessionUntil' = [sessionUntil EXCEPT ![s] = deadline + skew]
    BY <1>3 DEF HoldScript
  <2>4. ~SeatLive(home) /\ Cardinality(userHolds[buyer]) < MaxHolds
    BY <1>3, OkReply DEF HoldInv
  <2> HIDE DEF deadline
  <2>5. KeyInv'
    <3> SUFFICES ASSUME NEW x \in Seats, SeatLive(x)'
                 PROVE  KeyOf(x, seatKey[x].token)'
      BY DEF KeyInv
    <3>1. CASE x = home
      <4>1. seatKey'[x].token = s /\ seatKey'[x].until = deadline
        BY <1>1, <2>2, <3>1 DEF HoldInv, HoldTypeOK
      <4>2. sessionUntil'[s] >= deadline
        BY <2>1, <2>3, HoldStoreAssumption DEF HoldInv, HoldTypeOK
      <4>3. s \in userHolds'[buyer] /\ s \in globalHolds'
        BY <1>1, <2>2 DEF HoldInv, HoldTypeOK
      <4> QED
        BY <1>0, <2>1, <3>1, <4>1, <4>2, <4>3 DEF KeyOf
    <3>2. CASE x # home
      <4>1. seatKey'[x] = seatKey[x]
        BY <2>2, <3>2 DEF HoldInv, HoldTypeOK
      <4>2. KeyOf(x, seatKey[x].token)
        BY <4>1 DEF HoldInv, KeyInv, SeatLive
      <4> DEFINE t == seatKey[x].token
      <4>3. t \in Sessions /\ t # s
        BY <3>2, <4>2 DEF KeyOf
      <4>4. sessionUntil'[t] = sessionUntil[t] /\ phase'[t] = phase[t]
        BY <2>3, <4>3 DEF HoldInv, HoldTypeOK
      <4>5. t \in userHolds'[UserOf[t]] /\ t \in globalHolds'
        BY <1>1, <2>2, <4>2, <4>3, DomainAssumption DEF KeyOf, HoldInv, HoldTypeOK
      <4> QED
        BY <4>1, <4>2, <4>3, <4>4, <4>5 DEF KeyOf
    <3> QED
      BY <3>1, <3>2
  <2>6. KeptInv'
    <3> SUFFICES ASSUME NEW t \in Sessions,
                        phase'[t] = "ok", t \notin released, now < expiresAt[t]
                 PROVE  /\ seatKey'[SeatOf[t]].token = t
                        /\ seatKey'[SeatOf[t]].until >= expiresAt[t]
      BY DEF KeptInv
    <3>1. CASE t = s
      BY <1>1, <2>1, <2>2, <3>1 DEF HoldInv, HoldTypeOK
    <3>2. CASE t # s
      <4>1. SeatOf[t] \in Seats
        BY DomainAssumption
      <4>2. /\ seatKey[SeatOf[t]].token = t
            /\ seatKey[SeatOf[t]].until >= expiresAt[t]
        BY <3>2 DEF HoldInv, KeptInv
      <4>3. SeatLive(SeatOf[t])
        BY <4>1, <4>2 DEF SeatLive, HoldInv, HoldTypeOK
      <4>4. seatKey'[SeatOf[t]] = seatKey[SeatOf[t]]
        BY <2>2, <2>4, <4>1, <4>3 DEF HoldInv, HoldTypeOK
      <4> QED
        BY <4>2, <4>4
    <3> QED
      BY <3>1, <3>2
  <2>7. LimitInv'
    <3> SUFFICES ASSUME NEW u \in Users
                 PROVE  Cardinality(userHolds'[u]) <= MaxHolds
      BY DEF LimitInv
    <3>1. IsFiniteSet(userHolds[u]) /\ Cardinality(userHolds[u]) \in Nat
      BY HoldsAreFinite DEF HoldInv
    <3>2. CASE u = buyer
      <4>1. userHolds'[u] = userHolds[u] \union {s}
        BY <2>2, <3>2 DEF HoldInv, HoldTypeOK
      <4>2. /\ Cardinality(userHolds[u] \union {s}) \in Nat
            /\ Cardinality(userHolds[u] \union {s}) <= Cardinality(userHolds[u]) + 1
        <5> DEFINE held == userHolds[u]
        <5>1. IsFiniteSet(held) /\ Cardinality(held) \in Nat
          BY <3>1
        <5> HIDE DEF held
        <5>2. Cardinality(held \union {s}) =
                IF s \in held THEN Cardinality(held) ELSE Cardinality(held) + 1
          BY <5>1, FS_AddElement, Zenon
        <5>3. /\ Cardinality(held \union {s}) \in Nat
              /\ Cardinality(held \union {s}) <= Cardinality(held) + 1
          BY <5>1, <5>2
        <5> QED
          BY <5>3 DEF held
      <4> QED
        BY <2>4, <3>1, <3>2, <4>1, <4>2, HoldStoreAssumption
    <3>3. CASE u # buyer
      BY <2>2, <3>3 DEF HoldInv, HoldTypeOK, LimitInv
    <3> QED
      BY <3>2, <3>3
  <2> QED
    BY <2>5, <2>6, <2>7
<1> QED
  BY <1>2, <1>3

\* The steps of a Hold call in which the script runs, its reply lost or not.
LEMMA ScriptStepInv ==
    ASSUME HoldInv, NEW s \in Sessions, HoldAnswered(s) \/ HoldReplyLost(s)
    PROVE  HoldInv'
<1>1. /\ phase[s] = "sent" /\ HoldScript(s)
      /\ now' = now /\ expiresAt' = expiresAt /\ released' = released
      /\ NoReply(s) \/ CallEnds(s, HoldReply(s))
  BY DEF HoldAnswered, HoldReplyLost
<1>2. HoldReply(s) \in {"limit", "taken", "ok"}
  BY DEF HoldReply
<1>3. /\ phase' \in [Sessions -> Phases]
      /\ ttlSeconds' \in [Sessions -> Nat]
      /\ retries' \in [Sessions -> 0..MaxRetries]
      /\ phase'[s] \in {"sent", "error", HoldReply(s)}
      /\ phase'[s] = "sent" => ttlSeconds'[s] = ttlSeconds[s]
      /\ \A t \in Sessions \ {s} : /\ phase'[t] = phase[t]
                                   /\ ttlSeconds'[t] = ttlSeconds[t]
  <2>1. CASE NoReply(s)
    BY <1>1, <2>1, HoldStoreAssumption
    DEF HoldInv, HoldTypeOK, Phases, NoReply, CallEnds
  <2>2. CASE CallEnds(s, HoldReply(s))
    BY <1>2, <2>2, HoldStoreAssumption DEF HoldInv, HoldTypeOK, Phases, CallEnds
  <2> QED
    BY <1>1, <2>1, <2>2
<1>4. /\ seatKey' \in [Seats -> [token : Sessions \union {NoSession}, until : Nat]]
      /\ sessionUntil' \in [Sessions -> Nat]
      /\ userHolds' \in [Users -> SUBSET Sessions]
      /\ globalHolds' \subseteq Sessions
  <2>1. CASE HoldReply(s) = "ok"
    <3> DEFINE deadline == now + ttlSeconds[s] * TicksPerSecond
    <3>1. deadline \in Nat
      BY ProductIsNat DEF HoldInv, HoldTypeOK
    <3>2. /\ seatKey' = [seatKey EXCEPT ![SeatOf[s]] = [token |-> s, until |-> deadline]]
          /\ \E skew \in 0..ExpireSkew :
                sessionUntil' = [sessionUntil EXCEPT ![s] = deadline + skew]
          /\ userHolds' = [userHolds EXCEPT ![UserOf[s]] = @ \union {s}]
          /\ globalHolds' = globalHolds \union {s}
      BY <1>1, <2>1 DEF HoldScript
    <3> HIDE DEF deadline
    <3>3. SeatOf[s] \in Seats /\ UserOf[s] \in Users
      BY DomainAssumption
    <3>4. seatKey' \in [Seats -> [token : Sessions \union {NoSession}, until : Nat]]
      BY <3>1, <3>2, <3>3 DEF HoldInv, HoldTypeOK
    <3>5. PICK skew \in 0..ExpireSkew :
             sessionUntil' = [sessionUntil EXCEPT ![s] = deadline + skew]
      BY <3>2
    <3>6. sessionUntil' \in [Sessions -> Nat]
      <4>1. deadline + skew \in Nat
        BY <3>1, HoldStoreAssumption
      <4> QED
        BY <3>5, <4>1 DEF HoldInv, HoldTypeOK
    <3>7. userHolds' \in [Users -> SUBSET Sessions] /\ globalHolds' \subseteq Sessions
      BY <3>2, <3>3 DEF HoldInv, HoldTypeOK
    <3> QED
      BY <3>4, <3>6, <3>7
  <2>2. CASE HoldReply(s) # "ok"
    BY <1>1, <2>2 DEF HoldScript, redisVars, HoldInv, HoldTypeOK
  <2> QED
    BY <2>1, <2>2
<1>5. HoldTypeOK'
  BY <1>1, <1>3, <1>4 DEF HoldInv, HoldTypeOK
<1>6. ClockInv'
  <2> SUFFICES ASSUME NEW t \in Sessions
               PROVE  /\ phase'[t] = "unused" <=> expiresAt[t] = 0
                      /\ phase'[t] = "sent" =>
                            /\ ttlSeconds'[t] >= 1
                            /\ now + ttlSeconds'[t] * TicksPerSecond >= expiresAt[t]
    BY <1>1 DEF ClockInv
  <2>1. CASE t = s
    BY <1>1, <1>2, <1>3, <2>1 DEF HoldInv, ClockInv
  <2>2. CASE t # s
    BY <1>3, <2>2 DEF HoldInv, ClockInv
  <2> QED
    BY <2>1, <2>2
<1>7. KeyInv' /\ KeptInv' /\ LimitInv'
  BY <1>1, <1>3, HoldScriptInv
<1>8. TTLInv'
  <2> SUFFICES ASSUME NEW t \in Sessions
               PROVE  /\ expiresAt[t] <= now + HoldTTL
                      /\ phase'[t] = "sent" => ttlSeconds'[t] <= CeilSeconds(HoldTTL)
    BY <1>1 DEF TTLInv
  <2>1. CASE t = s
    BY <1>1, <1>3, <2>1 DEF HoldInv, TTLInv
  <2>2. CASE t # s
    BY <1>3, <2>2 DEF HoldInv, TTLInv
  <2> QED
    BY <2>1, <2>2
<1> QED
  BY <1>5, <1>6, <1>7, <1>8 DEF HoldInv

\* A release, by anybody and however late, takes its own session's keys only:
\* the token in the seat key names the session, and every other session keeps
\* its hash and its entries.
LEMMA ReleaseStepInv ==
    ASSUME HoldInv, NEW s \in Sessions, NEW u \in Users, Release(u, s)
    PROVE  HoldInv'
<1>1. /\ phase[s] = "ok"
      /\ now' = now /\ phase' = phase /\ expiresAt' = expiresAt
      /\ ttlSeconds' = ttlSeconds /\ retries' = retries
  BY DEF Release, callVars
<1>2. CASE ReleaseReply(u, s) # "ok"
  <2>1. UNCHANGED <<redisVars, released>>
    BY <1>2 DEF Release, ReleaseScript
  <2>2. HoldTypeOK' /\ ClockInv' /\ TTLInv'
    BY <1>1, <2>1 DEF HoldInv, HoldTypeOK, ClockInv, TTLInv, redisVars
  <2>3. KeyInv'
    BY <1>1, <2>1 DEF HoldInv, KeyInv, KeyOf, SeatLive, redisVars
  <2>4. KeptInv' /\ LimitInv'
    BY <1>1, <2>1 DEF HoldInv, KeptInv, LimitInv, redisVars
  <2> QED
    BY <2>2, <2>3, <2>4 DEF HoldInv
<1>3. CASE ReleaseReply(u, s) = "ok"
  <2> DEFINE home == SeatOf[s]
  <2>0. home \in Seats /\ UserOf[s] = u
    BY <1>3, DomainAssumption DEF ReleaseReply
  <2>1. /\ sessionUntil' = [sessionUntil EXCEPT ![s] = 0]
        /\ userHolds' = [userHolds EXCEPT ![u] = @ \ {s}]
        /\ globalHolds' = globalHolds \ {s}
        /\ released' = released \union {s}
        /\ seatKey' =
              IF SeatLive(home) /\ seatKey[home].token = s
              THEN [seatKey EXCEPT ![home] = [token |-> NoSession, until |-> 0]]
              ELSE seatKey
    BY <1>3, <2>0 DEF Release, ReleaseScript, GivenUp
  <2>2. HoldTypeOK' /\ ClockInv' /\ TTLInv'
    BY <1>1, <2>1 DEF HoldInv, HoldTypeOK, ClockInv, TTLInv
  <2>3. KeyInv'
    <3> SUFFICES ASSUME NEW x \in Seats, SeatLive(x)'
                 PROVE  KeyOf(x, seatKey[x].token)'
      BY DEF KeyInv
    <3>1. seatKey'[x] = seatKey[x] /\ SeatLive(x)
      BY <1>1, <2>1 DEF SeatLive, HoldInv, HoldTypeOK
    <3> DEFINE t == seatKey[x].token
    <3>2. KeyOf(x, t)
      BY <3>1 DEF HoldInv, KeyInv
    <3>3. t \in Sessions /\ t # s
      <4>1. SUFFICES ASSUME t = s PROVE FALSE
        BY <3>2 DEF KeyOf
      <4>2. x = home /\ SeatLive(home) /\ seatKey[home].token = s
        BY <3>1, <3>2, <4>1 DEF KeyOf
      <4>3. seatKey'[home].until = 0
        BY <2>0, <2>1, <4>2 DEF HoldInv, HoldTypeOK
      <4> QED
        BY <1>1, <4>2, <4>3 DEF SeatLive, HoldInv, HoldTypeOK
    <3>4. sessionUntil'[t] = sessionUntil[t]
      BY <2>1, <3>3 DEF HoldInv, HoldTypeOK
    <3>5. t \in userHolds'[UserOf[t]] /\ t \in globalHolds'
      BY <2>1, <3>2, <3>3 DEF KeyOf, HoldInv, HoldTypeOK
    <3> QED
      BY <1>1, <3>1, <3>2, <3>3, <3>4, <3>5 DEF KeyOf
  <2>4. KeptInv'
    <3> SUFFICES ASSUME NEW t \in Sessions,
                        phase[t] = "ok", t \notin released', now < expiresAt[t]
                 PROVE  seatKey'[SeatOf[t]] = seatKey[SeatOf[t]]
      BY <1>1, <2>1 DEF HoldInv, KeptInv
    <3>1. t # s /\ seatKey[SeatOf[t]].token = t /\ SeatOf[t] \in Seats
      BY <2>1, DomainAssumption DEF HoldInv, KeptInv
    <3> QED
      BY <2>1, <3>1 DEF HoldInv, HoldTypeOK
  <2>5. LimitInv'
    <3> SUFFICES ASSUME NEW v \in Users
                 PROVE  Cardinality(userHolds'[v]) <= MaxHolds
      BY DEF LimitInv
    <3>1. userHolds'[v] \subseteq userHolds[v]
      BY <2>1 DEF HoldInv, HoldTypeOK
    <3>2. IsFiniteSet(userHolds[v]) /\ Cardinality(userHolds[v]) \in Nat
      BY HoldsAreFinite DEF HoldInv
    <3>3. /\ Cardinality(userHolds'[v]) <= Cardinality(userHolds[v])
          /\ IsFiniteSet(userHolds'[v])
      BY <3>1, <3>2, FS_Subset
    <3>4. Cardinality(userHolds'[v]) \in Nat
      BY <3>3, FS_CardinalityType
    <3> QED
      BY <3>2, <3>3, <3>4, HoldStoreAssumption DEF HoldInv, LimitInv
  <2> QED
    BY <2>2, <2>3, <2>4, <2>5 DEF HoldInv
<1> QED
  BY <1>2, <1>3

-----------------------------------------------------------------------------
(* The invariant, and the properties that follow from it *)

\* Every step of the store keeps the invariant.
LEMMA HoldStepInv == HoldInv /\ [HoldNext]_holdVars => HoldInv'
<1> SUFFICES ASSUME HoldInv, [HoldNext]_holdVars PROVE HoldInv'
  OBVIOUS
<1>1. CASE Tick
  BY <1>1, TickInv
<1>2. ASSUME NEW s \in Sessions, HoldCall(s) PROVE HoldInv'
  BY <1>2, LocalStepInv, ScriptStepInv DEF HoldCall
<1>3. ASSUME NEW s \in Sessions, NEW u \in Users, Release(u, s) PROVE HoldInv'
  BY <1>3, ReleaseStepInv
<1>4. CASE UNCHANGED holdVars
  <2>1. /\ now' = now /\ phase' = phase /\ expiresAt' = expiresAt
        /\ ttlSeconds' = ttlSeconds /\ retries' = retries
        /\ seatKey' = seatKey /\ sessionUntil' = sessionUntil
        /\ userHolds' = userHolds /\ globalHolds' = globalHolds
        /\ released' = released
    BY <1>4 DEF holdVars, callVars, redisVars
  <2>2. HoldTypeOK' /\ ClockInv' /\ TTLInv'
    BY <2>1 DEF HoldInv, HoldTypeOK, ClockInv, TTLInv
  <2>3. KeyInv' /\ KeptInv' /\ LimitInv'
    BY <2>1 DEF HoldInv, KeyInv, KeyOf, SeatLive, KeptInv, LimitInv
  <2> QED
    BY <2>2, <2>3 DEF HoldInv
<1> QED
  BY <1>1, <1>2, <1>3, <1>4 DEF HoldNext

\* HoldInv holds in every reachable state of the store.
THEOREM HoldInvariant == HoldSpec => []HoldInv
BY HoldInitInv, HoldStepInv, PTL DEF HoldSpec

\* Every variable of the store keeps its type.
THEOREM HoldTypeCorrect == HoldSpec => []HoldTypeOK
<1>1. HoldInv => HoldTypeOK
  BY DEF HoldInv
<1> QED
  BY <1>1, HoldInvariant, PTL

\* HoldStore.Hold keeps its promise: a hold that was answered and not given up
\* keeps its seat key and its session hash until ExpiresAt, for every TTL and
\* every rounding of the clock; and the stored expiry, rounded the other way,
\* takes less than a second off the time in which it can be confirmed.
THEOREM PromisesAreKept == HoldSpec => []HoldProtectedUntilExpiry
<1>1. HoldInv => HoldProtectedUntilExpiry
  <2> SUFFICES ASSUME HoldInv, NEW s \in Sessions,
                      phase[s] = "ok", s \notin released
               PROVE  HoldProtectedUntilExpiry!(s)!2
    BY DEF HoldProtectedUntilExpiry
  <2>1. ASSUME now < expiresAt[s]
        PROVE  /\ SeatLive(SeatOf[s])
               /\ seatKey[SeatOf[s]].token = s
               /\ SessionLive(s)
    <3>1. /\ seatKey[SeatOf[s]].token = s
          /\ seatKey[SeatOf[s]].until >= expiresAt[s]
      BY <2>1 DEF HoldInv, KeptInv
    <3>2. SeatOf[s] \in Seats /\ SeatLive(SeatOf[s])
      BY <2>1, <3>1, DomainAssumption DEF SeatLive, HoldInv, HoldTypeOK
    <3>3. sessionUntil[s] >= seatKey[SeatOf[s]].until
      BY <3>1, <3>2 DEF HoldInv, KeyInv, KeyOf
    <3> QED
      BY <3>1, <3>2, <3>3 DEF SessionLive, SeatLive, HoldInv, HoldTypeOK
  <2>2. /\ CanBeConfirmed(s) => now < expiresAt[s]
        /\ now + TicksPerSecond <= expiresAt[s] => CanBeConfirmed(s)
    <3>1. now \in Nat /\ expiresAt[s] \in Nat
      BY DEF HoldInv, HoldTypeOK
    <3> QED
      BY <3>1, FloorCutsLessThanASecond, HoldStoreAssumption DEF CanBeConfirmed
  <2> QED
    BY <2>1, <2>2
<1> QED
  BY <1>1, HoldInvariant, PTL

\* holdScript and releaseScript never strand a seat: a live seat key always
\* belongs to a session whose hash is live and which both ZSETs list.
THEOREM SeatsAreReachable == HoldSpec => []LiveSeatIsReachable
<1>1. HoldInv => LiveSeatIsReachable
  <2> SUFFICES ASSUME HoldInv, NEW x \in Seats, SeatLive(x)
               PROVE  /\ KeyOf(x, seatKey[x].token)
                      /\ SessionLive(seatKey[x].token)
    BY DEF LiveSeatIsReachable, KeyOf
  <2>1. KeyOf(x, seatKey[x].token)
    BY DEF HoldInv, KeyInv
  <2> QED
    BY <2>1 DEF KeyOf, SessionLive, SeatLive, HoldInv, HoldTypeOK
<1> QED
  BY <1>1, HoldInvariant, PTL

\* The seats a user has blocked are among the entries ZCARD counted.
LEMMA LiveHoldsAreCounted ==
    ASSUME HoldInv, NEW u \in Users
    PROVE  /\ LiveHolds(u) \subseteq userHolds[u]
           /\ IsFiniteSet(LiveHolds(u))
           /\ Cardinality(LiveHolds(u)) \in Nat
           /\ Cardinality(LiveHolds(u)) <= Cardinality(userHolds[u])
<1>1. LiveHolds(u) \subseteq userHolds[u]
  BY DomainAssumption DEF HoldInv, KeyInv, KeyOf, LiveHolds
<1>2. IsFiniteSet(userHolds[u])
  BY HoldsAreFinite DEF HoldInv
<1> QED
  BY <1>1, <1>2, FS_Subset, FS_CardinalityType

\* The hold limit holds whatever calls and re-sends overlap.
THEOREM LimitIsKept == HoldSpec => []HoldLimitHolds
<1>1. HoldInv => HoldLimitHolds
  <2> SUFFICES ASSUME HoldInv, NEW u \in Users
               PROVE  Cardinality(LiveHolds(u)) <= MaxHolds
    BY DEF HoldLimitHolds
  <2>1. Cardinality(userHolds[u]) \in Nat /\ Cardinality(userHolds[u]) <= MaxHolds
    BY HoldsAreFinite DEF HoldInv, LimitInv
  <2> QED
    BY <2>1, LiveHoldsAreCounted, HoldStoreAssumption
<1> QED
  BY <1>1, HoldInvariant, PTL

-----------------------------------------------------------------------------
(* The adapter implements the port *)

\* The seats the port says a user has are as many as the live holds of the
\* user: the token in a live seat key names one session, minted for one seat.
LEMMA LeasesAreLiveHolds ==
    ASSUME HoldInv, NEW u \in Users
    PROVE  /\ Cardinality(Port!LeasedBy(u)) \in Nat
           /\ Cardinality(Port!LeasedBy(u)) <= Cardinality(LiveHolds(u))
<1> DEFINE leases == {x \in Seats : SeatLive(x) /\ UserOf[seatKey[x].token] = u}
           holds  == LiveHolds(u)
           token  == [x \in leases |-> seatKey[x].token]
<1>1. ASSUME NEW x \in Seats, SeatLive(x)
      PROVE  /\ seatKey[x].token \in Sessions
             /\ seatKey[x].token # NoSession
             /\ SeatOf[seatKey[x].token] = x
  BY <1>1, DomainAssumption DEF HoldInv, KeyInv, KeyOf
<1>2. Port!LeasedBy(u) = leases
  BY <1>1 DEF Port!LeasedBy, Port!NoLease, Lease
<1>3. token \in Injection(leases, holds)
  <2>1. token \in [leases -> holds]
    BY <1>1 DEF LiveHolds
  <2>2. \A x, y \in leases : token[x] = token[y] => x = y
    BY <1>1
  <2> QED
    BY <2>1, <2>2, Fun_IsInj
<1>4. IsFiniteSet(holds) /\ Cardinality(holds) \in Nat
  BY LiveHoldsAreCounted
<1> HIDE DEF leases, holds, token
<1>5. IsFiniteSet(leases) /\ Cardinality(leases) <= Cardinality(holds)
  BY <1>3, <1>4, FS_Injection
<1>6. Cardinality(leases) \in Nat
  BY <1>5, FS_CardinalityType
<1> QED
  BY <1>2, <1>5, <1>6 DEF holds

\* A hold script that claims a seat is the port's Acquire.
LEMMA ClaimIsAcquire ==
    ASSUME HoldInv, NEW s \in Sessions, phase[s] = "sent", HoldScript(s),
           now' = now, expiresAt' = expiresAt, released' = released
    PROVE  Port!Acquire(s) \/ UNCHANGED Port!portVars
<1>1. SeatOf[s] \in Seats /\ UserOf[s] \in Users
  BY DomainAssumption
<1>2. CASE HoldReply(s) # "ok"
  <2>1. seatKey' = seatKey
    BY <1>2 DEF HoldScript, redisVars
  <2> QED
    BY <2>1 DEF Port!portVars, Lease, SeatLive
<1>3. CASE HoldReply(s) = "ok"
  <2> DEFINE deadline == now + ttlSeconds[s] * TicksPerSecond
  <2>1. /\ deadline \in now + 1..now + CeilSeconds(HoldTTL) * TicksPerSecond
        /\ expiresAt[s] <= deadline
    <3>1. /\ ttlSeconds[s] \in Nat /\ CeilSeconds(HoldTTL) \in Nat
          /\ ttlSeconds[s] >= 1 /\ ttlSeconds[s] <= CeilSeconds(HoldTTL)
      BY CeilCovers, HoldStoreAssumption DEF HoldInv, HoldTypeOK, ClockInv, TTLInv
    <3>2. /\ ttlSeconds[s] * TicksPerSecond \in Nat /\ ttlSeconds[s] * TicksPerSecond >= 1
          /\ CeilSeconds(HoldTTL) * TicksPerSecond \in Nat
          /\ ttlSeconds[s] * TicksPerSecond <= CeilSeconds(HoldTTL) * TicksPerSecond
      BY <3>1, ProductIsNat, ProductIsMonotone
    <3> QED
      BY <3>2 DEF HoldInv, HoldTypeOK, ClockInv
  <2>2. seatKey' = [seatKey EXCEPT ![SeatOf[s]] = [token |-> s, until |-> deadline]]
    BY <1>3 DEF HoldScript
  <2> HIDE DEF deadline
  <2>3. ~SeatLive(SeatOf[s]) /\ Cardinality(userHolds[UserOf[s]]) < MaxHolds
    BY <1>3, OkReply DEF HoldInv
  <2>4. expiresAt[s] # 0
    BY DEF HoldInv, ClockInv
  <2>5. Lease[SeatOf[s]] = Port!NoLease
    BY <1>1, <2>3 DEF Lease, Port!NoLease
  <2>6. Cardinality(Port!LeasedBy(UserOf[s])) < MaxHolds
    <3>1. Cardinality(userHolds[UserOf[s]]) \in Nat
      BY <1>1, HoldsAreFinite DEF HoldInv
    <3> QED
      BY <1>1, <2>3, <3>1, LeasesAreLiveHolds, LiveHoldsAreCounted, HoldStoreAssumption
  <2>7. Lease' = [Lease EXCEPT ![SeatOf[s]] = [session |-> s, until |-> deadline]]
    <3>1. \A x \in Seats : Lease'[x] = IF x = SeatOf[s]
                                         THEN [session |-> s, until |-> deadline] ELSE Lease[x]
      BY <1>1, <2>1, <2>2 DEF Lease, SeatLive, HoldInv, HoldTypeOK
    <3> QED
      BY <3>1 DEF Lease
  <2>8. Port!Cardinality(Port!LeasedBy(UserOf[s])) < MaxHolds
    BY <2>6 DEF Port!Cardinality, Cardinality
  <2> QED
    BY <2>1, <2>4, <2>5, <2>7, <2>8 DEF Port!Acquire
<1> QED
  BY <1>2, <1>3

\* A release that answers OK is the port's GiveUp.
LEMMA ReleaseIsGiveUp ==
    ASSUME HoldInv, NEW s \in Sessions, NEW u \in Users, Release(u, s)
    PROVE  Port!GiveUp(s) \/ UNCHANGED Port!portVars
<1>1. now' = now /\ expiresAt' = expiresAt
  BY DEF Release, callVars
<1>2. CASE ReleaseReply(u, s) # "ok"
  BY <1>1, <1>2 DEF Release, ReleaseScript, redisVars, Port!portVars, Lease, SeatLive
<1>3. CASE ReleaseReply(u, s) = "ok"
  <2> DEFINE home == SeatOf[s]
  <2>1. /\ released' = released \union {s}
        /\ seatKey' =
              IF SeatLive(home) /\ seatKey[home].token = s
              THEN [seatKey EXCEPT ![home] = [token |-> NoSession, until |-> 0]]
              ELSE seatKey
    BY <1>3 DEF Release, ReleaseScript, ReleaseReply, GivenUp
  <2>2. ASSUME NEW x \in Seats
        PROVE  Lease'[x] = IF Lease[x].session = s THEN Port!NoLease ELSE Lease[x]
    <3>1. CASE Lease[x].session = s
      <4>1. SeatLive(x) /\ seatKey[x].token = s
        BY <3>1, DomainAssumption DEF Lease
      <4>2. x = home
        BY <4>1 DEF HoldInv, KeyInv, KeyOf
      <4>3. seatKey'[x].until = 0
        BY <2>1, <4>1, <4>2 DEF HoldInv, HoldTypeOK
      <4> QED
        BY <1>1, <3>1, <4>3 DEF Lease, Port!NoLease, SeatLive, HoldInv, HoldTypeOK
    <3>2. CASE Lease[x].session # s
      <4>1. seatKey'[x] = seatKey[x]
        BY <2>1, <3>2 DEF Lease, HoldInv, HoldTypeOK
      <4> QED
        BY <1>1, <3>2, <4>1 DEF Lease, SeatLive
    <3> QED
      BY <3>1, <3>2
  <2>3. Lease' = [x \in Seats |-> IF Lease[x].session = s THEN Port!NoLease ELSE Lease[x]]
    BY <2>2 DEF Lease
  <2> QED
    BY <1>1, <2>1, <2>3 DEF Port!GiveUp
<1> QED
  BY <1>2, <1>3

\* A tick is the port's Lapse: the keys that die are those whose deadline is
\* reached.
LEMMA TickIsLapse == ASSUME HoldInv, Tick PROVE Port!Lapse
<1>1. /\ now' = now + 1 /\ expiresAt' = expiresAt /\ released' = released
      /\ seatKey' = seatKey
  BY DEF Tick, callVars, redisVars
<1>2. ASSUME NEW x \in Seats
      PROVE  Lease'[x] = IF Lease[x].until <= now' THEN Port!NoLease ELSE Lease[x]
  <2>1. now \in Nat /\ seatKey[x].until \in Nat
    BY DEF HoldInv, HoldTypeOK
  <2>2. CASE ~SeatLive(x)
    BY <1>1, <2>1, <2>2 DEF Lease, SeatLive, Port!NoLease
  <2>3. CASE SeatLive(x)
    BY <1>1, <2>1, <2>3 DEF Lease, SeatLive, Port!NoLease
  <2> QED
    BY <2>2, <2>3
<1>3. Lease' = [x \in Seats |-> IF Lease[x].until <= now' THEN Port!NoLease ELSE Lease[x]]
  BY <1>2 DEF Lease
<1> QED
  BY <1>1, <1>3 DEF Port!Lapse

\* Every step of the adapter is a step of the port, or none.
LEMMA StepIsPortStep ==
    HoldInv /\ [HoldNext]_holdVars => [Port!PortNext]_Port!portVars
<1> SUFFICES ASSUME HoldInv, [HoldNext]_holdVars
             PROVE  Port!PortNext \/ UNCHANGED Port!portVars
  OBVIOUS
<1>1. CASE Tick
  BY <1>1, TickIsLapse DEF Port!PortNext
<1>2. ASSUME NEW s \in Sessions, Mint(s)
      PROVE  Port!PortNext \/ UNCHANGED Port!portVars
  <2>1. expiresAt[s] = 0
    BY <1>2 DEF Mint, HoldInv, ClockInv
  <2>2. Port!Promise(s)
    BY <1>2, <2>1 DEF Mint, redisVars, Port!Promise, Lease, SeatLive
  <2> QED
    BY <2>2 DEF Port!PortNext
<1>3. ASSUME NEW s \in Sessions,
             Validate(s) \/ ComputeTTL(s) \/ HoldRequestLost(s)
      PROVE  Port!PortNext \/ UNCHANGED Port!portVars
  BY <1>3 DEF Validate, ComputeTTL, HoldRequestLost, redisVars,
              Port!portVars, Lease, SeatLive
<1>4. ASSUME NEW s \in Sessions, HoldAnswered(s) \/ HoldReplyLost(s)
      PROVE  Port!PortNext \/ UNCHANGED Port!portVars
  BY <1>4, ClaimIsAcquire DEF HoldAnswered, HoldReplyLost, Port!PortNext
<1>5. ASSUME NEW s \in Sessions, NEW u \in Users, Release(u, s)
      PROVE  Port!PortNext \/ UNCHANGED Port!portVars
  BY <1>5, ReleaseIsGiveUp DEF Port!PortNext
<1>6. CASE UNCHANGED holdVars
  BY <1>6 DEF holdVars, callVars, redisVars, Port!portVars, Lease, SeatLive
<1> QED
  BY <1>1, <1>2, <1>3, <1>4, <1>5, <1>6 DEF HoldNext, HoldCall

\* The Redis adapter implements the HoldStore port.
THEOREM AdapterImplementsPort == HoldSpec => ImplementsPort
<1>1. HoldInit => Port!PortInit
  BY DEF HoldInit, Port!PortInit, Port!NoLease, Lease, SeatLive
<1> QED
  BY <1>1, StepIsPortStep, HoldInvariant, PTL
  DEF HoldSpec, ImplementsPort, Port!PortSpec

-----------------------------------------------------------------------------
(* What the port is good for *)

MaxLease == CeilSeconds(HoldTTL) * TicksPerSecond

\* LeasesAreKept, and what it needs to be inductive: types, and that no minted
\* session has the expiry 0 that stands for "not minted".
PortInv ==
    /\ now \in Nat
    /\ expiresAt \in [Sessions -> Nat]
    /\ Lease \in [Seats -> [session : Sessions \union {NoSession}, until : Nat]]
    /\ \A x \in Seats : Lease[x] # Port!NoLease =>
          Lease[x].session \in Sessions /\ expiresAt[Lease[x].session] # 0
    /\ \A u \in Users : IsFiniteSet(Port!LeasedBy(u))
    /\ Port!LeasesAreKept

\* The port counts as this module does.
LEMMA CardinalityIsCardinality == \A S : Port!Cardinality(S) = Cardinality(S)
BY DEF Port!Cardinality, Cardinality

\* A seat more, or seats less, in the set the limit counts.
LEMMA LeasedByBound ==
    ASSUME NEW S, NEW T, NEW x, IsFiniteSet(S), Cardinality(S) <= MaxHolds,
           \/ T \subseteq S
           \/ T \subseteq S \union {x} /\ Cardinality(S) < MaxHolds
    PROVE  IsFiniteSet(T) /\ Cardinality(T) <= MaxHolds
<1>1. Cardinality(S) \in Nat
  BY FS_CardinalityType
<1>2. CASE T \subseteq S
  <2>1. IsFiniteSet(T) /\ Cardinality(T) <= Cardinality(S)
    BY <1>2, FS_Subset
  <2> QED
    BY <1>1, <2>1, FS_CardinalityType, HoldStoreAssumption
<1>3. CASE T \subseteq S \union {x} /\ Cardinality(S) < MaxHolds
  <2>1. /\ IsFiniteSet(S \union {x})
        /\ Cardinality(S \union {x}) = IF x \in S THEN Cardinality(S) ELSE Cardinality(S) + 1
    BY FS_AddElement
  <2>2. IsFiniteSet(T) /\ Cardinality(T) <= Cardinality(S \union {x})
    BY <1>3, <2>1, FS_Subset
  <2> QED
    BY <1>1, <1>3, <2>1, <2>2, FS_CardinalityType, HoldStoreAssumption
<1> QED
  BY <1>2, <1>3

\* A step of the port keeps its leases: they are claimed within the limit, and
\* time brings every one of them nearer to its end.
LEMMA PortStepInv ==
    ASSUME PortInv, [Port!PortNext]_(Port!portVars)
    PROVE  PortInv'
<1> USE DEF Port!NoLease
<1>0. MaxLease \in Nat
  BY CeilCovers, ProductIsNat, HoldStoreAssumption DEF MaxLease
<1>1. ASSUME UNCHANGED expiresAt, now' >= now, now' \in Nat,
             \A x \in Seats : \/ Lease'[x] = Port!NoLease
                              \/ Lease'[x] = Lease[x] /\ now' < Lease[x].until,
             DOMAIN Lease' = Seats, Lease' = [x \in DOMAIN Lease' |-> Lease'[x]]
      PROVE  PortInv'
  <2>1. \A u \in Users : Port!LeasedBy(u)' \subseteq Port!LeasedBy(u)
    BY <1>1 DEF Port!LeasedBy
  <2>2. \A u \in Users : /\ IsFiniteSet(Port!LeasedBy(u)')
                          /\ Cardinality(Port!LeasedBy(u)') <= MaxHolds
    BY <2>1, LeasedByBound, CardinalityIsCardinality DEF PortInv, Port!LeasesAreKept
  <2> QED
    BY <1>0, <1>1, <2>2, CardinalityIsCardinality DEF PortInv, Port!LeasesAreKept, MaxLease
<1>2. CASE Port!Lapse
  <2>1. \A x \in Seats : \/ Lease'[x] = Port!NoLease
                         \/ Lease'[x] = Lease[x] /\ now' < Lease[x].until
    BY <1>2 DEF Port!Lapse, PortInv
  <2> QED
    BY <1>1, <1>2, <2>1 DEF Port!Lapse, PortInv
<1>3. ASSUME NEW s \in Sessions, Port!GiveUp(s) PROVE PortInv'
  <2>1. \A x \in Seats : \/ Lease'[x] = Port!NoLease
                         \/ Lease'[x] = Lease[x] /\ now' < Lease[x].until
    BY <1>0, <1>3 DEF Port!GiveUp, PortInv, Port!LeasesAreKept, MaxLease
  <2> QED
    BY <1>1, <1>3, <2>1 DEF Port!GiveUp, PortInv
<1>4. ASSUME NEW s \in Sessions, Port!Promise(s) PROVE PortInv'
  <2>1. /\ Lease' = Lease /\ now' = now
        /\ expiresAt' \in [Sessions -> Nat]
        /\ \A t \in Sessions \ {s} : expiresAt'[t] = expiresAt[t]
        /\ expiresAt[s] = 0
    BY <1>4, HoldStoreAssumption DEF Port!Promise, PortInv
  <2>2. \A x \in Seats : Lease[x] # Port!NoLease =>
            Lease[x].session \in Sessions \ {s}
    BY <2>1 DEF PortInv
  <2>3. \A u \in Users : Port!LeasedBy(u)' = Port!LeasedBy(u)
    BY <2>1 DEF Port!LeasedBy
  <2> QED
    BY <2>1, <2>2, <2>3, CardinalityIsCardinality DEF PortInv, Port!LeasesAreKept
<1>5. ASSUME NEW s \in Sessions, Port!Acquire(s) PROVE PortInv'
  <2>1. PICK until \in now + 1..now + MaxLease :
            /\ expiresAt[s] <= until
            /\ Lease' = [Lease EXCEPT ![SeatOf[s]] = [session |-> s, until |-> until]]
    BY <1>5 DEF Port!Acquire, MaxLease
  <2>2. /\ SeatOf[s] \in Seats /\ UserOf[s] \in Users
        /\ until \in Nat /\ until # 0
        /\ expiresAt[s] # 0
        /\ now' = now /\ expiresAt' = expiresAt
        /\ Cardinality(Port!LeasedBy(UserOf[s])) < MaxHolds
    BY <1>0, <1>5, <2>1, CardinalityIsCardinality, DomainAssumption DEF Port!Acquire, PortInv
  <2>3. /\ Lease' \in [Seats -> [session : Sessions \union {NoSession}, until : Nat]]
        /\ Lease'[SeatOf[s]] = [session |-> s, until |-> until]
        /\ \A x \in Seats \ {SeatOf[s]} : Lease'[x] = Lease[x]
    BY <2>1, <2>2 DEF PortInv
  <2>4. ASSUME NEW u \in Users
        PROVE  /\ IsFiniteSet(Port!LeasedBy(u)')
               /\ Cardinality(Port!LeasedBy(u)') <= MaxHolds
    <3>1. \/ Port!LeasedBy(u)' \subseteq Port!LeasedBy(u)
          \/ /\ Port!LeasedBy(u)' \subseteq Port!LeasedBy(u) \union {SeatOf[s]}
             /\ u = UserOf[s]
      BY <2>3 DEF Port!LeasedBy
    <3>2. IsFiniteSet(Port!LeasedBy(u)) /\ Cardinality(Port!LeasedBy(u)) <= MaxHolds
      BY CardinalityIsCardinality DEF PortInv, Port!LeasesAreKept
    <3> QED
      BY <2>2, <3>1, <3>2, LeasedByBound
  <2>5. ASSUME NEW x \in Seats, Lease'[x] # Port!NoLease
        PROVE  /\ Lease'[x].session \in Sessions /\ expiresAt[Lease'[x].session] # 0
               /\ SeatOf[Lease'[x].session] = x
               /\ expiresAt[Lease'[x].session] <= Lease'[x].until
               /\ Lease'[x].until \in now + 1..now + MaxLease
    <3>1. CASE x = SeatOf[s]
      BY <2>1, <2>2, <2>3, <3>1
    <3>2. CASE x # SeatOf[s]
      BY <2>3, <2>5, <3>2 DEF PortInv, Port!LeasesAreKept, MaxLease
    <3> QED
      BY <3>1, <3>2
  <2>6. Port!LeasesAreKept'
    BY <2>2, <2>4, <2>5, CardinalityIsCardinality DEF Port!LeasesAreKept, MaxLease
  <2> QED
    BY <2>2, <2>3, <2>4, <2>5, <2>6 DEF PortInv
<1>6. CASE UNCHANGED Port!portVars
  BY <1>6 DEF Port!portVars, PortInv, Port!LeasesAreKept, Port!LeasedBy
<1> QED
  BY <1>2, <1>3, <1>4, <1>5, <1>6 DEF Port!PortNext

\* Whatever implements the port, a seat is blocked for one session, at least up to
\* its ExpiresAt and at most the hold TTL (rounded up) from any moment on, and the
\* limit per user holds.
THEOREM PortKeepsLeases == Port!PortSpec => []Port!LeasesAreKept
<1>1. Port!PortInit => PortInv
  <2> SUFFICES ASSUME Port!PortInit PROVE PortInv
    OBVIOUS
  <2>1. \A u \in Users : Port!LeasedBy(u) = {}
    BY DEF Port!PortInit, Port!LeasedBy, Port!NoLease
  <2>2. IsFiniteSet({}) /\ Cardinality({}) <= MaxHolds
    BY FS_EmptySet, HoldStoreAssumption
  <2>3. Port!LeasesAreKept
    BY <2>1, <2>2, CardinalityIsCardinality DEF Port!PortInit, Port!NoLease, Port!LeasesAreKept
  <2> QED
    BY <2>1, <2>2, <2>3 DEF Port!PortInit, Port!NoLease, PortInv
<1>2. PortInv => Port!LeasesAreKept
  BY DEF PortInv
<1> QED
  BY <1>1, <1>2, PortStepInv, PTL DEF Port!PortSpec

\* An abandoned hold does not keep its seat from others: at every moment, the key
\* that blocks a seat in Redis has at most the rounded hold TTL left to live.
THEOREM SeatsAreBlockedBriefly == HoldSpec => []Port!LeasesAreKept
BY AdapterImplementsPort, PortKeepsLeases DEF ImplementsPort

=============================================================================
