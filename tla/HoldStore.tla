------------------------------ MODULE HoldStore ------------------------------
(***************************************************************************)
(* The Redis hold store: internal/adapters/redis/holdstore.go, with the    *)
(* part of booking.Service.Hold that mints a hold, and the rules of        *)
(* domain/booking.Hold.                                                    *)
(*                                                                         *)
(* A hold is named by its session (BookingDomain).  Time is counted in     *)
(* ticks, TicksPerSecond of them to a second, because the code rounds      *)
(* lifetimes up to seconds in one place and the stored expiry down to      *)
(* seconds in another.                                                     *)
(*                                                                         *)
(* A Redis key with a TTL is modelled by its deadline: Redis serves the    *)
(* key while now is before the deadline and never again afterwards.        *)
(***************************************************************************)
EXTENDS BookingDomain

CONSTANTS
    HoldTTL,         \* config REDIS_HOLD_TTL, in ticks
    MaxHolds,        \* config MaxActiveHolds: the hold limit per user
    TicksPerSecond,
    ExpireSkew,      \* ticks EXPIRE may be stamped after SET EX inside one script
    MaxRetries,      \* re-sends of one command by the Redis client
    LastCall,        \* bound: no Hold call starts and no hold script runs later
    MaxTime          \* bound: the clock stops here

ASSUME HoldStoreAssumption ==
    /\ HoldTTL \in Nat \ {0}
    /\ MaxHolds \in Nat \ {0}
    /\ TicksPerSecond \in Nat \ {0}
    /\ ExpireSkew \in Nat
    /\ MaxRetries \in Nat
    /\ LastCall \in Nat
    /\ MaxTime \in Nat

VARIABLES
    now,           \* the clock, shared by the API processes and Redis
    phase,         \* per session: how far its Hold call has come
    expiresAt,     \* per session: Hold.ExpiresAt, as returned to the client
    ttlSeconds,    \* per session: the EX argument of the hold script
    retries,       \* per session: re-sends already made
    seatKey,       \* seat:{screening}:{row}:{num} -> token, with its deadline
    sessionUntil,  \* deadline of session:{id}; 0 when absent
    userHolds,     \* user:{id}:holds, a ZSET without a TTL
    globalHolds,   \* holds:expiring, a ZSET without a TTL
    released       \* history: sessions that their own user released

callVars  == <<phase, expiresAt, ttlSeconds, retries>>
redisVars == <<seatKey, sessionUntil, userHolds, globalHolds>>
holdVars  == <<now, callVars, redisVars, released>>

-----------------------------------------------------------------------------
(* The clock arithmetic of the code *)

\* Mutant: the round-up is forgotten.
TruncatedSeconds(t) == t \div TicksPerSecond

\* Whole seconds that cover t ticks: truncate, then round up (Hold).
CeilSeconds(t) ==
    LET whole == t \div TicksPerSecond
    IN  IF t > whole * TicksPerSecond THEN whole + 1 ELSE whole

\* time.Time.Unix: the second a time falls in, rounded down.
UnixSeconds(t) == t \div TicksPerSecond

\* The hold's expiry as Get reads it back from the session hash.
StoredExpiry(s) == UnixSeconds(expiresAt[s]) * TicksPerSecond

\* Hold.CanBeConfirmed, on the hold that Get returned.
CanBeConfirmed(s) == now < StoredExpiry(s)

-----------------------------------------------------------------------------
(* What Redis serves *)

SeatLive(x)    == now < seatKey[x].until
SessionLive(s) == now < sessionUntil[s]

\* The seats HeldSeats finds by SCAN.
HeldSeats == {x \in Seats : SeatLive(x)}

\* The sessions whose seat key a user can still lose or release.
LiveHolds(u) == {s \in Sessions :
                    /\ UserOf[s] = u
                    /\ SeatLive(SeatOf[s])
                    /\ seatKey[SeatOf[s]].token = s}

-----------------------------------------------------------------------------
(* Service.Hold and HoldStore.Hold: mint, validate, compute the TTL, send *)

\* Service.Hold builds the hold and stamps ExpiresAt from its own clock.
Mint(s) ==
    /\ phase[s] = "unused"
    /\ now <= LastCall
    /\ phase' = [phase EXCEPT ![s] = "minted"]
    /\ expiresAt' = [expiresAt EXCEPT ![s] = now + HoldTTL]
    /\ UNCHANGED <<now, ttlSeconds, retries, redisVars, released>>

\* The adapter validates again, against a later reading of the clock.
Validate(s) ==
    /\ phase[s] = "minted"
    /\ phase' = [phase EXCEPT ![s] =
                    IF now < expiresAt[s] THEN "validated" ELSE "refused"]
    /\ UNCHANGED <<now, expiresAt, ttlSeconds, retries, redisVars, released>>

\* Mutant: no refusal of a hold that died since Validate.
ComputeAnyTTL(s) ==
    /\ phase[s] = "validated"
    /\ phase' = [phase EXCEPT ![s] = "sent"]
    /\ ttlSeconds' = [ttlSeconds EXCEPT ![s] = CeilSeconds(expiresAt[s] - now)]
    /\ UNCHANGED <<now, expiresAt, retries, redisVars, released>>

\* The adapter computes EX from a third reading, and refuses a dead hold.
ComputeTTL(s) ==
    /\ phase[s] = "validated"
    /\ IF expiresAt[s] <= now
         THEN /\ phase' = [phase EXCEPT ![s] = "refused"]
              /\ UNCHANGED ttlSeconds
         ELSE /\ phase' = [phase EXCEPT ![s] = "sent"]
              /\ ttlSeconds' =
                   [ttlSeconds EXCEPT ![s] = CeilSeconds(expiresAt[s] - now)]
    /\ UNCHANGED <<now, expiresAt, retries, redisVars, released>>

\* Mutant: off by one at the limit.
LimitPassed(u) == Cardinality(userHolds[u]) > MaxHolds

LimitReached(u) == Cardinality(userHolds[u]) >= MaxHolds

\* What holdScript answers in the current state.
HoldReply(s) ==
    CASE LimitReached(UserOf[s]) -> "limit"
      [] ~LimitReached(UserOf[s]) /\ SeatLive(SeatOf[s]) -> "taken"
      [] OTHER -> "ok"

\* Mutant: SET NX without EX.
HoldScriptForGood(s) ==
    IF HoldReply(s) = "ok"
    THEN /\ seatKey' = [seatKey EXCEPT ![SeatOf[s]] =
                           [token |-> s, until |-> MaxTime + 1]]
         /\ sessionUntil' = [sessionUntil EXCEPT ![s] = MaxTime + 1]
         /\ userHolds' = [userHolds EXCEPT ![UserOf[s]] = @ \union {s}]
         /\ globalHolds' = globalHolds \union {s}
    ELSE UNCHANGED redisVars

\* holdScript as Redis runs it: all of its writes, or none of them.
HoldScript(s) ==
    IF HoldReply(s) = "ok"
    THEN LET deadline == now + ttlSeconds[s] * TicksPerSecond
         IN  /\ seatKey' = [seatKey EXCEPT ![SeatOf[s]] =
                               [token |-> s, until |-> deadline]]
             /\ \E skew \in 0..ExpireSkew :
                   sessionUntil' =
                     [sessionUntil EXCEPT ![s] = deadline + skew]
             /\ userHolds' = [userHolds EXCEPT ![UserOf[s]] = @ \union {s}]
             /\ globalHolds' = globalHolds \union {s}
    ELSE UNCHANGED redisVars

\* The Hold call returns, and the locals of its adapter call die with it.
CallEnds(s, outcome) ==
    /\ phase' = [phase EXCEPT ![s] = outcome]
    /\ ttlSeconds' = [ttlSeconds EXCEPT ![s] = 0]
    /\ retries' = [retries EXCEPT ![s] = 0]

\* The client saw no reply: go-redis sends again, or the call fails.
NoReply(s) ==
    \/ /\ retries[s] < MaxRetries
       /\ retries' = [retries EXCEPT ![s] = @ + 1]
       /\ UNCHANGED <<phase, ttlSeconds>>
    \/ CallEnds(s, "error")

\* The script runs; its reply arrives.
HoldAnswered(s) ==
    /\ phase[s] = "sent"
    /\ now <= LastCall
    /\ HoldScript(s)
    /\ CallEnds(s, HoldReply(s))
    /\ UNCHANGED <<now, expiresAt, released>>

\* The script runs; its reply is lost.
HoldReplyLost(s) ==
    /\ phase[s] = "sent"
    /\ now <= LastCall
    /\ HoldScript(s)
    /\ NoReply(s)
    /\ UNCHANGED <<now, expiresAt, released>>

\* The request never reaches Redis.
HoldRequestLost(s) ==
    /\ phase[s] = "sent"
    /\ NoReply(s)
    /\ UNCHANGED <<now, expiresAt, redisVars, released>>

-----------------------------------------------------------------------------
(* HoldStore.Release *)

\* What releaseScript answers user u for session s.
ReleaseReply(u, s) ==
    CASE ~SessionLive(s) -> "not_found"
      [] SessionLive(s) /\ UserOf[s] # u -> "not_owner"
      [] OTHER -> "ok"

\* History: whatever the script answers to others, only its user gives a hold up.
GivenUp(u, s) == IF UserOf[s] = u THEN released \union {s} ELSE released

\* Mutant: the seat key is left to its TTL.
ReleaseScriptKeepsSeat(u, s) ==
    IF ReleaseReply(u, s) = "ok"
    THEN /\ sessionUntil' = [sessionUntil EXCEPT ![s] = 0]
         /\ userHolds' = [userHolds EXCEPT ![u] = @ \ {s}]
         /\ globalHolds' = globalHolds \ {s}
         /\ released' = GivenUp(u, s)
         /\ UNCHANGED seatKey
    ELSE UNCHANGED <<redisVars, released>>

\* Mutant: DEL without comparing the token.
ReleaseScriptBlindDelete(u, s) ==
    IF ReleaseReply(u, s) = "ok"
    THEN /\ seatKey' = [seatKey EXCEPT ![SeatOf[s]] =
                           [token |-> NoSession, until |-> 0]]
         /\ sessionUntil' = [sessionUntil EXCEPT ![s] = 0]
         /\ userHolds' = [userHolds EXCEPT ![u] = @ \ {s}]
         /\ globalHolds' = globalHolds \ {s}
         /\ released' = GivenUp(u, s)
    ELSE UNCHANGED <<redisVars, released>>

\* releaseScript as Redis runs it, compare-and-delete included.
ReleaseScript(u, s) ==
    IF ReleaseReply(u, s) = "ok"
    THEN /\ seatKey' =
              IF SeatLive(SeatOf[s]) /\ seatKey[SeatOf[s]].token = s
              THEN [seatKey EXCEPT ![SeatOf[s]] =
                       [token |-> NoSession, until |-> 0]]
              ELSE seatKey
         /\ sessionUntil' = [sessionUntil EXCEPT ![s] = 0]
         /\ userHolds' = [userHolds EXCEPT ![u] = @ \ {s}]
         /\ globalHolds' = globalHolds \ {s}
         /\ released' = GivenUp(u, s)
    ELSE UNCHANGED <<redisVars, released>>

\* Any user who was told, or guessed, a session ID may try to release it.
Release(u, s) ==
    /\ phase[s] = "ok"
    /\ ReleaseScript(u, s)
    /\ UNCHANGED <<now, callVars>>

\* Time passes; every key whose deadline is reached is gone.
Tick ==
    /\ now < MaxTime
    /\ now' = now + 1
    /\ UNCHANGED <<callVars, redisVars, released>>

-----------------------------------------------------------------------------
HoldInit ==
    /\ now = 0
    /\ phase = [s \in Sessions |-> "unused"]
    /\ expiresAt = [s \in Sessions |-> 0]
    /\ ttlSeconds = [s \in Sessions |-> 0]
    /\ retries = [s \in Sessions |-> 0]
    /\ seatKey = [x \in Seats |-> [token |-> NoSession, until |-> 0]]
    /\ sessionUntil = [s \in Sessions |-> 0]
    /\ userHolds = [u \in Users |-> {}]
    /\ globalHolds = {}
    /\ released = {}

HoldCall(s) ==
    \/ Mint(s)
    \/ Validate(s)
    \/ ComputeTTL(s)
    \/ HoldAnswered(s)
    \/ HoldReplyLost(s)
    \/ HoldRequestLost(s)

HoldNext ==
    \/ Tick
    \/ \E s \in Sessions : HoldCall(s)
    \/ \E s \in Sessions, u \in Users : Release(u, s)

HoldSpec == HoldInit /\ [][HoldNext]_holdVars

\* Time does not stop: the only fairness the expiry of keys needs.
FairHoldSpec == HoldSpec /\ WF_holdVars(Tick)

-----------------------------------------------------------------------------
(* What the store guarantees *)

Phases == {"unused", "minted", "validated", "sent",
           "ok", "taken", "limit", "refused", "error"}

\* The type invariant of every variable of the hold store.
HoldTypeOK ==
    /\ now \in Nat
    /\ phase \in [Sessions -> Phases]
    /\ expiresAt \in [Sessions -> Nat]
    /\ ttlSeconds \in [Sessions -> Nat]
    /\ retries \in [Sessions -> 0..MaxRetries]
    /\ seatKey \in [Seats -> [token : Sessions \union {NoSession}, until : Nat]]
    /\ sessionUntil \in [Sessions -> Nat]
    /\ userHolds \in [Users -> SUBSET Sessions]
    /\ globalHolds \subseteq Sessions
    /\ released \subseteq Sessions

\* A hold the client was told it has, and has not given up, keeps its seat key
\* and its session hash up to the ExpiresAt it was promised: HoldStore.Hold
\* rounds the TTL up so that neither key vanishes inside the user's window.
\* The expiry it stores is rounded down, so Confirm may refuse the hold earlier:
\* never later than ExpiresAt, and by less than a second.
HoldProtectedUntilExpiry ==
    \A s \in Sessions : phase[s] = "ok" /\ s \notin released =>
        /\ now < expiresAt[s] =>
              /\ SeatLive(SeatOf[s])
              /\ seatKey[SeatOf[s]].token = s
              /\ SessionLive(s)
        /\ CanBeConfirmed(s) => now < expiresAt[s]
        /\ now + TicksPerSecond <= expiresAt[s] => CanBeConfirmed(s)

\* A seat key that blocks other buyers always belongs to a session that can
\* still be found: its hash is live and both ZSETs list it, so the holder (or a
\* sweeper) can reach the key.  holdScript writes all four or none.
LiveSeatIsReachable ==
    \A x \in Seats : SeatLive(x) =>
        LET s == seatKey[x].token
        IN  /\ s \in Sessions
            /\ SeatOf[s] = x
            /\ SessionLive(s)
            /\ s \in userHolds[UserOf[s]]
            /\ s \in globalHolds

\* No burst of parallel Hold calls, retries included, gives one user more than
\* MaxHolds live seats: ZCARD is checked inside the script, before the claim.
HoldLimitHolds ==
    \A u \in Users : Cardinality(LiveHolds(u)) <= MaxHolds

\* The lease of each seat, as the port's callers see it: who has it until when.
Lease == [x \in Seats |-> IF SeatLive(x)
                             THEN [session |-> seatKey[x].token, until |-> seatKey[x].until]
                             ELSE [session |-> NoSession, until |-> 0]]

Port == INSTANCE HoldPort WITH
    lease <- Lease, MaxLease <- CeilSeconds(HoldTTL) * TicksPerSecond

\* The Redis adapter keeps the contract of the HoldStore port: exclusive claims
\* under the limit, a Release (however late) that only the user of the session can
\* make and that frees nobody else's seat, no claim that lapses before its ExpiresAt
\* or that a re-sent command prolongs, and none that outlives the hold TTL, rounded
\* up, from the moment it was made.
ImplementsPort == Port!PortSpec

\* An abandoned hold frees its seat without anybody's help: the seat key's EX
\* is all that returns an abandoned cart to sale.
AbandonedSeatFreed ==
    \A x \in Seats : SeatLive(x) ~> ~SeatLive(x)

-----------------------------------------------------------------------------
(* What a comment of the code says, and the code does not do *)

\* Residue costs "one hold-limit slot until TTL expiry": an entry that counts
\* against a user's limit belongs to a hold whose session has not expired.
SlotFreedByTTL ==
    \A u \in Users : \A s \in userHolds[u] : SessionLive(s)

=============================================================================
