# bookingConcurrent: specifications, model checking and proofs

This directory is the formal model of the core of this repository: a
cinema-ticket API in Go that lets buyers hold seats in Redis for a few minutes,
pay for them through a payment provider, and confirm them into Postgres. The
hazard of the program is in its name: many buyers, many API processes, two
stores and a provider, with no lock that spans any two of them.

All source paths below are relative to `src/`. `PROJECT.json` maps every
definition to the lines it models.

## 1. Inventory

### The parts and their state

| Part | Source | State | Operations |
| --- | --- | --- | --- |
| Booking domain | `internal/domain/booking` | none (values) | `NewSeat`, `Hold.Validate`, `IsExpired`, `CanBeConfirmed` |
| Hold store (port, Redis adapter) | `internal/application/booking/holdstore.go`, `internal/adapters/redis` | `seat:*` keys with a TTL, `session:*` hashes with a TTL, two ZSETs without one | `Hold`, `Release`, `Get`, `HeldSeats` |
| Booking repository (port, Postgres adapter) | `internal/application/booking/bookingstore.go`, `internal/adapters/postgres/repos_booking.go`, `migrations/00003`, `00004` | `confirmed_bookings` with two partial unique indexes, `outbox` | `Confirm` (one transaction), `SeatConfirmed`, `ConfirmedSeats`, `BookingBySession` |
| Booking service | `internal/application/booking/service.go` | none between requests | `Hold`, `Confirm`, `Release`, `SeatMap` |
| Payment domain | `internal/domain/payment` | none (values) | the status state machine |
| Payment repository | `internal/adapters/postgres/repos_payment.go`, `migrations/00005`, `00009` | `payments`, one active row per session | `InsertIntent`, `Capture`, `MarkFailed`, the lookups |
| Payment service | `internal/application/payment/service.go` | none between requests | `CreateIntent`, `ConfirmByClient`, `HandleWebhook` |
| Payment gateway | `internal/adapters/payment` (a sandbox) | none in this repository | `CreateIntent`, `CaptureIntent`, `VerifyWebhook` |
| Auth | `internal/application/auth`, `internal/adapters/postgres/repos_auth.go`, `internal/domain/user` | users, refresh-token families | `Register`, `Login`, `Refresh`, `Logout` |
| Catalog | `internal/application/catalog`, `internal/domain/movie`, `internal/adapters/postgres/repos.go` | movies, halls, screenings (read only) | lookups, `HasSeat`, `AllSeats` |
| HTTP | `internal/adapters/http`, `internal/platform/middleware` | none | handlers, error mapping, middleware |
| In-memory adapters | `internal/adapters/memory` | maps behind mutexes | the same ports, for tests |
| Process | `cmd/api`, `cmd/migrate`, `internal/platform/server`, `telemetry`, `internal/adapters/postgres` (pool, migrate, seed) | where `run()` is, the handlers under way, the schema, the demo catalog | boot, migrate, seed, serve, drain, close |
| Configuration | `internal/platform/config` | none after boot | `Load` |

### How they interact

* `Service.Hold`: `SeatConfirmed` in Postgres (the phantom-hold defence), then
  one Lua script in Redis that checks the user's limit, claims the seat and
  writes the session.
* `Service.Confirm`: `holds.Get` in Redis, the owner check, the domain's clock
  rule, `HasCapturedPayment` in Postgres, the booking transaction in Postgres,
  and a best-effort release script in Redis. A conflict goes to
  `recoverConflict`, which looks up the session's row.
* `Service.SeatMap`: confirmed seats from Postgres, then held seats from Redis.
* `CreateIntent`, `ConfirmByClient`: the hold gate in Redis, the active row in
  Postgres, the gateway, a guarded write in Postgres.
* `HandleWebhook`: a lookup, an amount check and a guarded write in Postgres;
  it never looks at the hold.
* A client puts these together. What one route told it (`201` for a hold, `200`
  for a payment) is all it has to go by when it calls the next one.
* A server migrates and seeds the database when it boots in development; a
  deployment migrates with `cmd/migrate`. Several of them may do so at once.

Nothing is called back and nothing is shared in memory. Each arrow is a round
trip of its own, and any other request, any expiry and any failure fits between
two of them. A crash is the end of the calls it interrupts.

### What is hard, and what makes each part correct

| Part | What is hard | What has to hold |
| --- | --- | --- |
| Hold store | three clock readings and two roundings between `ExpiresAt` and `EX`; scripts re-sent by the client; releases that arrive after their hold is gone; ZSETs without a TTL | a promised hold lasts; nobody releases another buyer's seat; the limit holds; no seat is blocked by a hold nobody can find; an abandoned seat comes back |
| Booking repository | concurrent INSERTs wait for one another, and a row can violate two indexes | one booking per seat; a conflict is final; booking and event together; no deadlock |
| Booking service | every check is stale when used; the release comes after the commit and may not come at all; replays | no sale without a captured payment; the answers are true; a failed confirm does not cost the buyer the hold |
| Seat map | two reads of two stores | a sold seat is never shown as free again |
| Payments | two intents minted at once; client and webhook race; events late, repeated, contradictory; a death between capture and its record | one active intent; a captured row was collected at the frozen amount; the gate of Confirm never closes again; collected money is settled |
| Checkout | four routes, two services, no common transaction | paid before sold; one buyer per seat; a client may believe what it was told |
| Auth | rotation races with reuse and with revocation | one use of each token; a revoked family stays dead |
| In-memory adapters | every unit test stands on them | they keep the ports the real adapters keep |
| Process | servers that boot together migrate and seed without a lock; a signal at any step; handlers that never return | the seed happens once; a server that serves is usable; exit code 0 means nothing was lost; a stopped process stops |

`PROJECT.json` lists the single hazards with the line where each bites and the
properties that watch it.

## 2. Modules

```
BookingDomain
   |-- HoldPort, SalesLedger, PaymentGate, BoxOffice      what is promised
   |
   |-- HoldStore        implements HoldPort
   |-- BookingStore     implements SalesLedger
   |      |-- Adapters  BookingStore or one of MemoryStores, behind their ports
   |-- BookingService   EXTENDS HoldStore and BookingStore;  implements BoxOffice
   |      |-- SeatMap
   |
   |-- PaymentStore
   |      |-- PaymentService  implements PaymentGate
   |             |-- Checkout EXTENDS HttpResponses too;  implements BoxOffice
   |
RefreshPort             what is promised of the sessions of users
   |-- RefreshTokens    implements it, as does the double in Adapters; meets the
                        others only through the user id of a request
Config -- Process       the processes all of the above run in
```

Each of HoldStore, BookingStore, BookingService (with SeatMap), PaymentService,
Checkout, RefreshTokens, Adapters and Process has a `...Proofs` module that
extends it; PaymentService's is extended by Checkout's, and BookingService's
extends those of both stores.

**BookingDomain.** `Service.Hold` mints a fresh session and token per call, so
a session *is* one Hold call, its token, its seat (`SeatOf`) and its user
(`UserOf`). Seats are opaque: `NewSeat` and `HasSeat` have accepted them.

**HoldStore.** Time is in ticks, `TicksPerSecond` to a second. A key with a TTL
is its deadline, served while `now` is before it. `Mint`, `Validate` and
`ComputeTTL` are the three readings of the clock before the script;
`HoldAnswered`, `HoldReplyLost` and `HoldRequestLost` are the script with its
reply received, lost, or never run, each loss followed by a re-send (at most
`MaxRetries`) or an error. A Lua script is one step because Redis runs it as
one; `ExpireSkew` lets `EXPIRE` be stamped later than `SET EX` in the same
script. `Release(u, s)` is the compare-and-delete script, by any user; `released`
is history, the sessions that their own user released, so that a script which
obeyed somebody else would end a lease nobody gave up, against `ImplementsPort`.
ZSETs are sets: their scores are written and never read.

**HoldPort.** A hold store as leases with deadlines: claim a free seat under the
limit, until some moment that covers the promise and is at most `MaxLease` away;
give up one's own lease, which only its user can; lapse at the deadline, neither sooner nor later.
`HoldStore` implements it with the lease read off the live seat keys and their
TTLs, and `MaxLease` the hold TTL rounded up to seconds.

**BookingStore.** `BookingRepo.Confirm` by statement. `MustWait` is the
behaviour of a Postgres unique index when the colliding row belongs to a
transaction in progress; `Conflicts` gives either index name for a row that
violates both. `Commit` may leave its caller in the dark, `Rollback` is every
other way out. Rows carry the call that wrote them, which is the generated id.

**SalesLedger.** The port: one action, `Sell`, atomic with its event.

**MemoryStores, Adapters.** The maps of `internal/adapters/memory`, one step per
call because each call holds one mutex throughout. `Adapters` puts one adapter
behind its port per behaviour (`wired`): the Postgres repository or one of the
four doubles. The hold double keeps expired claims until somebody takes the
seat, so its lease is the live part of its entries; its limit counts what
lingers, as ZCARD does. The payment double is compared with the statements of
PaymentStore, the token double with RefreshPort.

**BookingService.** Composes both stores. `PrecheckSeat` and `HoldStep` are
`Service.Hold`; `ConfirmGet`, `ConfirmCheckExpiry`, `ConfirmCheckPayment`,
`ConfirmStore` with the statements of `BookingStore`, then `ConfirmCleanup` or
`ConfirmRecover`, are `Service.Confirm`; `ConfirmFails` ends a call where it
is. Payments are a growing set of sessions here, which is what `PaymentGate`
states and `PaymentService` is shown to implement. The committed sales and the
captured payments are the state of BoxOffice. A payment can be captured
after its hold is gone, because the webhook never looks.

**SeatMap.** `ReadBooked` and `ReadHeld` are the two reads, and everything in
BookingService may happen between. `shown` is the map the client saw last.

**PaymentStore, PaymentService.** The guards that are in SQL are in
PaymentStore; a SELECT that classifies an UPDATE of no rows is a step of its
own (`PayerClassify`). The hold is reduced to a set `holdGone` that only grows:
a session that ended never comes back. The gateway is external and known by its
port: it collects an intent's money at most once, through `CaptureIntent` or
with the buyer directly, possibly not at the frozen amount, and then tells of it
late, in any order, and again until it is answered 200 (`acked`). With
`DealsDirectly = FALSE` nobody can pay the provider but through `CaptureIntent`, and
with `LosesReplies = FALSE` a `CaptureIntent` that is refused has not moved the
money; both together are the sandbox gateway. A 200 that is lost is a delivery that
is sent again, which `WebhookArrives` allows at any time. `WebhookArrives` is the handler up to the
write: any well-formed or malformed request, by the provider or by a stranger,
of any age around the tolerance, is put through `VerifyWebhook`; only what passes
becomes an event.

**HttpResponses, Checkout.** HttpResponses has the two switch statements that
turn a service's sentinel into a status and a code, and the success codes of the
handlers. Checkout composes PaymentService step by step with the booking
service over its ports: a hold is a lease that may end at any time, a sale is
one step of SalesLedger. It keeps what the composition needs and drops what the
detailed modules settle (clocks, keys, statements, the hold limit). Clients only
use session IDs they were told of (`Known`). `toldPaid` and `phantoms` are
history variables.

**BoxOffice.** What buyer and cinema may count on, in two actions: money is
collected for a session; a seat is sold, once, to a session that has paid. Both
compositions implement it: BookingService with the stores by statement and the
payments given, Checkout with the payments by statement and the stores given.

**RefreshPort.** The RefreshTokenStore interface: issue the first token of a
family, exchange a live token for the next, revoke what is live in a family, each
in one step. Expiry only lets a call refuse, so it is not in the port's state.

**RefreshTokens.** A Register, Login or Refresh call is named by the token it
mints, a family by its first token. `RotateLock`, `RotateInsert`,
`RotateMarkReplaced`, `RotateCommit` are the statements of `Rotate`; the theft
branch and `Logout` share `RevokeSnapshot`, `RevokeLock`, `RevokeCommit`, the UPDATE
that revokes a family. Under READ COMMITTED what a transaction writes is
invisible until it commits, so the table changes at the two commits, and what
happens before is a matter of locks (`holds`): the UPDATE works on the rows that
were committed when it started and takes their locks one at a time. `CallFails`
rolls back wherever the call is; `DeadlockVictim` is Postgres doing it.

**Config, Process.** Config is `config.Load` as data: `Problems(env)` is the set
of variables it would report. Process is `run()` of `cmd/api` and `main` of
`cmd/migrate`, for any number of processes over one database: each step of the
boot may fail, every one after the signal context exists may be interrupted,
goose applies migration after migration without a lock, the seed is one
statement after another, `server.Run` selects between a signal and a dead
listener, and the drain has a deadline while `pool.Close` has none. A handler is
known by whether it runs and whether it has a connection.

**MC modules** give the constants values for TLC and add the symmetry sets.

Definitions marked `Mutant:` are plausible bugs in the definition that follows
them. No specification uses them; each is what its property has to catch.

## 3. Runs

With two workers `booking_service`, `checkout`, `process` and `refresh_tokens`
take one to two minutes each, the others less than one.

| Run | Configuration | What it shows |
| --- | --- | --- |
| `hold_store` | 3 sessions, 2 seats, 2 users, limit 1, TTL of one second in half-second ticks, 1 re-send, skew 1 | the promise of a hold and its two expiries, reachability, the limit, `ImplementsPort` with the deadlines, and (fair clock) that an abandoned seat comes back |
| `booking_store` | 3 transactions, 3 sessions, 2 seats; or one in-memory store over the same sessions, with 3 calls, 3 intents, 4 tokens | one booking per seat, durable conflicts, `ImplementsLedger`, every transaction ends; `DoublesKeepTheirPorts` |
| `booking_service` | 2 sessions of 2 users for one seat, 2 confirm calls, 1 re-send, renders without bound | `ImplementsBoxOffice`, true answers, the buyer keeps the hold until the sale is durable, a seat shown as booked stays booked |
| `payment_service` | 1 session, 2 create calls, 2 client confirms, 1 webhook at a time, replies lost, 2 amounts | one active intent, rows that match the provider, the state machine, `ImplementsGate`, collected money is settled |
| `checkout` | 2 sessions of 2 users for one seat, 2 intents, 1 client confirm, 1 webhook at a time, 2 confirm calls, symmetric | `ImplementsBoxOffice`, honest responses, a paid client is believed, what payment calls and the provider were answered is on record |
| `refresh_tokens` | 4 tokens, 1 logout, 1 token that may expire | `ImplementsRefreshPort`, a reported revocation has taken effect and no replay passes for an expired token, nobody else is logged out, a standstill is two calls that wait for each other, every call ends |
| `process` | 2 servers and 1 migration job, 3 boots, 2 migrations, 1 request at a time on one server, 32 environments good and bad | the seed happens once, a development server is usable, servers serve within what the modules assume, a clean exit loses nothing, a stopped server stops |
| `hold_slots`, `booking_replay`, `payment_decline`, `phantom_charge`, `logout_race` | as small as the disagreement allows | see *Findings* |

**Why the bounds are enough.** The interesting cases are pairs: two holds of one
seat, two of one user, two confirms of one session, two of one seat, a webhook
against a confirm, two servers at one seed.

* `hold_store`: the third session is a second seat for the user whose limit is 1.
  `HoldTTL` of two half-second ticks is the smallest at which a hold can be minted
  off a second's boundary, so that truncation and round-up differ. `LastCall`
  bounds when a call may start or a script may run, `MaxTime` the clock;
  `MaxTime` leaves room for every key written at `LastCall` to die, which the
  liveness property needs.
* `booking_store`: with three transactions, one can replay while another wins and a
  third loses. The doubles have their own bounds, `MemLastHold` for the last
  hold and the sets of calls, intents and tokens; `wired` runs one adapter per
  behaviour, so the instances add up rather than multiply.
* `booking_service`: one tick to the second, no skew; what those do is settled in
  `HoldStore`, and what the service adds is order. Two confirm calls are a race,
  a replay, or a winner and a loser for one seat; `MaxTime` 3 lets a hold expire and
  the seat be held and sold again.
* `payment_service`: one session suffices for what two create calls, two payers and
  the provider can do to each other; a second session shares no row with it. One
  delivery at a time, because what is told of an intent is one thing and each
  delivery is applied in one step; the provider may send any number one after
  the other. `Tolerance` 1 gives ages within and beyond.
* `checkout`: both buyers can hold, pay and confirm in turn, which is what it takes
  to charge one for the other's seat.
* `refresh_tokens`: four tokens are a chain of three with a thief, or two families
  of two; both with a logout, which is what crossed locks need.
* `process`: three boots are two servers at once and a third process after a crash,
  or a migration job between them. Requests go to one server only (`Busy`), because
  servers do not share requests.

The proofs of section 5 hold for every value of these bounds.

**Deadlock** is not checked: every instance has a bounded number of calls and
stops when they have ended. That no call waits for ever is `TxEnds` and
`CallsEnd`; that no process does is `ShutdownEnds`.

**Fairness.** `FairHoldSpec` assumes that the clock goes on, and nothing else:
no client, sweeper or retry has to act. `FairTxSpec`, and `FairAdapters` with it,
assume that a handler whose transaction is open and can go on does go on (weak
fairness per call); a waiting INSERT is not enabled until its winner is over, so
this says no more than that goroutines are scheduled and Postgres wakes waiters.
`FairPaymentSpec` assumes of the provider what webhook providers document,
redelivery until it is answered 200 (strong fairness: infinitely many attempts
are not all hit by an error), and nothing of clients; it is the code that answers
200 only after it has applied the event. `FairTokenSpec` assumes, per call, that a
handler that can go on does, and that Postgres aborts one of two transactions
that wait for each other, as it does after `deadlock_timeout`. Longer circles
need no rule of their own: that there are none is `StandstillIsAPair`, which is
proved. `FairProcessSpec` assumes that the main goroutine
is scheduled and its timer fires, and that a statement in Postgres ends. No
handler has to return, and a signal need not come.

## 4. Findings

Each is a run of its own whose one property states what a comment or document
says, and which TLC finds violated by what the code does.

* `hold_slots`: no TTL removes a member of `user:{id}:holds`, so an abandoned hold
  costs a slot until its owner releases it, which the API refuses once the
  session is gone. "Redis's own TTL cleans all of it up" (`service.go:218`) holds
  for keys, not for ZSET members.
* `booking_replay`: the first confirm's cleanup removes the session that the second
  one's `holds.Get` needs, so a replay is a 404 rather than the documented 200
  (`docs/api.md:243`).
* `payment_decline`: two confirms of one intent have both found it unpaid. One is
  captured; the gateway refuses the other, `MarkFailed` finds the row captured and
  its error is only logged, and the client is answered `402 payment_declined` for a
  session that is paid. The documents say that the intent is then failed and can be
  superseded (`docs/api.md:325-326`, `internal/domain/payment/payment.go:32-33`);
  `CreateIntent` goes on returning the captured one. The run takes the sandbox
  gateway (`DealsDirectly` and `LosesReplies` FALSE), which refuses a capture when a
  test has asked it to with `FailNextCapture`.
* `phantom_charge`: `Service.Hold` looks whether the seat is sold before it claims
  it. When another buyer's confirm commits and cleans up in between, the claim
  succeeds on a sold seat, the payment gate asks only for a live hold, and the
  session is charged for a seat it cannot have. ADR 0006 (lines 73-75) calls
  such a hold harmless. `ImplementsBoxOffice` holds all the same, since nothing is
  sold twice; the money stays collected, for the program has no path that refunds.
* `logout_race`: a rotation in progress when `Logout`'s UPDATE starts commits a
  successor that the UPDATE never sees. The 204 is sent, and a token of the family
  is alive, although logout is said to close "every session in the chain"
  (`internal/application/auth/service.go:187`). Reuse detection has the same gap,
  which is why `TokenAnswersAreTrue` speaks of the replayed token and of its
  successor, and not of the family.

Some more are in the models without a run of their own.

* When the refused confirm of that race is the faster one, the row is failed while
  the other's money has moved and is not yet recorded, and a second intent can be
  charged. `applyCaptured` expects such rows and logs them
  (`internal/application/payment/service.go:274-283`); `CollectedIsSettled` counts
  them as settled.
* The stored expiry is floored to the second while the keys live to the second
  above, so a hold may be refused up to a second before the expiry its client was
  told ("Business expiry stays exact", `internal/adapters/redis/holdstore.go:174`).
* A hold script whose reply was lost and which the Redis client re-sends is
  refused by its own seat key, so its caller is told that someone else was first
  (`docs/api.md:226`).
* A seat that goes from held to booked between the two reads of a render is shown
  as available once. It was not free at any moment of the render. `BookedIsFinal`
  is about the direction that matters.
* A development boot that dies after the seed's user and before its first movie
  makes every later one fail: `SeedDev` looks at the movies only, and then inserts
  the user again, against the unique email (`internal/adapters/postgres/seed.go:35`;
  line 15 calls the seed idempotent). That same order is what makes
  `CatalogSeededOnce` true.

## 5. Proofs

Eight `...Proofs` modules are checked by TLAPS, for every value of the constants
that the named assumptions allow. The assumptions are `DomainAssumption` (sessions
are finitely many and have a seat and a user), `HoldStoreAssumption` (the numbers
are natural; TTL, limit and clock resolution positive), `PaymentAssumption` (what
the provider may collect; `NoIntent` is no intent), `CheckoutAssumption` (`Nobody`
is no user), `TokenAssumption`, `MemoryAssumption` (TTL and limit of the double are
natural) and `ProcessAssumption` (a process is of one program; the numbers are
natural). The bounds of the runs are arbitrary in the proofs.

**BookingStore.** `OneBookingPerSeat` is not inductive: it says nothing of rows
still uncommitted. `TxInv` adds `NoClash`: the row of a writing transaction
clashes with no committed row and with no other writing one, which the wait in
the INSERT establishes and every other step keeps; and `RowsAreOwned`: a
committed row is that of a call that is over, so no call inserts twice. From
`TxInv` follow `TxTypeCorrect`, `SeatSoldOnce`, `ConflictsAreDurable` and
`RepositoryImplementsLedger`. `LedgerSellsOnce` is what the port alone gives a
reader of the tables; `RepositorySellsOnce` gives it of the tables themselves,
through the refinement.

**HoldStore.** `HoldProtectedUntilExpiry` compares a key with an expiry computed
three clock readings earlier. `HoldInv` remembers what the clock cannot undo:
a script under way carries an `EX` that covers its `ExpiresAt` even if it runs
later (`ClockInv`, from `CeilCovers`, the lemma about the round-up); for a live
seat key, `expiresAt` is at most the key's deadline, which is at most the
session's (`KeyInv`); the seat key of an answered hold is its own (`KeptInv`);
and the ZSET is within the limit (`LimitInv`). From it follow `HoldTypeCorrect`,
`PromisesAreKept`, `SeatsAreReachable`, `LimitIsKept` (the live seats of a user
are among the entries ZCARD counted) and `AdapterImplementsPort` (the tokens in
live seat keys are an injection from leases to live holds, so the port's limit
is met too). The port fixes a lease's deadline at the claim, so the `EX` of a
script must also have an upper bound, `TTLInv`: no more than the TTL rounded up
to seconds, since the clock read for it is never before the one that minted the
hold. `PromisesAreKept` is about the two expiries of a hold as well: the stored
one, floored to seconds, never admits a confirm after `ExpiresAt`, and refuses
one only within the last second. `PortKeepsLeases` is what the port gives its
callers, by an invariant that adds the types; through the refinement,
`SeatsAreBlockedBriefly` says it of Redis: no seat is kept for longer than the
rounded TTL from any moment on, whoever has died or forgotten it.

**Adapters.** The doubles keep their ports (`DoublesAreFaithful`). For the hold
double the two views have to agree: a live session has an entry exactly when its
seat's entry is its own (`EntriesShareLifetime`), and the limit counts sessions,
of which leases are an injection again; `ExpiryIsNear` bounds their deadlines.
Payment rows are one per intent. The token double implements RefreshPort because
a family is rooted in a row that is never deleted, so no two families share a
name, and a hash is minted once (`TokensAreUnique`).

**BookingService, SeatMap.** `ServiceRunsBothStores`: a step of the service is a
step of the hold store and of the repository, or of neither, so both invariants
hold in the composition, and so do both refinements (`ServiceKeepsPorts`). The
seat map in turn only reads (`SeatMapOnlyReads`). `BookingInv` adds what a confirm call may still rely on
after each round trip (`CallsKnow`: past the gate its session is paid for, and
its transaction is for that session), that an acknowledged COMMIT has its row, and
that a hold was released only by its owner or after its sale
(`ReleasesHaveCause`). Payments only grow and rows are never deleted, so what was
true when read is true when used. `ServiceImplementsBoxOffice` needs all of it: the
commit that sells a seat is some statements after the gate that let it pass, and
the gate and the unique indexes are two stores' promises, not one's.
`BookedStaysBooked` adds that what was shown
as booked is a committed seat.

**PaymentService.** `PayInv` says what a handler may believe of a row it has read:
rows are neither removed nor moved to another session, an intent about to be
inserted has no row (`NoRowYet`), and money a payer or an event has seen moved
has moved for good (`PayersKnow`, `EventsAreTrue`). Active rows of one session
differ in nothing (`ActiveRowsDiffer`), which is `OneActiveIntent` without the
cardinality. `ServiceImplementsGate` follows because no guarded write leaves
`captured`. `AnswersHaveRows` is about the provider too: an event that was answered
200, after which it is never sent again, is on record, as captured or failed.

**Checkout.** The composition runs the payment service (`CheckoutRunsPayments`), so
its invariant carries over. A confirm call takes two facts from one step to the
next, that its session is paid and what it learnt of the sales record; neither
can be taken back (`ConfirmsKnow`, `SalesKnown`). With them follow
`CheckoutImplementsBoxOffice`, `PaidClientsAreBelieved` and `RoutesAreHonest`,
which also needs that no outcome falls through the two switch statements.
`OfficeSellsToPayers` is what BoxOffice means to buyers, and `CheckoutSellsToPayers`
says it of the program.

**RefreshTokens.** The argument is about who holds which row lock. A row that a
rotation has locked changes under nobody else's hand before it commits, so what
it saw under the lock is still so (`CallKnows`); a row, once there, keeps its
family, its successor and its revocation (`RowsStay`). `FamilyHasOneLiveToken` and
`OthersStayLoggedIn` follow. `TokenAnswersHold` needs one thing more, since a
token may expire while rotations of it wait for its row: when one of them finds it
expired, no other has it locked, and none that comes later exchanges it
(`ExpiredIsFinal`).

`LedgerImplementsPort`: every statement but the two commits and the INSERT of a new
session is a stutter of RefreshPort. The commit of a rotation is `Exchange`, because
the lock has kept its token as it was read; the commit of a revocation is `Revoke`,
because what was live in the family when the UPDATE started, and has been neither
replaced nor revoked since, is what it has locked; or it is nothing, when a rotation
it did not see has moved the life of the family on. `PortKeepsOneSession` is what
the port alone gives its callers.

`SomebodyGoesOn` is the safety core of `CallsEnd`. A call that waits in `RotateLock`
has nothing locked, so only revocations can block one another. `OrderInv` carries
what relates two of them (`SnapshotsAreOrdered`): of two UPDATEs on one family, the
earlier one found fewer rows revoked, and whatever it has still to revoke, locked or
not, the later one has to revoke too; a row leaves that set only by being revoked.
Suppose nobody can go on, and take, of the revocations that have locked something
still to revoke, one with least left. If the call it waits for has all of that
left too, that call waits for what the first has locked, and they are a pair. If
not, that call started earlier, and has less left, which contradicts the choice. When no
revocation has locked anything still to revoke (a theft of a token that was
revoked before keeps a lock of that kind), each waits for one that started after it,
and the last one for nobody. That is why `DeadlockVictim` need only look for
pairs.

**Process.** `CatalogSeededOnce` says nothing of who may still insert. What
carries it is that the unique email is never given back (`SeedKnows`): whoever
inserts rows has inserted the user, so there is at most one, and the rows it has
inserted are known from how far it has come. `ServersAreConfigured` is proved
from `config.Load` for any environments.

**Only model-checked.** Liveness, which needs fairness and ENABLED and is out of the
prover's reach: `AbandonedSeatFreed`, `TxEnds`, `CollectedIsSettled`, `CallsEnd`,
`ShutdownEnds`. What is safety in three of them is proved: a seat is blocked only
briefly (`SeatsAreBlockedBriefly`), an event is answered 200 only when it is on
record (`AnswersHaveRows`), and calls that stand still are a pair
(`SomebodyGoesOn`). Every safety property of the passing runs is proved.

## 6. Not modelled, and why

* Redis failover and loss of its data: the program has no code that reacts to it.
  Its effect on safety is bounded by `OneBookingPerSeat`, which relies on Postgres
  alone.
* How long a confirm may stall after its clock check. ADR 0006 calls the window
  sub-second; nothing in the code bounds it, and the model does not either.
  The safety properties hold regardless.
* The users table: registration against the unique email, and the account a
  `Refresh` looks up after it has rotated. The seed's use of it is in Process.
* Password hashing, JWTs, the bytes of an HMAC, shapes, formats and prices: pure
  functions without state.
* The auth, catalog and health handlers, cookies and the middleware: stateless
  wrappers; the booking and payment handlers are in Checkout by what they answer.
* Of the in-memory adapters, the user, movie and screening stores, which are plain
  maps, and `SeedCaptured`, which tests use in the place of a payment.
* The catalog: read-only once it is seeded. `HasSeat`, `AllSeats` and `SeatCount`
  are pure functions of a screening.
* `MigrateStatus`, which only reads; logging; the query code that sqlc generates
  from `db/queries`.
* Statuses `authorized`, `refunding`, `refunded` and cancelled bookings: in the
  tables, but written by no path of the program.

## 7. Plan

Done: the two stores, their ports and their doubles, the booking service and the
seat map, the payment service with its webhook, the checkout as clients see it,
the refresh-token ledger and its port, the processes and their configuration;
proofs of every safety property the runs check and of every refinement, and what
the ports promise proved from the ports alone.

What is left, in order of what it would add:

1. **Accounts**: registration against the unique email, and the account a Refresh
   looks up after it has rotated, beside RefreshTokens.
2. **ScreeningGeometry**: `HasSeat`, `AllSeats`, `SeatCount` against a reference
   definition over bounded halls.
3. The authenticated routes (`internal/adapters/http/auth.go`) in HttpResponses, and
   a checkout of several seats under one user's hold limit.
