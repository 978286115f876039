-------------------------------- MODULE Process --------------------------------
(***************************************************************************)
(* The processes of a deployment from boot to exit: run() of cmd/api, main *)
(* of cmd/migrate, server.Run, MigrateUp and SeedDev, over one database.   *)
(*                                                                         *)
(* Servers and Migrators are processes of the two programs; a process that *)
(* ended can be started again, in another environment.  A step is a call   *)
(* of run() or a statement of the seed.  goose takes no lock: it reads the *)
(* versions that are applied, and applies the pending ones, each in its    *)
(* own transaction.  A handler is known by whether it holds a connection   *)
(* of the pool, which is what pool.Close waits for.                        *)
(***************************************************************************)
EXTENDS Config, Sequences

CONSTANTS
    Servers, Migrators,
    Requests,        \* requests a server handles at the same time
    Busy,            \* bound: the servers that are sent requests
    Environments,    \* by name: the raw environments a process may be started in
    Migrations,      \* how many migrations are embedded
    MaxBoots         \* bound: how many processes are started

ASSUME ProcessAssumption ==
    /\ Servers \intersect Migrators = {}
    /\ Migrations \in Nat
    /\ MaxBoots \in Nat

Procs == Servers \union Migrators

\* The rows SeedDev inserts, in its order.
Catalog == <<"movie", "screening", "screening", "movie", "screening">>

VARIABLES
    schema,    \* how many migrations the database has
    devUser,   \* whether the users table has dev@example.com
    rows,      \* per entry of Catalog: how often it was inserted
    boots,     \* how many processes were started
    proc       \* per process: its own state

database    == <<schema, devUser, rows>>
processVars == <<database, boots, proc>>

\* What config.Load makes of each environment, and refuses.
Loaded == [e \in DOMAIN Environments |-> Load(Environments[e])]
Bad    == {e \in DOMAIN Environments : Problems(Environments[e]) # {}}

NoEnvironment == "none"

\* A process before its next boot, by what became of the one before.
Over(result, hurt) ==
    [stage |-> "over",        \* where run() is
     env |-> NoEnvironment,   \* the environment it was started in
     at |-> 0,                \* the migration or catalog entry it has come to
     result |-> result,       \* what server.Run or the failing step returned
     signalled |-> FALSE,     \* whether its context is cancelled
     listenDown |-> FALSE,    \* whether ListenAndServe has returned an error
     handling |-> {},         \* requests whose handler runs
     querying |-> {},         \* those whose handler holds a connection
     hurt |-> hurt]           \* history: it cut a request, or refused it the pool

Running(p) == proc[p].stage # "over"

\* The validated configuration of a running process.
Cfg(p) == Loaded[proc[p].env]

Goto(p, next) == proc' = [proc EXCEPT ![p].stage = next]

\* run() returns an error before it serves.
Refuses(p) == proc' = [proc EXCEPT ![p] = Over("error", FALSE)]

-----------------------------------------------------------------------------
(* Boot *)

\* config.Load; nothing else happens in an environment that has a problem.
Boot(p) ==
    /\ ~Running(p)
    /\ boots < MaxBoots
    /\ boots' = boots + 1
    /\ \/ Bad # {} /\ Refuses(p)
       \/ \E e \in DOMAIN Environments \ Bad :
             proc' = [proc EXCEPT ![p] =
                 [Over("none", FALSE) EXCEPT
                     !.stage = IF p \in Migrators THEN "migrate" ELSE "telemetry",
                     !.env = e]]
    /\ UNCHANGED database

\* A step of the boot may fail.
BootFails(p) ==
    /\ proc[p].stage \in {"telemetry", "pool", "migrate", "migrating",
                          "seed", "seed_user", "seeding"}
    /\ Refuses(p)
    /\ UNCHANGED <<database, boots>>

\* A step that is given the signal's context does fail when that is cancelled.
Reaches(p, stage) == proc[p].stage = stage /\ ~proc[p].signalled

SetupTelemetry(p) ==
    /\ proc[p].stage = "telemetry"
    /\ Goto(p, "pool")
    /\ UNCHANGED <<database, boots>>

\* NewPool, with its ping; a development server goes on to its database.
NewPool(p) ==
    /\ Reaches(p, "pool")
    /\ Goto(p, IF Cfg(p)["ENV"] = "development" THEN "migrate" ELSE "wire")
    /\ UNCHANGED <<database, boots>>

\* MigrateUp: the versions that are applied.
MigrateRead(p) ==
    /\ Reaches(p, "migrate")
    /\ proc' = [proc EXCEPT ![p].stage = "migrating", ![p].at = schema]
    /\ UNCHANGED <<database, boots>>

\* Mutant: a migration is applied whatever others have applied meanwhile.
MigrateAgain(p) ==
    /\ Reaches(p, "migrating")
    /\ proc[p].at < Migrations
    /\ schema' = schema + 1
    /\ proc' = [proc EXCEPT ![p].at = @ + 1]
    /\ UNCHANGED <<devUser, rows, boots>>

\* MigrateUp: the next pending migration, which cannot be applied twice.
MigrateApply(p) ==
    /\ Reaches(p, "migrating")
    /\ proc[p].at < Migrations
    /\ IF schema = proc[p].at
         THEN schema' = schema + 1 /\ proc' = [proc EXCEPT ![p].at = @ + 1]
         ELSE Refuses(p) /\ UNCHANGED schema
    /\ UNCHANGED <<devUser, rows, boots>>

\* MigrateUp returns: cmd/migrate has done its work.
MigrateDone(p) ==
    /\ Reaches(p, "migrating")
    /\ proc[p].at = Migrations
    /\ IF p \in Migrators THEN proc' = [proc EXCEPT ![p] = Over("nil", FALSE)]
                          ELSE Goto(p, "seed")
    /\ UNCHANGED <<database, boots>>

\* Mutant: an existing user is taken for an existing catalog.
SeedListUsers(p) ==
    /\ Reaches(p, "seed")
    /\ Goto(p, IF devUser THEN "wire" ELSE "seed_user")
    /\ UNCHANGED <<database, boots>>

MovieListed == \E i \in DOMAIN Catalog : Catalog[i] = "movie" /\ rows[i] > 0

\* SeedDev: movies.List, and "already seeded".
SeedList(p) ==
    /\ Reaches(p, "seed")
    /\ Goto(p, IF MovieListed THEN "wire" ELSE "seed_user")
    /\ UNCHANGED <<database, boots>>

\* Mutant: a user that exists already is good enough.
SeedUserTolerant(p) ==
    /\ Reaches(p, "seed_user")
    /\ devUser' = TRUE
    /\ proc' = [proc EXCEPT ![p].stage = "seeding", ![p].at = 0]
    /\ UNCHANGED <<schema, rows, boots>>

\* seedDevUser, against the unique email.
SeedUser(p) ==
    /\ Reaches(p, "seed_user")
    /\ IF devUser
         THEN Refuses(p)
         ELSE proc' = [proc EXCEPT ![p].stage = "seeding", ![p].at = 0]
    /\ devUser' = TRUE
    /\ UNCHANGED <<schema, rows, boots>>

\* movies.Create and screenings.Create, a statement each.
SeedRow(p) ==
    LET i == proc[p].at + 1
    IN  /\ Reaches(p, "seeding")
        /\ rows' = [rows EXCEPT ![i] = @ + 1]
        /\ proc' = [proc EXCEPT
                      ![p].at = i,
                      ![p].stage = IF i = Len(Catalog) THEN "wire" ELSE "seeding"]
        /\ UNCHANGED <<schema, devUser, boots>>

\* The stores, the gateway and the routes; stripe has no adapter.
Wire(p) ==
    /\ proc[p].stage = "wire"
    /\ IF Cfg(p)["PAYMENT_PROVIDER"] = "fake" THEN Goto(p, "serving") ELSE Refuses(p)
    /\ UNCHANGED <<database, boots>>

-----------------------------------------------------------------------------
(* Serving *)

\* A request is read; when the listener has failed, on a connection there was.
RequestArrives(p, r) ==
    /\ p \in Busy
    /\ \/ proc[p].stage = "serving"
       \/ proc[p].stage \in {"flush", "closing"} /\ proc[p].result = "listen"
    /\ r \notin proc[p].handling
    /\ proc' = [proc EXCEPT ![p].handling = @ \union {r}]
    /\ UNCHANGED <<database, boots>>

\* A handler acquires a connection, which a pool that is closing refuses.
QueryBegins(p, r) ==
    /\ r \in proc[p].handling \ proc[p].querying
    /\ proc' = IF proc[p].stage = "closing"
                 THEN [proc EXCEPT ![p].hurt = TRUE]
                 ELSE [proc EXCEPT ![p].querying = @ \union {r}]
    /\ UNCHANGED <<database, boots>>

QueryEnds(p, r) ==
    /\ r \in proc[p].querying
    /\ proc' = [proc EXCEPT ![p].querying = @ \ {r}]
    /\ UNCHANGED <<database, boots>>

RequestAnswered(p, r) ==
    /\ r \in proc[p].handling \ proc[p].querying
    /\ proc' = [proc EXCEPT ![p].handling = @ \ {r}]
    /\ UNCHANGED <<database, boots>>

\* ListenAndServe returns an error other than ErrServerClosed.
ListenFails(p) ==
    /\ proc[p].stage = "serving"
    /\ proc' = [proc EXCEPT ![p].listenDown = TRUE]
    /\ UNCHANGED <<database, boots>>

-----------------------------------------------------------------------------
(* The end *)

\* SIGTERM or SIGINT.  A second one changes nothing: stop() runs last.
Signal(p) ==
    /\ p \in Servers
    /\ Running(p)
    /\ proc' = [proc EXCEPT ![p].signalled = TRUE]
    /\ UNCHANGED <<database, boots>>

\* server.Run: select takes either channel that is ready.
RunSelects(p) ==
    /\ proc[p].stage = "serving"
    /\ \/ /\ proc[p].listenDown
          /\ proc' = [proc EXCEPT ![p].stage = "flush", ![p].result = "listen"]
       \/ proc[p].signalled /\ Goto(p, "draining")
    /\ UNCHANGED <<database, boots>>

\* srv.Shutdown returns: every handler has.
ShutdownDone(p) ==
    /\ proc[p].stage = "draining"
    /\ proc[p].handling = {}
    /\ proc' = [proc EXCEPT ![p].stage = "flush", ![p].result = "nil"]
    /\ UNCHANGED <<database, boots>>

\* Mutant: the error of Shutdown is dropped.
ShutdownErrorDropped(p) ==
    /\ proc[p].stage = "draining"
    /\ proc' = [proc EXCEPT ![p].stage = "flush", ![p].result = "nil"]
    /\ UNCHANGED <<database, boots>>

\* Mutant: the shutdown has no deadline.
ShutdownWaits(p) ==
    /\ proc[p].stage = "draining"
    /\ proc[p].handling = {}
    /\ proc' = [proc EXCEPT ![p].stage = "flush", ![p].result = "deadline"]
    /\ UNCHANGED <<database, boots>>

\* srv.Shutdown gives up on the handlers that are left, which run on.
ShutdownDeadline(p) ==
    /\ proc[p].stage = "draining"
    /\ proc' = [proc EXCEPT ![p].stage = "flush", ![p].result = "deadline"]
    /\ UNCHANGED <<database, boots>>

\* The telemetry is flushed, whatever Run returned; redisClient.Close follows.
FlushTelemetry(p) ==
    /\ proc[p].stage = "flush"
    /\ Goto(p, "closing")
    /\ UNCHANGED <<database, boots>>

\* pool.Close returns when every connection is back, and main exits: with 1,
\* when run() has an error to return.
ClosePool(p) ==
    /\ proc[p].stage = "closing"
    /\ proc[p].querying = {}
    /\ proc' = [proc EXCEPT ![p] = Over(IF @.result = "nil" THEN "nil" ELSE "error",
                                       @.hurt \/ @.handling # {})]
    /\ UNCHANGED <<database, boots>>

\* SIGKILL, a panic outside the handlers, a signal to cmd/migrate: not exit code 0.
Crash(p) ==
    /\ Running(p)
    /\ proc' = [proc EXCEPT ![p] = Over("error", FALSE)]
    /\ UNCHANGED <<database, boots>>

-----------------------------------------------------------------------------
ProcessInit ==
    /\ schema = 0
    /\ devUser = FALSE
    /\ rows = [i \in DOMAIN Catalog |-> 0]
    /\ boots = 0
    /\ proc = [p \in Procs |-> Over("none", FALSE)]

\* What the main goroutine does next.
Proceed(p) ==
    \/ BootFails(p)
    \/ SetupTelemetry(p)
    \/ NewPool(p)
    \/ MigrateRead(p)
    \/ MigrateApply(p)
    \/ MigrateDone(p)
    \/ SeedList(p)
    \/ SeedUser(p)
    \/ SeedRow(p)
    \/ Wire(p)
    \/ RunSelects(p)
    \/ ShutdownDone(p)
    \/ ShutdownDeadline(p)
    \/ FlushTelemetry(p)
    \/ ClosePool(p)

Handlers(p) ==
    \E r \in Requests : \/ RequestArrives(p, r)
                        \/ QueryBegins(p, r)
                        \/ QueryEnds(p, r)
                        \/ RequestAnswered(p, r)

ProcessNext ==
    \E p \in Procs : \/ Boot(p)
                     \/ Proceed(p)
                     \/ Handlers(p)
                     \/ ListenFails(p)
                     \/ Signal(p)
                     \/ Crash(p)

ProcessSpec == ProcessInit /\ [][ProcessNext]_processVars

\* The main goroutine is scheduled, its timers fire, and Postgres ends every
\* statement.  No handler has to end otherwise, and no client has to act.
FairProcessSpec ==
    /\ ProcessSpec
    /\ \A p \in Procs : WF_processVars(Proceed(p))
    /\ \A p \in Servers, r \in Requests : WF_processVars(QueryEnds(p, r))

-----------------------------------------------------------------------------
(* What the processes guarantee *)

\* The type invariant of the database and the processes; the schema in
\* particular never has more migrations than there are.
ProcessTypeOK ==
    /\ schema \in 0..Migrations
    /\ devUser \in BOOLEAN
    /\ rows \in [DOMAIN Catalog -> Nat]
    /\ boots \in 0..MaxBoots
    /\ \A p \in Procs :
          /\ proc[p].stage \in {"over", "telemetry", "pool", "migrate", "migrating",
                                "seed", "seed_user", "seeding", "wire", "serving",
                                "draining", "flush", "closing"}
          /\ proc[p].at \in 0..(Migrations + Len(Catalog))
          /\ proc[p].result \in {"none", "error", "nil", "deadline", "listen"}
          /\ proc[p].querying \subseteq proc[p].handling
          /\ proc[p].handling \subseteq Requests

\* A server that serves was given what its adapters take for granted: a hold
\* store with a positive TTL and limit, a gateway with a webhook secret, a
\* drain that has time, and in production a secret of 32 characters.
ServesWithinAssumptions ==
    \A p \in Servers : proc[p].stage = "serving" =>
        /\ \A v \in Durations : Cfg(p)[v] > 0
        /\ Cfg(p)["MAX_ACTIVE_HOLDS"] > 0
        /\ Cfg(p)["PAYMENT_PROVIDER"] = "fake"
        /\ Cfg(p)["PAYMENT_FAKE_WEBHOOK_SECRET"] # Unset
        /\ Cfg(p)["ENV"] = "production" => Cfg(p)["AUTH_JWT_SECRET"] >= 32

\* Development servers that boot at the same time, or again after a crash, never
\* seed the catalog twice: the check of the movies and the first of them are
\* statements of their own, and the unique email between them is the lock.
CatalogSeededOnce == \A i \in DOMAIN Catalog : rows[i] <= 1

\* A development server that serves has the whole schema, a user who can log in
\* and a movie to book, whoever migrated and seeded, and whatever crashed.
DevBootIsUsable ==
    \A p \in Servers :
        /\ proc[p].stage = "serving"
        /\ Cfg(p)["ENV"] = "development"
        => schema = Migrations /\ devUser /\ MovieListed

\* Exit code 0 of a server means that every request it had read was answered,
\* and was given its connections: draining comes before the stores are closed,
\* and a drain that gave up, or a dead listener, is an error.
CleanExitLosesNothing ==
    \A p \in Servers :
        ~Running(p) /\ proc[p].result = "nil" => ~proc[p].hurt

\* A server that was told to stop does: no handler that never returns, at any
\* point of the boot, the drain or the close, keeps it up.
ShutdownEnds == \A p \in Servers : proc[p].signalled ~> ~proc[p].signalled

=============================================================================
