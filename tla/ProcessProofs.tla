---------------------------- MODULE ProcessProofs ----------------------------
(***************************************************************************)
(* Proofs about Process, for any number of servers, migration jobs, boots, *)
(* requests and migrations, and any environments: the catalog is seeded    *)
(* once, a development server that serves is usable, a server serves only  *)
(* within what its adapters assume, and exit code 0 loses no request.      *)
(*                                                                         *)
(* CatalogSeededOnce is not inductive: it says nothing of who may still    *)
(* insert.  What carries it is that the unique email is never given back   *)
(* (SeedKnows): whoever inserts rows has inserted the user, so there is at *)
(* most one, and what it has inserted is known from how far it has come.   *)
(***************************************************************************)
EXTENDS Process, TLAPS

ProcessState ==
    [stage : {"over", "telemetry", "pool", "migrate", "migrating",
              "seed", "seed_user", "seeding", "wire", "serving",
              "draining", "flush", "closing"},
     env : (DOMAIN Environments) \union {NoEnvironment},
     at : 0..(Migrations + Len(Catalog)),
     result : {"none", "error", "nil", "deadline", "listen"},
     signalled : BOOLEAN,
     listenDown : BOOLEAN,
     handling : SUBSET Requests,
     querying : SUBSET Requests,
     hurt : BOOLEAN]

StateTyped ==
    /\ schema \in 0..Migrations
    /\ devUser \in BOOLEAN
    /\ rows \in [DOMAIN Catalog -> Nat]
    /\ boots \in 0..MaxBoots
    /\ proc \in [Procs -> ProcessState]

DevUsable == schema = Migrations /\ devUser /\ MovieListed

\* What is so of a process, by how far it has come.
ProcKnows(p) ==
    LET r == proc[p]
    IN  /\ r.querying \subseteq r.handling
        /\ r.stage # "over" => r.env \in DOMAIN Environments \ Bad
        /\ r.stage = "migrating" => r.at <= schema
        /\ r.stage \in {"seed", "seed_user", "seeding"} => schema = Migrations
        /\ r.stage = "seeding" =>
              /\ devUser
              /\ r.at < Len(Catalog)
              /\ \A i \in DOMAIN Catalog : rows[i] = IF i <= r.at THEN 1 ELSE 0
        /\ r.stage \in {"wire", "serving"} /\ Cfg(p)["ENV"] = "development" => DevUsable
        /\ r.stage = "serving" => Cfg(p)["PAYMENT_PROVIDER"] = "fake"
        /\ r.stage \notin {"over", "flush", "closing"} => r.result = "none"
        /\ r.stage \notin {"over", "closing"} => ~r.hurt
        /\ r.stage \in {"flush", "closing"} /\ r.result = "nil" => r.handling = {}
        /\ r.result = "nil" => ~r.hurt

\* The seed of the catalog, whoever runs it.
SeedKnows ==
    /\ ~devUser => \A i \in DOMAIN Catalog : rows[i] = 0
    /\ \A p, q \in Procs :
          proc[p].stage = "seeding" /\ proc[q].stage = "seeding" => p = q
    /\ CatalogSeededOnce

ProcInv ==
    /\ StateTyped
    /\ \A p \in Procs : ProcKnows(p)
    /\ SeedKnows

-----------------------------------------------------------------------------
\* The catalog has entries, and the first of them is a movie.
LEMMA CatalogFacts ==
    /\ Len(Catalog) = 5
    /\ DOMAIN Catalog = 1..5
    /\ Catalog[1] = "movie"
BY DEF Catalog

\* What a process becomes when run() has returned.
LEMMA OverFacts ==
    ASSUME NEW result \in {"none", "error", "nil"}, NEW hurt \in BOOLEAN
    PROVE  /\ Over(result, hurt) \in ProcessState
           /\ Over(result, hurt).stage = "over"
           /\ Over(result, hurt).result = result
           /\ Over(result, hurt).hurt = hurt
           /\ Over(result, hurt).querying = {}
           /\ Over(result, hurt).handling = {}
BY CatalogFacts, ProcessAssumption DEF Over, ProcessState

\* The initial state satisfies the invariant.
LEMMA ProcessInitInv == ProcessInit => ProcInv
<1> SUFFICES ASSUME ProcessInit PROVE ProcInv
  OBVIOUS
<1>1. /\ Over("none", FALSE) \in ProcessState
      /\ Over("none", FALSE).stage = "over"
      /\ Over("none", FALSE).result = "none"
      /\ Over("none", FALSE).hurt = FALSE
      /\ Over("none", FALSE).querying = {}
  BY OverFacts
<1>2. /\ proc \in [Procs -> ProcessState]
      /\ \A p \in Procs : proc[p] = Over("none", FALSE)
  BY <1>1 DEF ProcessInit
<1>3. /\ schema \in 0..Migrations
      /\ rows \in [DOMAIN Catalog -> Nat]
      /\ \A i \in DOMAIN Catalog : rows[i] = 0
      /\ boots \in 0..MaxBoots
  BY ProcessAssumption, CatalogFacts DEF ProcessInit
<1>4. StateTyped
  BY <1>2, <1>3 DEF ProcessInit, StateTyped
<1>5. \A p \in Procs : ProcKnows(p)
  BY <1>1, <1>2 DEF ProcKnows
<1>6. SeedKnows
  <2>1. \A p \in Procs : proc[p].stage = "over"
    BY <1>1, <1>2
  <2>2. \A i \in DOMAIN Catalog : rows[i] <= 1
    BY <1>3
  <2> QED
    BY <1>3, <2>1, <2>2 DEF SeedKnows, CatalogSeededOnce
<1> QED
  BY <1>4, <1>5, <1>6 DEF ProcInv

\* A step of one process that leaves the database alone, and does not begin to
\* insert: only what it knows itself can change.
LEMMA QuietStep ==
    ASSUME ProcInv, NEW p \in Procs, UNCHANGED database, boots' \in 0..MaxBoots,
           proc' \in [Procs -> ProcessState],
           \A q \in Procs \ {p} : proc'[q] = proc[q],
           proc'[p].stage = "seeding" => proc[p].stage = "seeding",
           ProcKnows(p)'
    PROVE  ProcInv'
<1>1. StateTyped'
  BY DEF ProcInv, StateTyped, database
<1>2. ASSUME NEW q \in Procs \ {p} PROVE ProcKnows(q)'
  <2>1. proc'[q] = proc[q] /\ ProcKnows(q)
    BY DEF ProcInv
  <2> QED
    BY <2>1 DEF database, ProcKnows, Cfg, DevUsable, MovieListed
<1>3. SeedKnows'
  BY DEF ProcInv, StateTyped, database, SeedKnows, CatalogSeededOnce
<1> QED
  BY <1>1, <1>2, <1>3 DEF ProcInv

\* run() returns, or is ended, with or without an error.
LEMMA OverStep ==
    ASSUME ProcInv, NEW p \in Procs, UNCHANGED database, boots' \in 0..MaxBoots,
           NEW result \in {"none", "error", "nil"}, NEW hurt \in BOOLEAN,
           proc' = [proc EXCEPT ![p] = Over(result, hurt)],
           result = "nil" => ~hurt
    PROVE  ProcInv'
<1>1. /\ proc' \in [Procs -> ProcessState]
      /\ \A q \in Procs \ {p} : proc'[q] = proc[q]
      /\ proc'[p] = Over(result, hurt)
  BY OverFacts DEF ProcInv, StateTyped
<1>2. proc'[p].stage = "over" /\ ProcKnows(p)'
  BY <1>1, OverFacts DEF ProcKnows
<1> QED
  BY <1>1, <1>2, QuietStep

\* A step of one process changes its own state, field by field.
LEMMA OwnState ==
    ASSUME StateTyped, NEW p \in Procs, NEW r \in ProcessState,
           proc' = [proc EXCEPT ![p] = r]
    PROVE  /\ proc' \in [Procs -> ProcessState]
           /\ proc'[p] = r
           /\ \A q \in Procs \ {p} : proc'[q] = proc[q]
BY DEF StateTyped

-----------------------------------------------------------------------------
\* config.Load: an environment without problems, or no process.
LEMMA BootInv ==
    ASSUME ProcInv, NEW p \in Procs, Boot(p)
    PROVE  ProcInv'
<1>1. boots' \in 0..MaxBoots /\ UNCHANGED database
  <2>1. boots < MaxBoots /\ boots' = boots + 1 /\ UNCHANGED database
    BY DEF Boot
  <2> QED
    BY <2>1, ProcessAssumption DEF ProcInv, StateTyped
<1>2. CASE Refuses(p)
  BY <1>1, <1>2, OverStep DEF Refuses
<1>3. ASSUME NEW e \in DOMAIN Environments \ Bad,
             proc' = [proc EXCEPT ![p] =
                 [Over("none", FALSE) EXCEPT
                     !.stage = IF p \in Migrators THEN "migrate" ELSE "telemetry",
                     !.env = e]]
      PROVE  ProcInv'
  <2> DEFINE r == [Over("none", FALSE) EXCEPT
                      !.stage = IF p \in Migrators THEN "migrate" ELSE "telemetry",
                      !.env = e]
  <2>1. /\ r \in ProcessState
        /\ r.stage \in {"migrate", "telemetry"}
        /\ r.env = e /\ r.result = "none" /\ r.hurt = FALSE /\ r.querying = {}
    <3> DEFINE first == IF p \in Migrators THEN "migrate" ELSE "telemetry"
               base == Over("none", FALSE)
    <3>1. /\ base \in ProcessState
          /\ base.result = "none" /\ base.hurt = FALSE /\ base.querying = {}
      BY OverFacts
    <3>2. first \in {"migrate", "telemetry"}
      OBVIOUS
    <3>3. r = [base EXCEPT !.stage = first, !.env = e]
      OBVIOUS
    <3> HIDE DEF r, first, base
    <3> QED
      BY <3>1, <3>2, <3>3 DEF ProcessState
  <2> HIDE DEF r
  <2>2. /\ proc' \in [Procs -> ProcessState]
        /\ proc'[p] = r
        /\ \A q \in Procs \ {p} : proc'[q] = proc[q]
    BY <1>3, <2>1, OwnState DEF ProcInv, r
  <2>3. ProcKnows(p)'
    BY <2>1, <2>2 DEF ProcKnows
  <2> QED
    BY <1>1, <2>1, <2>2, <2>3, QuietStep
<1> QED
  BY <1>2, <1>3 DEF Boot

\* The steps that end a process: a boot that fails, a crash, the last close.
LEMMA EndingInv ==
    ASSUME ProcInv, NEW p \in Procs, BootFails(p) \/ Crash(p) \/ ClosePool(p)
    PROVE  ProcInv'
<1>1. boots' \in 0..MaxBoots /\ UNCHANGED database
  BY DEF ProcInv, StateTyped, BootFails, Crash, ClosePool
<1>2. CASE BootFails(p) \/ Crash(p)
  BY <1>1, <1>2, OverStep DEF BootFails, Refuses, Crash
<1>3. CASE ClosePool(p)
  <2> DEFINE result == IF proc[p].result = "nil" THEN "nil" ELSE "error"
             hurt == proc[p].hurt \/ proc[p].handling # {}
  <2>1. proc[p].hurt \in BOOLEAN
    BY DEF ProcInv, StateTyped, ProcessState
  <2>2. proc' = [proc EXCEPT ![p] = Over(result, hurt)]
    BY <1>3 DEF ClosePool
  <2>3. result = "nil" => ~hurt
    BY <1>3 DEF ProcInv, ProcKnows, ClosePool
  <2>4. hurt \in BOOLEAN /\ result \in {"none", "error", "nil"}
    BY <2>1
  <2> HIDE DEF result, hurt
  <2> QED
    BY <1>1, <2>2, <2>3, <2>4, OverStep
<1> QED
  BY <1>2, <1>3

-----------------------------------------------------------------------------
\* run() goes on to another of its steps, and nothing else changes.
LEMMA GotoStep ==
    ASSUME ProcInv, NEW p \in Procs, UNCHANGED <<database, boots>>,
           NEW next \in {"pool", "migrate", "seed", "seed_user", "wire", "serving",
                         "draining", "closing"},
           Goto(p, next),
           proc[p].stage \notin {"over", "closing"},
           next = "closing" <=> proc[p].stage = "flush",
           next \in {"seed", "seed_user"} => schema = Migrations,
           next \in {"wire", "serving"} /\ Cfg(p)["ENV"] = "development" => DevUsable,
           next = "serving" => Cfg(p)["PAYMENT_PROVIDER"] = "fake"
    PROVE  ProcInv'
<1> DEFINE r == [proc[p] EXCEPT !.stage = next]
<1>1. /\ r \in ProcessState
      /\ r.stage = next /\ r.at = proc[p].at /\ r.env = proc[p].env
      /\ r.result = proc[p].result /\ r.hurt = proc[p].hurt
      /\ r.querying = proc[p].querying /\ r.handling = proc[p].handling
  BY DEF ProcInv, StateTyped, ProcessState
<1>2. proc' = [proc EXCEPT ![p] = r]
  BY DEF ProcInv, StateTyped, Goto
<1> HIDE DEF r
<1>3. /\ proc' \in [Procs -> ProcessState]
      /\ proc'[p] = r
      /\ \A q \in Procs \ {p} : proc'[q] = proc[q]
  BY <1>1, <1>2, OwnState DEF ProcInv
<1>4. ProcKnows(p)'
  <2>1. ProcKnows(p) /\ UNCHANGED <<schema, devUser, rows>>
    BY DEF ProcInv, database
  <2> QED
    BY <1>1, <1>3, <2>1 DEF ProcKnows, Cfg, DevUsable, MovieListed
<1>5. boots' \in 0..MaxBoots
  BY DEF ProcInv, StateTyped
<1> QED
  BY <1>1, <1>3, <1>4, <1>5, QuietStep

\* The steps of run() that only go on.
LEMMA GoesOnInv ==
    ASSUME ProcInv, NEW p \in Procs,
           \/ SetupTelemetry(p) \/ NewPool(p) \/ MigrateDone(p) \/ SeedList(p)
           \/ Wire(p) \/ FlushTelemetry(p)
    PROVE  ProcInv'
<1>1. UNCHANGED <<database, boots>> /\ boots' \in 0..MaxBoots
  BY DEF ProcInv, StateTyped, SetupTelemetry, NewPool, MigrateDone, SeedList, Wire,
         FlushTelemetry
<1>2. ProcKnows(p) /\ SeedKnows /\ schema \in 0..Migrations
  BY DEF ProcInv, StateTyped
<1>3. CASE SetupTelemetry(p)
  BY <1>1, <1>3, GotoStep DEF SetupTelemetry
<1>4. CASE NewPool(p)
  <2>1. CASE Cfg(p)["ENV"] = "development"
    BY <1>1, <1>4, <2>1, GotoStep DEF NewPool, Reaches
  <2>2. CASE Cfg(p)["ENV"] # "development"
    BY <1>1, <1>4, <2>2, GotoStep DEF NewPool, Reaches
  <2> QED
    BY <2>1, <2>2
<1>5. CASE MigrateDone(p)
  <2>1. CASE p \in Migrators
    BY <1>1, <1>5, <2>1, OverStep DEF MigrateDone
  <2>2. CASE p \notin Migrators
    <3>1. /\ proc[p].stage = "migrating"
          /\ proc[p].at = Migrations
          /\ Goto(p, "seed")
      BY <1>5, <2>2 DEF MigrateDone, Reaches
    <3>2. schema = Migrations
      BY <1>2, <3>1, ProcessAssumption DEF ProcKnows
    <3> QED
      BY <1>1, <3>1, <3>2, GotoStep
  <2> QED
    BY <2>1, <2>2
<1>6. CASE SeedList(p)
  <2>1. proc[p].stage = "seed" /\ schema = Migrations
    BY <1>2, <1>6 DEF ProcKnows, SeedList, Reaches
  <2>2. CASE MovieListed
    <3>1. DevUsable
      BY <1>2, <2>1, <2>2 DEF DevUsable, MovieListed, SeedKnows
    <3> QED
      BY <1>1, <1>6, <2>1, <2>2, <3>1, GotoStep DEF SeedList
  <2>3. CASE ~MovieListed
    BY <1>1, <1>6, <2>1, <2>3, GotoStep DEF SeedList
  <2> QED
    BY <2>2, <2>3
<1>7. CASE Wire(p)
  <2>1. CASE Cfg(p)["PAYMENT_PROVIDER"] = "fake"
    BY <1>1, <1>2, <1>7, <2>1, GotoStep DEF Wire, ProcKnows
  <2>2. CASE Cfg(p)["PAYMENT_PROVIDER"] # "fake"
    BY <1>1, <1>7, <2>2, OverStep DEF Wire, Refuses
  <2> QED
    BY <2>1, <2>2
<1>8. CASE FlushTelemetry(p)
  BY <1>1, <1>8, GotoStep DEF FlushTelemetry
<1> QED
  BY <1>3, <1>4, <1>5, <1>6, <1>7, <1>8

\* MigrateUp reads the versions and applies the pending ones.
LEMMA MigrateInv ==
    ASSUME ProcInv, NEW p \in Procs, MigrateRead(p) \/ MigrateApply(p)
    PROVE  ProcInv'
<1>1. /\ UNCHANGED <<devUser, rows, boots>>
      /\ proc[p].stage \in {"migrate", "migrating"}
  BY DEF MigrateRead, MigrateApply, Reaches, database
<1>2. ProcKnows(p) /\ SeedKnows /\ StateTyped
  BY DEF ProcInv
<1>3. CASE MigrateApply(p) /\ schema # proc[p].at
  <2>1. UNCHANGED database /\ boots' \in 0..MaxBoots /\ Refuses(p)
    BY <1>1, <1>2, <1>3 DEF MigrateApply, StateTyped, database
  <2> QED
    BY <2>1, OverStep DEF Refuses
<1>4. CASE MigrateRead(p) \/ (MigrateApply(p) /\ schema = proc[p].at)
  <2>1. PICK at \in 0..Migrations :
            /\ proc' = [proc EXCEPT ![p].stage = "migrating", ![p].at = at]
            /\ at <= schema'
            /\ schema' \in 0..Migrations
            /\ schema <= schema'
            /\ schema' = schema \/ schema # Migrations
    <3>1. CASE MigrateRead(p)
      <4>1. /\ proc' = [proc EXCEPT ![p].stage = "migrating", ![p].at = schema]
            /\ schema' = schema
        BY <3>1 DEF MigrateRead, database
      <4>2. schema \in 0..Migrations
        BY <1>2 DEF StateTyped
      <4>3. schema <= schema' /\ schema' \in 0..Migrations
        BY <4>1, <4>2, ProcessAssumption
      <4> QED
        BY <4>1, <4>2, <4>3
    <3>2. CASE MigrateApply(p) /\ schema = proc[p].at
      <4>1. /\ proc[p].stage = "migrating"
            /\ proc[p].at < Migrations
            /\ schema' = schema + 1
            /\ proc' = [proc EXCEPT ![p].at = @ + 1]
        BY <3>2 DEF MigrateApply, Reaches
      <4>2. proc' = [proc EXCEPT ![p].stage = "migrating", ![p].at = schema + 1]
        BY <1>2, <3>2, <4>1 DEF StateTyped, ProcessState
      <4>3. schema \in 0..Migrations
        BY <1>2 DEF StateTyped
      <4>4. /\ schema + 1 \in 0..Migrations
            /\ schema + 1 <= schema'
            /\ schema' \in 0..Migrations
            /\ schema <= schema'
            /\ schema # Migrations
        BY <3>2, <4>1, <4>3, ProcessAssumption
      <4> DEFINE next == schema + 1
      <4>5. /\ next \in 0..Migrations /\ next <= schema'
            /\ proc' = [proc EXCEPT ![p].stage = "migrating", ![p].at = next]
        BY <4>2, <4>4
      <4> HIDE DEF next
      <4> QED
        BY <4>4, <4>5
    <3> QED
      BY <1>4, <3>1, <3>2
  <2> DEFINE r == [proc[p] EXCEPT !.stage = "migrating", !.at = at]
  <2>2. at \in 0..(Migrations + Len(Catalog))
    BY CatalogFacts, ProcessAssumption
  <2>3. /\ r \in ProcessState
        /\ r.stage = "migrating" /\ r.at = at /\ r.env = proc[p].env
        /\ r.result = proc[p].result /\ r.hurt = proc[p].hurt
        /\ r.querying = proc[p].querying /\ r.handling = proc[p].handling
    BY <1>2, <2>2 DEF StateTyped, ProcessState
  <2>4. proc' = [proc EXCEPT ![p] = r]
    BY <1>2, <2>1 DEF StateTyped
  <2> HIDE DEF r
  <2>5. /\ proc' \in [Procs -> ProcessState]
        /\ proc'[p] = r
        /\ \A q \in Procs \ {p} : proc'[q] = proc[q]
    BY <1>2, <2>3, <2>4, OwnState
  <2>6. StateTyped'
    BY <1>1, <1>2, <2>1, <2>5 DEF StateTyped
  <2>7. ProcKnows(p)'
    BY <1>1, <1>2, <2>1, <2>3, <2>5 DEF ProcKnows
  <2>8. ASSUME NEW q \in Procs \ {p} PROVE ProcKnows(q)'
    <3>1. proc'[q] = proc[q] /\ ProcKnows(q) /\ proc[q] \in ProcessState
      BY <2>5 DEF ProcInv, StateTyped
    <3>2. proc[q].at \in Int /\ schema \in Int /\ schema' \in Int
      BY <1>2, <2>1, <3>1, ProcessAssumption DEF StateTyped, ProcessState
    <3>3. proc[q].at <= schema => proc[q].at <= schema'
      BY <2>1, <3>2
    <3> QED
      BY <1>1, <2>1, <3>1, <3>3 DEF ProcKnows, Cfg, DevUsable, MovieListed
  <2>9. SeedKnows'
    BY <1>1, <1>2, <2>3, <2>5 DEF SeedKnows, CatalogSeededOnce
  <2> QED
    BY <2>6, <2>7, <2>8, <2>9 DEF ProcInv
<1> QED
  BY <1>3, <1>4

-----------------------------------------------------------------------------
\* The unique email lets one process through, when no row is there yet.
LEMMA SeedUserInv ==
    ASSUME ProcInv, NEW p \in Procs, SeedUser(p)
    PROVE  ProcInv'
<1>1. /\ proc[p].stage = "seed_user"
      /\ UNCHANGED <<schema, rows, boots>>
      /\ devUser' = TRUE
  BY DEF SeedUser, Reaches
<1>2. ProcKnows(p) /\ SeedKnows /\ StateTyped
  BY DEF ProcInv
<1>3. CASE devUser
  <2>1. UNCHANGED database /\ boots' \in 0..MaxBoots /\ Refuses(p)
    BY <1>1, <1>2, <1>3 DEF SeedUser, StateTyped, database
  <2> QED
    BY <2>1, OverStep DEF Refuses
<1>4. CASE ~devUser
  <2> DEFINE r == [proc[p] EXCEPT !.stage = "seeding", !.at = 0]
  <2>1. 0 \in 0..(Migrations + Len(Catalog)) /\ 0 < Len(Catalog)
    BY CatalogFacts, ProcessAssumption
  <2>2. /\ r \in ProcessState
        /\ r.stage = "seeding" /\ r.at = 0 /\ r.env = proc[p].env
        /\ r.result = proc[p].result /\ r.hurt = proc[p].hurt
        /\ r.querying = proc[p].querying /\ r.handling = proc[p].handling
    BY <1>2, <2>1 DEF StateTyped, ProcessState
  <2>3. proc' = [proc EXCEPT ![p] = r]
    BY <1>2, <1>4 DEF StateTyped, SeedUser
  <2> HIDE DEF r
  <2>4. /\ proc' \in [Procs -> ProcessState]
        /\ proc'[p] = r
        /\ \A q \in Procs \ {p} : proc'[q] = proc[q]
    BY <1>2, <2>2, <2>3, OwnState
  <2>5. StateTyped'
    BY <1>1, <1>2, <2>4 DEF StateTyped
  <2>6. \A i \in DOMAIN Catalog : i > 0 /\ rows'[i] = 0
    BY <1>1, <1>2, <1>4, CatalogFacts DEF SeedKnows
  <2>7. ProcKnows(p)'
    <3>1. \A i \in DOMAIN Catalog : rows'[i] = IF i <= proc'[p].at THEN 1 ELSE 0
      BY <2>2, <2>4, <2>6, CatalogFacts
    <3> QED
      BY <1>1, <1>2, <2>1, <2>2, <2>4, <3>1 DEF ProcKnows
  <2>8. ASSUME NEW q \in Procs \ {p}
        PROVE  ProcKnows(q)' /\ proc'[q].stage # "seeding"
    <3>1. proc'[q] = proc[q] /\ ProcKnows(q)
      BY <2>4 DEF ProcInv
    <3> QED
      BY <1>1, <1>4, <3>1 DEF ProcKnows, Cfg, DevUsable, MovieListed
  <2>9. SeedKnows'
    BY <1>1, <1>2, <2>8 DEF SeedKnows, CatalogSeededOnce
  <2> QED
    BY <2>5, <2>7, <2>8, <2>9 DEF ProcInv
<1> QED
  BY <1>3, <1>4

\* The one process that inserts rows goes on to the next of them.
LEMMA SeedRowInv ==
    ASSUME ProcInv, NEW p \in Procs, SeedRow(p)
    PROVE  ProcInv'
<1> DEFINE i == proc[p].at + 1
           next == IF i = Len(Catalog) THEN "wire" ELSE "seeding"
           r == [proc[p] EXCEPT !.at = i, !.stage = next]
<1>1. /\ proc[p].stage = "seeding"
      /\ UNCHANGED <<schema, devUser, boots>>
      /\ rows' = [rows EXCEPT ![i] = @ + 1]
      /\ proc' = [proc EXCEPT ![p].at = i, ![p].stage = next]
  BY DEF SeedRow, Reaches
<1>2. ProcKnows(p) /\ SeedKnows /\ StateTyped
  BY DEF ProcInv
<1>3. /\ proc[p].at \in Nat /\ proc[p].at < Len(Catalog)
      /\ i \in DOMAIN Catalog
      /\ i \in 0..(Migrations + Len(Catalog))
  <2>1. proc[p].at \in 0..(Migrations + Len(Catalog)) /\ proc[p].at < Len(Catalog)
    BY <1>1, <1>2 DEF StateTyped, ProcessState, ProcKnows
  <2> QED
    BY <2>1, CatalogFacts, ProcessAssumption
<1>4. /\ r \in ProcessState
      /\ r.stage = next /\ r.at = i /\ r.env = proc[p].env
      /\ r.result = proc[p].result /\ r.hurt = proc[p].hurt
      /\ r.querying = proc[p].querying /\ r.handling = proc[p].handling
  <2> HIDE DEF i
  <2>1. next \in {"wire", "seeding"}
    OBVIOUS
  <2> HIDE DEF next
  <2> QED
    BY <1>2, <1>3, <2>1 DEF StateTyped, ProcessState
<1>5. proc' = [proc EXCEPT ![p] = r]
  <2> HIDE DEF i, next
  <2> QED
    BY <1>1, <1>2 DEF StateTyped
<1> HIDE DEF r
<1>6. /\ proc' \in [Procs -> ProcessState]
      /\ proc'[p] = r
      /\ \A q \in Procs \ {p} : proc'[q] = proc[q]
  BY <1>2, <1>4, <1>5, OwnState
<1>7. \A j \in DOMAIN Catalog : rows[j] = IF j <= proc[p].at THEN 1 ELSE 0
  BY <1>1, <1>2 DEF ProcKnows
<1>8. /\ rows' \in [DOMAIN Catalog -> Nat]
      /\ \A j \in DOMAIN Catalog : rows'[j] = IF j <= i THEN 1 ELSE 0
  BY <1>1, <1>2, <1>3, <1>7, CatalogFacts DEF StateTyped
<1>9. StateTyped'
  BY <1>1, <1>2, <1>6, <1>8 DEF StateTyped
<1>10. MovieListed' /\ schema' = Migrations /\ devUser'
  <2>1. rows'[1] = 1
    BY <1>3, <1>8, CatalogFacts
  <2> QED
    BY <1>1, <1>2, <2>1, CatalogFacts DEF MovieListed, ProcKnows
<1>11. ProcKnows(p)'
  <2>1. next = "seeding" => i < Len(Catalog)
    BY <1>3, CatalogFacts
  <2> HIDE DEF i
  <2>2. next \in {"wire", "seeding"}
    OBVIOUS
  <2> HIDE DEF next
  <2> QED
    BY <1>1, <1>2, <1>4, <1>6, <1>8, <1>10, <2>1, <2>2 DEF ProcKnows, DevUsable
<1>12. ASSUME NEW q \in Procs \ {p}
       PROVE  ProcKnows(q)' /\ proc'[q].stage # "seeding"
  <2>1. proc'[q] = proc[q] /\ ProcKnows(q)
    BY <1>6 DEF ProcInv
  <2>2. proc[q].stage # "seeding"
    BY <1>1, <1>2 DEF SeedKnows
  <2> QED
    BY <1>1, <1>10, <2>1, <2>2 DEF ProcKnows, Cfg, DevUsable
<1>13. SeedKnows'
  BY <1>8, <1>10, <1>12, CatalogFacts DEF SeedKnows, CatalogSeededOnce
<1> QED
  BY <1>9, <1>11, <1>12, <1>13 DEF ProcInv

-----------------------------------------------------------------------------
\* A step within a stage of a process: its requests, its listener, its signal.
LEMMA WithinStage ==
    ASSUME ProcInv, NEW p \in Procs, UNCHANGED <<database, boots>>,
           NEW r \in ProcessState, proc' = [proc EXCEPT ![p] = r],
           r.stage = proc[p].stage, r.env = proc[p].env, r.at = proc[p].at,
           r.result = proc[p].result,
           r.querying \subseteq r.handling,
           r.stage \notin {"over", "closing"} => r.hurt = proc[p].hurt,
           r.stage \in {"flush", "closing"} /\ r.result = "nil" => r.handling = {},
           r.result = "nil" => ~r.hurt
    PROVE  ProcInv'
<1>1. /\ proc' \in [Procs -> ProcessState]
      /\ proc'[p] = r
      /\ \A q \in Procs \ {p} : proc'[q] = proc[q]
  BY OwnState DEF ProcInv
<1>2. ProcKnows(p)'
  <2>1. ProcKnows(p) /\ UNCHANGED <<schema, devUser, rows>>
    BY DEF ProcInv, database
  <2> QED
    BY <1>1, <2>1 DEF ProcKnows, Cfg, DevUsable, MovieListed
<1>3. boots' \in 0..MaxBoots
  BY DEF ProcInv, StateTyped
<1> QED
  BY <1>1, <1>2, <1>3, QuietStep

\* The requests of a server, the failure of its listener and the signal to it.
LEMMA ServingInv ==
    ASSUME ProcInv, NEW p \in Procs, Handlers(p) \/ ListenFails(p) \/ Signal(p)
    PROVE  ProcInv'
<1>1. UNCHANGED <<database, boots>>
  BY DEF Handlers, RequestArrives, QueryBegins, QueryEnds, RequestAnswered,
         ListenFails, Signal
<1>2. /\ ProcKnows(p)
      /\ proc \in [Procs -> ProcessState]
      /\ proc[p] \in ProcessState
  BY DEF ProcInv, StateTyped
<1>3. ASSUME NEW q \in Requests, RequestArrives(p, q)
      PROVE  ProcInv'
  <2> DEFINE r == [proc[p] EXCEPT !.handling = @ \union {q}]
  <2>1. /\ r \in ProcessState /\ r.handling = proc[p].handling \union {q}
        /\ r.stage = proc[p].stage /\ r.env = proc[p].env /\ r.at = proc[p].at
        /\ r.result = proc[p].result /\ r.querying = proc[p].querying
        /\ r.hurt = proc[p].hurt
    BY <1>2 DEF ProcessState
  <2>2. proc' = [proc EXCEPT ![p] = r]
    BY <1>2, <1>3 DEF RequestArrives
  <2>3. r.stage \notin {"flush", "closing"} \/ r.result = "listen"
    BY <1>3, <2>1 DEF RequestArrives
  <2> HIDE DEF r
  <2> QED
    BY <1>1, <1>2, <2>1, <2>2, <2>3, WithinStage DEF ProcKnows
<1>4. ASSUME NEW q \in Requests, QueryBegins(p, q)
      PROVE  ProcInv'
  <2>1. q \in proc[p].handling
    BY <1>4 DEF QueryBegins
  <2>2. CASE proc[p].stage = "closing"
    <3> DEFINE r == [proc[p] EXCEPT !.hurt = TRUE]
    <3>1. /\ r \in ProcessState /\ r.handling = proc[p].handling
          /\ r.stage = proc[p].stage /\ r.env = proc[p].env /\ r.at = proc[p].at
          /\ r.result = proc[p].result /\ r.querying = proc[p].querying
      BY <1>2 DEF ProcessState
    <3>2. proc' = [proc EXCEPT ![p] = r]
      BY <1>2, <1>4, <2>2 DEF QueryBegins
    <3>3. r.result # "nil"
      BY <1>2, <2>1, <2>2, <3>1 DEF ProcKnows
    <3> HIDE DEF r
    <3> QED
      BY <1>1, <1>2, <2>2, <3>1, <3>2, <3>3, WithinStage DEF ProcKnows
  <2>3. CASE proc[p].stage # "closing"
    <3> DEFINE r == [proc[p] EXCEPT !.querying = @ \union {q}]
    <3>1. /\ r \in ProcessState /\ r.handling = proc[p].handling
          /\ r.stage = proc[p].stage /\ r.env = proc[p].env /\ r.at = proc[p].at
          /\ r.result = proc[p].result /\ r.querying = proc[p].querying \union {q}
          /\ r.hurt = proc[p].hurt
      BY <1>2 DEF ProcessState
    <3>2. proc' = [proc EXCEPT ![p] = r]
      BY <1>2, <1>4, <2>3 DEF QueryBegins
    <3> HIDE DEF r
    <3> QED
      BY <1>1, <1>2, <2>1, <3>1, <3>2, WithinStage DEF ProcKnows
  <2> QED
    BY <2>2, <2>3
<1>5. ASSUME NEW q \in Requests, QueryEnds(p, q)
      PROVE  ProcInv'
  <2> DEFINE r == [proc[p] EXCEPT !.querying = @ \ {q}]
  <2>1. /\ r \in ProcessState /\ r.handling = proc[p].handling
        /\ r.stage = proc[p].stage /\ r.env = proc[p].env /\ r.at = proc[p].at
        /\ r.result = proc[p].result /\ r.querying = proc[p].querying \ {q}
        /\ r.hurt = proc[p].hurt
    BY <1>2 DEF ProcessState
  <2>2. proc' = [proc EXCEPT ![p] = r]
    BY <1>2, <1>5 DEF QueryEnds
  <2>3. r.querying \subseteq r.handling
    BY <1>2, <2>1 DEF ProcKnows
  <2> HIDE DEF r
  <2> QED
    BY <1>1, <1>2, <2>1, <2>2, <2>3, WithinStage DEF ProcKnows
<1>6. ASSUME NEW q \in Requests, RequestAnswered(p, q)
      PROVE  ProcInv'
  <2> DEFINE r == [proc[p] EXCEPT !.handling = @ \ {q}]
  <2>1. /\ r \in ProcessState /\ r.handling = proc[p].handling \ {q}
        /\ r.stage = proc[p].stage /\ r.env = proc[p].env /\ r.at = proc[p].at
        /\ r.result = proc[p].result /\ r.querying = proc[p].querying
        /\ r.hurt = proc[p].hurt
    BY <1>2 DEF ProcessState
  <2>2. proc' = [proc EXCEPT ![p] = r]
    BY <1>2, <1>6 DEF RequestAnswered
  <2>3. r.querying \subseteq r.handling
    BY <1>2, <1>6, <2>1 DEF ProcKnows, RequestAnswered
  <2>4. proc[p].handling = {} => r.handling = {}
    BY <2>1
  <2> HIDE DEF r
  <2> QED
    BY <1>1, <1>2, <2>1, <2>2, <2>3, <2>4, WithinStage DEF ProcKnows
<1>7. CASE ListenFails(p)
  <2> DEFINE r == [proc[p] EXCEPT !.listenDown = TRUE]
  <2>1. /\ r \in ProcessState /\ r.handling = proc[p].handling
        /\ r.stage = proc[p].stage /\ r.env = proc[p].env /\ r.at = proc[p].at
        /\ r.result = proc[p].result /\ r.querying = proc[p].querying
        /\ r.hurt = proc[p].hurt
    BY <1>2 DEF ProcessState
  <2>2. proc' = [proc EXCEPT ![p] = r]
    BY <1>2, <1>7 DEF ListenFails
  <2> HIDE DEF r
  <2> QED
    BY <1>1, <1>2, <2>1, <2>2, WithinStage DEF ProcKnows
<1>8. CASE Signal(p)
  <2> DEFINE r == [proc[p] EXCEPT !.signalled = TRUE]
  <2>1. /\ r \in ProcessState /\ r.handling = proc[p].handling
        /\ r.stage = proc[p].stage /\ r.env = proc[p].env /\ r.at = proc[p].at
        /\ r.result = proc[p].result /\ r.querying = proc[p].querying
        /\ r.hurt = proc[p].hurt
    BY <1>2 DEF ProcessState
  <2>2. proc' = [proc EXCEPT ![p] = r]
    BY <1>2, <1>8 DEF Signal
  <2> HIDE DEF r
  <2> QED
    BY <1>1, <1>2, <2>1, <2>2, WithinStage DEF ProcKnows
<1> QED
  BY <1>3, <1>4, <1>5, <1>6, <1>7, <1>8 DEF Handlers

\* server.Run ends: the listener has failed, the drain is over, or it has given up.
LEMMA RunEndsInv ==
    ASSUME ProcInv, NEW p \in Procs,
           RunSelects(p) \/ ShutdownDone(p) \/ ShutdownDeadline(p)
    PROVE  ProcInv'
<1>1. /\ UNCHANGED <<database, boots>> /\ boots' \in 0..MaxBoots
      /\ proc[p].stage \in {"serving", "draining"}
  BY DEF ProcInv, StateTyped, RunSelects, ShutdownDone, ShutdownDeadline
<1>2. ProcKnows(p) /\ StateTyped
  BY DEF ProcInv
<1>3. CASE Goto(p, "draining")
  BY <1>1, <1>3, GotoStep
<1>4. ASSUME NEW result \in {"listen", "nil", "deadline"},
             proc' = [proc EXCEPT ![p].stage = "flush", ![p].result = result],
             result = "nil" => proc[p].handling = {}
      PROVE  ProcInv'
  <2> DEFINE r == [proc[p] EXCEPT !.stage = "flush", !.result = result]
  <2>1. /\ r \in ProcessState
        /\ r.stage = "flush" /\ r.result = result /\ r.env = proc[p].env
        /\ r.hurt = proc[p].hurt
        /\ r.querying = proc[p].querying /\ r.handling = proc[p].handling
    BY <1>2 DEF StateTyped, ProcessState
  <2>2. proc' = [proc EXCEPT ![p] = r]
    BY <1>2, <1>4 DEF StateTyped
  <2> HIDE DEF r
  <2>3. /\ proc' \in [Procs -> ProcessState]
        /\ proc'[p] = r
        /\ \A q \in Procs \ {p} : proc'[q] = proc[q]
    BY <1>2, <2>1, <2>2, OwnState
  <2>4. ProcKnows(p)'
    BY <1>1, <1>2, <1>4, <2>1, <2>3 DEF ProcKnows
  <2> QED
    BY <1>1, <2>1, <2>3, <2>4, QuietStep
<1> QED
  BY <1>3, <1>4 DEF RunSelects, ShutdownDone, ShutdownDeadline

-----------------------------------------------------------------------------
\* Every step of a deployment keeps the invariant.
LEMMA ProcessStepInv == ProcInv /\ [ProcessNext]_processVars => ProcInv'
<1> SUFFICES ASSUME ProcInv, [ProcessNext]_processVars PROVE ProcInv'
  OBVIOUS
<1>1. ASSUME NEW p \in Procs, Proceed(p) PROVE ProcInv'
  BY <1>1, EndingInv, GoesOnInv, MigrateInv, SeedUserInv, SeedRowInv, RunEndsInv
  DEF Proceed
<1>2. ASSUME NEW p \in Procs,
             Boot(p) \/ Handlers(p) \/ ListenFails(p) \/ Signal(p) \/ Crash(p)
      PROVE  ProcInv'
  BY <1>2, BootInv, ServingInv, EndingInv
<1>3. CASE UNCHANGED processVars
  <2>1. UNCHANGED <<schema, devUser, rows, boots, proc>>
    BY <1>3 DEF processVars, database
  <2> QED
    BY <2>1 DEF ProcInv, StateTyped, ProcKnows, SeedKnows, CatalogSeededOnce, Cfg,
                DevUsable, MovieListed
<1> QED
  BY <1>1, <1>2, <1>3 DEF ProcessNext

\* In every behaviour of a deployment the invariant holds.
THEOREM ProcessInvariant == ProcessSpec => []ProcInv
<1>1. ProcessInit => ProcInv
  BY ProcessInitInv
<1> QED
  BY <1>1, ProcessStepInv, PTL DEF ProcessSpec

\* The database and the processes keep to their types; the schema never has more
\* migrations than there are.
THEOREM ProcessTypeCorrect == ProcessSpec => []ProcessTypeOK
<1>1. ProcInv => ProcessTypeOK
  <2> SUFFICES ASSUME ProcInv PROVE ProcessTypeOK
    OBVIOUS
  <2>1. StateTyped /\ \A p \in Procs : ProcKnows(p)
    BY DEF ProcInv
  <2>2. ASSUME NEW p \in Procs
        PROVE  /\ proc[p] \in ProcessState
               /\ proc[p].querying \subseteq proc[p].handling
    BY <2>1 DEF StateTyped, ProcKnows
  <2> QED
    BY <2>1, <2>2 DEF StateTyped, ProcessState, ProcessTypeOK
<1> QED
  BY <1>1, ProcessInvariant, PTL

\* However many development servers boot at the same time, or again after a crash
\* at any statement of the seed, no row of the catalog is inserted twice.
THEOREM SeedIsOnce == ProcessSpec => []CatalogSeededOnce
<1>1. ProcInv => CatalogSeededOnce
  BY DEF ProcInv, SeedKnows
<1> QED
  BY <1>1, ProcessInvariant, PTL

\* A development server that serves has the schema, the user and a movie.
THEOREM DevServersAreUsable == ProcessSpec => []DevBootIsUsable
<1>1. ProcInv => DevBootIsUsable
  BY DEF ProcInv, ProcKnows, DevUsable, DevBootIsUsable, Procs
<1> QED
  BY <1>1, ProcessInvariant, PTL

\* Exit code 0 of a server means that it neither cut a request nor refused one
\* its connection.
THEOREM CleanExits == ProcessSpec => []CleanExitLosesNothing
<1>1. ProcInv => CleanExitLosesNothing
  BY DEF ProcInv, ProcKnows, CleanExitLosesNothing, Procs
<1> QED
  BY <1>1, ProcessInvariant, PTL

-----------------------------------------------------------------------------
\* The variables that have a range, a vocabulary or a default.
LEMMA Vocabulary ==
    /\ DOMAIN Ranges = {"REDIS_DB", "MAX_ACTIVE_HOLDS", "POSTGRES_PORT"}
    /\ DOMAIN Words = {"ENV", "POSTGRES_SSLMODE", "PAYMENT_PROVIDER", "LOG_LEVEL",
                       "OTEL_ENABLED", "OTEL_EXPORTER_OTLP_ENDPOINT"}
    /\ DOMAIN Default = (DOMAIN Ranges) \union (DOMAIN Words) \union Durations
    /\ Ranges["MAX_ACTIVE_HOLDS"] = 1..100
<1>1. DOMAIN Ranges = {"REDIS_DB", "MAX_ACTIVE_HOLDS", "POSTGRES_PORT"}
  BY DEF Ranges
<1>2. DOMAIN Words = {"ENV", "POSTGRES_SSLMODE", "PAYMENT_PROVIDER", "LOG_LEVEL",
                      "OTEL_ENABLED", "OTEL_EXPORTER_OTLP_ENDPOINT"}
  BY DEF Words
<1>3. DOMAIN Default = (DOMAIN Ranges) \union (DOMAIN Words) \union Durations
  BY <1>1, <1>2 DEF Default, Durations
<1>4. Ranges["MAX_ACTIVE_HOLDS"] = 1..100
  BY DEF Ranges
<1> QED
  BY <1>1, <1>2, <1>3, <1>4

\* What an environment without problems gives a process, variable by variable.
LEMMA LoadedIsGood ==
    ASSUME NEW e \in DOMAIN Environments \ Bad
    PROVE  /\ \A v \in Durations : Loaded[e][v] > 0
           /\ Loaded[e]["MAX_ACTIVE_HOLDS"] > 0
           /\ Loaded[e]["PAYMENT_PROVIDER"] = "fake" =>
                 Loaded[e]["PAYMENT_FAKE_WEBHOOK_SECRET"] # Unset
           /\ Loaded[e]["ENV"] = "production" => Loaded[e]["AUTH_JWT_SECRET"] >= 32
<1> DEFINE env == Environments[e]
<1>1. \A v \in EnvVars : Acceptable(env, v) /\ Loaded[e][v] = ValueOf(env, v)
  BY DEF Bad, Problems, Loaded, Load
<1> HIDE DEF env
<1>2. ASSUME NEW v \in Durations PROVE Loaded[e][v] > 0
  <2>1. v \in EnvVars
    BY DEF EnvVars
  <2>2. /\ v \notin DOMAIN Ranges /\ v \notin DOMAIN Words
        /\ v \notin Shaped /\ v \notin Required
        /\ v # "OTEL_EXPORTER_OTLP_ENDPOINT"
    BY Vocabulary DEF Durations, Shaped, Required
  <2>3. DurationOK(ValueOf(env, v))
    BY <1>1, <2>1, <2>2 DEF Acceptable
  <2> QED
    BY <1>1, <2>1, <2>3 DEF DurationOK
<1>3. Loaded[e]["MAX_ACTIVE_HOLDS"] > 0
  <2> DEFINE v == "MAX_ACTIVE_HOLDS"
  <2>1. v \in EnvVars /\ v \in DOMAIN Ranges
    BY Vocabulary DEF EnvVars
  <2>2. /\ v \notin DOMAIN Words /\ v \notin Durations
        /\ v \notin Shaped /\ v \notin Required
        /\ v # "OTEL_EXPORTER_OTLP_ENDPOINT"
    BY Vocabulary DEF Durations, Shaped, Required
  <2> HIDE DEF v
  <2>3. ValueOf(env, v) \in Ranges[v] /\ Loaded[e][v] = ValueOf(env, v)
    BY <1>1, <2>1, <2>2 DEF Acceptable
  <2> QED
    BY <2>3, Vocabulary DEF v
<1>4. \A v \in Secrets : v \in EnvVars /\ Loaded[e][v] = env[v] /\ SecretOK(env, v)
  <2> SUFFICES ASSUME NEW v \in Secrets
               PROVE  v \in EnvVars /\ Loaded[e][v] = env[v] /\ SecretOK(env, v)
    OBVIOUS
  <2>1. v \in EnvVars
    BY DEF EnvVars
  <2>2. /\ v \notin DOMAIN Words /\ v \notin Durations /\ v \notin DOMAIN Ranges
        /\ v \notin Shaped /\ v \notin Required
        /\ v # "OTEL_EXPORTER_OTLP_ENDPOINT"
    BY Vocabulary DEF Durations, Shaped, Required, Secrets
  <2>3. SecretOK(env, v)
    BY <1>1, <2>1, <2>2 DEF Acceptable
  <2>4. ValueOf(env, v) = env[v]
    BY <2>2, Vocabulary DEF ValueOf
  <2> QED
    BY <1>1, <2>1, <2>3, <2>4
<1>5. \A v \in {"ENV", "PAYMENT_PROVIDER"} : Loaded[e][v] = ValueOf(env, v)
  BY <1>1, Vocabulary DEF EnvVars
<1> QED
  BY <1>2, <1>3, <1>4, <1>5 DEF SecretOK, Secrets

\* Whatever the environments are, a server that serves was given what its adapters
\* take for granted.
THEOREM ServersAreConfigured == ProcessSpec => []ServesWithinAssumptions
<1>1. ProcInv => ServesWithinAssumptions
  <2> SUFFICES ASSUME ProcInv, NEW p \in Servers, proc[p].stage = "serving"
               PROVE  /\ \A v \in Durations : Cfg(p)[v] > 0
                      /\ Cfg(p)["MAX_ACTIVE_HOLDS"] > 0
                      /\ Cfg(p)["PAYMENT_PROVIDER"] = "fake"
                      /\ Cfg(p)["PAYMENT_FAKE_WEBHOOK_SECRET"] # Unset
                      /\ Cfg(p)["ENV"] = "production" => Cfg(p)["AUTH_JWT_SECRET"] >= 32
    BY DEF ServesWithinAssumptions
  <2>1. /\ proc[p].env \in DOMAIN Environments \ Bad
        /\ Cfg(p)["PAYMENT_PROVIDER"] = "fake"
    BY DEF ProcInv, ProcKnows, Procs
  <2> QED
    BY <2>1, LoadedIsGood DEF Cfg
<1> QED
  BY <1>1, ProcessInvariant, PTL

=============================================================================
