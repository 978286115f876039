\* Three boots of two servers and a migration job, over two migrations.
CONSTANTS
    Unset = Unset
    Garbage = Garbage
    Servers = {a, b}
    Migrators = {m}
    Requests = {r1}
    Busy = {a}
    Environments <- MCEnvironments
    Migrations = 2
    MaxBoots = 3
SPECIFICATION FairProcessSpec
INVARIANTS ProcessTypeOK ServesWithinAssumptions CatalogSeededOnce DevBootIsUsable CleanExitLosesNothing
PROPERTIES ShutdownEnds
\* Every process has ended and none is started again.
CHECK_DEADLOCK FALSE
