SPECIFICATION Spec
CONSTANTS
    j1 = j1  j2 = j2  o1 = o1  o2 = o2  c1 = c1  c2 = c2
    AnyJob = AnyJob
    Job <- TwoJobs
    Owner <- TwoOwners
    OwnerOf <- OneOwnerEach
    WeightOf <- HeavyAndLight
    Conn <- Conns
    Requested <- OnlyAny
    License = {1}
    Dialect = "postgres"
    LeaseSeconds = 1
    Lag = 1
    MaxTime = 4
    MaxLeases = 2
INVARIANT StaleWorkerNeverWins SolvesOnlyOriginals NoOwnerOvertakenTwice
PROPERTY LifecycleSpec
SYMMETRY SameConns
CONSTRAINT EarlyJobs FewOpen
