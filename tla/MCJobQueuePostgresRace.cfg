SPECIFICATION Spec
CONSTANTS
    j1 = j1  j2 = j2   o1 = o1  o2 = o2  c1 = c1  c2 = c2
    AnyJob = AnyJob
    Job <- OneJob
    Owner <- TwoOwners
    OwnerOf <- OneOwnerEach
    WeightOf <- EqualWeights
    Conn <- Conns
    Requested <- OnlyAny
    License = {1}
    Dialect = "postgres"
    LeaseSeconds = 1
    Lag = 0
    MaxTime = 3
    MaxLeases = 3
INVARIANT LeaseExclusive
