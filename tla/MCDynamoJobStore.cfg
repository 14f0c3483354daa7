SPECIFICATION Spec
CONSTANTS
    Job = {j1}
    Call = {c1, c2}
    NoJob = NoJob
    License = {1}
    LeaseSeconds = 1
    Lag = 1
    MaxTime = 3
    MaxLeases = 3
SYMMETRY Interchangeable
INVARIANT LeaseExclusive
PROPERTY LifecycleSpec
