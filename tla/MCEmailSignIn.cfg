SPECIFICATION Spec
CONSTANTS
    Challenge = {c1, c2, c3}
    Request = {r1, r2}
    Backends = {"sqlite", "postgres", "dynamodb"}
    None = None
    MaxLive = 2
    MaxAttempts = 1
    Lifetime = 1
    Retries = 2
    MaxTime = 1
SYMMETRY Interchangeable
INVARIANT SignInVoidsEarlierCodes OneAccountPerAddress LiveCodesBounded
PROPERTY CodesAreOneTime
CHECK_DEADLOCK FALSE
