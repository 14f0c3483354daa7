SPECIFICATION Spec
CONSTANTS
    Request = {r1, r2, r3}
    Key = {k1, k2}
    Passkey = {p1, p2}
    Credential = {x1}
    Ceremony = {w1, w2}
    Backends = {"sqlx", "dynamodb"}
    Workloads <- TwoWorkloads
    MaxLogins = 1
    MaxSession = 4
    MaxExpired = 1
    None = None
SYMMETRY Interchangeable
INVARIANT RevokedKeyCutsOff EndedStaysEnded LoginsBounded PasskeyLookupAgrees
CHECK_DEADLOCK FALSE
