SPECIFICATION FairSpec
CONSTANTS
    Job = {j1, j2}
    First = j1
    Request = {r1, r2}
    Worker = {w1}
    Stores = {"local", "s3"}
    Retention = 1
    MaxTime = 1
    MaxFaults = 1
    None = None
INVARIANT DonatedImageKept OwnedImageKept NoLostWakeup
PROPERTY QueuedIsFinished
CHECK_DEADLOCK FALSE
