SPECIFICATION LimiterSpec
CONSTANTS
    Identity = {i1, i2}
    Source = {s1, s2}
    Recipient = {m1, m2}
    Call = {c1}
    Second = 2
    Capacity = 4
    Cost = 2
    Threshold = 1
    Limits <- SmallLimits
    Lags = {0, 1}
    MaxTime = 5
SYMMETRY Interchangeable
INVARIANT BurstBounded MailBudgetsHold NoSpraying OnlySendsAreCharged
PROPERTY RetryAfterIsTrue
CHECK_DEADLOCK FALSE
