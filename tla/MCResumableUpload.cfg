SPECIFICATION FairSpec
CONSTANTS
    u1 = u1  p1 = p1  p2 = p2  f1 = f1  f2 = f2  a1 = a1  a2 = a2
    Plain = {u1}
    PartList <- TwoParts
    Final = {f1, f2}
    Size <- SmallSizes
    Request = {r1, r2}
    Scenarios <- PlainAndConcat
    NoUpload = NoUpload
INVARIANT ObjectIsWhole CommittedHasJob AcknowledgedBytesSurvive
PROPERTY ResultStaysAvailable CompleteUploadIsQueued
CHECK_DEADLOCK FALSE
