SPECIFICATION Spec
CONSTANTS
    u1 = u1  p1 = p1  p2 = p2  f1 = f1  f2 = f2  a1 = a1  a2 = a2
    Plain = {}
    PartList <- OnePart
    Final = {f1, f2}
    Size <- SmallSizes
    Request = {r1}
    Scenarios <- ConcatTwice
    NoUpload = NoUpload
INVARIANT OneSolvePerImage
CHECK_DEADLOCK FALSE
