SPECIFICATION FairSpec
CONSTANTS
    Job = {j1}
    p1 = p1  p2 = p2  p3 = p3
    Process = {p1, p2, p3}
    Fleets <- TheFleets
    NoJob = NoJob
INVARIANT NoJobStranded 
PROPERTY EveryJobFinishes QueueDrains
