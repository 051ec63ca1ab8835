SPECIFICATION Spec
CONSTANTS
    Calls = {c1, c2}
    Processes = {p1, p2}
    Keys = {k1, k2}
    NoKey = NoKey
    NoProcess = NoProcess
    DailyLimit = 1
    MaxPositions = 1
INVARIANTS
    TypeOK
    OrderOnce
    QuotaHolds
    
PROPERTY ClosedForGood
SYMMETRY Interchangeable
