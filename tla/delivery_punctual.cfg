SPECIFICATION Spec
CONSTANTS
    w1 = w1  w2 = w2
    Signals = {s1, s2}
    Workers = {w1, w2}
    Dispatchers = {}
    AssetOf <- OneAsset
    ThesisOf <- OwnThesis
    DailyLimit = 2
    MaxSends = 2
    StallsPastWindow = FALSE
INVARIANTS SentRowNotRetryable OneSenderPerSignal
PROPERTY ImplementsContract
SYMMETRY SafetySymmetry
CHECK_DEADLOCK FALSE
