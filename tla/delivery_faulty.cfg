SPECIFICATION FairSpec
CONSTANTS
    w1 = w1  w2 = w2
    Signals = {s1}
    Workers = {w1, w2}
    Dispatchers = {w1}
    AssetOf <- OneAsset
    ThesisOf <- OwnThesis
    DailyLimit = 1
    MaxSends = 2
    StallsPastWindow = TRUE
INVARIANTS TypeOK ProofIsGenuine
PROPERTIES ProofIsPermanent OnlyProofResolves ReceiptKept ReceiptReconciled ReceiptDrained
CHECK_DEADLOCK FALSE
