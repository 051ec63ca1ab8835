SPECIFICATION Spec
CONSTANTS
    Trackers = {t1, t2}
    Projectors = {p1}
    PartialRepairs = TRUE
    AdminResolves = FALSE
SYMMETRY Interchangeable
INVARIANTS TypeOK LedgerCoherent ProgressNotAhead OutcomeFollowsLifecycle
PROPERTIES CorrectionIsFinal
CHECK_DEADLOCK FALSE
