SPECIFICATION FairSpec
CONSTANTS
    Trackers = {t1}
    Projectors = {p1}
    PartialRepairs = TRUE
    AdminResolves = FALSE
PROPERTIES OutcomeCatchesUp
CHECK_DEADLOCK FALSE
