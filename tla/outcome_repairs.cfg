SPECIFICATION Spec
CONSTANTS
    Trackers = {t1}
    Projectors = {p1, p2}
    PartialRepairs = TRUE
    AdminResolves = TRUE
SYMMETRY Interchangeable
PROPERTIES TerminalNeedsCorrection CorrectionStands
CHECK_DEADLOCK FALSE
