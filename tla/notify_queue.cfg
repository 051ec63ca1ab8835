SPECIFICATION Spec
CONSTANTS
    Replicas = {r1, r2}
    Nobody = Nobody
    Backends = {"redis", "postgres"}
    Overruns = FALSE
    Stages = {"tp1", "tp2", "partial_win_be", "sl", "missed_entry"}
    Moods = {"on"}
SYMMETRY Interchangeable
INVARIANTS TypeOK OneHolder
PROPERTIES NotifiedInOrder SettledForGood
CHECK_DEADLOCK FALSE
