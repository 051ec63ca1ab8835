SPECIFICATION FairSpec
CONSTANTS
    Replicas = {r1}
    Nobody = Nobody
    Backends = {"redis"}
    Overruns = FALSE
    Stages = {"tp1", "partial_win_be", "missed_entry"}
    Moods = {"on", "quiet", "off"}
PROPERTIES ListedIsSettled FinalQueued 
CHECK_DEADLOCK FALSE
