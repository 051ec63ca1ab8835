SPECIFICATION Spec
CONSTANTS
    Events = {e1, e2}
    Workers = {w1, recovery}
    Recovery = recovery
    Nobody = Nobody
    NoEvent = NoEvent
    MaxAttempts = 2
INVARIANT AppliedOnce
