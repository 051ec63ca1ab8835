SPECIFICATION FairSpec
CONSTANTS
    Events = {e1, e2}
    Workers = {w1, recovery}
    Recovery = recovery
    Nobody = Nobody
    NoEvent = NoEvent
    MaxAttempts = 2
INVARIANTS
    TypeOK
    OnlyRenewalsRepeat
    SucceededIsApplied
    RenewalExtends
PROPERTY ChargeApplied
