SPECIFICATION FairSpec
CONSTANTS
    Request <- OneRequest
    Count <- TwoMessages
    Handler = {w1}
    Recoverer = {w1, w2}
    LeaseId = {1, 2, 3, 4, 5, 6}
    LeaseTime = 2
    Timeout = 1
    Skew = 0
    MaxTime = 8
    MaxFence = 2
    MaxFaults = 1
    None = None
INVARIANTS
    AcknowledgedWasSent
    TablesAgree
    OneHolder
    SealStrandsNothing
PROPERTY
    AllDelivered
CHECK_DEADLOCK FALSE
