SPECIFICATION Spec
CONSTANTS
    n1 = n1
    n2 = n2
    NoTx = NoTx
    NoRequest = NoRequest
    NoSender = NoSender
    Validator = {n1, n2}
    Faulty = {}
    FaultySigns = {}
    VotingPower <- MCVotingPower
    Order <- MCOrder
    Tx = {}
    Request = {}
    RequestOf <- Empty
    Row = {}
    RowOf <- Empty
    Sender = {}
    SenderOf <- Empty
    NonceOf <- Empty
    Causal = TRUE
    MaxView = 8
    MaxFutureViewGap = 4
    RetainCommittedHeights = 2
    MaxVoteAncestorWalk = 4
    MaxInFlight = 1
    Replies = {TRUE}
CONSTRAINT Scenario
INVARIANT CommitAgreement
CHECK_DEADLOCK FALSE
