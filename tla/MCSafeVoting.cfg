SPECIFICATION VotingSpec
CONSTANTS
    a = a
    b = b
    c = c
    NoTx = NoTx
    Validator = {a, b, c}
    VotingPower <- MCVotingPower
    Order <- MCOrder
    Faulty = {c}
    Tx = {}
    MaxView = 5
    MaxFutureViewGap = 4
    RetainCommittedHeights = 2
INVARIANTS
    OneCertificatePerView
    ConsecutiveCommitIsFinal
CHECK_DEADLOCK FALSE
