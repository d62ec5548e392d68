SPECIFICATION Spec
CONSTANTS
    r1 = r1
    f1 = f1
    f2 = f2
    f3 = f3
    f4 = f4
    f5 = f5
    f6 = f6
    t1 = t1
    t2 = t2
    q1 = q1
    q2 = q2
    s1 = s1
    w1 = w1
    w2 = w2
    NoTx = NoTx
    NoRequest = NoRequest
    NoSender = NoSender
    Validator = {r1, f1, f2, f3, f4, f5, f6}
    Faulty = {f1, f2, f3, f4, f5, f6}
    FaultySigns <- MCFaultySigns
    VotingPower <- MCVotingPower
    Order <- MCOrder
    Tx = {t1, t2}
    Request = {q1, q2}
    RequestOf <- MCRequestOf
    Row = {w1, w2}
    RowOf <- MCRowOf
    Sender = {s1}
    SenderOf <- MCSenderOf
    NonceOf <- MCNonceOf
    Causal = TRUE
    MaxView = 6
    MaxFutureViewGap = 2
    RetainCommittedHeights = 2
    MaxVoteAncestorWalk = 4
    MaxInFlight = 1
    Replies = {TRUE}
INVARIANTS
    PersistedStateValid
    LocksAreLive
PROPERTIES
    SafeVotingSpec
    ReleasedOnlyByCompletion
CHECK_DEADLOCK FALSE
