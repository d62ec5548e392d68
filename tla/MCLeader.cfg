SPECIFICATION Spec
CONSTANTS
    r1 = r1
    f1 = f1
    f2 = f2
    f3 = f3
    t1 = t1
    t2 = t2
    q1 = q1
    s1 = s1
    w1 = w1
    NoTx = NoTx
    NoRequest = NoRequest
    NoSender = NoSender
    Validator = {r1, f1, f2, f3}
    Faulty = {f1, f2, f3}
    FaultySigns <- MCFaultySigns
    VotingPower <- MCVotingPower
    Order <- MCOrder
    Tx = {t1, t2}
    Request = {q1}
    RequestOf <- MCRequestOf
    Row = {w1}
    RowOf <- MCRowOf
    Sender = {s1}
    SenderOf <- MCSenderOf
    NonceOf <- MCNonceOf
    Causal = FALSE
    MaxView = 4
    MaxFutureViewGap = 2
    RetainCommittedHeights = 2
    MaxVoteAncestorWalk = 4
    MaxInFlight = 2
    Replies = {TRUE, FALSE}
INVARIANTS
    TypeOK
    NoEquivocation
    CompletedAsBound
CHECK_DEADLOCK FALSE
