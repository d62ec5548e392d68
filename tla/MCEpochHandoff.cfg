CONSTANTS
    v1 = v1  v2 = v2  v3 = v3  v4 = v4
    alice = alice  bob = bob  a = a  b = b
    x = x  y = y  z = z  u = u
    Genesis = Genesis
    None = None
    Validator = {v1, v2, v4}
    VotingPower <- MCHeavy
    Order <- MCOrder
    Faulty = {v4}
    Sender = {alice, bob}
    Object = {a, b}
    Owner <- MCOwner
    RequestId = {0, 1, 2, 3}
    Request = {x, y, u}
    Intent <- MCIntent
    MaxEpoch = 0
    Committees <- MCCommittees
    DirectPath = FALSE
    OneFrontier = TRUE
    Incoming = {v1, v2, v4}
SPECIFICATION FairHandoffSpec
INVARIANTS
    AppliedIsDrained
    DisplacedNeverCertified
    DrainNeverStuck
    OneCut
PROPERTIES
    RefinesLedger
    HandoffCompletes
CHECK_DEADLOCK FALSE
