CONSTANTS
    v1 = v1  v2 = v2  v3 = v3  v4 = v4  v5 = v5
    alice = alice  bob = bob  a = a  b = b
    x = x  y = y  z = z  u = u  w = w
    Genesis = Genesis
    None = None
    Validator = {v1, v2, v3, v4, v5}
    VotingPower <- MCPower
    Order <- MCOrder
    Faulty = {v4}
    Sender = {alice, bob}
    Object = {a, b}
    Owner <- MCOwner
    RequestId = {1, 4}
    Request = {x, w}
    Intent <- MCIntent
    MaxEpoch = 1
    Committees <- MCCommittees
    DirectPath = TRUE
SYMMETRY Replicas
SPECIFICATION Spec
INVARIANTS
    NoOrphanLock
PROPERTY
    LeftEpochIsClosed
    RefinesLedger
CHECK_DEADLOCK FALSE
