CONSTANTS
    v1 = v1  v2 = v2  v3 = v3  v4 = v4  v5 = v5
    alice = alice  bob = bob  a = a  b = b
    x = x  y = y  z = z  u = u  w = w
    Genesis = Genesis
    None = None
    Validator = {v1, v2, v3, v4}
    VotingPower <- MCPower
    Order <- MCOrder
    Faulty = {v4}
    Sender = {alice, bob}
    Object = {a, b}
    Owner <- MCOwner
    RequestId = {1, 2, 3, 5}
    Request = {x, y, z, u}
    Intent <- MCIntent
    MaxEpoch = 0
    Committees <- MCCommittees
    DirectPath = TRUE
SYMMETRY Replicas
SPECIFICATION Spec
INVARIANTS
    OneCertifiedPerNonce
    ConsumedOncePerEpoch
    ExactlyOnce
    VotedCanFinish
    ReplicasAgree
CHECK_DEADLOCK FALSE
