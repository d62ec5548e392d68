CONSTANTS
    v1 = v1  v2 = v2  v3 = v3  v4 = v4  v5 = v5
    alice = alice  bob = bob  a = a  b = b
    x = x  y = y  z = z  u = u  w = w
    Genesis = Genesis
    None = None
    Validator = {v1, v2, v3, v4, v5}
    VotingPower <- MCPower
    Order <- MCOrder
    Faulty = {v4}
    Sender = {alice, bob}
    Object = {a, b}
    Owner <- MCOwner
    RequestId = {1, 2, 4}
    Request = {x, y, w}
    Intent <- MCIntent
    MaxEpoch = 1
    Committees <- MCCommittees
    DirectPath = FALSE
SYMMETRY Replicas
SPECIFICATION Spec
INVARIANT
    ConflictingAppliesNever
CHECK_DEADLOCK FALSE
