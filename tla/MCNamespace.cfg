CONSTANTS
    k = k  o = o  v1 = v1  v2 = v2  i1 = i1  i2 = i2  i3 = i3  i4 = i4
    None = None
    Key = {k}
    Object = {o}
    Value = {v1, v2}
    Id = {i1, i2, i3, i4}
    Event <- MCEvent
    Request = {"a", "b", "c"}
    IdOf <- MCIdOf
    Bare = {"retain"}
    Reads <- MCReads
    Writes <- MCWrites
    Apply <- MCApply
    Retention = "retain"
    Seal = "seal"
    Handler = {h1, h2}
    Capturer = capturer
    Scan <- MCScan
    MaxFence = 1
    MaxSeq = 3
    MaxVersion = 3
    CaptureAt = {2}
SPECIFICATION FairSpec
INVARIANTS
    OneAnswer
    HeadsNameVersions
    BodiesStored
    CaptureIsExact
PROPERTIES
    RefinesSerialStore
    SealIsFinal
    AllAnswered
CHECK_DEADLOCK FALSE
