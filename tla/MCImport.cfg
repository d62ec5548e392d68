CONSTANTS
    k = k  o = o  v1 = v1  v2 = v2  i1 = i1  i2 = i2  i3 = i3
    None = None
    Key = {k}
    Object = {o}
    Value = {v1, v2}
    Id = {i1, i2, i3}
    Event <- MCEvent
    Request = {"m"}
    IdOf <- MCIdOf
    Bare = {"m", "retain"}
    Reads <- MCReads
    Writes <- MCWrites
    Apply <- MCApply
    Retention = "retain"
    Seal = "seal"
    Activation = "activate"
    Handler = {h1}
    Capturer = capturer
    Importer = {p1, p2}
    Scan <- MCScan
    Plan <- MCPlan
    BatchEnd <- MCBatchEnd
    MaxFence = 2
    MaxSeq = 6
    MaxVersion = 2
    CaptureAt <- MCCaptureAt
SPECIFICATION ImportSpec
INVARIANTS
    InstalledIsPrefix
PROPERTY
    ActivatedOnce
SYMMETRY ImporterSymmetry
