SPECIFICATION FairSpec
CONSTANTS
    r1 = r1
    r2 = r2
    r3 = r3
    p1 = p1
    p2 = p2
    m1 = m1
    m2 = m2
    Requests = {r1, r2}
    Providers = {p1, p2}
    Models = {m1}
    ModelOf <- OneModel
    Allowed <- AnyProvider
    ModelsOf <- ServesOne
    DefaultMaxConcurrent = 1
    Tiers <- TierOne
    MaxSize = 2
    MaxDrains = 10
    Flaky = {p2}
    Patient = {r1, r2}
    EncryptFaults = FALSE
    None = None
    Empty = Empty
    Nil = Nil
INVARIANTS
    InFlightOnly
PROPERTIES
    Served
CHECK_DEADLOCK FALSE
