SPECIFICATION Spec
CONSTANTS
    r1 = r1
    r2 = r2
    r3 = r3
    p1 = p1
    p2 = p2
    m1 = m1
    m2 = m2
    Requests = {r1, r2, r3}
    Providers = {p1}
    Models = {m1}
    ModelOf <- OneModel
    Allowed <- AnyProvider
    ModelsOf <- ServesOne
    DefaultMaxConcurrent = 2
    Tiers <- TierOne
    MaxSize = 2
    MaxDrains = 2
    Flaky = {p1}
    Patient = {r1}
    EncryptFaults = FALSE
    None = None
    Empty = Empty
    Nil = Nil
SYMMETRY Interchangeable
INVARIANTS
    QueueExact
PROPERTIES
    WithinCapacity
CHECK_DEADLOCK FALSE
