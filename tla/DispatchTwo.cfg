SPECIFICATION Spec
CONSTANTS
    r1 = r1
    r2 = r2
    r3 = r3
    p1 = p1
    p2 = p2
    m1 = m1
    m2 = m2
    Requests = {r1, r2}
    Providers = {p1, p2}
    Models = {m1, m2}
    ModelOf <- TwoModels
    Allowed <- AnyProvider
    ModelsOf <- ServesBoth
    DefaultMaxConcurrent = 1
    Tiers <- TierOne
    MaxSize = 1
    MaxDrains = 2
    Flaky = {p2}
    Patient = {}
    EncryptFaults = TRUE
    None = None
    Empty = Empty
    Nil = Nil
INVARIANTS
    SlotsAreRight
CHECK_DEADLOCK FALSE
