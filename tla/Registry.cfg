SPECIFICATION RegistrySpec
CONSTANTS
    c1 = c1
    c2 = c2
    mac = mac
    m1 = m1
    m2 = m2
    Conns = {c1, c2}
    Serials = {mac}
    NoSerial = none
    SerialOf <- OneMachine
    Models = {m1, m2}
    ModelsOf <- Offers
    MaxPending = 1
    MaxEntries <- MaySend
    MaxFailedChallenges = 2
    MaxHiccups = 1
    MaxConnections = 2
    MaxSnapshots = 2
    MaxBoots = 1
INVARIANTS
    CountsExact
    OnePerMachine
    ChallengesAreSound
    TrustIsEarned
PROPERTIES
    UntrustedIsFinal
    RegistryProgress
