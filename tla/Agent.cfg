SPECIFICATION FairSpec
CONSTANTS
    r1 = r1
    r2 = r2
    Requests = {r1, r2}
    Models = {m1}
    MaxEngines = 3
    MaxTokens = 2
    TokenCap = 1
    EventCap = 1
    OutCap = 1
    DoneCap = 1
    Plans <- ServePlans
INVARIANTS
    InFlightIsTracked
    CompleteIsWhole
PROPERTIES
    KeepsPromise
    AgentProgress
CHECK_DEADLOCK FALSE
