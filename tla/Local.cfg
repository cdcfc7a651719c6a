CONSTANTS
    Producers = {p1}
    MaxEvents = 4
    QueueCap = 1
    MaxBatch = 2
    MaxLines = 1
    MaxTelFaults = 1
    Schedules <- MCSchedules
    DayLen = 24
    HourLen = 1
    Lag = 1
    Fallback <- MCFallback
    Machines <- MCMachines
    MaxSetups = 3
    Hosts = {h1, h2}
    Accounts = {a1, a2}
    MaxCodes = 2
    MaxTokens = 2
    Models = {"A", "B"}
    Primary = "A"
    WPlans <- MCWPlans
SPECIFICATION LocalSpec
INVARIANTS
    EventsAreKept
    ScheduleIsKept
PROPERTIES
    SetupKeepsChoices
    LinkIsApproved
    LocalProgress
CHECK_DEADLOCK FALSE
