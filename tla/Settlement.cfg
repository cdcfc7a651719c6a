SPECIFICATION FairSpec
CONSTANTS
    Accounts = {consumer, provider, platform, referrer}
    Consumer = consumer
    Provider = provider
    Platform = platform
    Referrer = referrer
    Refs = {0, 1, 2, 9}
    Reserve = 0
    Returned = 9
    MaxAttempts = 2
    Opening = 700
    Reservation = 300
    Plans <- MCPlans
    SharePercent = 20
    Apis = {"chat", "generic"}
INVARIANTS
    OwnedByOne
    BilledBeforeAnswered
    MoneyConserved
PROPERTIES
    Answered
