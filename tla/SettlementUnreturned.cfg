SPECIFICATION Spec
CONSTANTS
    Accounts = {consumer, provider, platform, referrer}
    Consumer = consumer
    Provider = provider
    Platform = platform
    Referrer = referrer
    Refs = {0, 1, 2, 9}
    Reserve = 0
    Returned = 9
    MaxAttempts = 2
    Opening = 700
    Reservation = 300
    Plans <- Faultless
    SharePercent = 20
    Apis = {"chat", "generic"}
INVARIANTS
    ReservationReturned
