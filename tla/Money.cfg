SPECIFICATION MoneySpec
CONSTANTS
    Accounts = {acct, other}
    Refs = {w1, opening}
    Amounts = {1, 2}
    MaxEntries = 3
    MaxBalance = 2
    PruneKeep = 2
    Account = acct
    Withdrawals = {w1}
    Opening = opening
    Earnings = {1, 3}
    Gross = 2
    Deliveries = {d1, d2}
    MaxDuplicates = 2
    MaxFaults = 2
    MaxLost = 1
    MaxCrashes = 1
    NoRow = NoRow
    s1 = s1
    ref1 = ref1
    Users = {acct, other, third}
    Customers = {acct}
    RefCodes = {ref1, ref2}
    Sessions = {s1}
    PayerOf <- PaidBy
    CodeOf <- Named
    Invites = {inv}
    MaxUses = 2
    Requests = {r1, r2}
    MaxRepeats = 1
    MaxStoreFaults = 1
    MaxReboots = 1
    Nil = Nil
INVARIANTS
    WithdrawableBacked
    AuditTrail
    RefundsTruthful
    CreditedOnce
PROPERTIES
    ReferralsAreFinal
    MoneyArrives
