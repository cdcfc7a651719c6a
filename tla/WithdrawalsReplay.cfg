SPECIFICATION Spec
CONSTANTS
    Accounts = {acct}
    Account = acct
    Withdrawals = {w1}
    Opening = opening
    Refs = {w1, w2, opening}
    Earnings = {3}
    Gross = 2
    Deliveries = {d1, d2}
    MaxDuplicates = 1
    MaxFaults = 0
    MaxLost = 0
    MaxCrashes = 0
    NoRow = NoRow
INVARIANTS
    SingleRefund
