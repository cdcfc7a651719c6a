------------------------------- MODULE Ledger -------------------------------
(***************************************************************************)
(* The balance store of the coordinator (coordinator/store/memory.go; the  *)
(* Postgres store runs the same updates in one transaction each).          *)
(*                                                                         *)
(* Every account has a total balance and a withdrawable part of it.  Each  *)
(* store call holds the store's mutex from beginning to end, so it is one  *)
(* step, and it appends one audit row with the balance it left behind.     *)
(*                                                                         *)
(* The operations are actions over the three variables with no mention of  *)
(* who calls them: the payment modules conjoin them with their own state.  *)
(***************************************************************************)
EXTENDS Integers, Sequences

CONSTANTS
    Accounts,       \* consumer, provider and referrer accounts alike
    Refs            \* references an audit row can carry (job, withdrawal, ...)

VARIABLES
    balances,       \* account -> micro-USD
    withdrawable,   \* account -> micro-USD, the part that may be paid out
    ledgerEntries   \* audit rows, oldest first

ledgerVars == <<balances, withdrawable, ledgerEntries>>

LedgerEntryType ==
    {"deposit", "charge", "payout", "referral_reward", "stripe_deposit",
     "stripe_payout", "invite_credit", "refund", "platform_fee",
     "admin_credit", "admin_reward"}

LedgerEntry ==
    [account: Accounts, type: LedgerEntryType, amount: Int, after: Int, ref: Refs]

LedgerInit ==
    /\ balances = [a \in Accounts |-> 0]
    /\ withdrawable = [a \in Accounts |-> 0]
    /\ ledgerEntries = <<>>

-----------------------------------------------------------------------------

Row(a, type, amt, after, ref) ==
    [account |-> a, type |-> type, amount |-> amt, after |-> after, ref |-> ref]

(* Mutant: BalanceAfter is read before the credit.                          *)
creditLockedStaleAfter(a, amt, type, ref) ==
    /\ balances' = [balances EXCEPT ![a] = @ + amt]
    /\ ledgerEntries' = Append(ledgerEntries, Row(a, type, amt, balances[a], ref))

creditLocked(a, amt, type, ref) ==
    /\ balances' = [balances EXCEPT ![a] = @ + amt]
    /\ ledgerEntries' = Append(ledgerEntries, Row(a, type, amt, balances[a] + amt, ref))

Credit(a, amt, type, ref) ==
    /\ creditLocked(a, amt, type, ref)
    /\ UNCHANGED withdrawable

CreditWithdrawable(a, amt, type, ref) ==
    /\ creditLocked(a, amt, type, ref)
    /\ withdrawable' = [withdrawable EXCEPT ![a] = @ + amt]

(* Pays a linked provider account or a bare wallet for one job.  The        *)
(* earnings row the store also writes repeats the audit row's fields.       *)
CreditProvider(a, amt, job) == CreditWithdrawable(a, amt, "payout", job)

CanDebit(a, amt) == balances[a] >= amt

(* Mutant: spending leaves the withdrawable part alone.                     *)
DebitUncapped(a, amt, type, ref) ==
    /\ CanDebit(a, amt)
    /\ balances' = [balances EXCEPT ![a] = @ - amt]
    /\ ledgerEntries' = Append(ledgerEntries, Row(a, type, -amt, balances[a] - amt, ref))
    /\ UNCHANGED withdrawable

(* Credits that cannot be withdrawn are spent first: the withdrawable part  *)
(* only shrinks when the balance falls below it.                            *)
Debit(a, amt, type, ref) ==
    LET after == balances[a] - amt
    IN  /\ CanDebit(a, amt)
        /\ balances' = [balances EXCEPT ![a] = after]
        /\ withdrawable' = [withdrawable EXCEPT ![a] = IF @ > after THEN after ELSE @]
        /\ ledgerEntries' = Append(ledgerEntries, Row(a, type, -amt, after, ref))

CanDebitWithdrawable(a, amt) == withdrawable[a] >= amt /\ balances[a] >= amt

DebitWithdrawable(a, amt, type, ref) ==
    LET after == balances[a] - amt
    IN  /\ CanDebitWithdrawable(a, amt)
        /\ balances' = [balances EXCEPT ![a] = after]
        /\ withdrawable' = [withdrawable EXCEPT ![a] = @ - amt]
        /\ ledgerEntries' = Append(ledgerEntries, Row(a, type, -amt, after, ref))

(* The in-memory store keeps only the newest `keep` audit rows.             *)
Prune(keep) ==
    /\ Len(ledgerEntries) > keep
    /\ ledgerEntries' = SubSeq(ledgerEntries, Len(ledgerEntries) - keep + 1, Len(ledgerEntries))
    /\ UNCHANGED <<balances, withdrawable>>

-----------------------------------------------------------------------------

LedgerTypeOK ==
    /\ balances \in [Accounts -> Int]
    /\ withdrawable \in [Accounts -> Int]
    /\ ledgerEntries \in Seq(LedgerEntry)

(* No account is overdrawn and nobody can withdraw more than they have:     *)
(* what Debit's cap, DebitWithdrawable's double check and the paired credit *)
(* of CreditWithdrawable add up to over any sequence of store calls.        *)
WithdrawableBacked ==
    \A a \in Accounts : 0 <= withdrawable[a] /\ withdrawable[a] <= balances[a]

SameAccount(i, j) == ledgerEntries[i].account = ledgerEntries[j].account

(* The audit rows of an account form a chain: each row's BalanceAfter is    *)
(* the previous row's plus its own amount, and the newest one is the        *)
(* account's balance.  Pruning the oldest rows keeps the chain.             *)
AuditTrail ==
    /\ \A j \in DOMAIN ledgerEntries : \A i \in 1..(j - 1) :
          (SameAccount(i, j) /\ \A k \in (i + 1)..(j - 1) : ~SameAccount(k, j))
             => ledgerEntries[j].after = ledgerEntries[i].after + ledgerEntries[j].amount
    /\ \A j \in DOMAIN ledgerEntries :
          (\A k \in (j + 1)..Len(ledgerEntries) : ~SameAccount(k, j))
             => ledgerEntries[j].after = balances[ledgerEntries[j].account]

=============================================================================
