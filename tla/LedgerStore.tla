---------------------------- MODULE LedgerStore ----------------------------
(***************************************************************************)
(* The store on its own: any caller, any sequence of its balance calls.    *)
(***************************************************************************)
EXTENDS Ledger

CONSTANTS
    Amounts,        \* micro-USD a call may move
    MaxEntries,     \* bound: no call while this many audit rows are kept
    MaxBalance,     \* bound: no credit of an account that already has this much
    PruneKeep       \* maxEntries argument of Prune

ASSUME AmountsAssumption == Amounts \subseteq Nat
ASSUME PruneKeepAssumption == PruneKeep \in Nat

Caller(a, amt, ref) ==
    /\ Len(ledgerEntries) < MaxEntries
    /\ \/ balances[a] < MaxBalance /\ Credit(a, amt, "deposit", ref)
       \/ balances[a] < MaxBalance /\ CreditWithdrawable(a, amt, "referral_reward", ref)
       \/ balances[a] < MaxBalance /\ CreditProvider(a, amt, ref)
       \/ Debit(a, amt, "charge", ref)
       \/ DebitWithdrawable(a, amt, "stripe_payout", ref)

StoreNext ==
    \/ \E a \in Accounts, amt \in Amounts, ref \in Refs : Caller(a, amt, ref)
    \/ Prune(PruneKeep)

StoreSpec == LedgerInit /\ [][StoreNext]_ledgerVars

=============================================================================
