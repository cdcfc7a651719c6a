---------------------------- MODULE MoneyProofs -----------------------------
(***************************************************************************)
(* The balance store and the withdrawals, for any accounts, amounts and    *)
(* numbers of calls, withdrawals, deliveries, failures and restarts.       *)
(***************************************************************************)
EXTENDS LedgerStore, Withdrawals, TLAPS

(* Appending a row that records the new balance of its account keeps the    *)
(* audit chain: creditLocked, Debit and DebitWithdrawable all write such a  *)
(* row (memory.go, the append at the end of each).                          *)
LEMMA AppendKeepsAuditTrail ==
    ASSUME LedgerTypeOK, AuditTrail,
           NEW a \in Accounts, NEW t \in LedgerEntryType, NEW d \in Int, NEW ref \in Refs,
           balances' = [balances EXCEPT ![a] = balances[a] + d],
           ledgerEntries' = Append(ledgerEntries, Row(a, t, d, balances[a] + d, ref))
    PROVE  AuditTrail'
<1>0. PICK n \in Nat : n = Len(ledgerEntries)
  BY DEF LedgerTypeOK
<1>1. /\ n \in Nat
      /\ Len(ledgerEntries') = n + 1
      /\ DOMAIN ledgerEntries = 1..n
      /\ DOMAIN ledgerEntries' = 1..(n + 1)
      /\ \A i \in 1..n : ledgerEntries'[i] = ledgerEntries[i]
      /\ ledgerEntries'[n + 1] = Row(a, t, d, balances[a] + d, ref)
  BY <1>0 DEF LedgerTypeOK, LedgerEntry, Row
<1>2. \A i \in 1..n : ledgerEntries[i] \in LedgerEntry
  BY <1>1 DEF LedgerTypeOK
<1>3. \A i, j \in 1..n : SameAccount(i, j)' <=> SameAccount(i, j)
  BY <1>1, Zenon DEF SameAccount
<1>4. \A i \in 1..n : SameAccount(i, n + 1)' <=> ledgerEntries[i].account = a
  BY <1>1 DEF SameAccount, Row
<1>5. \A i \in 1..n : SameAccount(n + 1, i)' <=> ledgerEntries[i].account = a
  BY <1>1 DEF SameAccount, Row
<1>6. ASSUME NEW j \in DOMAIN ledgerEntries', NEW i \in 1..(j - 1),
             SameAccount(i, j)', \A k \in (i + 1)..(j - 1) : ~SameAccount(k, j)'
      PROVE  ledgerEntries'[j].after = ledgerEntries'[i].after + ledgerEntries'[j].amount
  <2>1. CASE j \in 1..n
    <3>1. i \in 1..n /\ \A k \in (i + 1)..(j - 1) : k \in 1..n
      BY <2>1, <1>1
    <3>2. SameAccount(i, j) /\ \A k \in (i + 1)..(j - 1) : ~SameAccount(k, j)
      BY <2>1, <3>1, <1>3, <1>6, Zenon
    <3>. QED  BY <2>1, <3>1, <3>2, <1>1, Zenon DEF AuditTrail
  <2>2. CASE j = n + 1
    <3>1. i \in 1..n /\ \A k \in (i + 1)..n : k \in 1..n
      BY <2>2, <1>1
    <3>2. ledgerEntries[i].account = a
      BY <2>2, <3>1, <1>4, <1>6, Zenon
    <3>3. \A k \in (i + 1)..n : ledgerEntries[k].account # a
      BY <2>2, <3>1, <1>4, <1>6, <1>1
    <3>4. ledgerEntries[i].after = balances[a]
      BY <3>1, <3>2, <3>3, <1>1 DEF AuditTrail, SameAccount
    <3>. QED  BY <2>2, <3>1, <3>4, <1>1 DEF Row
  <2>. QED  BY <2>1, <2>2, <1>1
<1>7. ASSUME NEW j \in DOMAIN ledgerEntries',
             \A k \in (j + 1)..Len(ledgerEntries') : ~SameAccount(k, j)'
      PROVE  ledgerEntries'[j].after = balances'[ledgerEntries'[j].account]
  <2>1. CASE j \in 1..n
    <3>1. ledgerEntries[j].account # a
      BY <2>1, <1>1, <1>5, <1>7
    <3>2. \A k \in (j + 1)..n : ~SameAccount(k, j)
      BY <2>1, <1>1, <1>3, <1>7
    <3>3. ledgerEntries[j].after = balances[ledgerEntries[j].account]
      BY <2>1, <3>2, <1>1 DEF AuditTrail
    <3>. QED  BY <2>1, <3>1, <3>3, <1>1, <1>2, Zenon DEF LedgerTypeOK, LedgerEntry
  <2>2. CASE j = n + 1
    BY <2>2, <1>1 DEF Row, LedgerTypeOK
  <2>. QED  BY <2>1, <2>2, <1>1
<1>. QED  BY <1>6, <1>7, Zenon DEF AuditTrail

(* Dropping the oldest rows keeps the audit chain (memory.go, Prune).       *)
LEMMA PruneKeepsAuditTrail ==
    ASSUME LedgerTypeOK, AuditTrail, Prune(PruneKeep)
    PROVE  AuditTrail'
<1>0. PICK n \in Nat, s \in Nat : n = Len(ledgerEntries) /\ s = n - PruneKeep
  BY PruneKeepAssumption DEF Prune, LedgerTypeOK
<1>1. /\ n = s + PruneKeep
      /\ DOMAIN ledgerEntries = 1..n
      /\ Len(ledgerEntries') = PruneKeep
      /\ DOMAIN ledgerEntries' = 1..PruneKeep
      /\ \A i \in 1..PruneKeep : ledgerEntries'[i] = ledgerEntries[s + i]
  BY <1>0, PruneKeepAssumption DEF Prune, LedgerTypeOK
<1>2. \A i, j \in 1..PruneKeep : SameAccount(i, j)' <=> SameAccount(s + i, s + j)
  BY <1>1, Zenon DEF SameAccount
<1>3. ASSUME NEW j \in DOMAIN ledgerEntries', NEW i \in 1..(j - 1),
             SameAccount(i, j)', \A k \in (i + 1)..(j - 1) : ~SameAccount(k, j)'
      PROVE  ledgerEntries'[j].after = ledgerEntries'[i].after + ledgerEntries'[j].amount
  <2>1. j \in 1..PruneKeep /\ i \in 1..PruneKeep /\ s + j \in 1..n /\ s + i \in 1..((s + j) - 1)
    BY <1>1, PruneKeepAssumption
  <2>2. SameAccount(s + i, s + j)
    BY <1>2, <1>3, <2>1, Zenon
  <2>3. ASSUME NEW k \in (s + i + 1)..((s + j) - 1) PROVE ~SameAccount(k, s + j)
    <3>1. k - s \in (i + 1)..(j - 1) /\ k - s \in 1..PruneKeep /\ s + (k - s) = k
      BY <2>1, PruneKeepAssumption, SMTT(30)
    <3>. QED  BY <3>1, <2>1, <1>2, <1>3, Zenon
  <2>4. ledgerEntries[s + j].after = ledgerEntries[s + i].after + ledgerEntries[s + j].amount
    <3>1. \A b \in DOMAIN ledgerEntries : \A a \in 1..(b - 1) :
             (SameAccount(a, b) /\ \A k \in (a + 1)..(b - 1) : ~SameAccount(k, b))
                => ledgerEntries[b].after = ledgerEntries[a].after + ledgerEntries[b].amount
      BY Zenon DEF AuditTrail
    <3>2. s + j \in DOMAIN ledgerEntries
      BY <2>1, <1>1, Zenon
    <3>3. \A a \in 1..((s + j) - 1) :
             (SameAccount(a, s + j) /\ \A k \in (a + 1)..((s + j) - 1) : ~SameAccount(k, s + j))
                => ledgerEntries[s + j].after = ledgerEntries[a].after + ledgerEntries[s + j].amount
      BY <3>1, <3>2, Zenon
    <3>4. \A k \in (s + i + 1)..((s + j) - 1) : ~SameAccount(k, s + j)
      BY <2>3, Zenon
    <3>. QED  BY <2>1, <2>2, <3>3, <3>4, Zenon
  <2>. QED  BY <2>1, <2>4, <1>1, Zenon
<1>4. ASSUME NEW j \in DOMAIN ledgerEntries',
             \A k \in (j + 1)..Len(ledgerEntries') : ~SameAccount(k, j)'
      PROVE  ledgerEntries'[j].after = balances'[ledgerEntries'[j].account]
  <2>1. j \in 1..PruneKeep /\ s + j \in 1..n
    BY <1>1, PruneKeepAssumption
  <2>2. ASSUME NEW k \in (s + j + 1)..n PROVE ~SameAccount(k, s + j)
    <3>1. k - s \in (j + 1)..PruneKeep /\ k - s \in 1..PruneKeep /\ s + (k - s) = k
      BY <2>1, <1>1, PruneKeepAssumption
    <3>. QED  BY <3>1, <2>1, <1>1, <1>2, <1>4, Zenon
  <2>3. balances' = balances
    BY Zenon DEF Prune
  <2>4. PICK J : J = s + j
    BY Zenon
  <2>5. J \in DOMAIN ledgerEntries /\ \A k \in (J + 1)..Len(ledgerEntries) : ~SameAccount(k, J)
    BY <2>1, <2>2, <2>4, <1>0, <1>1, Zenon
  <2>6. ledgerEntries[J].after = balances[ledgerEntries[J].account]
    BY <2>5, Zenon DEF AuditTrail
  <2>. QED  BY <2>1, <2>3, <2>4, <2>6, <1>1, Zenon
<1>. QED  BY <1>3, <1>4, Zenon DEF AuditTrail

-----------------------------------------------------------------------------

LedgerInv == LedgerTypeOK /\ WithdrawableBacked /\ AuditTrail

(* A credit keeps the three invariants together, whatever part of it is     *)
(* withdrawable: the chain needs the types, the backing a non-negative      *)
(* amount.                                                                  *)
LEMMA CreditKeepsLedgerInv ==
    ASSUME LedgerInv, NEW a \in Accounts, NEW amt \in Nat, NEW ref \in Refs,
           NEW t \in LedgerEntryType, NEW w \in Int,
           creditLocked(a, amt, t, ref),
           withdrawable' = [withdrawable EXCEPT ![a] = w],
           0 <= w, w <= balances[a] + amt
    PROVE  LedgerInv'
<1>0. balances[a] \in Int /\ withdrawable[a] \in Int
  BY Zenon DEF LedgerInv, LedgerTypeOK
<1>1. LedgerTypeOK'
  BY <1>0 DEF LedgerInv, LedgerTypeOK, LedgerEntry, creditLocked, Row
<1>2. WithdrawableBacked'
  BY <1>0, Zenon DEF LedgerInv, LedgerTypeOK, WithdrawableBacked, creditLocked
<1>3. /\ balances' = [balances EXCEPT ![a] = balances[a] + amt]
      /\ ledgerEntries' = Append(ledgerEntries, Row(a, t, amt, balances[a] + amt, ref))
      /\ LedgerTypeOK /\ AuditTrail /\ amt \in Int
  BY DEF LedgerInv, creditLocked
<1>4. AuditTrail'
  BY <1>3, AppendKeepsAuditTrail, Zenon
<1>. QED  BY <1>1, <1>2, <1>4, Zenon DEF LedgerInv

(* So does a debit that the balance covers.                                 *)
LEMMA DebitKeepsLedgerInv ==
    ASSUME LedgerInv, NEW a \in Accounts, NEW amt \in Nat, NEW ref \in Refs,
           NEW t \in LedgerEntryType, NEW w \in Int, balances[a] >= amt,
           balances' = [balances EXCEPT ![a] = balances[a] - amt],
           ledgerEntries' = Append(ledgerEntries, Row(a, t, -amt, balances[a] - amt, ref)),
           withdrawable' = [withdrawable EXCEPT ![a] = w],
           0 <= w, w <= balances[a] - amt
    PROVE  LedgerInv'
<1>0. /\ balances[a] \in Int /\ withdrawable[a] \in Int
      /\ -amt \in Int /\ balances[a] - amt = balances[a] + (-amt)
  BY DEF LedgerInv, LedgerTypeOK
<1>1. LedgerTypeOK'
  BY <1>0 DEF LedgerInv, LedgerTypeOK, LedgerEntry, Row
<1>2. WithdrawableBacked'
  BY <1>0, Zenon DEF LedgerInv, LedgerTypeOK, WithdrawableBacked
<1>3. AuditTrail'
  BY <1>0, AppendKeepsAuditTrail, Zenon DEF LedgerInv
<1>. QED  BY <1>1, <1>2, <1>3, Zenon DEF LedgerInv

(* The calls the payment code makes, each from its checks.                  *)
LEMMA CallsKeepLedgerInv ==
    ASSUME LedgerInv, NEW a \in Accounts, NEW amt \in Nat, NEW ref \in Refs,
           NEW t \in LedgerEntryType,
           \/ Credit(a, amt, t, ref) \/ CreditWithdrawable(a, amt, t, ref)
           \/ Debit(a, amt, t, ref) \/ DebitWithdrawable(a, amt, t, ref)
    PROVE  LedgerInv'
<1>0. /\ balances[a] \in Int /\ withdrawable[a] \in Int
      /\ 0 <= withdrawable[a] /\ withdrawable[a] <= balances[a]
  BY Zenon DEF LedgerInv, LedgerTypeOK, WithdrawableBacked
<1>1. CASE Credit(a, amt, t, ref)
  <2>1. withdrawable' = [withdrawable EXCEPT ![a] = withdrawable[a]]
    BY <1>1, Zenon DEF Credit, LedgerInv, LedgerTypeOK
  <2>2. creditLocked(a, amt, t, ref) /\ withdrawable[a] <= balances[a] + amt
    BY <1>0, <1>1 DEF Credit
  <2>. QED  BY <2>1, <2>2, <1>0, CreditKeepsLedgerInv, Zenon
<1>2. CASE CreditWithdrawable(a, amt, t, ref)
  <2>1. withdrawable[a] + amt \in Int /\ 0 <= withdrawable[a] + amt
        /\ withdrawable[a] + amt <= balances[a] + amt
    BY <1>0
  <2>2. creditLocked(a, amt, t, ref)
        /\ withdrawable' = [withdrawable EXCEPT ![a] = withdrawable[a] + amt]
    BY <1>2, Zenon DEF CreditWithdrawable
  <2>. QED  BY <2>1, <2>2, CreditKeepsLedgerInv, Zenon
<1>3. CASE Debit(a, amt, t, ref)
  <2> DEFINE w == IF withdrawable[a] > balances[a] - amt THEN balances[a] - amt ELSE withdrawable[a]
  <2>1. w \in Int /\ 0 <= w /\ w <= balances[a] - amt /\ balances[a] >= amt
    BY <1>0, <1>3 DEF Debit, CanDebit
  <2>2. /\ balances' = [balances EXCEPT ![a] = balances[a] - amt]
        /\ withdrawable' = [withdrawable EXCEPT ![a] = w]
        /\ ledgerEntries' = Append(ledgerEntries, Row(a, t, -amt, balances[a] - amt, ref))
    BY <1>3, Zenon DEF Debit
  <2> HIDE DEF w
  <2>. QED  BY <2>1, <2>2, DebitKeepsLedgerInv, Zenon
<1>4. CASE DebitWithdrawable(a, amt, t, ref)
  <2>1. withdrawable[a] - amt \in Int /\ 0 <= withdrawable[a] - amt
        /\ withdrawable[a] - amt <= balances[a] - amt /\ balances[a] >= amt
    BY <1>0, <1>4 DEF DebitWithdrawable, CanDebitWithdrawable
  <2>2. /\ balances' = [balances EXCEPT ![a] = balances[a] - amt]
        /\ withdrawable' = [withdrawable EXCEPT ![a] = withdrawable[a] - amt]
        /\ ledgerEntries' = Append(ledgerEntries, Row(a, t, -amt, balances[a] - amt, ref))
    BY <1>4, Zenon DEF DebitWithdrawable
  <2>. QED  BY <2>1, <2>2, DebitKeepsLedgerInv, Zenon
<1>. QED  BY <1>1, <1>2, <1>3, <1>4, Zenon

LEMMA CallerKeepsLedgerInv ==
    ASSUME LedgerInv, NEW a \in Accounts, NEW amt \in Amounts, NEW ref \in Refs,
           Caller(a, amt, ref)
    PROVE  LedgerInv'
<1>1. amt \in Nat
  BY AmountsAssumption, Zenon
<1>2. {"deposit", "referral_reward", "payout", "charge", "stripe_payout"} \subseteq LedgerEntryType
  BY Zenon DEF LedgerEntryType
<1>. QED  BY <1>1, <1>2, CallsKeepLedgerInv, Zenon DEF Caller, CreditProvider

(* For any accounts, amounts and sequence of store calls: the types hold,   *)
(* nobody is overdrawn or can withdraw more than their balance, and the     *)
(* audit rows chain up to the balances (memory.go, Credit to Debit, Prune). *)
THEOREM LedgerCorrect == StoreSpec => [](LedgerTypeOK /\ WithdrawableBacked /\ AuditTrail)
<1>1. LedgerInit => LedgerInv
  BY DEF LedgerInit, LedgerInv, LedgerTypeOK, WithdrawableBacked, AuditTrail
<1>2. LedgerInv /\ [StoreNext]_ledgerVars => LedgerInv'
  <2> SUFFICES ASSUME LedgerInv, [StoreNext]_ledgerVars PROVE LedgerInv'
    BY Zenon
  <2>1. CASE \E a \in Accounts, amt \in Amounts, ref \in Refs : Caller(a, amt, ref)
    BY <2>1, CallerKeepsLedgerInv, Zenon
  <2>2. CASE Prune(PruneKeep)
    <3>1. LedgerTypeOK'
      BY <2>2, PruneKeepAssumption DEF LedgerInv, LedgerTypeOK, Prune
    <3>2. WithdrawableBacked'
      BY <2>2, Zenon DEF LedgerInv, WithdrawableBacked, Prune
    <3>3. AuditTrail'
      BY <2>2, PruneKeepsAuditTrail, Zenon DEF LedgerInv
    <3>. QED  BY <3>1, <3>2, <3>3, Zenon DEF LedgerInv
  <2>3. CASE UNCHANGED ledgerVars
    BY <2>3, ZenonT(40) DEF ledgerVars, LedgerInv, LedgerTypeOK, WithdrawableBacked, AuditTrail, SameAccount
  <2>. QED  BY <2>1, <2>2, <2>3, Zenon DEF StoreNext
<1>3. LedgerInv => LedgerTypeOK /\ WithdrawableBacked /\ AuditTrail
  BY Zenon DEF LedgerInv
<1>. QED  BY <1>1, <1>2, <1>3, PTL DEF StoreSpec

(* The withdrawable part of a balance is covered by the balance, after any  *)
(* sequence of credits, charges, withdrawals and prunings.                  *)
COROLLARY BalancesBacked == StoreSpec => []WithdrawableBacked
BY LedgerCorrect, PTL

-----------------------------------------------------------------------------
(* Withdrawals                                                             *)

Debited(w) == EntriesOf(w, "stripe_payout") # {}
Refunded(w) == EntriesOf(w, "refund") # {}

Cause(w) ==
    stripe[w].transfer \in {"none", "reversed"} \/ stripe[w].payout = "failed" \/ lost > 0

HandlerPlaces ==
    {"debit", "create", "refundNoRow", "transfer", "refund",
     "saveFailed", "saveTransfer", "payout", "savePayout", "done"}

AtStripe == [transfer: {"none", "made", "reversed"}, payout: {"none", "made", "paid", "failed"}]

(* What the place of the handler says of ledger, row and Stripe: the debit *)
(* comes first, then the row, then the transfer and the payout.            *)
HandlerInv(w) ==
    /\ hpc[w] \notin {"debit", "done"} => Debited(w)
    /\ hpc[w] \notin {"debit", "create", "refundNoRow", "done"} => rows[w] # NoRow
    /\ hpc[w] \in {"debit", "create", "refundNoRow", "transfer"} =>
          stripe[w].transfer = "none" /\ stripe[w].payout = "none" /\ ~Refunded(w)
    /\ hpc[w] \in {"saveTransfer", "payout"} => stripe[w].payout = "none" /\ wd[w].tid
    /\ hpc[w] = "refund" => stripe[w].transfer = "none" \/ lost > 0

(* What the row and the handler's copy of it say is true, and a copy knows *)
(* the transfer if the row does.                                           *)
RowInv(w) ==
    /\ stripe[w].transfer # "none" => Debited(w) /\ rows[w] # NoRow
    /\ Refunded(w) => Cause(w)
    /\ wd[w].refunded => Refunded(w)
    /\ wd[w].pid => wd[w].tid
    /\ rows[w] # NoRow => /\ rows[w].refunded => Refunded(w)
                          /\ rows[w].tid => wd[w].tid
                          /\ rows[w].pid => rows[w].tid

(* Stripe announces what happened, and what it announces is final.         *)
EventInv(w) ==
    /\ <<w, "payout.failed">> \in events => stripe[w].payout = "failed"
    /\ <<w, "transfer.reversed">> \in events => stripe[w].transfer = "reversed"

(* The copy a webhook request works on is as truthful, and knows the       *)
(* transfer.                                                               *)
WebhookInv(d) ==
    wh[d] # Idle =>
        /\ <<wh[d].w, wh[d].kind>> \in events
        /\ wh[d].pc = "refund" => wh[d].kind \in {"payout.failed", "transfer.reversed"}
        /\ wh[d].wd.refunded => Refunded(wh[d].w)
        /\ wh[d].wd.tid /\ wd[wh[d].w].tid

WithdrawalInv ==
    /\ TypeOK /\ LedgerInv
    /\ \A w \in Withdrawals : HandlerInv(w) /\ RowInv(w) /\ EventInv(w)
    /\ \A d \in Deliveries : WebhookInv(d)

(* Appending an audit row adds an entry for its reference and type, and    *)
(* for no other.                                                           *)
LEMMA EntriesAfter ==
    ASSUME LedgerTypeOK, NEW a \in Accounts, NEW t, NEW amt, NEW after, NEW ref,
           ledgerEntries' = Append(ledgerEntries, Row(a, t, amt, after, ref)),
           NEW v, NEW u
    PROVE  EntriesOf(v, u)' # {} <=> (EntriesOf(v, u) # {} \/ (v = ref /\ u = t))
<1>0. PICK n \in Nat : n = Len(ledgerEntries)
  BY DEF LedgerTypeOK
<1>1. /\ DOMAIN ledgerEntries = 1..n /\ DOMAIN ledgerEntries' = 1..(n + 1)
      /\ \A i \in 1..n : ledgerEntries'[i] = ledgerEntries[i]
      /\ ledgerEntries'[n + 1] = Row(a, t, amt, after, ref)
  BY <1>0 DEF LedgerTypeOK
<1>2. Row(a, t, amt, after, ref).ref = ref /\ Row(a, t, amt, after, ref).type = t
  BY Zenon DEF Row
<1>3. n + 1 \in 1..(n + 1) /\ \A i \in 1..(n + 1) : i \in 1..n \/ i = n + 1
  OBVIOUS
<1>4. \A i \in 1..n : i \in 1..(n + 1)
  OBVIOUS
<1> QED
  BY <1>1, <1>2, <1>3, <1>4, ZenonT(40) DEF EntriesOf

(* What the refund and the debit of a withdrawal do to the ledger.         *)
LEMMA RefundCall ==
    ASSUME TypeOK, LedgerInv, NEW w \in Withdrawals,
           CreditWithdrawable(Account, Gross, "refund", w)
    PROVE  /\ LedgerInv' /\ Refunded(w)'
           /\ \A v \in Withdrawals : /\ Debited(v)' <=> Debited(v)
                                     /\ v # w => (Refunded(v)' <=> Refunded(v))
<1>1. w \in Refs /\ Account \in Accounts /\ Gross \in Nat /\ "refund" \in LedgerEntryType
  BY WithdrawalsAssumption, Zenon DEF LedgerEntryType
<1>2. LedgerInv'
  BY <1>1, CallsKeepLedgerInv, Zenon
<1>3. PICK after : ledgerEntries' = Append(ledgerEntries, Row(Account, "refund", Gross, after, w))
  BY Zenon DEF CreditWithdrawable, creditLocked
<1>4. ASSUME NEW v \in Withdrawals
      PROVE  (Debited(v)' <=> Debited(v)) /\ (Refunded(v)' <=> Refunded(v) \/ v = w)
  <2>1. EntriesOf(v, "refund")' # {} <=> (EntriesOf(v, "refund") # {} \/ (v = w /\ "refund" = "refund"))
    BY <1>1, <1>3, EntriesAfter, Zenon DEF LedgerInv
  <2>2. EntriesOf(v, "stripe_payout")' # {} <=>
           (EntriesOf(v, "stripe_payout") # {} \/ (v = w /\ "stripe_payout" = "refund"))
    BY <1>1, <1>3, EntriesAfter DEF LedgerInv
  <2> QED
    BY <2>1, <2>2, Zenon DEF Debited, Refunded
<1> QED
  BY <1>2, <1>4, Zenon

LEMMA DebitCall ==
    ASSUME TypeOK, LedgerInv, NEW w \in Withdrawals,
           DebitWithdrawable(Account, Gross, "stripe_payout", w)
    PROVE  /\ LedgerInv' /\ Debited(w)'
           /\ \A v \in Withdrawals : /\ Refunded(v)' <=> Refunded(v)
                                     /\ v # w => (Debited(v)' <=> Debited(v))
<1>1. w \in Refs /\ Account \in Accounts /\ Gross \in Nat /\ "stripe_payout" \in LedgerEntryType
  BY WithdrawalsAssumption, Zenon DEF LedgerEntryType
<1>2. LedgerInv'
  BY <1>1, CallsKeepLedgerInv, Zenon
<1>3. PICK after : ledgerEntries' = Append(ledgerEntries, Row(Account, "stripe_payout", -Gross, after, w))
  BY Zenon DEF DebitWithdrawable
<1>4. ASSUME NEW v \in Withdrawals
      PROVE  (Refunded(v)' <=> Refunded(v)) /\ (Debited(v)' <=> Debited(v) \/ v = w)
  <2>1. EntriesOf(v, "refund")' # {} <=> (EntriesOf(v, "refund") # {} \/ (v = w /\ "refund" = "stripe_payout"))
    BY <1>1, <1>3, EntriesAfter DEF LedgerInv
  <2>2. EntriesOf(v, "stripe_payout")' # {} <=>
           (EntriesOf(v, "stripe_payout") # {} \/ (v = w /\ "stripe_payout" = "stripe_payout"))
    BY <1>1, <1>3, EntriesAfter, Zenon DEF LedgerInv
  <2> QED
    BY <2>1, <2>2, Zenon DEF Debited, Refunded
<1> QED
  BY <1>2, <1>4, Zenon

LEMMA NoCall ==
    ASSUME LedgerInv, UNCHANGED ledgerVars
    PROVE  /\ LedgerInv'
           /\ \A v \in Withdrawals : (Refunded(v)' <=> Refunded(v)) /\ (Debited(v)' <=> Debited(v))
<1>1. balances' = balances /\ withdrawable' = withdrawable /\ ledgerEntries' = ledgerEntries
  BY Zenon DEF ledgerVars
<1>2. LedgerInv'
  BY <1>1, ZenonT(40) DEF LedgerInv, LedgerTypeOK, WithdrawableBacked, AuditTrail, SameAccount
<1> QED
  BY <1>1, <1>2, Zenon DEF Refunded, Debited, EntriesOf

(* A withdrawal that a step leaves alone, and a webhook request that it    *)
(* leaves alone while refunds and transfer ids are only added.             *)
LEMMA SameWithdrawal ==
    ASSUME WithdrawalInv, NEW v \in Withdrawals,
           hpc'[v] = hpc[v], wd'[v] = wd[v], rows'[v] = rows[v], stripe'[v] = stripe[v],
           Debited(v)' <=> Debited(v), Refunded(v)' <=> Refunded(v), lost > 0 => lost' > 0
    PROVE  HandlerInv(v)' /\ RowInv(v)'
<1>1. HandlerInv(v) /\ RowInv(v)
  BY Zenon DEF WithdrawalInv
<1>2. HandlerInv(v)'
  BY <1>1, Zenon DEF HandlerInv
<1> QED
  BY <1>1, <1>2, Zenon DEF RowInv, Cause

LEMMA SameWebhook ==
    ASSUME WithdrawalInv, NEW d \in Deliveries, wh'[d] = wh[d], events \subseteq events',
           \A v \in Withdrawals : (Refunded(v) => Refunded(v)') /\ (wd[v].tid => wd'[v].tid)
    PROVE  WebhookInv(d)'
<1>1. WebhookInv(d) /\ (wh[d] # Idle => wh[d].w \in Withdrawals)
  BY Zenon DEF WithdrawalInv, TypeOK
<1>2. CASE wh[d] = Idle
  BY <1>2, Zenon DEF WebhookInv, Idle
<1>3. CASE wh[d] # Idle
  <2>1. PICK x \in Withdrawals : x = wh[d].w
    BY <1>1, <1>3, Zenon
  <2>2. /\ <<x, wh[d].kind>> \in events' /\ wh[d].wd.tid /\ wd'[x].tid
        /\ wh[d].pc = "refund" => wh[d].kind \in {"payout.failed", "transfer.reversed"}
        /\ wh[d].wd.refunded => Refunded(x)'
    BY <1>1, <1>3, <2>1, Zenon DEF WebhookInv
  <2>3. wh'[d].w = x
    BY <2>1, Zenon
  <2> QED
    BY <2>2, <2>3, Zenon DEF WebhookInv
<1> QED
  BY <1>2, <1>3, Zenon

(* What is left to show of a step of a handler.                            *)
LEMMA HandlerFrame ==
    ASSUME WithdrawalInv, NEW w \in Withdrawals, TypeOK', LedgerInv',
           \A v \in Withdrawals \ {w} :
               /\ hpc'[v] = hpc[v] /\ wd'[v] = wd[v] /\ rows'[v] = rows[v] /\ stripe'[v] = stripe[v]
               /\ (Debited(v)' <=> Debited(v)) /\ (Refunded(v)' <=> Refunded(v)),
           UNCHANGED <<events, wh>>, lost > 0 => lost' > 0,
           Refunded(w) => Refunded(w)', wd[w].tid => wd'[w].tid,
           HandlerInv(w)', RowInv(w)', EventInv(w)'
    PROVE  WithdrawalInv'
<1>1. ASSUME NEW v \in Withdrawals, v # w PROVE HandlerInv(v)' /\ RowInv(v)' /\ EventInv(v)'
  <2>1. HandlerInv(v)' /\ RowInv(v)'
    BY <1>1, SameWithdrawal, Zenon
  <2>2. EventInv(v)
    BY Zenon DEF WithdrawalInv
  <2> QED
    BY <1>1, <2>1, <2>2, Zenon DEF EventInv
<1>2. \A v \in Withdrawals : (Refunded(v) => Refunded(v)') /\ (wd[v].tid => wd'[v].tid)
  BY Zenon
<1>3. ASSUME NEW d \in Deliveries PROVE WebhookInv(d)'
  BY <1>2, SameWebhook, Zenon
<1> QED
  BY <1>1, <1>3, Zenon DEF WithdrawalInv

LEMMA WithdrawDebitStep ==
    ASSUME WithdrawalInv, NEW w \in Withdrawals, WithdrawDebit(w)
    PROVE  WithdrawalInv'
<1>0. TypeOK /\ LedgerInv /\ HandlerInv(w) /\ RowInv(w) /\ EventInv(w)
  BY Zenon DEF WithdrawalInv
<1>1. /\ hpc[w] = "debit" /\ UNCHANGED <<rows, wd, stripe, events, unacked, wh, dups, lost, crashes>>
      /\ \A v \in Withdrawals \ {w} : hpc'[v] = hpc[v]
      /\ faults' \in Nat
  BY <1>0 DEF WithdrawDebit, webhookVars, Goto, StoreOK, StoreFails, TypeOK
<1>2. /\ LedgerInv' /\ hpc'[w] \in {"create", "done"} /\ (hpc'[w] = "create" => Debited(w)')
      /\ \A v \in Withdrawals : Refunded(v)' <=> Refunded(v)
      /\ \A v \in Withdrawals \ {w} : Debited(v)' <=> Debited(v)
      /\ Debited(w) => Debited(w)'
  <2>1. CASE DebitWithdrawable(Account, Gross, "stripe_payout", w) /\ Goto(w, "create")
    <3>1. hpc'[w] = "create"
      BY <1>0, <2>1, Zenon DEF Goto, TypeOK
    <3> QED
      BY <1>0, <2>1, <3>1, DebitCall, Zenon
  <2>2. CASE UNCHANGED ledgerVars /\ Goto(w, "done")
    <3>1. hpc'[w] = "done"
      BY <1>0, <2>2, Zenon DEF Goto, TypeOK
    <3> QED
      BY <1>0, <2>2, <3>1, NoCall, Zenon
  <2> QED
    BY <2>1, <2>2, Zenon DEF WithdrawDebit
<1>3. TypeOK'
  <2>1. hpc' = [hpc EXCEPT ![w] = hpc'[w]]
    BY <1>0, Zenon DEF WithdrawDebit, Goto, TypeOK
  <2> QED
    BY <1>0, <1>1, <1>2, <2>1 DEF TypeOK, LedgerInv
<1>4. HandlerInv(w)' /\ EventInv(w)'
  BY <1>0, <1>1, <1>2, Zenon DEF HandlerInv, EventInv
<1>5. RowInv(w)'
  BY <1>0, <1>1, <1>2, Zenon DEF RowInv, Cause
<1> QED
  BY <1>1, <1>2, <1>3, <1>4, <1>5, HandlerFrame, Zenon

LEMMA CreateStep ==
    ASSUME WithdrawalInv, NEW w \in Withdrawals, CreateStripeWithdrawal(w)
    PROVE  WithdrawalInv'
<1>0. TypeOK /\ LedgerInv /\ HandlerInv(w) /\ RowInv(w) /\ EventInv(w)
  BY Zenon DEF WithdrawalInv
<1>1. /\ hpc[w] = "create" /\ UNCHANGED <<ledgerVars, wd, stripe, events, unacked, wh, dups, lost, crashes>>
      /\ \A v \in Withdrawals \ {w} : hpc'[v] = hpc[v] /\ rows'[v] = rows[v]
      /\ \/ hpc'[w] = "transfer" /\ rows'[w] = wd[w] /\ rows'[w] # NoRow
         \/ hpc'[w] = "refundNoRow" /\ rows'[w] = rows[w]
  BY <1>0, WithdrawalsAssumption
     DEF CreateStripeWithdrawal, webhookVars, Goto, TypeOK, StripeWithdrawal
<1>2. LedgerInv' /\ \A v \in Withdrawals : (Refunded(v)' <=> Refunded(v)) /\ (Debited(v)' <=> Debited(v))
  BY <1>0, <1>1, NoCall, Zenon
<1>3. TypeOK'
  <2>0. hpc \in [Withdrawals -> HandlerPlaces] /\ faults \in Nat
    BY <1>0, Zenon DEF TypeOK, HandlerPlaces
  <2>1. hpc' \in [Withdrawals -> HandlerPlaces] /\ faults' \in Nat
    BY <2>0 DEF CreateStripeWithdrawal, Goto, StoreOK, StoreFails, HandlerPlaces
  <2>2. rows' \in [Withdrawals -> StripeWithdrawal \cup {NoRow}]
    BY <1>0, Zenon DEF CreateStripeWithdrawal, TypeOK
  <2> QED
    BY <1>0, <1>1, <1>2, <2>1, <2>2, Zenon DEF TypeOK, LedgerInv, HandlerPlaces
<1>4. HandlerInv(w)' /\ EventInv(w)'
  BY <1>0, <1>1, <1>2, Zenon DEF HandlerInv, EventInv
<1>5. RowInv(w)'
  BY <1>0, <1>1, <1>2, Zenon DEF RowInv, Cause
<1> QED
  BY <1>1, <1>2, <1>3, <1>4, <1>5, HandlerFrame, Zenon

LEMMA RefundNoRowStep ==
    ASSUME WithdrawalInv, NEW w \in Withdrawals, RefundNoRow(w)
    PROVE  WithdrawalInv'
<1>0. TypeOK /\ LedgerInv /\ HandlerInv(w) /\ RowInv(w) /\ EventInv(w)
  BY Zenon DEF WithdrawalInv
<1>1. /\ hpc[w] = "refundNoRow" /\ UNCHANGED <<rows, wd, stripe, events, unacked, wh, dups, lost, crashes>>
      /\ hpc' = [hpc EXCEPT ![w] = "done"] /\ hpc'[w] = "done"
      /\ \A v \in Withdrawals \ {w} : hpc'[v] = hpc[v]
      /\ faults' \in Nat
  BY <1>0 DEF RefundNoRow, webhookVars, Goto, StoreOK, StoreFails, TypeOK
<1>2. /\ LedgerInv' /\ (Refunded(w) => Refunded(w)')
      /\ \A v \in Withdrawals : Debited(v)' <=> Debited(v)
      /\ \A v \in Withdrawals \ {w} : Refunded(v)' <=> Refunded(v)
  BY <1>0, RefundCall, NoCall, Zenon DEF RefundNoRow
<1>3. TypeOK'
  BY <1>0, <1>1, <1>2, Zenon DEF TypeOK, LedgerInv
<1>4. HandlerInv(w)' /\ EventInv(w)'
  BY <1>0, <1>1, <1>2, Zenon DEF HandlerInv, EventInv
<1>5. RowInv(w)'
  BY <1>0, <1>1, <1>2, Zenon DEF RowInv, Cause, HandlerInv
<1> QED
  BY <1>1, <1>2, <1>3, <1>4, <1>5, HandlerFrame, Zenon

LEMMA CreateTransferStep ==
    ASSUME WithdrawalInv, NEW w \in Withdrawals, CreateTransfer(w)
    PROVE  WithdrawalInv'
<1>0. TypeOK /\ LedgerInv /\ HandlerInv(w) /\ RowInv(w) /\ EventInv(w)
  BY Zenon DEF WithdrawalInv
<1>a. PICK x \in {"saveTransfer", "refund"} : hpc' = [hpc EXCEPT ![w] = x]
  BY Zenon DEF CreateTransfer, Goto
<1>b. /\ hpc \in [Withdrawals -> HandlerPlaces] /\ wd \in [Withdrawals -> StripeWithdrawal]
      /\ stripe \in [Withdrawals -> AtStripe] /\ lost \in Nat
  BY <1>0, Zenon DEF TypeOK, HandlerPlaces, AtStripe
<1>c. lost' \in Nat /\ (lost > 0 => lost' > 0) /\ (lost' = lost \/ lost' > 0)
  <2>1. lost' = lost \/ lost' = lost + 1
    BY Zenon DEF CreateTransfer
  <2> QED
    BY <1>b, <2>1
<1>1. /\ hpc[w] = "transfer" /\ UNCHANGED <<ledgerVars, rows, events, wh>>
      /\ \A v \in Withdrawals \ {w} : hpc'[v] = hpc[v] /\ stripe'[v] = stripe[v] /\ wd'[v] = wd[v]
      /\ lost > 0 => lost' > 0
  BY <1>a, <1>b, <1>c, ZenonT(40) DEF CreateTransfer, webhookVars
<1>2. /\ stripe'[w].payout = stripe[w].payout
      /\ wd'[w].refunded = wd[w].refunded /\ wd'[w].pid = wd[w].pid /\ (wd[w].tid => wd'[w].tid)
      /\ \/ hpc'[w] = "saveTransfer" /\ stripe'[w].transfer = "made" /\ wd'[w].tid
         \/ hpc'[w] = "refund" /\ (stripe'[w].transfer = stripe[w].transfer \/ lost' > 0)
  BY <1>0, SMTT(30) DEF CreateTransfer, Goto, TypeOK, StripeWithdrawal
<1>4. LedgerInv' /\ \A v \in Withdrawals : (Refunded(v)' <=> Refunded(v)) /\ (Debited(v)' <=> Debited(v))
  BY <1>0, <1>1, NoCall, Zenon
<1>3. TypeOK'
  <2>1. hpc' \in [Withdrawals -> HandlerPlaces]
    BY <1>a, <1>b, Zenon DEF HandlerPlaces
  <2>2. UNCHANGED <<unacked, dups, faults, crashes>> /\ lost' \in Nat
    BY <1>c, Zenon DEF CreateTransfer, webhookVars
  <2>3. wd' \in [Withdrawals -> StripeWithdrawal]
    <3>1. wd \in [Withdrawals -> StripeWithdrawal] /\ wd[w] \in StripeWithdrawal
      BY <1>0, Zenon DEF TypeOK
    <3>2. [wd[w] EXCEPT !.tid = TRUE, !.status = "transferred"] \in StripeWithdrawal
      BY <3>1, Zenon DEF StripeWithdrawal
    <3>3. \/ wd' = wd
          \/ wd' = [wd EXCEPT ![w] = [wd[w] EXCEPT !.tid = TRUE, !.status = "transferred"]]
      BY Zenon DEF CreateTransfer
    <3> QED
      BY <3>1, <3>2, <3>3, Zenon
  <2>4. stripe' \in [Withdrawals -> AtStripe]
    BY <1>0 DEF CreateTransfer, TypeOK, AtStripe
  <2> QED
    BY <1>0, <1>1, <1>4, <2>1, <2>2, <2>3, <2>4, Zenon DEF TypeOK, LedgerInv, HandlerPlaces, AtStripe
<1>5. HandlerInv(w)' /\ EventInv(w)'
  BY <1>0, <1>1, <1>2, <1>4, Zenon DEF HandlerInv, EventInv
<1>6. RowInv(w)'
  BY <1>0, <1>1, <1>2, <1>4, Zenon DEF RowInv, Cause, HandlerInv
<1> QED
  BY <1>1, <1>2, <1>3, <1>4, <1>5, <1>6, HandlerFrame, Zenon

LEMMA MarkFailedStep ==
    ASSUME WithdrawalInv, NEW w \in Withdrawals, MarkFailedRefund(w)
    PROVE  WithdrawalInv'
<1>0. TypeOK /\ LedgerInv /\ HandlerInv(w) /\ RowInv(w) /\ EventInv(w)
  BY Zenon DEF WithdrawalInv
<1>1. /\ hpc[w] = "refund" /\ UNCHANGED <<rows, stripe, events, unacked, wh, dups, lost, crashes>>
      /\ hpc' = [hpc EXCEPT ![w] = "saveFailed"] /\ hpc'[w] = "saveFailed"
      /\ \A v \in Withdrawals \ {w} : hpc'[v] = hpc[v]
      /\ faults' \in Nat
  BY <1>0 DEF MarkFailedRefund, webhookVars, Goto, StoreOK, StoreFails, TypeOK
<1>2. \E flag \in {wd[w].refunded, TRUE} :
         /\ wd' = [wd EXCEPT ![w] = [wd[w] EXCEPT !.refunded = flag, !.status = "failed"]]
         /\ \/ CreditWithdrawable(Account, Gross, "refund", w)
            \/ flag = wd[w].refunded /\ UNCHANGED ledgerVars
  <2>1. wd[w] \in StripeWithdrawal
    BY <1>0, Zenon DEF TypeOK
  <2>2. [wd[w] EXCEPT !.status = "failed"]
            = [wd[w] EXCEPT !.refunded = wd[w].refunded, !.status = "failed"]
    BY <2>1, Zenon DEF StripeWithdrawal
  <2> QED
    BY <2>2, ZenonT(40) DEF MarkFailedRefund
<1>3. /\ wd' \in [Withdrawals -> StripeWithdrawal]
      /\ wd'[w].tid = wd[w].tid /\ wd'[w].pid = wd[w].pid
      /\ \A v \in Withdrawals \ {w} : wd'[v] = wd[v]
      /\ \/ CreditWithdrawable(Account, Gross, "refund", w)
         \/ wd'[w].refunded = wd[w].refunded /\ UNCHANGED ledgerVars
  <2>1. wd \in [Withdrawals -> StripeWithdrawal] /\ wd[w].refunded \in BOOLEAN
    BY <1>0, Zenon DEF TypeOK, StripeWithdrawal
  <2>2. PICK flag \in BOOLEAN :
           /\ wd' = [wd EXCEPT ![w] = [wd[w] EXCEPT !.refunded = flag, !.status = "failed"]]
           /\ \/ CreditWithdrawable(Account, Gross, "refund", w)
              \/ flag = wd[w].refunded /\ UNCHANGED ledgerVars
    BY <1>2, <2>1, Zenon
  <2>3. PICK x : x = [wd[w] EXCEPT !.refunded = flag, !.status = "failed"]
    BY Zenon
  <2>4. x \in StripeWithdrawal /\ x.tid = wd[w].tid /\ x.pid = wd[w].pid /\ x.refunded = flag
    BY <2>1, <2>3, Zenon DEF StripeWithdrawal
  <2>5. wd' = [wd EXCEPT ![w] = x]
    BY <2>2, <2>3, Zenon
  <2> QED
    BY <2>1, <2>2, <2>4, <2>5, Zenon
<1>4. /\ LedgerInv' /\ (Refunded(w) => Refunded(w)') /\ (wd'[w].refunded => Refunded(w)')
      /\ \A v \in Withdrawals : Debited(v)' <=> Debited(v)
      /\ \A v \in Withdrawals \ {w} : Refunded(v)' <=> Refunded(v)
  BY <1>0, <1>3, RefundCall, NoCall, Zenon DEF RowInv
<1>5. TypeOK'
  <2>1. hpc' \in [Withdrawals -> HandlerPlaces]
    BY <1>0, <1>1, Zenon DEF TypeOK, HandlerPlaces
  <2> QED
    BY <1>0, <1>1, <1>3, <1>4, <2>1, Zenon DEF TypeOK, LedgerInv, HandlerPlaces
<1>6. HandlerInv(w)' /\ EventInv(w)'
  BY <1>0, <1>1, <1>3, <1>4, Zenon DEF HandlerInv, EventInv
<1>7. RowInv(w)'
  BY <1>0, <1>1, <1>3, <1>4, Zenon DEF RowInv, Cause, HandlerInv
<1> QED
  BY <1>1, <1>3, <1>4, <1>5, <1>6, <1>7, HandlerFrame, Zenon

LEMMA SaveStep ==
    ASSUME WithdrawalInv, NEW w \in Withdrawals,
           \/ Save(w, "saveFailed", "done") \/ Save(w, "saveTransfer", "payout")
           \/ Save(w, "savePayout", "done")
    PROVE  WithdrawalInv'
<1>0. TypeOK /\ LedgerInv /\ HandlerInv(w) /\ RowInv(w) /\ EventInv(w)
  BY Zenon DEF WithdrawalInv
<1>1. /\ UNCHANGED <<ledgerVars, wd, stripe, events, unacked, wh, dups, lost, crashes>>
      /\ \A v \in Withdrawals \ {w} : hpc'[v] = hpc[v] /\ rows'[v] = rows[v]
      /\ \/ hpc[w] \in {"saveFailed", "savePayout"} /\ hpc'[w] = "done"
         \/ hpc[w] = "saveTransfer" /\ hpc'[w] = "payout"
      /\ rows'[w] = wd[w] \/ rows'[w] = rows[w]
  <2>1. hpc \in [Withdrawals -> HandlerPlaces] /\ rows \in [Withdrawals -> StripeWithdrawal \cup {NoRow}]
    BY <1>0, Zenon DEF TypeOK, HandlerPlaces
  <2>2. ASSUME NEW pc, NEW next, Save(w, pc, next)
        PROVE  /\ UNCHANGED <<ledgerVars, wd, stripe, events, unacked, wh, dups, lost, crashes>>
               /\ hpc[w] = pc /\ hpc'[w] = next
               /\ \A v \in Withdrawals \ {w} : hpc'[v] = hpc[v] /\ rows'[v] = rows[v]
               /\ rows'[w] = wd[w] \/ rows'[w] = rows[w]
    BY <2>1, <2>2, Zenon DEF Save, webhookVars, Goto
  <2> QED
    BY <2>2, Zenon
<1>2. wd[w] # NoRow /\ rows' \in [Withdrawals -> StripeWithdrawal \cup {NoRow}]
  BY <1>0, WithdrawalsAssumption DEF Save, TypeOK, StripeWithdrawal
<1>3. LedgerInv' /\ \A v \in Withdrawals : (Refunded(v)' <=> Refunded(v)) /\ (Debited(v)' <=> Debited(v))
  BY <1>0, <1>1, NoCall, Zenon
<1>4. TypeOK'
  <2>0. hpc \in [Withdrawals -> HandlerPlaces] /\ faults \in Nat
    BY <1>0, Zenon DEF TypeOK, HandlerPlaces
  <2>1. hpc' \in [Withdrawals -> HandlerPlaces] /\ faults' \in Nat
    BY <2>0 DEF Save, Goto, StoreOK, StoreFails, HandlerPlaces
  <2> QED
    BY <1>0, <1>1, <1>2, <1>3, <2>1, Zenon DEF TypeOK, LedgerInv, HandlerPlaces
<1>5. HandlerInv(w)' /\ EventInv(w)'
  BY <1>0, <1>1, <1>2, <1>3, Zenon DEF HandlerInv, EventInv
<1>6. RowInv(w)'
  BY <1>0, <1>1, <1>2, <1>3, Zenon DEF RowInv, Cause
<1> QED
  BY <1>1, <1>3, <1>4, <1>5, <1>6, HandlerFrame, Zenon

LEMMA CreatePayoutStep ==
    ASSUME WithdrawalInv, NEW w \in Withdrawals, CreatePayout(w)
    PROVE  WithdrawalInv'
<1>0. TypeOK /\ LedgerInv /\ HandlerInv(w) /\ RowInv(w) /\ EventInv(w)
  BY Zenon DEF WithdrawalInv
<1>1. /\ hpc[w] = "payout" /\ UNCHANGED <<ledgerVars, rows, events, unacked, wh, dups, faults, crashes>>
      /\ \A v \in Withdrawals \ {w} : hpc'[v] = hpc[v]
      /\ hpc'[w] = "savePayout" /\ lost' \in Nat /\ (lost > 0 => lost' > 0)
  BY <1>0 DEF CreatePayout, webhookVars, Goto, TypeOK
<1>2. /\ wd' \in [Withdrawals -> StripeWithdrawal] /\ wd'[w].tid = wd[w].tid
      /\ wd'[w].refunded = wd[w].refunded
      /\ \A v \in Withdrawals \ {w} : wd'[v] = wd[v]
  <2>1. wd \in [Withdrawals -> StripeWithdrawal]
    BY <1>0, Zenon DEF TypeOK
  <2> QED
    BY <2>1, ZenonT(40) DEF CreatePayout, StripeWithdrawal
<1>3. /\ stripe' \in [Withdrawals -> AtStripe] /\ stripe'[w].transfer = stripe[w].transfer
      /\ \A v \in Withdrawals \ {w} : stripe'[v] = stripe[v]
  <2>1. stripe \in [Withdrawals -> AtStripe]
    BY <1>0, Zenon DEF TypeOK, AtStripe
  <2> QED
    BY <2>1, ZenonT(40) DEF CreatePayout, AtStripe
<1>4. LedgerInv' /\ \A v \in Withdrawals : (Refunded(v)' <=> Refunded(v)) /\ (Debited(v)' <=> Debited(v))
  BY <1>0, <1>1, NoCall, Zenon
<1>5. TypeOK'
  <2>1. hpc' \in [Withdrawals -> HandlerPlaces]
    BY <1>0, Zenon DEF CreatePayout, Goto, TypeOK, HandlerPlaces
  <2> QED
    BY <1>0, <1>1, <1>2, <1>3, <1>4, <2>1, Zenon DEF TypeOK, LedgerInv, HandlerPlaces, AtStripe
<1>6. HandlerInv(w)' /\ EventInv(w)'
  BY <1>0, <1>1, <1>2, <1>3, <1>4, Zenon DEF HandlerInv, EventInv
<1>7. RowInv(w)'
  BY <1>0, <1>1, <1>2, <1>3, <1>4, Zenon DEF RowInv, Cause, HandlerInv
<1> QED
  BY <1>1, <1>2, <1>3, <1>4, <1>5, <1>6, <1>7, HandlerFrame, Zenon

LEMMA StripeStepKeeps ==
    ASSUME WithdrawalInv, NEW w \in Withdrawals, StripeStep(w)
    PROVE  WithdrawalInv'
<1>0. TypeOK /\ LedgerInv /\ HandlerInv(w) /\ RowInv(w) /\ EventInv(w)
  BY Zenon DEF WithdrawalInv
<1>1. PICK kind \in EventKind :
         /\ Emit(w, kind)
         /\ kind = "payout.paid" => PayoutPaid(w)
         /\ kind = "payout.failed" => PayoutFailed(w)
         /\ kind = "transfer.reversed" => TransferReversed(w)
  BY Zenon DEF StripeStep, PayoutPaid, PayoutFailed, TransferReversed, EventKind
<1>2. /\ UNCHANGED <<ledgerVars, rows, hpc, wd, wh, dups, faults, lost, crashes>>
      /\ events' = events \cup {<<w, kind>>} /\ unacked' = unacked \cup {<<w, kind>>}
  BY <1>1, Zenon DEF Emit
<1>3. /\ stripe' \in [Withdrawals -> AtStripe]
      /\ \A v \in Withdrawals \ {w} : stripe'[v] = stripe[v]
      /\ \/ /\ kind = "payout.paid" /\ stripe[w].payout = "made"
            /\ stripe'[w].payout = "paid" /\ stripe'[w].transfer = stripe[w].transfer
         \/ /\ kind = "payout.failed" /\ stripe[w].payout \in {"made", "paid"}
            /\ stripe'[w].payout = "failed" /\ stripe'[w].transfer = stripe[w].transfer
         \/ /\ kind = "transfer.reversed" /\ stripe[w].transfer = "made"
            /\ stripe'[w].transfer = "reversed" /\ stripe'[w].payout = stripe[w].payout
  <2>1. stripe \in [Withdrawals -> AtStripe]
    BY <1>0, Zenon DEF TypeOK, AtStripe
  <2> QED
    BY <1>1, <2>1 DEF PayoutPaid, PayoutFailed, TransferReversed, EventKind, AtStripe
<1>4. LedgerInv' /\ \A v \in Withdrawals : (Refunded(v)' <=> Refunded(v)) /\ (Debited(v)' <=> Debited(v))
  BY <1>0, <1>2, NoCall, Zenon
<1>5. TypeOK'
  <2>1. events' \subseteq Withdrawals \X EventKind /\ unacked' \subseteq events'
    BY <1>0, <1>2 DEF TypeOK
  <2> QED
    BY <1>0, <1>2, <1>3, <1>4, <2>1, Zenon DEF TypeOK, LedgerInv, AtStripe
<1>6. ASSUME NEW v \in Withdrawals PROVE HandlerInv(v)' /\ RowInv(v)' /\ EventInv(v)'
  <2>1. CASE v = w
    <3>1. HandlerInv(w)'
      BY <1>0, <1>2, <1>3, <1>4, Zenon DEF HandlerInv
    <3>2. RowInv(w)'
      BY <1>0, <1>2, <1>3, <1>4, Zenon DEF RowInv, Cause
    <3>3. EventInv(w)'
      BY <1>0, <1>2, <1>3, Zenon DEF EventInv
    <3> QED
      BY <2>1, <3>1, <3>2, <3>3, Zenon
  <2>2. CASE v # w
    <3>1. HandlerInv(v)' /\ RowInv(v)'
      BY <1>2, <1>3, <1>4, <2>2, SameWithdrawal, Zenon
    <3>2. EventInv(v) /\ stripe'[v] = stripe[v]
      BY <1>3, <2>2, Zenon DEF WithdrawalInv
    <3>3. EventInv(v)'
      BY <1>2, <2>2, <3>2, Zenon DEF EventInv
    <3> QED
      BY <3>1, <3>3, Zenon
  <2> QED
    BY <2>1, <2>2, Zenon
<1>7. ASSUME NEW d \in Deliveries PROVE WebhookInv(d)'
  BY <1>2, <1>4, SameWebhook, Zenon
<1> QED
  BY <1>4, <1>5, <1>6, <1>7, Zenon DEF WithdrawalInv

(* What a webhook request may be doing.                                    *)
Request == [pc: {"refund", "update"}, w: Withdrawals, kind: EventKind, wd: StripeWithdrawal]

LEMMA DeliverStep ==
    ASSUME WithdrawalInv, NEW d \in Deliveries, NEW w \in Withdrawals, NEW kind \in EventKind,
           Deliver(d, w, kind)
    PROVE  WithdrawalInv'
<1>0. TypeOK /\ LedgerInv /\ RowInv(w)
  BY Zenon DEF WithdrawalInv
<1>1. /\ UNCHANGED <<ledgerVars, rows, hpc, wd, stripe, events, faults, lost, crashes>>
      /\ dups' \in Nat /\ <<w, kind>> \in events /\ Receive(d, w, kind)
  BY <1>0 DEF Deliver, TypeOK
<1>2. \/ wh' = [wh EXCEPT ![d] = Idle] /\ unacked' = unacked \ {<<w, kind>>}
      \/ /\ unacked' = unacked /\ rows[w] # NoRow
         /\ \E pc \in {"refund", "update"}, st \in {rows[w].status, "paid", "failed"} :
               /\ wh' = [wh EXCEPT ![d] = [pc |-> pc, w |-> w, kind |-> kind,
                                            wd |-> [rows[w] EXCEPT !.status = st]]]
               /\ pc = "refund" => kind # "payout.paid"
         /\ IF kind = "transfer.reversed" THEN rows[w].tid ELSE rows[w].pid
  <2>1. Known(w, kind) => rows[w] \in StripeWithdrawal
    BY <1>0, Zenon DEF TypeOK, Known
  <2>2. Known(w, kind) => rows[w] = [rows[w] EXCEPT !.status = rows[w].status]
    BY <2>1, Zenon DEF StripeWithdrawal
  <2>3. CASE ~Known(w, kind)
    BY <1>1, <2>3, Zenon DEF Receive, Ack
  <2>4. CASE Known(w, kind)
    BY <1>1, <2>2, <2>4, Zenon DEF Receive, Ack, Work, Known
  <2> QED
    BY <2>3, <2>4, Zenon
<1>3. /\ unacked' \subseteq events /\ \A e \in Deliveries \ {d} : wh'[e] = wh[e]
      /\ \/ wh' = [wh EXCEPT ![d] = Idle] /\ wh'[d] = Idle
         \/ \E x \in Request :
               /\ wh' = [wh EXCEPT ![d] = x] /\ wh'[d] = x
               /\ x.w = w /\ x.kind = kind /\ x.wd.refunded = rows[w].refunded
               /\ x.wd.tid /\ wd[w].tid /\ rows[w] # NoRow
               /\ x.pc = "refund" => x.kind \in {"payout.failed", "transfer.reversed"}
  <2>1. /\ wh \in [Deliveries -> {Idle} \cup Request] /\ unacked \subseteq events
        /\ rows[w] # NoRow => rows[w] \in StripeWithdrawal
    BY <1>0, Zenon DEF TypeOK, Request
  <2>2. CASE wh' = [wh EXCEPT ![d] = Idle] /\ unacked' = unacked \ {<<w, kind>>}
    BY <2>1, <2>2, Zenon
  <2>3. CASE ~(wh' = [wh EXCEPT ![d] = Idle] /\ unacked' = unacked \ {<<w, kind>>})
    <3>1. /\ unacked' = unacked /\ rows[w] # NoRow /\ rows[w] \in StripeWithdrawal
          /\ rows[w].tid /\ wd[w].tid
      BY <1>0, <1>2, <2>1, <2>3, Zenon DEF RowInv
    <3>2. PICK pc \in {"refund", "update"}, st \in {"pending", "transferred", "paid", "failed"} :
             /\ wh' = [wh EXCEPT ![d] = [pc |-> pc, w |-> w, kind |-> kind,
                                          wd |-> [rows[w] EXCEPT !.status = st]]]
             /\ pc = "refund" => kind # "payout.paid"
      BY <1>2, <2>3, <3>1 DEF StripeWithdrawal
    <3>3. PICK row : row = [rows[w] EXCEPT !.status = st]
      BY Zenon
    <3>4. row \in StripeWithdrawal /\ row.tid /\ row.refunded = rows[w].refunded
      BY <3>1, <3>3, Zenon DEF StripeWithdrawal
    <3>5. PICK x : x = [pc |-> pc, w |-> w, kind |-> kind, wd |-> row]
      BY Zenon
    <3>6. /\ x \in Request /\ x.w = w /\ x.kind = kind /\ x.wd = row
          /\ x.pc = "refund" => x.kind \in {"payout.failed", "transfer.reversed"}
      BY <3>2, <3>4, <3>5, Zenon DEF Request, EventKind
    <3>7. wh' = [wh EXCEPT ![d] = x] /\ wh'[d] = x
      BY <2>1, <3>2, <3>3, <3>5, Zenon
    <3>8. \A e \in Deliveries \ {d} : wh'[e] = wh[e]
      BY <2>1, <3>7, Zenon
    <3> QED
      BY <2>1, <3>1, <3>4, <3>6, <3>7, <3>8, Zenon
  <2> QED
    BY <2>2, <2>3, Zenon
<1>4. LedgerInv' /\ \A v \in Withdrawals : (Refunded(v)' <=> Refunded(v)) /\ (Debited(v)' <=> Debited(v))
  BY <1>0, <1>1, NoCall, Zenon
<1>5. TypeOK'
  <2>1. wh' \in [Deliveries -> {Idle} \cup Request]
    BY <1>0, <1>3 DEF TypeOK, Request
  <2> QED
    BY <1>0, <1>1, <1>3, <1>4, <2>1, Zenon DEF TypeOK, LedgerInv, Request
<1>6. ASSUME NEW v \in Withdrawals PROVE HandlerInv(v)' /\ RowInv(v)' /\ EventInv(v)'
  <2>1. HandlerInv(v)' /\ RowInv(v)'
    BY <1>1, <1>4, SameWithdrawal, Zenon
  <2>2. EventInv(v)'
    BY <1>1, Zenon DEF WithdrawalInv, EventInv
  <2> QED
    BY <2>1, <2>2, Zenon
<1>7. ASSUME NEW e \in Deliveries PROVE WebhookInv(e)'
  <2>1. CASE e # d
    <3>1. wh'[e] = wh[e]
      BY <1>3, <2>1, Zenon
    <3> QED
      BY <1>1, <1>4, <3>1, SameWebhook, Zenon
  <2>2. CASE e = d /\ wh'[d] = Idle
    BY <2>2, Zenon DEF WebhookInv, Idle
  <2>3. CASE e = d /\ wh'[d] # Idle
    <3>1. /\ wh'[d].w = w /\ wh'[d].kind = kind /\ (wh'[d].wd.refunded => Refunded(w)')
          /\ wh'[d].wd.tid /\ wd'[w].tid
          /\ wh'[d].pc = "refund" => wh'[d].kind \in {"payout.failed", "transfer.reversed"}
      BY <1>0, <1>1, <1>3, <1>4, <2>3, Zenon DEF RowInv
    <3> QED
      BY <1>1, <2>3, <3>1, Zenon DEF WebhookInv
  <2> QED
    BY <2>1, <2>2, <2>3, Zenon
<1> QED
  BY <1>4, <1>5, <1>6, <1>7, Zenon DEF WithdrawalInv

LEMMA WebhookRefundStep ==
    ASSUME WithdrawalInv, NEW d \in Deliveries, WebhookRefund(d)
    PROVE  WithdrawalInv'
<1>0. TypeOK /\ LedgerInv /\ WebhookInv(d)
  BY Zenon DEF WithdrawalInv
<1>1. /\ wh[d] # Idle /\ wh[d].pc = "refund"
      /\ UNCHANGED <<rows, hpc, wd, stripe, events, unacked, dups, lost, crashes>> /\ faults' \in Nat
  BY <1>0 DEF WebhookRefund, StoreOK, StoreFails, TypeOK
<1>2. wh \in [Deliveries -> {Idle} \cup Request] /\ wh[d] \in Request
  BY <1>0, <1>1, Zenon DEF TypeOK, Request
<1>3. PICK w \in Withdrawals : w = wh[d].w
  BY <1>2, Zenon DEF Request
<1>4. PICK row \in StripeWithdrawal, y \in Request :
         /\ wh' = [wh EXCEPT ![d] = y]
         /\ y.pc = "update" /\ y.w = w /\ y.kind = wh[d].kind /\ y.wd = row
         /\ row.tid = wh[d].wd.tid
         /\ \/ CreditWithdrawable(Account, Gross, "refund", w)
            \/ row.refunded = wh[d].wd.refunded /\ UNCHANGED ledgerVars
  <2>1. PICK old \in StripeWithdrawal : old = wh[d].wd
    BY <1>2, Zenon DEF Request
  <2>2. CASE CreditWithdrawable(Account, Gross, "refund", wh[d].w)
             /\ wh' = [wh EXCEPT ![d].pc = "update", ![d].wd.refunded = TRUE, ![d].wd.status = "failed"]
    <3>1. PICK row \in StripeWithdrawal : row = [old EXCEPT !.refunded = TRUE, !.status = "failed"]
      BY Zenon DEF StripeWithdrawal
    <3>2. PICK y \in Request : y = [wh[d] EXCEPT !.pc = "update", !.wd = row]
      BY <1>2, Zenon DEF Request
    <3>3. wh' = [wh EXCEPT ![d] = y]
      BY <1>2, <2>1, <2>2, <3>1, <3>2, Zenon DEF Request
    <3>4. y.pc = "update" /\ y.w = w /\ y.kind = wh[d].kind /\ y.wd = row
      BY <1>2, <1>3, <3>2, Zenon DEF Request
    <3>5. row.tid = old.tid
      BY <3>1, Zenon DEF StripeWithdrawal
    <3> QED
      BY <1>3, <2>1, <2>2, <3>3, <3>4, <3>5, Zenon
  <2>3. CASE UNCHANGED ledgerVars /\ wh' = [wh EXCEPT ![d].pc = "update", ![d].wd.status = "failed"]
    <3>1. PICK row \in StripeWithdrawal : row = [old EXCEPT !.status = "failed"]
      BY Zenon DEF StripeWithdrawal
    <3>2. PICK y \in Request : y = [wh[d] EXCEPT !.pc = "update", !.wd = row]
      BY <1>2, Zenon DEF Request
    <3>3. wh' = [wh EXCEPT ![d] = y]
      BY <1>2, <2>1, <2>3, <3>1, <3>2, Zenon DEF Request
    <3>4. y.pc = "update" /\ y.w = w /\ y.kind = wh[d].kind /\ y.wd = row
      BY <1>2, <1>3, <3>2, Zenon DEF Request
    <3>5. row.tid = old.tid /\ row.refunded = old.refunded
      BY <3>1, Zenon DEF StripeWithdrawal
    <3> QED
      BY <1>3, <2>1, <2>3, <3>3, <3>4, <3>5, Zenon
  <2> QED
    BY <2>2, <2>3, Zenon DEF WebhookRefund
<1>5. wh'[d] = y /\ (\A e \in Deliveries \ {d} : wh'[e] = wh[e]) /\ wh' \in [Deliveries -> {Idle} \cup Request]
  BY <1>2, <1>4, Zenon
<1>6. /\ HandlerInv(w) /\ RowInv(w) /\ Cause(w)
      /\ hpc[w] \notin {"debit", "create", "refundNoRow", "transfer"}
  <2>1. HandlerInv(w) /\ RowInv(w) /\ EventInv(w)
    BY Zenon DEF WithdrawalInv
  <2>2. <<w, wh[d].kind>> \in events /\ wh[d].kind \in {"payout.failed", "transfer.reversed"}
    BY <1>0, <1>1, <1>3, Zenon DEF WebhookInv
  <2>3. stripe[w].payout = "failed" \/ stripe[w].transfer = "reversed"
    BY <2>1, <2>2, Zenon DEF EventInv
  <2> QED
    BY <2>1, <2>3, Zenon DEF Cause, HandlerInv
<1>7. /\ LedgerInv' /\ (Refunded(w) => Refunded(w)') /\ (row.refunded => Refunded(w)')
      /\ \A v \in Withdrawals : Debited(v)' <=> Debited(v)
      /\ \A v \in Withdrawals \ {w} : Refunded(v)' <=> Refunded(v)
  <2>1. wh[d].wd.refunded => Refunded(w)
    BY <1>0, <1>1, <1>3, Zenon DEF WebhookInv
  <2> QED
    BY <1>0, <1>4, <2>1, RefundCall, NoCall, Zenon
<1>8. TypeOK'
  BY <1>0, <1>1, <1>5, <1>7, Zenon DEF TypeOK, LedgerInv, Request
<1>9. ASSUME NEW v \in Withdrawals PROVE HandlerInv(v)' /\ RowInv(v)' /\ EventInv(v)'
  <2>1. EventInv(v)'
    BY <1>1, Zenon DEF WithdrawalInv, EventInv
  <2>2. CASE v # w
    BY <1>1, <1>7, <2>1, <2>2, SameWithdrawal, Zenon
  <2>3. CASE v = w
    <3>1. HandlerInv(w)'
      BY <1>1, <1>6, <1>7, Zenon DEF HandlerInv
    <3>2. RowInv(w)'
      BY <1>1, <1>6, <1>7, Zenon DEF RowInv, Cause
    <3> QED
      BY <2>1, <2>3, <3>1, <3>2, Zenon
  <2> QED
    BY <2>2, <2>3, Zenon
<1>10. ASSUME NEW e \in Deliveries PROVE WebhookInv(e)'
  <2>1. CASE e # d
    <3>1. \A v \in Withdrawals : (Refunded(v) => Refunded(v)') /\ (wd[v].tid => wd'[v].tid)
      BY <1>1, <1>7, Zenon
    <3> QED
      BY <1>1, <1>5, <2>1, <3>1, SameWebhook, Zenon
  <2>2. CASE e = d
    <3>1. <<w, wh[d].kind>> \in events' /\ row.tid /\ wd'[w].tid /\ (row.refunded => Refunded(w)')
      BY <1>0, <1>1, <1>3, <1>4, <1>7, Zenon DEF WebhookInv
    <3>2. /\ wh'[d].w = w /\ wh'[d].kind = wh[d].kind /\ wh'[d].wd = row /\ wh'[d].pc # "refund"
      BY <1>4, <1>5, Zenon
    <3> QED
      BY <2>2, <3>1, <3>2, Zenon DEF WebhookInv
  <2> QED
    BY <2>1, <2>2, Zenon
<1> QED
  BY <1>7, <1>8, <1>9, <1>10, Zenon DEF WithdrawalInv

LEMMA WebhookUpdateStep ==
    ASSUME WithdrawalInv, NEW d \in Deliveries, WebhookUpdate(d)
    PROVE  WithdrawalInv'
<1>0. TypeOK /\ LedgerInv /\ WebhookInv(d)
  BY Zenon DEF WithdrawalInv
<1>1. /\ wh[d] # Idle /\ UNCHANGED <<ledgerVars, hpc, wd, stripe, events, dups, lost, crashes>>
      /\ faults' \in Nat /\ unacked' \subseteq unacked
      /\ wh' = [wh EXCEPT ![d] = Idle]
  BY <1>0 DEF WebhookUpdate, Ack, StoreOK, StoreFails, TypeOK
<1>2. wh \in [Deliveries -> {Idle} \cup Request] /\ wh[d] \in Request
  BY <1>0, <1>1, Zenon DEF TypeOK, Request
<1>3. PICK w \in Withdrawals, row \in StripeWithdrawal : w = wh[d].w /\ row = wh[d].wd /\ row # NoRow
  BY <1>2, WithdrawalsAssumption, Zenon DEF Request, StripeWithdrawal
<1>4. /\ rows' \in [Withdrawals -> StripeWithdrawal \cup {NoRow}]
      /\ \A v \in Withdrawals \ {w} : rows'[v] = rows[v]
      /\ rows'[w] = rows[w] \/ rows'[w] = row
  <2>1. rows \in [Withdrawals -> StripeWithdrawal \cup {NoRow}]
    BY <1>0, Zenon DEF TypeOK
  <2>2. rows' = rows \/ rows' = [rows EXCEPT ![w] = row]
    BY <1>3, Zenon DEF WebhookUpdate
  <2> QED
    BY <2>1, <2>2, Zenon
<1>5. /\ wh'[d] = Idle /\ (\A e \in Deliveries \ {d} : wh'[e] = wh[e])
      /\ wh' \in [Deliveries -> {Idle} \cup Request]
  BY <1>1, <1>2, Zenon
<1>6. LedgerInv' /\ \A v \in Withdrawals : (Refunded(v)' <=> Refunded(v)) /\ (Debited(v)' <=> Debited(v))
  BY <1>0, <1>1, NoCall, Zenon
<1>7. TypeOK'
  <2>1. unacked' \subseteq events'
    BY <1>0, <1>1, Zenon DEF TypeOK
  <2> QED
    BY <1>0, <1>1, <1>4, <1>5, <1>6, <2>1, Zenon DEF TypeOK, LedgerInv, Request
<1>8. ASSUME NEW v \in Withdrawals PROVE HandlerInv(v)' /\ RowInv(v)' /\ EventInv(v)'
  <2>1. EventInv(v)'
    BY <1>1, Zenon DEF WithdrawalInv, EventInv
  <2>2. CASE v # w
    BY <1>1, <1>4, <1>6, <2>1, <2>2, SameWithdrawal, Zenon
  <2>3. CASE v = w
    <3>0. /\ HandlerInv(w) /\ RowInv(w)
          /\ row.tid /\ wd[w].tid /\ (row.refunded => Refunded(w))
      BY <1>0, <1>1, <1>3, Zenon DEF WithdrawalInv, WebhookInv
    <3>1. HandlerInv(w)'
      BY <1>1, <1>3, <1>4, <1>6, <3>0, Zenon DEF HandlerInv
    <3>2. RowInv(w)'
      BY <1>1, <1>3, <1>4, <1>6, <3>0, Zenon DEF RowInv, Cause
    <3> QED
      BY <2>1, <2>3, <3>1, <3>2, Zenon
  <2> QED
    BY <2>2, <2>3, Zenon
<1>9. ASSUME NEW e \in Deliveries PROVE WebhookInv(e)'
  <2>1. CASE e # d
    BY <1>1, <1>5, <1>6, <2>1, SameWebhook, Zenon
  <2>2. CASE e = d
    BY <1>5, <2>2, Zenon DEF WebhookInv, Idle
  <2> QED
    BY <2>1, <2>2, Zenon
<1> QED
  BY <1>6, <1>7, <1>8, <1>9, Zenon DEF WithdrawalInv

LEMMA CrashStep ==
    ASSUME WithdrawalInv, Crash
    PROVE  WithdrawalInv'
<1>0. TypeOK /\ LedgerInv
  BY Zenon DEF WithdrawalInv
<1>1. /\ UNCHANGED <<ledgerVars, rows, wd, stripe, events, unacked, dups, faults, lost>>
      /\ crashes' \in Nat
      /\ \A v \in Withdrawals : hpc'[v] = "done" \/ (hpc'[v] = "debit" /\ hpc[v] = "debit")
      /\ \A d \in Deliveries : wh'[d] = Idle
      /\ wh' \in [Deliveries -> {Idle} \cup Request] /\ hpc' \in [Withdrawals -> HandlerPlaces]
  BY <1>0 DEF Crash, TypeOK, HandlerPlaces
<1>2. LedgerInv' /\ \A v \in Withdrawals : (Refunded(v)' <=> Refunded(v)) /\ (Debited(v)' <=> Debited(v))
  BY <1>0, <1>1, NoCall, Zenon
<1>3. TypeOK'
  BY <1>0, <1>1, <1>2, Zenon DEF TypeOK, LedgerInv, Request, HandlerPlaces
<1>4. ASSUME NEW v \in Withdrawals PROVE HandlerInv(v)' /\ RowInv(v)' /\ EventInv(v)'
  <2>0. HandlerInv(v) /\ RowInv(v) /\ EventInv(v)
    BY Zenon DEF WithdrawalInv
  <2>1. HandlerInv(v)'
    BY <1>1, <1>2, <2>0, Zenon DEF HandlerInv
  <2>2. RowInv(v)'
    BY <1>1, <1>2, <2>0, Zenon DEF RowInv, Cause
  <2>3. EventInv(v)'
    BY <1>1, <2>0, Zenon DEF EventInv
  <2> QED
    BY <2>1, <2>2, <2>3, Zenon
<1>5. \A d \in Deliveries : WebhookInv(d)'
  BY <1>1, Zenon DEF WebhookInv, Idle
<1> QED
  BY <1>2, <1>3, <1>4, <1>5, Zenon DEF WithdrawalInv

LEMMA WithdrawalInvInit == Init => WithdrawalInv
<1> SUFFICES ASSUME Init PROVE WithdrawalInv
  BY Zenon
<1>1. PICK earned \in Earnings :
         /\ balances = [a \in Accounts |-> IF a = Account THEN earned ELSE 0]
         /\ ledgerEntries = <<Row(Account, "payout", earned, earned, Opening)>>
  BY Zenon DEF Init, Funded
<1>2. /\ earned \in Nat /\ Account \in Accounts /\ Opening \in Refs /\ Opening \notin Withdrawals
      /\ withdrawable = balances
  BY WithdrawalsAssumption, Zenon DEF Init, Funded
<1>3. LedgerTypeOK
  <2>1. Row(Account, "payout", earned, earned, Opening) \in LedgerEntry
    BY <1>2 DEF Row, LedgerEntry, LedgerEntryType
  <2> QED
    BY <1>1, <1>2, <2>1 DEF LedgerTypeOK
<1>4. WithdrawableBacked
  <2>1. ASSUME NEW a \in Accounts PROVE 0 <= withdrawable[a] /\ withdrawable[a] <= balances[a]
    <3>1. balances[a] \in Nat /\ withdrawable[a] = balances[a]
      BY <1>1, <1>2, Zenon
    <3>2. \A n \in Nat : 0 <= n /\ n <= n
      OBVIOUS
    <3> QED
      BY <3>1, <3>2, Zenon
  <2> QED
    BY <2>1, Zenon DEF WithdrawableBacked
<1>5. AuditTrail
  <2>1. DOMAIN ledgerEntries = {1} /\ 1..(1 - 1) = {}
    BY <1>1
  <2>2. ledgerEntries[1].after = balances[ledgerEntries[1].account]
    BY <1>1, <1>2, Zenon DEF Row
  <2> QED
    BY <2>1, <2>2, Zenon DEF AuditTrail
<1>6. \A w \in Withdrawals : ~Refunded(w)
  <2>1. \A i \in DOMAIN ledgerEntries : ledgerEntries[i].type = "payout"
    BY <1>1 DEF Row
  <2> QED
    BY <2>1, Zenon DEF Refunded, EntriesOf
<1>7. TypeOK
  <2>1. Idle \in {Idle} \cup Request /\ NewRow \in StripeWithdrawal
    BY Zenon DEF StripeWithdrawal, NewRow
  <2> QED
    BY <1>3, <2>1, Zenon DEF TypeOK, Init, NoWithdrawal, Request
<1>8. ASSUME NEW w \in Withdrawals PROVE HandlerInv(w) /\ RowInv(w) /\ EventInv(w)
  <2>1. /\ hpc[w] = "debit" /\ stripe[w].transfer = "none" /\ stripe[w].payout = "none"
        /\ rows[w] = NoRow /\ wd[w] = NewRow /\ events = {}
    BY Zenon DEF Init, NoWithdrawal
  <2>2. ~NewRow.refunded /\ ~NewRow.pid
    BY Zenon DEF NewRow
  <2> QED
    BY <1>6, <2>1, <2>2, Zenon DEF HandlerInv, RowInv, EventInv
<1>9. \A d \in Deliveries : WebhookInv(d)
  BY Zenon DEF Init, NoWithdrawal, WebhookInv
<1> QED
  BY <1>3, <1>4, <1>5, <1>7, <1>8, <1>9, Zenon DEF WithdrawalInv, LedgerInv

LEMMA WithdrawalInvKept == WithdrawalInv /\ [Next]_vars => WithdrawalInv'
<1> SUFFICES ASSUME WithdrawalInv, [Next]_vars PROVE WithdrawalInv'
  BY Zenon
<1>1. ASSUME NEW w \in Withdrawals, handleStripeWithdraw(w) PROVE WithdrawalInv'
  BY <1>1, WithdrawDebitStep, CreateStep, RefundNoRowStep, CreateTransferStep, MarkFailedStep,
     SaveStep, CreatePayoutStep, Zenon DEF handleStripeWithdraw
<1>2. ASSUME NEW d \in Deliveries, Webhook(d) PROVE WithdrawalInv'
  BY <1>2, DeliverStep, WebhookRefundStep, WebhookUpdateStep, Zenon DEF Webhook
<1>3. CASE UNCHANGED vars
  <2>0. TypeOK /\ LedgerInv
    BY Zenon DEF WithdrawalInv
  <2>1. /\ UNCHANGED ledgerVars
        /\ UNCHANGED <<rows, hpc, wd, stripe, events, unacked, wh, dups, faults, lost, crashes>>
    BY <1>3, Zenon DEF vars
  <2>2. LedgerInv' /\ \A v \in Withdrawals : (Refunded(v)' <=> Refunded(v)) /\ (Debited(v)' <=> Debited(v))
    BY <2>0, <2>1, NoCall, Zenon
  <2>3. TypeOK'
    BY <2>0, <2>1, <2>2, Zenon DEF TypeOK, LedgerInv
  <2>4. ASSUME NEW v \in Withdrawals PROVE HandlerInv(v)' /\ RowInv(v)' /\ EventInv(v)'
    <3>1. HandlerInv(v)' /\ RowInv(v)'
      BY <2>1, <2>2, SameWithdrawal, Zenon
    <3> QED
      BY <2>1, <3>1, Zenon DEF WithdrawalInv, EventInv
  <2>5. ASSUME NEW d \in Deliveries PROVE WebhookInv(d)'
    BY <2>1, <2>2, SameWebhook, Zenon
  <2> QED
    BY <2>2, <2>3, <2>4, <2>5, Zenon DEF WithdrawalInv
<1> QED
  BY <1>1, <1>2, <1>3, CrashStep, StripeStepKeeps, Zenon DEF Next, Quiet

(* For any number of withdrawals, overlapping and repeated deliveries,     *)
(* failing store calls, lost answers and restarts: a transfer was debited  *)
(* and has its row, a row marked refunded was refunded, and a refund has a *)
(* cause (stripe_payouts.go, handleStripeWithdraw and the webhooks).       *)
THEOREM RefundsAreTruthful == Spec => []RefundsTruthful
<1>1. WithdrawalInv => RefundsTruthful
  BY Zenon DEF WithdrawalInv, RowInv, RefundsTruthful, TransferIsFunded, RefundFlagTruthful,
               RefundHasCause, Debited, Refunded, Cause
<1> QED
  BY <1>1, WithdrawalInvInit, WithdrawalInvKept, PTL DEF Spec

(* The ledger the handlers and webhooks write stays covered and audited.   *)
THEOREM WithdrawalsAreBacked == Spec => [](WithdrawableBacked /\ AuditTrail)
<1>1. WithdrawalInv => WithdrawableBacked /\ AuditTrail
  BY Zenon DEF WithdrawalInv, LedgerInv
<1> QED
  BY <1>1, WithdrawalInvInit, WithdrawalInvKept, PTL DEF Spec

(* A row that knows its transfer never forgets it, although handler and    *)
(* webhooks overwrite it with copies they read earlier: no copy is made of *)
(* a row without its transfer id once a webhook can find it, and the       *)
(* handler's copy is the first to know the id (UpdateStripeWithdrawal).    *)
THEOREM TransferIDsStay == Spec => TransferIDKept
<1> DEFINE Keeps == \A w \in Withdrawals :
                       (rows[w] # NoRow /\ rows[w].tid) => (rows'[w] # NoRow /\ rows'[w].tid)
<1>1. ASSUME WithdrawalInv, [Next]_vars PROVE [Keeps]_vars
  <2> SUFFICES ASSUME NEW w \in Withdrawals, rows[w] # NoRow, rows[w].tid
               PROVE  rows'[w] # NoRow /\ rows'[w].tid
    BY ZenonT(40)
  <2>0. /\ rows \in [Withdrawals -> StripeWithdrawal \cup {NoRow}]
        /\ wd \in [Withdrawals -> StripeWithdrawal]
        /\ \A v \in Withdrawals : wd[v] # NoRow
        /\ RowInv(w) /\ wd[w].tid
    BY <1>1, WithdrawalsAssumption DEF WithdrawalInv, TypeOK, StripeWithdrawal, RowInv
  <2>1. ASSUME NEW v \in Withdrawals, rows' = [rows EXCEPT ![v] = wd[v]]
        PROVE  rows'[w] # NoRow /\ rows'[w].tid
    BY <2>0, <2>1, Zenon
  <2>2. ASSUME NEW d \in Deliveries, WebhookUpdate(d)
        PROVE  rows'[w] # NoRow /\ rows'[w].tid
    <3>1. wh[d] # Idle /\ WebhookInv(d) /\ wh[d].wd # NoRow
      BY <1>1, <2>2, WithdrawalsAssumption DEF WithdrawalInv, WebhookUpdate, TypeOK, StripeWithdrawal
    <3>2. wh[d].wd.tid
      BY <3>1, Zenon DEF WebhookInv
    <3>3. rows' = rows \/ rows' = [rows EXCEPT ![wh[d].w] = wh[d].wd]
      BY <2>2, Zenon DEF WebhookUpdate
    <3> QED
      BY <2>0, <3>1, <3>2, <3>3, Zenon
  <2>3. ASSUME rows' = rows PROVE rows'[w] # NoRow /\ rows'[w].tid
    BY <2>3, Zenon
  <2>4. ASSUME NEW v \in Withdrawals, handleStripeWithdraw(v)
        PROVE  rows' = rows \/ rows' = [rows EXCEPT ![v] = wd[v]]
    BY <2>4, Zenon DEF handleStripeWithdraw, WithdrawDebit, CreateStripeWithdrawal, RefundNoRow,
         CreateTransfer, MarkFailedRefund, Save, CreatePayout
  <2>5. ASSUME NEW v \in Withdrawals, StripeStep(v) PROVE rows' = rows
    BY <2>5, Zenon DEF StripeStep, PayoutPaid, PayoutFailed, TransferReversed, Emit
  <2>6. ASSUME NEW d \in Deliveries, Webhook(d) PROVE rows' = rows \/ WebhookUpdate(d)
    BY <2>6, Zenon DEF Webhook, Deliver, WebhookRefund
  <2>7. Crash \/ Quiet \/ UNCHANGED vars => rows' = rows
    BY Zenon DEF Crash, Quiet, vars
  <2> QED
    BY <1>1, <2>1, <2>2, <2>3, <2>4, <2>5, <2>6, <2>7, Zenon DEF Next
<1> QED
  BY <1>1, WithdrawalInvInit, WithdrawalInvKept, PTL DEF Spec, TransferIDKept

=============================================================================
