----------------------------- MODULE Withdrawals -----------------------------
(***************************************************************************)
(* Stripe Connect withdrawals (coordinator/api/stripe_payouts.go).         *)
(*                                                                         *)
(* A withdrawal is driven by one HTTP handler and by any number of Connect *)
(* webhook deliveries.  They share the ledger and one database row, which  *)
(* every party reads whole, changes in memory and writes back whole, with  *)
(* no lock or version in between.  Each store call and each Stripe call is *)
(* one step; everything else may happen between two of them.               *)
(***************************************************************************)
EXTENDS Ledger, FiniteSets

CONSTANTS
    Withdrawals,    \* withdrawal ids; also the references of their audit rows
    Account,        \* the provider account that withdraws
    Opening,        \* reference of the earning that funds it
    Earnings,       \* micro-USD the account may start with, all of it withdrawable
    Gross,          \* micro-USD a withdrawal asks for
    Deliveries,     \* webhook requests the coordinator may be serving at once
    MaxDuplicates,  \* bound: deliveries Stripe makes beyond one per event
    MaxFaults,      \* bound: store calls that fail
    MaxLost,        \* bound: Stripe calls that took effect but returned an error
    MaxCrashes,     \* bound: coordinator restarts
    NoRow

ASSUME WithdrawalsAssumption ==
    /\ Account \in Accounts
    /\ Withdrawals \subseteq Refs
    /\ Opening \in Refs \ Withdrawals
    /\ Earnings \subseteq Nat /\ Gross \in Nat
    /\ NoRow \notin [tid: BOOLEAN, pid: BOOLEAN,
                     status: {"pending", "transferred", "paid", "failed"}, refunded: BOOLEAN]

VARIABLES
    rows,           \* stripe_withdrawals: id -> row or NoRow
    hpc,            \* where the withdraw handler of each id stands
    wd,             \* the handler's own copy of its row
    stripe,         \* what Stripe did for each id
    events,         \* webhook events Stripe has emitted
    unacked,        \* those it still owes a delivery
    wh,             \* what each webhook request is doing
    dups, faults, lost, crashes

vars == <<ledgerVars, rows, hpc, wd, stripe, events, unacked, wh, dups, faults, lost, crashes>>

(* TransferID and PayoutID matter only as set or empty.                     *)
StripeWithdrawal ==
    [tid: BOOLEAN, pid: BOOLEAN,
     status: {"pending", "transferred", "paid", "failed"}, refunded: BOOLEAN]

NewRow == [tid |-> FALSE, pid |-> FALSE, status |-> "pending", refunded |-> FALSE]

(* payout.canceled is handled as payout.failed.                             *)
EventKind == {"payout.paid", "payout.failed", "transfer.reversed"}

Idle == [pc |-> "idle"]

Funded ==
    /\ \E earned \in Earnings :
          /\ balances = [a \in Accounts |-> IF a = Account THEN earned ELSE 0]
          /\ ledgerEntries = <<Row(Account, "payout", earned, earned, Opening)>>
    /\ withdrawable = balances

NoWithdrawal ==
    /\ rows = [w \in Withdrawals |-> NoRow]
    /\ hpc = [w \in Withdrawals |-> "debit"]
    /\ wd = [w \in Withdrawals |-> NewRow]
    /\ stripe = [w \in Withdrawals |-> [transfer |-> "none", payout |-> "none"]]
    /\ events = {}
    /\ unacked = {}
    /\ wh = [d \in Deliveries |-> Idle]
    /\ dups = 0 /\ faults = 0 /\ lost = 0 /\ crashes = 0

Init == Funded /\ NoWithdrawal

Goto(w, pc) == hpc' = [hpc EXCEPT ![w] = pc]

webhookVars == <<events, unacked, wh, dups>>

StoreOK == UNCHANGED faults
StoreFails == faults < MaxFaults /\ faults' = faults + 1

-----------------------------------------------------------------------------
(* handleStripeWithdraw, from the debit on.                                 *)

WithdrawDebit(w) ==
    /\ hpc[w] = "debit"
    /\ \/ /\ DebitWithdrawable(Account, Gross, "stripe_payout", w)
          /\ Goto(w, "create")
          /\ StoreOK
       \/ /\ ~CanDebitWithdrawable(Account, Gross)
          /\ Goto(w, "done")
          /\ StoreOK
          /\ UNCHANGED ledgerVars
       \/ /\ StoreFails
          /\ Goto(w, "done")
          /\ UNCHANGED ledgerVars
    /\ UNCHANGED <<rows, wd, stripe, webhookVars, lost, crashes>>

CreateStripeWithdrawal(w) ==
    /\ hpc[w] = "create"
    /\ \/ /\ StoreOK
          /\ rows' = [rows EXCEPT ![w] = wd[w]]
          /\ Goto(w, "transfer")
       \/ /\ StoreFails
          /\ Goto(w, "refundNoRow")
          /\ UNCHANGED rows
    /\ UNCHANGED <<ledgerVars, wd, stripe, webhookVars, lost, crashes>>

RefundNoRow(w) ==
    /\ hpc[w] = "refundNoRow"
    /\ \/ StoreOK /\ CreditWithdrawable(Account, Gross, "refund", w)
       \/ StoreFails /\ UNCHANGED ledgerVars
    /\ Goto(w, "done")
    /\ UNCHANGED <<rows, wd, stripe, webhookVars, lost, crashes>>

(* An error from Stripe sends the handler to markFailedRefund, whether the  *)
(* transfer was refused or its answer was lost on the way back.             *)
CreateTransfer(w) ==
    /\ hpc[w] = "transfer"
    /\ \/ /\ stripe' = [stripe EXCEPT ![w].transfer = "made"]
          /\ wd' = [wd EXCEPT ![w].tid = TRUE, ![w].status = "transferred"]
          /\ Goto(w, "saveTransfer")
          /\ UNCHANGED lost
       \/ /\ Goto(w, "refund")
          /\ UNCHANGED <<stripe, wd, lost>>
       \/ /\ lost < MaxLost /\ lost' = lost + 1
          /\ stripe' = [stripe EXCEPT ![w].transfer = "made"]
          /\ Goto(w, "refund")
          /\ UNCHANGED wd
    /\ UNCHANGED <<ledgerVars, rows, webhookVars, faults, crashes>>

MarkFailedRefund(w) ==
    /\ hpc[w] = "refund"
    /\ \/ /\ StoreOK
          /\ CreditWithdrawable(Account, Gross, "refund", w)
          /\ wd' = [wd EXCEPT ![w].refunded = TRUE, ![w].status = "failed"]
       \/ /\ StoreFails
          /\ wd' = [wd EXCEPT ![w].status = "failed"]
          /\ UNCHANGED ledgerVars
    /\ Goto(w, "saveFailed")
    /\ UNCHANGED <<rows, stripe, webhookVars, lost, crashes>>

(* UpdateStripeWithdrawal with the handler's copy; a failure is only logged. *)
Save(w, pc, next) ==
    /\ hpc[w] = pc
    /\ \/ StoreOK /\ rows' = [rows EXCEPT ![w] = wd[w]]
       \/ StoreFails /\ UNCHANGED rows
    /\ Goto(w, next)
    /\ UNCHANGED <<ledgerVars, wd, stripe, webhookVars, lost, crashes>>

(* A payout that could not be created is left to Stripe's automatic one.    *)
CreatePayout(w) ==
    /\ hpc[w] = "payout"
    /\ \/ /\ stripe' = [stripe EXCEPT ![w].payout = "made"]
          /\ wd' = [wd EXCEPT ![w].pid = TRUE]
          /\ UNCHANGED lost
       \/ UNCHANGED <<stripe, wd, lost>>
       \/ /\ lost < MaxLost /\ lost' = lost + 1
          /\ stripe' = [stripe EXCEPT ![w].payout = "made"]
          /\ UNCHANGED wd
    /\ Goto(w, "savePayout")
    /\ UNCHANGED <<ledgerVars, rows, webhookVars, faults, crashes>>

handleStripeWithdraw(w) ==
    \/ WithdrawDebit(w)
    \/ CreateStripeWithdrawal(w)
    \/ RefundNoRow(w)
    \/ CreateTransfer(w)
    \/ MarkFailedRefund(w)
    \/ Save(w, "saveFailed", "done")
    \/ Save(w, "saveTransfer", "payout")
    \/ CreatePayout(w)
    \/ Save(w, "savePayout", "done")

-----------------------------------------------------------------------------
(* Stripe: a payout settles, a settled one may still be returned, and a     *)
(* transfer may be reversed.  Every event is delivered at least once.       *)

Emit(w, kind) ==
    /\ events' = events \cup {<<w, kind>>}
    /\ unacked' = unacked \cup {<<w, kind>>}
    /\ UNCHANGED <<ledgerVars, rows, hpc, wd, wh, dups, faults, lost, crashes>>

PayoutPaid(w) ==
    /\ stripe[w].payout = "made"
    /\ stripe' = [stripe EXCEPT ![w].payout = "paid"]
    /\ Emit(w, "payout.paid")

PayoutFailed(w) ==
    /\ stripe[w].payout \in {"made", "paid"}
    /\ stripe' = [stripe EXCEPT ![w].payout = "failed"]
    /\ Emit(w, "payout.failed")

TransferReversed(w) ==
    /\ stripe[w].transfer = "made"
    /\ stripe' = [stripe EXCEPT ![w].transfer = "reversed"]
    /\ Emit(w, "transfer.reversed")

StripeStep(w) == PayoutPaid(w) \/ PayoutFailed(w) \/ TransferReversed(w)

-----------------------------------------------------------------------------
(* handleStripeConnectWebhook: it answers 200 whatever the handlers met, so *)
(* a delivery that reached the end is never repeated by Stripe's retries.   *)

InFlight == {<<wh[d].w, wh[d].kind>> : d \in {e \in Deliveries : wh[e] # Idle}}

Ack(d, event) ==
    /\ wh' = [wh EXCEPT ![d] = Idle]
    /\ unacked' = unacked \ {event}

Work(d, pc, w, kind, row) ==
    /\ wh' = [wh EXCEPT ![d] = [pc |-> pc, w |-> w, kind |-> kind, wd |-> row]]
    /\ UNCHANGED unacked

Known(w, kind) ==
    /\ rows[w] # NoRow
    /\ IF kind = "transfer.reversed" THEN rows[w].tid ELSE rows[w].pid

(* Mutant: a payout reported paid is taken as settled for good.             *)
ReceiveOnce(d, w, kind) ==
    LET row == rows[w]
    IN  IF ~Known(w, kind) \/ row.status \in {"paid", "failed"} THEN Ack(d, <<w, kind>>)
        ELSE IF kind = "payout.paid"
        THEN Work(d, "update", w, kind, [row EXCEPT !.status = "paid"])
        ELSE Work(d, "refund", w, kind, row)

(* handlePayoutTerminal and handleTransferFailed up to their first write.   *)
Receive(d, w, kind) ==
    LET row == rows[w]
        terminal == IF kind = "payout.paid" THEN "paid" ELSE "failed"
    IN  IF ~Known(w, kind) THEN Ack(d, <<w, kind>>)
        ELSE IF kind = "payout.paid" \/ row.refunded
        THEN IF row.status = terminal
             THEN Ack(d, <<w, kind>>)
             ELSE Work(d, "update", w, kind, [row EXCEPT !.status = terminal])
        ELSE Work(d, "refund", w, kind, row)

Deliver(d, w, kind) ==
    /\ wh[d] = Idle
    /\ <<w, kind>> \in events
    /\ IF <<w, kind>> \in unacked \ InFlight
       THEN UNCHANGED dups
       ELSE dups < MaxDuplicates /\ dups' = dups + 1
    /\ Receive(d, w, kind)
    /\ UNCHANGED <<ledgerVars, rows, hpc, wd, stripe, events, faults, lost, crashes>>

(* Mutant: the Refunded flag is set before the credit is known to succeed.  *)
WebhookRefundFlagFirst(d) ==
    /\ wh[d] # Idle /\ wh[d].pc = "refund"
    /\ \/ StoreOK /\ CreditWithdrawable(Account, Gross, "refund", wh[d].w)
       \/ StoreFails /\ UNCHANGED ledgerVars
    /\ wh' = [wh EXCEPT ![d].pc = "update",
                        ![d].wd.refunded = TRUE, ![d].wd.status = "failed"]
    /\ UNCHANGED <<rows, hpc, wd, stripe, events, unacked, dups, lost, crashes>>

WebhookRefund(d) ==
    /\ wh[d] # Idle /\ wh[d].pc = "refund"
    /\ \/ /\ StoreOK
          /\ CreditWithdrawable(Account, Gross, "refund", wh[d].w)
          /\ wh' = [wh EXCEPT ![d].pc = "update",
                              ![d].wd.refunded = TRUE, ![d].wd.status = "failed"]
       \/ /\ StoreFails
          /\ wh' = [wh EXCEPT ![d].pc = "update", ![d].wd.status = "failed"]
          /\ UNCHANGED ledgerVars
    /\ UNCHANGED <<rows, hpc, wd, stripe, events, unacked, dups, lost, crashes>>

WebhookUpdate(d) ==
    /\ wh[d] # Idle /\ wh[d].pc = "update"
    /\ \/ StoreOK /\ rows' = [rows EXCEPT ![wh[d].w] = wh[d].wd]
       \/ StoreFails /\ UNCHANGED rows
    /\ Ack(d, <<wh[d].w, wh[d].kind>>)
    /\ UNCHANGED <<ledgerVars, hpc, wd, stripe, events, dups, lost, crashes>>

(* A restart loses every request in progress; Postgres and Stripe keep      *)
(* theirs, and Stripe delivers again what was not acknowledged.             *)
Crash ==
    /\ crashes < MaxCrashes /\ crashes' = crashes + 1
    /\ hpc' = [w \in Withdrawals |-> IF hpc[w] = "debit" THEN "debit" ELSE "done"]
    /\ wh' = [d \in Deliveries |-> Idle]
    /\ UNCHANGED <<ledgerVars, rows, wd, stripe, events, unacked, dups, faults, lost>>

Webhook(d) ==
    \/ \E w \in Withdrawals, kind \in EventKind : Deliver(d, w, kind)
    \/ WebhookRefund(d)
    \/ WebhookUpdate(d)

Quiet ==
    /\ \A w \in Withdrawals : hpc[w] = "done"
    /\ unacked = {}
    /\ \A d \in Deliveries : wh[d] = Idle
    /\ UNCHANGED vars

Next ==
    \/ \E w \in Withdrawals : handleStripeWithdraw(w) \/ StripeStep(w)
    \/ \E d \in Deliveries : Webhook(d)
    \/ Crash
    \/ Quiet

Spec == Init /\ [][Next]_vars

(* Running requests finish, and Stripe retries an event until it is         *)
(* acknowledged; nothing obliges a payout to settle or fail.                *)
Fairness ==
    /\ \A w \in Withdrawals : WF_vars(handleStripeWithdraw(w))
    /\ \A d \in Deliveries : WF_vars(WebhookRefund(d)) /\ WF_vars(WebhookUpdate(d))
    /\ \A w \in Withdrawals, kind \in EventKind :
          WF_vars(<<w, kind>> \in unacked \ InFlight /\ \E d \in Deliveries : Deliver(d, w, kind))

FairSpec == Spec /\ Fairness

-----------------------------------------------------------------------------

TypeOK ==
    /\ LedgerTypeOK
    /\ rows \in [Withdrawals -> StripeWithdrawal \cup {NoRow}]
    /\ hpc \in [Withdrawals -> {"debit", "create", "refundNoRow", "transfer", "refund",
                                "saveFailed", "saveTransfer", "payout", "savePayout", "done"}]
    /\ wd \in [Withdrawals -> StripeWithdrawal]
    /\ stripe \in [Withdrawals -> [transfer: {"none", "made", "reversed"},
                                   payout: {"none", "made", "paid", "failed"}]]
    /\ events \subseteq Withdrawals \X EventKind
    /\ unacked \subseteq events
    /\ wh \in [Deliveries -> {Idle} \cup [pc: {"refund", "update"}, w: Withdrawals,
                                          kind: EventKind, wd: StripeWithdrawal]]
    /\ dups \in Nat /\ faults \in Nat /\ lost \in Nat /\ crashes \in Nat

EntriesOf(w, type) ==
    {i \in DOMAIN ledgerEntries : ledgerEntries[i].ref = w /\ ledgerEntries[i].type = type}

(* Money leaves the platform only for a withdrawal whose gross amount was   *)
(* debited and whose row is in the database: the order "debit, persist,     *)
(* transfer" of handleStripeWithdraw, kept over failed calls and restarts.  *)
TransferIsFunded ==
    \A w \in Withdrawals :
        stripe[w].transfer # "none" => EntriesOf(w, "stripe_payout") # {} /\ rows[w] # NoRow

(* A row that says Refunded was refunded in the ledger, however stale the   *)
(* copies are that handler and webhooks write back over each other.         *)
RefundFlagTruthful ==
    \A w \in Withdrawals :
        (rows[w] # NoRow /\ rows[w].refunded) => EntriesOf(w, "refund") # {}

(* The ledger is re-credited only when the money did not leave or came      *)
(* back: not after a transfer whose row update or payout failed             *)
(* ("Don't refund - that would double-credit the user").  The exception is  *)
(* a transfer whose answer was lost: it looks like one that was refused.    *)
RefundHasCause ==
    \A w \in Withdrawals :
        EntriesOf(w, "refund") # {} =>
            stripe[w].transfer \in {"none", "reversed"} \/ stripe[w].payout = "failed" \/ lost > 0

(* What rows, ledger and Stripe say of a withdrawal agrees: transfers are  *)
(* paid for and recorded, rows marked refunded were refunded, and refunds  *)
(* have a cause.                                                           *)
RefundsTruthful == TransferIsFunded /\ RefundFlagTruthful /\ RefundHasCause

(* Once the row knows its transfer no stale write makes it forget: the      *)
(* transfer.reversed event of a recorded transfer always finds its row.     *)
TransferIDKept ==
    [][\A w \in Withdrawals :
          (rows[w] # NoRow /\ rows[w].tid) => (rows'[w] # NoRow /\ rows'[w].tid)]_vars

(* A payout failure that Stripe still owes us, for a row that knows its     *)
(* payout, ends in a refund, whatever else happens to the row meanwhile and *)
(* however often the coordinator restarts, unless a store call fails.       *)
FailureRefunded ==
    \A w \in Withdrawals :
        (<<w, "payout.failed">> \in unacked /\ rows[w] # NoRow /\ rows[w].pid)
            ~> (EntriesOf(w, "refund") # {} \/ faults > 0)

-----------------------------------------------------------------------------
(* What a comment of stripe_payouts.go promises and the code does not keep. *)

(* "Refunded flag prevents webhook replay from double-crediting."           *)
SingleRefund ==
    \A w \in Withdrawals : Cardinality(EntriesOf(w, "refund")) <= 1

=============================================================================
