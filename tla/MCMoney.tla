------------------------------ MODULE MCMoney ------------------------------
(***************************************************************************)
(* The balance store under arbitrary calls, the withdrawals of an account, *)
(* a checkout with referrals, the choice of referral codes, and an invite  *)
(* code: each behaviour follows one of the five.                           *)
(***************************************************************************)
EXTENDS LedgerStore, Withdrawals, Credits

CONSTANTS s1, ref1

(* The one checkout is the account's and names the code of a referrer.     *)
PaidBy == [s \in {s1} |-> Account]
Named == [s \in {s1} |-> ref1]

VARIABLE part

withdrawalVars == <<rows, hpc, wd, stripe, webhookVars, faults, lost, crashes>>
moneyVars == <<part, vars, creditsVars>>

MoneyInit ==
    \/ part = "withdrawals" /\ Init /\ CreditsInit
    \/ part \in {"store", "codes", "invites"} /\ LedgerInit /\ NoWithdrawal /\ CreditsInit
    \/ part = "checkout" /\ LedgerInit /\ NoWithdrawal /\ RegisteredInit

MoneyNext ==
    /\ UNCHANGED part
    /\ \/ part = "store" /\ StoreNext /\ UNCHANGED <<withdrawalVars, creditsVars>>
       \/ part = "withdrawals" /\ Next /\ UNCHANGED creditsVars
       \/ part = "checkout" /\ CheckoutNext /\ UNCHANGED vars
       \/ part = "codes" /\ RegisterNext /\ UNCHANGED vars
       \/ part = "invites" /\ InviteNext /\ UNCHANGED vars

(* The fairness of the withdrawals while they run.                         *)
WithdrawalFairness ==
    /\ \A w \in Withdrawals : WF_vars(part = "withdrawals" /\ handleStripeWithdraw(w))
    /\ \A d \in Deliveries : /\ WF_vars(part = "withdrawals" /\ WebhookRefund(d))
                             /\ WF_vars(part = "withdrawals" /\ WebhookUpdate(d))
    /\ \A w \in Withdrawals, kind \in EventKind :
          WF_vars(/\ part = "withdrawals" /\ <<w, kind>> \in unacked \ InFlight
                  /\ \E d \in Deliveries : Deliver(d, w, kind))

(* A request in progress goes on; Stripe delivers an event it got no 200   *)
(* for again and again, and the requests of others do not keep it out for  *)
(* ever (the number of requests served at a time is a bound of the model). *)
CheckoutFairness ==
    /\ \A r \in Requests : WF_creditsVars(part = "checkout" /\ CheckoutStep(r))
    /\ \A s \in Sessions :
          SF_creditsVars(/\ part = "checkout" /\ s \in owed /\ Handling(s) = {}
                         /\ \E r \in Requests : DeliverEvent(r, s))

MoneySpec ==
    MoneyInit /\ [][MoneyNext]_moneyVars /\ WithdrawalFairness /\ CheckoutFairness

(* Money that is owed arrives: a failed payout is refunded, and a paid     *)
(* checkout is credited, through failing stores and restarts.              *)
MoneyArrives == FailureRefunded /\ PaidIsCredited

=============================================================================
