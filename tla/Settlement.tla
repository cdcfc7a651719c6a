----------------------------- MODULE Settlement -----------------------------
(***************************************************************************)
(* Who pays for one inference request: handleChatCompletions and           *)
(* handleGenericInference (coordinator/api/consumer.go) on one side, the   *)
(* provider messages handled in provider.go and Registry.Disconnect on the *)
(* other.                                                                  *)
(*                                                                         *)
(* The handler reserves the worst case, tries up to MaxAttempts providers  *)
(* under a fresh request id each, and returns the reservation if it gives  *)
(* up.  The goroutine that gets a request's InferenceComplete settles it   *)
(* against the same reservation.  Both take the request out of the         *)
(* provider's pending map, which is the only thing they synchronise on.    *)
(***************************************************************************)
EXTENDS Ledger

CONSTANTS
    Consumer, Provider, Platform, Referrer,     \* accounts
    MaxAttempts,    \* maxDispatchAttempts
    Opening,        \* what the consumer has, in micro-USD
    Reservation,    \* reservationCost of the request, in micro-USD
    SharePercent,   \* referralSharePercent
    Apis,           \* subset of {"chat", "generic"}
    Plans,          \* the circumstances of a request, see Plan
    Reserve, Returned   \* references of the reservation and of its refund

Attempts == 1..MaxAttempts

(* Whether the handler's timeouts may fire and the client may disconnect,   *)
(* how many store calls may fail, the costs CalculateCost may find once the *)
(* usage is known, whether the consumer may have a referrer and whether the *)
(* provider may have a linked account or a wallet.                          *)
Plan == [timers : BOOLEAN, cancels : BOOLEAN, faults : Nat, costs : SUBSET Nat,
         referred : SUBSET BOOLEAN, payee : SUBSET BOOLEAN]

ASSUME SettlementAssumption ==
    /\ {Consumer, Provider, Platform, Referrer} \subseteq Accounts
    /\ Consumer \notin {Provider, Platform, Referrer} /\ Provider \notin {Platform, Referrer}
    /\ Platform # Referrer
    /\ MaxAttempts \in Nat \ {0}
    /\ Opening \in Nat /\ Reservation \in Nat \ {0}
    /\ Plans \subseteq Plan
    /\ SharePercent \in 1..50
    /\ Apis \subseteq {"chat", "generic"}
    /\ Attempts \cup {Reserve, Returned} \subseteq Refs
    /\ Reserve \notin Attempts /\ Returned \notin Attempts

VARIABLES
    plan,
    api,            \* which handler serves the request
    reserved,       \* reservedMicroUSD: 0 when billing is off
    referred,       \* whether the consumer has a referrer
    payee,          \* whether the provider has a linked account or a wallet
    hpc, n,         \* where the handler stands, the attempt it is at
    told,           \* how the response to the consumer ended
    pend,           \* attempts in their provider's pendingReqs
    sent,           \* attempts whose provider got the request
    accepted,       \* attempts with a signal in AcceptedCh
    chunk,          \* attempts with data in ChunkCh
    closed,         \* attempts whose channels are closed
    err,            \* attempts with a message in ErrorCh
    gone,           \* attempts whose provider left the registry's map
    spc,            \* per attempt, what its provider's read loop is doing
    cost, fee,      \* per attempt, totalCost and platformFee of handleComplete
    faults

chans == <<accepted, chunk, closed, err>>
request == <<plan, api, reserved, referred, payee>>
handler == <<hpc, n, told>>
vars == <<ledgerVars, request, handler, pend, sent, chans, gone, spc, cost, fee, faults>>

Init ==
    /\ plan \in Plans /\ api \in Apis
    /\ reserved \in {0, Reservation}
    /\ referred \in plan.referred /\ payee \in plan.payee
    /\ balances = [a \in Accounts |-> IF a = Consumer THEN Opening ELSE 0]
    /\ withdrawable = [a \in Accounts |-> 0]
    /\ ledgerEntries = <<>>
    /\ hpc = "reserve" /\ n = 1 /\ told = "none"
    /\ pend = {} /\ sent = {} /\ gone = {}
    /\ accepted = {} /\ chunk = {} /\ closed = {} /\ err = {}
    /\ spc = [i \in Attempts |-> "idle"]
    /\ cost = [i \in Attempts |-> 0]
    /\ fee = [i \in Attempts |-> 0]
    /\ faults = 0

(* The results of the ledger calls below are ignored or only logged.        *)
Unchecked(call) ==
    \/ call /\ UNCHANGED faults
    \/ faults < plan.faults /\ faults' = faults + 1 /\ UNCHANGED ledgerVars

-----------------------------------------------------------------------------
(* payments/pricing.go                                                      *)

platformFeePercent == 5
PlatformFee(total) == (total * platformFeePercent) \div 100

ProviderPayout(total) == total - PlatformFee(total)

-----------------------------------------------------------------------------
(* The handler.                                                             *)

(* The pre-flight reservation; without billing there is none.               *)
ReserveBalance ==
    /\ hpc = "reserve"
    /\ \/ /\ reserved > 0
          /\ Debit(Consumer, reserved, "charge", Reserve)
          /\ hpc' = "route" /\ UNCHANGED told
       \/ /\ reserved = 0
          /\ hpc' = "route" /\ UNCHANGED <<told, ledgerVars>>
       \/ /\ reserved > 0
          /\ hpc' = "done" /\ told' = "error" /\ UNCHANGED ledgerVars
    /\ UNCHANGED <<request, n, pend, sent, chans, gone, spc, cost, fee, faults>>

(* `continue` in the dispatch loop; the generic handler has no second try.  *)
NextAttempt ==
    IF api = "chat" /\ n < MaxAttempts
    THEN n' = n + 1 /\ hpc' = "route"
    ELSE hpc' = "refund" /\ UNCHANGED n

(* ReserveProviderEx, or the queue on the first attempt.  A waiter that     *)
(* leaves the queue may leave a reserved slot behind (module Dispatch).     *)
Route ==
    /\ hpc = "route"
    /\ \/ hpc' = "send" /\ pend' = pend \cup {n}
       \/ hpc' = "refund" /\ UNCHANGED pend
       \/ n = 1 /\ hpc' = "refund" /\ pend' = pend \cup {n}
    /\ UNCHANGED <<ledgerVars, request, n, told, sent, chans, gone, spc, cost, fee, faults>>

(* Mutant: an attempt that could not be sent is not counted.                *)
SendRequestUncounted ==
    /\ hpc = "send"
    /\ \/ hpc' = "route" /\ pend' = pend \ {n} /\ UNCHANGED <<n, sent>>
       \/ /\ sent' = sent \cup {n}
          /\ hpc' = IF api = "chat" THEN "first" ELSE "relay"
          /\ UNCHANGED <<pend, n>>
    /\ UNCHANGED <<ledgerVars, request, told, chans, gone, spc, cost, fee, faults>>

(* Encryption errors leave the pending entry; a failed write removes it.    *)
SendRequest ==
    /\ hpc = "send"
    /\ \/ NextAttempt /\ UNCHANGED <<pend, sent>>
       \/ NextAttempt /\ pend' = pend \ {n} /\ UNCHANGED sent
       \/ /\ sent' = sent \cup {n}
          /\ hpc' = IF api = "chat" THEN "first" ELSE "relay"
          /\ UNCHANGED <<pend, n>>
    /\ UNCHANGED <<ledgerVars, request, told, chans, gone, spc, cost, fee, faults>>

(* The two selects before the handler commits to the provider: "first", and *)
(* "second" once the provider has accepted.                                 *)
TakeAccepted ==
    /\ hpc = "first" /\ n \in accepted
    /\ accepted' = accepted \ {n}
    /\ hpc' = "second"
    /\ UNCHANGED <<ledgerVars, request, n, told, pend, sent, chunk, closed, err, gone, spc, cost, fee, faults>>

TakeFirstChunk ==
    /\ hpc \in {"first", "second"} /\ n \in chunk
    /\ chunk' = chunk \ {n}
    /\ hpc' = "relay"
    /\ UNCHANGED <<ledgerVars, request, n, told, pend, sent, accepted, closed, err, gone, spc, cost, fee, faults>>

(* ChunkCh closed with no error pending: a genuine empty response.          *)
TakeEmpty ==
    /\ hpc \in {"first", "second"} /\ n \in closed \ (chunk \cup err)
    /\ hpc' = "relay"
    /\ UNCHANGED <<ledgerVars, request, n, told, pend, sent, chans, gone, spc, cost, fee, faults>>

(* An error, read from ErrorCh or found there after ChunkCh was closed.     *)
TakeError ==
    /\ hpc \in {"first", "second"} /\ n \in err
    /\ err' = err \ {n}
    /\ pend' = pend \ {n}
    /\ NextAttempt
    /\ UNCHANGED <<ledgerVars, request, told, sent, accepted, chunk, closed, gone, spc, cost, fee, faults>>

(* The timers: RemovePending's result is not looked at.                     *)
Timeout ==
    /\ plan.timers
    /\ hpc \in {"first", "second"}
    /\ pend' = pend \ {n}
    /\ NextAttempt
    /\ UNCHANGED <<ledgerVars, request, told, sent, chans, gone, spc, cost, fee, faults>>

Cancelled ==
    /\ plan.cancels
    /\ hpc \in {"first", "second"}
    /\ pend' = pend \ {n}
    /\ hpc' = "refund"
    /\ UNCHANGED <<ledgerVars, request, n, told, sent, chans, gone, spc, cost, fee, faults>>

refundReservation ==
    /\ hpc = "refund"
    /\ IF reserved > 0
       THEN Unchecked(Credit(Consumer, reserved, "refund", Returned))
       ELSE UNCHANGED <<ledgerVars, faults>>
    /\ hpc' = "done" /\ told' = "error"
    /\ UNCHANGED <<request, n, pend, sent, chans, gone, spc, cost, fee>>

(* The response handlers: chunks are passed on until the channel is closed, *)
(* an error comes, the timer fires or the client goes away.                 *)
RelayChunk ==
    /\ hpc = "relay" /\ n \in chunk
    /\ chunk' = chunk \ {n}
    /\ UNCHANGED <<ledgerVars, request, handler, pend, sent, accepted, closed, err, gone, spc, cost, fee, faults>>

EndRelay(how) ==
    /\ hpc = "relay"
    /\ hpc' = "finish" /\ told' = how
    /\ UNCHANGED <<ledgerVars, request, n, pend, sent, chans, gone, spc, cost, fee, faults>>

(* Mutant: a request no longer pending is taken for finished.               *)
RelayNotPending == n \notin pend \cup chunk /\ EndRelay("ok")

RelayClosed == n \in closed \ chunk /\ EndRelay("ok")
RelayError == n \in err /\ EndRelay("error")
RelayStopped == (plan.timers \/ plan.cancels) /\ EndRelay("error")

(* The deferred cleanup.                                                    *)
Finish ==
    /\ hpc = "finish"
    /\ pend' = pend \ {n}
    /\ hpc' = "done"
    /\ UNCHANGED <<ledgerVars, request, n, told, sent, chans, gone, spc, cost, fee, faults>>

Handler ==
    \/ ReserveBalance \/ Route \/ SendRequest
    \/ TakeAccepted \/ TakeFirstChunk \/ TakeEmpty \/ TakeError \/ Timeout \/ Cancelled
    \/ RelayChunk \/ RelayClosed \/ RelayError \/ RelayStopped
    \/ refundReservation \/ Finish

-----------------------------------------------------------------------------
(* The provider's messages, each handled to its end by the read loop of its *)
(* connection.                                                              *)

Message(i) == i \in sent \cap pend /\ spc[i] = "idle"

Loop(i, pc) == spc' = [spc EXCEPT ![i] = pc]

(* The generic handler has no AcceptedCh.                                   *)
handleInferenceAccepted(i) ==
    /\ Message(i)
    /\ accepted' = IF api = "chat" THEN accepted \cup {i} ELSE accepted
    /\ UNCHANGED <<ledgerVars, request, handler, pend, sent, chunk, closed, err, gone, spc, cost, fee, faults>>

(* GetPending, and the send into the channel it found.                      *)
handleChunk(i) ==
    /\ Message(i)
    /\ Loop(i, "chunk")
    /\ UNCHANGED <<ledgerVars, request, handler, pend, sent, chans, gone, cost, fee, faults>>

(* A send on a closed channel panics, which ends the connection.            *)
SendChunk(i) ==
    /\ spc[i] = "chunk"
    /\ IF i \in closed
       THEN Loop(i, "panic") /\ UNCHANGED chunk
       ELSE Loop(i, "idle") /\ chunk' = chunk \cup {i}
    /\ UNCHANGED <<ledgerVars, request, handler, pend, sent, accepted, closed, err, gone, cost, fee, faults>>

(* The request leaves the map, an error is queued, the channels close.      *)
Fail(i) ==
    /\ pend' = pend \ {i}
    /\ err' = err \cup {i}
    /\ closed' = closed \cup {i}
    /\ UNCHANGED <<ledgerVars, request, handler, sent, accepted, chunk, spc, cost, fee, faults>>

(* InferenceError, or a chunk that does not decrypt.                        *)
handleInferenceError(i) == Message(i) /\ Fail(i) /\ UNCHANGED gone

(* Mutant: the request is looked up and stays in the map.                   *)
handleCompleteKeeps(i) ==
    /\ Message(i)
    /\ \E c \in plan.costs :
          cost' = [cost EXCEPT ![i] = IF reserved > 0 /\ c > reserved THEN reserved ELSE c]
    /\ Loop(i, "consumer")
    /\ UNCHANGED <<ledgerVars, request, handler, pend, sent, chans, gone, fee, faults>>

(* handleComplete: takes the request out of the map and clamps the cost.    *)
handleComplete(i) ==
    /\ Message(i)
    /\ pend' = pend \ {i}
    /\ \E c \in plan.costs :
          cost' = [cost EXCEPT ![i] = IF reserved > 0 /\ c > reserved THEN reserved ELSE c]
    /\ Loop(i, "consumer")
    /\ UNCHANGED <<ledgerVars, request, handler, sent, chans, gone, fee, faults>>

SettleConsumer(i) ==
    /\ spc[i] = "consumer"
    /\ IF reserved > 0
       THEN IF cost[i] < reserved
            THEN Unchecked(Credit(Consumer, reserved - cost[i], "refund", i))
            ELSE UNCHANGED <<ledgerVars, faults>>
       ELSE IF CanDebit(Consumer, cost[i])
            THEN Unchecked(Debit(Consumer, cost[i], "charge", i))
            ELSE UNCHANGED <<ledgerVars, faults>>
    /\ Loop(i, "provider")
    /\ UNCHANGED <<request, handler, pend, sent, chans, gone, cost, fee>>

(* Looked up again in the registry; a provider that left is not paid.       *)
PayProvider(i) ==
    /\ spc[i] = "provider"
    /\ IF payee /\ i \notin gone
       THEN Unchecked(CreditProvider(Provider, ProviderPayout(cost[i]), i))
       ELSE UNCHANGED <<ledgerVars, faults>>
    /\ Loop(i, "referral")
    /\ UNCHANGED <<request, handler, pend, sent, chans, gone, cost, fee>>

(* Mutant: the platform keeps its whole fee and the referrer is paid too.   *)
DistributeReferralOnTop(i) ==
    LET whole == PlatformFee(cost[i])
        reward == (whole * SharePercent) \div 100
    IN  /\ spc[i] = "referral"
        /\ IF referred /\ reward > 0
           THEN Unchecked(CreditWithdrawable(Referrer, reward, "referral_reward", i))
           ELSE UNCHANGED <<ledgerVars, faults>>
        /\ fee' = [fee EXCEPT ![i] = whole]
        /\ Loop(i, "fee")
        /\ UNCHANGED <<request, handler, pend, sent, chans, gone, cost>>

(* The reward comes out of the platform's fee, unless crediting it failed.  *)
DistributeReferralReward(i) ==
    LET whole == PlatformFee(cost[i])
        reward == (whole * SharePercent) \div 100
    IN  /\ spc[i] = "referral"
        /\ \/ /\ referred /\ reward > 0
              /\ CreditWithdrawable(Referrer, reward, "referral_reward", i)
              /\ fee' = [fee EXCEPT ![i] = whole - reward]
              /\ UNCHANGED faults
           \/ /\ IF referred /\ reward > 0
                 THEN faults < plan.faults /\ faults' = faults + 1
                 ELSE UNCHANGED faults
              /\ fee' = [fee EXCEPT ![i] = whole]
              /\ UNCHANGED ledgerVars
        /\ Loop(i, "fee")
        /\ UNCHANGED <<request, handler, pend, sent, chans, gone, cost>>

CreditPlatform(i) ==
    /\ spc[i] = "fee"
    /\ IF PlatformFee(cost[i]) > 0
       THEN Unchecked(Credit(Platform, fee[i], "platform_fee", i))
       ELSE UNCHANGED <<ledgerVars, faults>>
    /\ Loop(i, "signal")
    /\ UNCHANGED <<request, handler, pend, sent, chans, gone, cost, fee>>

(* Only now is the consumer's handler woken.                                *)
SignalComplete(i) ==
    /\ spc[i] = "signal"
    /\ closed' = closed \cup {i}
    /\ Loop(i, "settled")
    /\ UNCHANGED <<ledgerVars, request, handler, pend, sent, accepted, chunk, err, gone, cost, fee, faults>>

(* Disconnect: by the connection itself, the eviction loop or a second      *)
(* registration of the same machine, so at any point of the read loop.      *)
Disconnect(i) ==
    /\ i \in (pend \cup sent) \ gone
    /\ gone' = gone \cup {i}
    /\ UNCHANGED <<ledgerVars, request, handler, pend, sent, chans, spc, cost, fee, faults>>

ClosePending(i) == i \in gone \cap pend /\ Fail(i) /\ UNCHANGED gone

Settle(i) ==
    \/ SendChunk(i)
    \/ SettleConsumer(i) \/ PayProvider(i) \/ DistributeReferralReward(i)
    \/ CreditPlatform(i) \/ SignalComplete(i)

Ends(i) == handleComplete(i) \/ handleInferenceError(i) \/ Disconnect(i)

Quiet == hpc = "done" /\ UNCHANGED vars

Next ==
    \/ Handler
    \/ \E i \in Attempts :
          \/ handleInferenceAccepted(i) \/ handleChunk(i)
          \/ Ends(i) \/ Settle(i) \/ ClosePending(i)
    \/ Quiet

Spec == Init /\ [][Next]_vars

(* Goroutines run, and a provider that got a request ends it or is dropped  *)
(* by the eviction loop.                                                    *)
Fairness ==
    /\ WF_vars(Handler)
    /\ \A i \in Attempts : WF_vars(Settle(i)) /\ WF_vars(ClosePending(i)) /\ SF_vars(Ends(i))

FairSpec == Spec /\ Fairness

-----------------------------------------------------------------------------

TypeOK ==
    /\ LedgerTypeOK
    /\ plan \in Plans /\ api \in Apis /\ reserved \in {0, Reservation}
    /\ referred \in BOOLEAN /\ payee \in BOOLEAN
    /\ hpc \in {"reserve", "route", "send", "first", "second", "relay", "refund", "finish", "done"}
    /\ n \in Attempts /\ told \in {"none", "ok", "error"}
    /\ pend \subseteq Attempts /\ sent \subseteq Attempts /\ gone \subseteq Attempts
    /\ accepted \subseteq Attempts /\ chunk \subseteq Attempts
    /\ closed \subseteq Attempts /\ err \subseteq Attempts
    /\ spc \in [Attempts -> {"idle", "chunk", "panic", "consumer", "provider", "referral",
                             "fee", "signal", "settled"}]
    /\ cost \in [Attempts -> Nat] /\ fee \in [Attempts -> Nat]
    /\ faults \in 0..plan.faults

Settling(i) == spc[i] \in {"consumer", "provider", "referral", "fee", "signal"}

RowsOf(ref) == {k \in DOMAIN ledgerEntries : ledgerEntries[k].ref = ref}
Total == balances[Consumer] + balances[Provider] + balances[Platform] + balances[Referrer]

(* Whoever takes a request out of the pending map owns it: a request that   *)
(* is being settled can neither be found again nor have had its channels    *)
(* closed by an error or a disconnect (a second close would panic).         *)
OwnedByOne == \A i \in Attempts : Settling(i) => i \notin pend \cup closed

(* "This must happen AFTER usage/billing is recorded": a consumer that got  *)
(* its complete response never finds it half billed.                        *)
BilledBeforeAnswered == told = "ok" => ~Settling(n)

Uninterrupted == ~plan.timers /\ ~plan.cancels

(* A provider that left the map, or has no account, forfeits its share.     *)
Forfeit(i) ==
    IF (~payee \/ i \in gone) /\ balances[Provider] = 0 THEN ProviderPayout(cost[i]) ELSE 0

(* Without a reservation the charge comes after the work, and one that      *)
(* fails, because the balance is too low or the store call fails, is only   *)
(* logged ("could not charge consumer"): the shares are paid all the same.  *)
Unpaid(i) ==
    IF reserved = 0 /\ (cost[i] > Opening \/ faults > 0) THEN cost[i] ELSE 0

(* Money is never made: what consumer, provider, platform and referrer have *)
(* together does not exceed what the consumer put in ("preventing billing   *)
(* race conditions"), but for the bill of a request that had no reservation *)
(* and whose charge failed.  Nor is any lost unless a store call fails:     *)
(* once an attempt is settled, the consumer's refund, the provider's share, *)
(* the referrer's and the platform's add up to what the consumer paid, for  *)
(* every cost, rounding and clamping included, and only a provider that is  *)
(* gone or has no account forfeits its share.  A timer that fires, or a     *)
(* client that leaves, while the attempt is being billed does break this:   *)
(* the handler ignores that the pending entry is gone, so the reservation   *)
(* is spent a second time.                                                  *)
MoneyConserved ==
    Uninterrupted =>
        /\ \E i \in Attempts : Total <= Opening + Unpaid(i)
        /\ \A i \in Attempts :
              faults = 0 /\ spc[i] = "settled" => Total + Forfeit(i) = Opening + Unpaid(i)

(* Every request is answered, even if no timer fires and the client never   *)
(* goes away: whoever drops the pending entry wakes the handler.            *)
Answered == <>(hpc = "done")

-----------------------------------------------------------------------------
(* What comments promise and the code does not keep.                        *)

(* "The post-inference charge refunds any unused portion": when all is over *)
(* a reservation was settled or returned.                                   *)
ReservationReturned ==
    (/\ hpc = "done" /\ faults = 0
     /\ RowsOf(Reserve) # {}
     /\ \A i \in Attempts : ~Settling(i))
        => RowsOf(Returned) # {} \/ \E i \in Attempts : spc[i] = "settled"

(* "Channel closed - inference complete": a response that ended normally    *)
(* was completed by its provider.                                           *)
ClosedMeansComplete == told = "ok" => spc[n] = "settled"

=============================================================================
