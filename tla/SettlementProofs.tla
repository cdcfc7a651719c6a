-------------------------- MODULE SettlementProofs --------------------------
(***************************************************************************)
(* Who owns a request, for any number of attempts and any circumstances.   *)
(*                                                                         *)
(* OwnedByOne is not inductive: a request being settled could be put back  *)
(* into the pending map by Route, were its attempt not new.  Ownership     *)
(* adds that attempts the handler has not routed yet are untouched, that a *)
(* pending request is open and unsettled, and that a response which ended  *)
(* normally ended on a closed channel.                                     *)
(***************************************************************************)
EXTENDS Settlement, TLAPS

Busy == {"consumer", "provider", "referral", "fee", "signal"}
LoopStates == Busy \cup {"idle", "chunk", "panic", "settled"}

Untouched(i) == i \notin pend \cup closed /\ spc[i] = "idle"
NotRouted(i) == i > n \/ (i = n /\ hpc \in {"reserve", "route"})

Ownership ==
    /\ n \in Attempts /\ pend \subseteq Attempts /\ spc \in [Attempts -> LoopStates]
    /\ \A i \in pend : i \notin closed /\ ~Settling(i)
    /\ \A i \in Attempts : Settling(i) => i \notin closed
    /\ \A i \in Attempts : NotRouted(i) => Untouched(i)
    /\ told = "ok" => hpc \in {"finish", "done"} /\ n \in closed

LEMMA InitOwnership == Init => Ownership
<1> SUFFICES ASSUME Init PROVE Ownership
  BY Zenon
<1>1. n = 1 /\ n \in Attempts
  BY SettlementAssumption DEF Init, Attempts
<1>2. spc \in [Attempts -> LoopStates] /\ \A i \in Attempts : spc[i] = "idle"
  BY Zenon DEF Init, LoopStates
<1>3. pend = {} /\ closed = {} /\ told = "none"
  BY Zenon DEF Init
<1> QED
  BY <1>1, <1>2, <1>3, Zenon DEF Ownership, Untouched, Settling

(* The handler's steps.                                                    *)
LEMMA HandlerKeeps == ASSUME Ownership, Handler PROVE Ownership'
<1> USE DEF request, handler, chans, Ownership, Untouched, NotRouted, Settling
<1> MaxAttempts \in Nat \ {0}
  BY SettlementAssumption, Zenon
<1>1. CASE ReserveBalance
  BY <1>1, Zenon DEF ReserveBalance
<1>2. CASE Route
  <2>1. hpc = "route" /\ Untouched(n) /\ UNCHANGED <<n, told, closed, spc>>
    BY <1>2, Zenon DEF Route
  <2>2. hpc' \in {"send", "refund"} /\ pend' \in {pend, pend \cup {n}}
    BY <1>2, Zenon DEF Route
  <2>3. \A i \in Attempts : NotRouted(i)' => i > n
    BY <2>1, <2>2, Zenon
  <2>4. \A i \in Attempts : NotRouted(i)' => Untouched(i)'
    BY <2>1, <2>2, <2>3, n \in Int DEF Attempts
  <2>5. pend' \subseteq Attempts /\ \A i \in pend' : i \notin closed' /\ ~Settling(i)'
    BY <2>1, <2>2, Zenon
  <2> QED
    BY <2>1, <2>2, <2>4, <2>5, Zenon
<1>3. CASE SendRequest
  <2>1. hpc = "send" /\ pend' \subseteq pend /\ UNCHANGED <<told, closed, spc>>
    BY <1>3, Zenon DEF SendRequest
  <2>2. \/ NextAttempt
        \/ n' = n /\ hpc' \in {"first", "relay"}
    BY <1>3, Zenon DEF SendRequest
  <2> QED
    BY <2>1, <2>2 DEF NextAttempt, Attempts
<1>4. CASE TakeAccepted
  BY <1>4, Zenon DEF TakeAccepted
<1>5. CASE TakeFirstChunk
  BY <1>5, Zenon DEF TakeFirstChunk
<1>6. CASE TakeEmpty
  BY <1>6, Zenon DEF TakeEmpty
<1>7. CASE TakeError
  BY <1>7 DEF TakeError, NextAttempt, Attempts
<1>8. CASE Timeout
  BY <1>8 DEF Timeout, NextAttempt, Attempts
<1>9. CASE Cancelled
  BY <1>9, Zenon DEF Cancelled
<1>10. CASE RelayChunk
  BY <1>10, Zenon DEF RelayChunk
<1>11. CASE RelayClosed
  BY <1>11, Zenon DEF RelayClosed, EndRelay
<1>12. CASE RelayError
  BY <1>12, Zenon DEF RelayError, EndRelay
<1>13. CASE RelayStopped
  BY <1>13, Zenon DEF RelayStopped, EndRelay
<1>14. CASE refundReservation
  BY <1>14, Zenon DEF refundReservation
<1>15. CASE Finish
  BY <1>15, Zenon DEF Finish
<1> QED
  BY <1>1, <1>2, <1>3, <1>4, <1>5, <1>6, <1>7, <1>8, <1>9, <1>10, <1>11, <1>12, <1>13, <1>14,
     <1>15, Zenon DEF Handler

(* What a read loop or Disconnect may do to a request that was routed: it  *)
(* takes it from the map or closes its channels, but never leaves it in    *)
(* the map closed or settling, nor settles a closed one.                   *)
MayStep(i, pc) ==
    /\ i \in pend \/ spc[i] # "idle"
    /\ spc' = [spc EXCEPT ![i] = pc]
    /\ pend' \in {pend, pend \ {i}} /\ closed' \in {closed, closed \cup {i}}
    /\ UNCHANGED <<n, hpc, told>>
    /\ i \in closed' => i \notin pend'
    /\ pc \in Busy => i \notin pend' \cup closed'

LEMMA RoutedStep ==
    ASSUME Ownership, NEW i \in Attempts, NEW pc \in LoopStates, MayStep(i, pc)
    PROVE  Ownership'
<1> USE DEF MayStep, Ownership, Untouched, NotRouted, Settling, Busy
<1>1. /\ spc' \in [Attempts -> LoopStates]
      /\ \A j \in Attempts : spc'[j] = IF j = i THEN pc ELSE spc[j]
  BY Zenon
<1>2. \A j \in pend' : j \notin closed' /\ ~Settling(j)'
  BY <1>1, Zenon
<1>3. \A j \in Attempts : Settling(j)' => j \notin closed'
  BY <1>1, Zenon
<1>4. \A j \in Attempts : NotRouted(j)' => Untouched(j)'
  BY <1>1, Zenon
<1>5. told' = "ok" => hpc' \in {"finish", "done"} /\ n' \in closed'
  BY Zenon
<1> QED
  BY <1>1, <1>2, <1>3, <1>4, <1>5, Zenon

(* The steps of the read loops and of Disconnect.                          *)
LEMMA ReadLoopKeeps ==
    ASSUME Ownership, NEW i \in Attempts,
           \/ handleInferenceAccepted(i) \/ handleChunk(i)
           \/ Ends(i) \/ Settle(i) \/ ClosePending(i)
    PROVE  Ownership'
<1> USE DEF request, handler, chans, Loop, Message, Busy
<1>0. /\ i \in pend => i \notin closed
      /\ spc[i] \in Busy => i \notin pend \cup closed
      /\ spc \in [Attempts -> LoopStates] /\ spc = [spc EXCEPT ![i] = spc[i]]
      /\ i \in pend => spc[i] \notin Busy
  BY Zenon DEF Ownership, Settling
<1>1. CASE handleInferenceAccepted(i)
  BY <1>1, Zenon DEF handleInferenceAccepted, Ownership, Untouched, NotRouted, Settling
<1>2. CASE handleChunk(i)
  <2>1. MayStep(i, "chunk")
    BY <1>0, <1>2, Zenon DEF MayStep, handleChunk
  <2> QED
    BY <1>0, <2>1, RoutedStep, Zenon DEF LoopStates
<1>3. CASE handleComplete(i)
  <2>1. MayStep(i, "consumer")
    BY <1>0, <1>3, Zenon DEF MayStep, handleComplete
  <2> QED
    BY <1>0, <2>1, RoutedStep, Zenon DEF LoopStates
<1>4. CASE handleInferenceError(i)
  <2>1. MayStep(i, spc[i])
    BY <1>0, <1>4, Zenon DEF MayStep, handleInferenceError, Fail
  <2> QED
    BY <1>0, <2>1, RoutedStep, Zenon DEF LoopStates
<1>5. CASE Disconnect(i)
  BY <1>5, Zenon DEF Disconnect, Ownership, Untouched, NotRouted, Settling
<1>6. CASE SendChunk(i)
  <2>1. MayStep(i, "panic") \/ MayStep(i, "idle")
    BY <1>0, <1>6, Zenon DEF MayStep, SendChunk
  <2> QED
    BY <1>0, <2>1, RoutedStep, Zenon DEF LoopStates
<1>7. CASE SettleConsumer(i)
  <2>1. MayStep(i, "provider")
    BY <1>0, <1>7, Zenon DEF MayStep, SettleConsumer
  <2> QED
    BY <1>0, <2>1, RoutedStep, Zenon DEF LoopStates
<1>8. CASE PayProvider(i)
  <2>1. MayStep(i, "referral")
    BY <1>0, <1>8, Zenon DEF MayStep, PayProvider
  <2> QED
    BY <1>0, <2>1, RoutedStep, Zenon DEF LoopStates
<1>9. CASE DistributeReferralReward(i)
  <2>1. MayStep(i, "fee")
    BY <1>0, <1>9, Zenon DEF MayStep, DistributeReferralReward
  <2> QED
    BY <1>0, <2>1, RoutedStep, Zenon DEF LoopStates
<1>10. CASE CreditPlatform(i)
  <2>1. MayStep(i, "signal")
    BY <1>0, <1>10, Zenon DEF MayStep, CreditPlatform
  <2> QED
    BY <1>0, <2>1, RoutedStep, Zenon DEF LoopStates
<1>11. CASE SignalComplete(i)
  <2>1. MayStep(i, "settled")
    BY <1>0, <1>11, Zenon DEF MayStep, SignalComplete
  <2> QED
    BY <1>0, <2>1, RoutedStep, Zenon DEF LoopStates
<1>12. CASE ClosePending(i)
  <2>1. MayStep(i, spc[i])
    BY <1>0, <1>12, Zenon DEF MayStep, ClosePending, Fail
  <2> QED
    BY <1>0, <2>1, RoutedStep, Zenon DEF LoopStates
<1> QED
  BY <1>1, <1>2, <1>3, <1>4, <1>5, <1>6, <1>7, <1>8, <1>9, <1>10, <1>11, <1>12, Zenon DEF Ends, Settle

(* Whatever the handlers, read loops and disconnects do, a request that is *)
(* being settled is out of the pending map and its channels are open (so   *)
(* the close of handleComplete cannot panic), and a consumer whose         *)
(* response ended normally never finds the bill half written.              *)
THEOREM OwnershipHolds == Spec => [](OwnedByOne /\ BilledBeforeAnswered)
<1>1. Ownership /\ [Next]_vars => Ownership'
  <2> SUFFICES ASSUME Ownership, [Next]_vars PROVE Ownership'
    BY Zenon
  <2>1. CASE Handler
    BY <2>1, HandlerKeeps, Zenon
  <2>2. ASSUME NEW i \in Attempts,
               \/ handleInferenceAccepted(i) \/ handleChunk(i)
               \/ Ends(i) \/ Settle(i) \/ ClosePending(i)
        PROVE  Ownership'
    BY <2>2, ReadLoopKeeps, Zenon
  <2>3. CASE UNCHANGED vars
    BY <2>3, Zenon DEF vars, handler, chans, Ownership, Untouched, NotRouted, Settling
  <2> QED
    BY <2>1, <2>2, <2>3, Zenon DEF Next, Quiet
<1>2. Ownership => OwnedByOne /\ BilledBeforeAnswered
  BY Zenon DEF Ownership, OwnedByOne, BilledBeforeAnswered
<1> QED
  BY InitOwnership, <1>1, <1>2, PTL DEF Spec

(* "This must happen AFTER usage/billing is recorded": so it does, for any *)
(* number of attempts.                                                     *)
COROLLARY BilledFirst == Spec => []BilledBeforeAnswered
BY OwnershipHolds, PTL
-----------------------------------------------------------------------------
(* MoneyConserved is not inductive either: what an attempt still has to    *)
(* hand out must be set aside for it until it does, and no two attempts,   *)
(* nor an attempt and the handler's refund, may be handing out the same    *)
(* reservation.                                                            *)

(* What the shares of pricing.go and of DistributeReferralReward add up to. *)
LEMMA Shares ==
    ASSUME NEW c \in Nat
    PROVE  /\ PlatformFee(c) \in Nat /\ ProviderPayout(c) \in Nat
           /\ PlatformFee(c) + ProviderPayout(c) = c
           /\ (c * SharePercent) \div 100 \in Nat
           /\ c - ((c * SharePercent) \div 100) \in Nat
<1>1. (c * 5) \div 100 \in Nat /\ (c * 5) \div 100 <= c
  OBVIOUS
<1>2. PICK s \in 1..50 : s = SharePercent
  BY SettlementAssumption, Zenon
<1>3. c * s \in Nat /\ c * s <= c * 50
  BY <1>2
<1>4. (c * s) \div 100 \in Nat /\ (c * s) \div 100 <= c
  BY <1>3
<1> QED
  BY <1>1, <1>2, <1>4 DEF PlatformFee, ProviderPayout, platformFeePercent

Billing(i) == spc[i] \in Busy \cup {"settled"}

(* Only the attempt at hand can be completed or is being billed, and not   *)
(* after an error was queued for it.                                       *)
OneAttempt ==
    /\ \A i \in sent \cap pend : i = n /\ hpc \in {"first", "second", "relay"}
    /\ \A i \in Attempts : Billing(i) =>
          i = n /\ i \notin pend \cup err /\ hpc \in {"first", "second", "relay", "finish", "done"}
    /\ \A i \in Attempts : i \in err => i \notin pend
    /\ \A i \in Attempts : NotRouted(i) \/ (i = n /\ hpc = "send") => i \notin sent
    /\ \A i \in Attempts : NotRouted(i) => i \notin err

LEMMA InitOneAttempt == Init => OneAttempt
  BY Zenon DEF Init, OneAttempt, Billing, Busy

LEMMA HandlerKeepsOneAttempt ==
    ASSUME Ownership, OneAttempt, Uninterrupted, Handler
    PROVE  OneAttempt'
<1> USE DEF request, handler, chans, OneAttempt, NotRouted, Billing
<1> MaxAttempts \in Nat \ {0} /\ n \in Attempts /\ n \in Int
  BY SettlementAssumption DEF Ownership, Attempts
<1>1. CASE ReserveBalance
  BY <1>1, Zenon DEF ReserveBalance
<1>2. CASE Route
  <2>1. \A i \in Attempts : NotRouted(i) => i \notin pend /\ spc[i] = "idle"
    BY Zenon DEF Ownership, Untouched
  <2> QED
    BY <1>2, <2>1, Zenon DEF Route, Busy
<1>3. CASE SendRequest
  <2>1. hpc = "send" /\ pend' \subseteq pend /\ UNCHANGED <<err, spc>>
    BY <1>3, Zenon DEF SendRequest
  <2>2. CASE NextAttempt /\ UNCHANGED sent
    <3>1. \A i \in Attempts : ~Billing(i)
      BY <2>1, Zenon
    <3>2. sent \cap pend = {}
      BY <2>1, Zenon
    <3> QED
      BY <2>1, <2>2, <3>1, <3>2 DEF NextAttempt, Attempts
  <2>3. CASE sent' = sent \cup {n} /\ n' = n /\ hpc' \in {"first", "relay"}
    BY <2>1, <2>3 DEF Attempts
  <2> QED
    BY <1>3, <2>2, <2>3, Zenon DEF SendRequest
<1>4. CASE TakeAccepted
  BY <1>4, Zenon DEF TakeAccepted
<1>5. CASE TakeFirstChunk
  BY <1>5, Zenon DEF TakeFirstChunk
<1>6. CASE TakeEmpty
  BY <1>6, Zenon DEF TakeEmpty
<1>7. CASE TakeError
  <2>1. n \in err /\ \A i \in Attempts : ~Billing(i)
    BY <1>7, Zenon DEF TakeError
  <2>2. sent \cap pend = {}
    BY <2>1, Zenon
  <2> QED
    BY <1>7, <2>1, <2>2 DEF TakeError, NextAttempt, Attempts
<1>8. CASE Timeout \/ Cancelled \/ RelayStopped
  BY <1>8, Zenon DEF Timeout, Cancelled, RelayStopped, Uninterrupted
<1>9. CASE RelayChunk
  BY <1>9, Zenon DEF RelayChunk
<1>10. CASE RelayClosed \/ RelayError
  <2>1. n \notin pend
    BY <1>10, Zenon DEF RelayClosed, RelayError, Ownership
  <2> QED
    BY <1>10, <2>1, Zenon DEF RelayClosed, RelayError, EndRelay
<1>11. CASE refundReservation
  BY <1>11, Zenon DEF refundReservation
<1>12. CASE Finish
  BY <1>12, Zenon DEF Finish
<1> QED
  BY <1>1, <1>2, <1>3, <1>4, <1>5, <1>6, <1>7, <1>8, <1>9, <1>10, <1>11, <1>12, Zenon DEF Handler

LEMMA ReadLoopKeepsOneAttempt ==
    ASSUME Ownership, OneAttempt, Uninterrupted, NEW i \in Attempts,
           \/ handleInferenceAccepted(i) \/ handleChunk(i)
           \/ Ends(i) \/ Settle(i) \/ ClosePending(i)
    PROVE  OneAttempt'
<1> USE DEF request, handler, chans, OneAttempt, NotRouted, Billing, Busy, Loop, Message
<1>0. /\ spc \in [Attempts -> LoopStates] /\ (Billing(i) => i \notin pend)
      /\ NotRouted(i) => i \notin pend
  BY Zenon DEF Ownership, Untouched
<1>1. CASE handleInferenceAccepted(i)
  BY <1>1, Zenon DEF handleInferenceAccepted
<1>2. CASE handleChunk(i)
  BY <1>0, <1>2, Zenon DEF handleChunk
<1>3. CASE handleComplete(i)
  BY <1>0, <1>3, Zenon DEF handleComplete
<1>4. CASE handleInferenceError(i)
  BY <1>0, <1>4, Zenon DEF handleInferenceError, Fail
<1>5. CASE Disconnect(i)
  BY <1>5, Zenon DEF Disconnect
<1>6. CASE SendChunk(i)
  BY <1>0, <1>6, Zenon DEF SendChunk
<1>7. CASE SettleConsumer(i) \/ PayProvider(i) \/ DistributeReferralReward(i) \/ CreditPlatform(i)
           \/ SignalComplete(i)
  <2>1. /\ spc[i] \in Busy /\ UNCHANGED <<n, hpc, pend, sent, err>>
        /\ \A j \in Attempts : j # i => spc'[j] = spc[j]
    BY <1>0, <1>7, Zenon DEF SettleConsumer, PayProvider, DistributeReferralReward, CreditPlatform, SignalComplete
  <2> QED
    BY <2>1, Zenon
<1>8. CASE ClosePending(i)
  BY <1>0, <1>8, Zenon DEF ClosePending, Fail
<1> QED
  BY <1>1, <1>2, <1>3, <1>4, <1>5, <1>6, <1>7, <1>8, Zenon DEF Ends, Settle

(* The values the accounts and the bills have.                             *)
Books ==
    /\ balances \in [Accounts -> Int] /\ cost \in [Attempts -> Nat] /\ fee \in [Attempts -> Nat]
    /\ reserved \in Nat /\ faults \in Nat /\ plan.costs \subseteq Nat
    /\ reserved > 0 => \A i \in Attempts : cost[i] <= reserved
    /\ \A i \in Attempts : spc[i] = "fee" => fee[i] <= PlatformFee(cost[i])

(* What an attempt that is being billed has still to hand out.  Until the  *)
(* consumer is charged, a request without a reservation counts on nothing  *)
(* but what will turn out to be unpaid.                                    *)
SetAside(i) ==
    CASE spc[i] = "consumer" -> reserved + Unpaid(i)
      [] spc[i] = "provider" -> cost[i]
      [] spc[i] = "referral" -> PlatformFee(cost[i])
      [] spc[i] = "fee" -> fee[i]
      [] OTHER -> 0

BeforeCharge == {"idle", "chunk", "panic", "consumer"}
BeforePayout == {"idle", "chunk", "panic", "consumer", "provider"}

(* The share of a provider that has been paid nothing.                     *)
Lost(i) == IF balances[Provider] = 0 THEN ProviderPayout(cost[i]) ELSE 0

Balanced ==
    /\ hpc = "reserve" => Total = Opening /\ faults = 0
    /\ (\A i \in Attempts : ~Billing(i)) =>
          Total <= Opening /\ (hpc \notin {"reserve", "done"} => Total = Opening - reserved /\ faults = 0)
    /\ (\A i \in Attempts : spc[i] \in BeforeCharge) /\ reserved = 0 => balances[Consumer] = Opening
    /\ (\A i \in Attempts : spc[i] \in BeforePayout) => balances[Provider] = 0
    /\ \A i \in Attempts : Billing(i) =>
          /\ Total + SetAside(i) <= Opening + Unpaid(i)
          /\ faults = 0 =>
                Total + SetAside(i) + (IF spc[i] \in BeforePayout THEN 0 ELSE Lost(i)) = Opening + Unpaid(i)
          /\ faults = 0 /\ spc[i] \notin BeforePayout /\ payee /\ i \notin gone =>
                balances[Provider] = ProviderPayout(cost[i])

MoneyInv == Ownership /\ Books /\ (Uninterrupted => OneAttempt /\ Balanced)

(* What a change of one account does to the total, and to the provider.    *)
LEMMA TotalChanges ==
    ASSUME balances \in [Accounts -> Int], NEW d \in Int,
           NEW a \in {Consumer, Provider, Platform, Referrer},
           balances' = [balances EXCEPT ![a] = balances[a] + d]
    PROVE  /\ balances' \in [Accounts -> Int] /\ Total \in Int /\ Total' = Total + d
           /\ balances'[Provider] = IF a = Provider THEN balances[Provider] + d ELSE balances[Provider]
           /\ a # Consumer => balances'[Consumer] = balances[Consumer]
  BY SettlementAssumption DEF Total

LEMMA InitMoneyInv == Init => MoneyInv
<1> SUFFICES ASSUME Init PROVE MoneyInv
  BY Zenon
<1>1. balances \in [Accounts -> Int] /\ Total = Opening /\ balances[Provider] = 0 /\ balances[Consumer] = Opening
  BY SettlementAssumption DEF Init, Total
<1>2. plan.costs \subseteq Nat
  BY SettlementAssumption, Zenon DEF Init, Plan
<1>3. reserved \in Nat
  BY SettlementAssumption DEF Init
<1>4. Books
  BY <1>1, <1>2, <1>3 DEF Init, Books
<1>5. Balanced
  BY <1>1, SettlementAssumption DEF Init, Balanced, Billing, Busy
<1> QED
  BY <1>4, <1>5, InitOwnership, InitOneAttempt, Zenon DEF MoneyInv

(* The handler touches money twice: when it reserves and when it gives up. *)
LEMMA HandlerKeepsMoney == ASSUME MoneyInv, Handler PROVE Books' /\ (Uninterrupted => Balanced')
<1> USE DEF request, handler, chans, ledgerVars
<1>0. Ownership /\ Books /\ Opening \in Nat /\ Consumer \in Accounts
  BY SettlementAssumption, Zenon DEF MoneyInv
<1>1. UNCHANGED <<request, spc, cost, fee>>
  BY Zenon DEF Handler, ReserveBalance, Route, SendRequest, TakeAccepted, TakeFirstChunk, TakeEmpty,
         TakeError, Timeout, Cancelled, RelayChunk, RelayClosed, RelayError, RelayStopped, EndRelay,
         refundReservation, Finish
<1>2. CASE ReserveBalance /\ balances' # balances
  <2>1. /\ hpc = "reserve" /\ hpc' = "route" /\ faults' = faults /\ reserved > 0
        /\ balances' = [balances EXCEPT ![Consumer] = balances[Consumer] - reserved]
    BY <1>2, Zenon DEF ReserveBalance, Debit
  <2>2. balances' = [balances EXCEPT ![Consumer] = balances[Consumer] + (-reserved)]
    BY <1>0, <2>1, Zenon DEF Books
  <2>3. balances' \in [Accounts -> Int] /\ Total' = Total - reserved /\ balances'[Provider] = balances[Provider]
    <3>1. -reserved \in Int /\ balances \in [Accounts -> Int] /\ Consumer # Provider
          /\ Consumer \in {Consumer, Provider, Platform, Referrer}
      BY <1>0, SettlementAssumption DEF Books
    <3>2. /\ balances' \in [Accounts -> Int] /\ Total \in Int /\ Total' = Total + (-reserved)
          /\ balances'[Provider] = balances[Provider]
      BY <2>2, <3>1, TotalChanges, Zenon
    <3> QED
      BY <1>0, <3>2, Zenon DEF Books
  <2>4. Books'
    BY <1>0, <1>1, <2>1, <2>3, Zenon DEF Books
  <2>5. ASSUME Uninterrupted PROVE Balanced'
    <3>1. \A i \in Attempts : ~Billing(i) /\ ~Billing(i)'
      BY <1>1, <2>1, <2>5, Zenon DEF MoneyInv, OneAttempt, Billing
    <3> QED
      BY <1>0, <1>1, <2>1, <2>3, <2>5, <3>1 DEF MoneyInv, Balanced, Books
  <2> QED
    BY <2>4, <2>5, Zenon
<1>3. CASE refundReservation /\ (balances' # balances \/ faults' # faults)
  <2>1. /\ hpc = "refund" /\ hpc' = "done" /\ reserved > 0
        /\ \/ balances' = [balances EXCEPT ![Consumer] = balances[Consumer] + reserved] /\ faults' = faults
           \/ UNCHANGED balances /\ faults' = faults + 1
    BY <1>3, Zenon DEF refundReservation, Unchecked, Credit, creditLocked
  <2>2. /\ balances' \in [Accounts -> Int] /\ Total' \in {Total, Total + reserved} /\ faults' \in Nat
        /\ balances'[Provider] = balances[Provider]
    BY <1>0, <2>1, TotalChanges, SettlementAssumption DEF Books, Total
  <2>3. Books'
    BY <1>0, <1>1, <2>2, Zenon DEF Books
  <2>4. ASSUME Uninterrupted PROVE Balanced'
    <3>1. \A i \in Attempts : ~Billing(i) /\ ~Billing(i)'
      BY <1>1, <2>1, <2>4, Zenon DEF MoneyInv, OneAttempt, Billing
    <3>2. Total = Opening - reserved
      BY <2>1, <2>4, <3>1, Zenon DEF MoneyInv, Balanced
    <3> QED
      BY <1>0, <1>1, <2>1, <2>2, <2>4, <3>1, <3>2 DEF MoneyInv, Balanced, Books
  <2> QED
    BY <2>3, <2>4, Zenon
<1>4. CASE UNCHANGED <<balances, faults>>
  <2>0. gone' = gone
    BY Zenon DEF Handler, ReserveBalance, Route, SendRequest, TakeAccepted, TakeFirstChunk, TakeEmpty,
         TakeError, Timeout, Cancelled, RelayChunk, RelayClosed, RelayError, RelayStopped, EndRelay,
         refundReservation, Finish
  <2>1. /\ Total' = Total /\ payee' = payee /\ gone' = gone
        /\ \A i \in Attempts : SetAside(i)' = SetAside(i) /\ Lost(i)' = Lost(i) /\ Unpaid(i)' = Unpaid(i)
    BY <1>1, <1>4, <2>0, Zenon DEF Total, SetAside, Lost, Unpaid
  <2>2. Books'
    BY <1>0, <1>1, <1>4, Zenon DEF Books
  <2>3. hpc' # "reserve" /\ (hpc = "reserve" => hpc' = "done" \/ reserved = 0) /\ hpc # "done"
    <3>1. CASE ReserveBalance
      <4>1. balances[Consumer] \in Int /\ reserved \in Nat
        BY <1>0, Zenon DEF Books
      <4>2. reserved > 0 => balances[Consumer] - reserved # balances[Consumer]
        BY <4>1
      <4> QED
        BY <1>0, <1>4, <3>1, <4>2, Zenon DEF ReserveBalance, Debit, Books
    <3>2. CASE ~ReserveBalance
      BY <3>2, Zenon DEF Handler, Route, SendRequest, NextAttempt, TakeAccepted, TakeFirstChunk, TakeEmpty,
         TakeError, Timeout, Cancelled, RelayChunk, RelayClosed, RelayError, RelayStopped, EndRelay,
         refundReservation, Finish
    <3> QED
      BY <3>1, <3>2, Zenon
  <2>4. ASSUME Uninterrupted PROVE Balanced'
    <3>1. Balanced /\ (\A i \in Attempts : Billing(i)' <=> Billing(i)) /\ Total \in Int
      BY <1>0, <1>1, <2>4, SettlementAssumption DEF MoneyInv, Billing, Books, Total
    <3>2. (\A i \in Attempts : ~Billing(i)) =>
             /\ Total' <= Opening
             /\ hpc' \notin {"reserve", "done"} => Total' = Opening - reserved /\ faults' = 0
      BY <1>0, <1>4, <2>1, <2>3, <3>1 DEF Balanced
    <3>3. UNCHANGED <<balances, faults, spc, cost, reserved>>
      BY <1>1, <1>4, Zenon
    <3>4. \A i \in Attempts : Billing(i)' =>
             /\ Total' + SetAside(i)' <= Opening + Unpaid(i)'
             /\ faults' = 0 =>
                   Total' + SetAside(i)' + (IF spc'[i] \in BeforePayout THEN 0 ELSE Lost(i)') = Opening + Unpaid(i)'
             /\ faults' = 0 /\ spc'[i] \notin BeforePayout /\ payee' /\ i \notin gone' =>
                   balances'[Provider] = ProviderPayout(cost'[i])
      BY <2>1, <3>1, <3>3, ZenonT(40) DEF Balanced
    <3>5. /\ (\A i \in Attempts : spc'[i] \in BeforeCharge) /\ reserved' = 0 => balances'[Consumer] = Opening
          /\ (\A i \in Attempts : spc'[i] \in BeforePayout) => balances'[Provider] = 0
      BY <3>1, <3>3, ZenonT(40) DEF Balanced
    <3>6. (\A i \in Attempts : ~Billing(i)') =>
             /\ Total' <= Opening
             /\ hpc' \notin {"reserve", "done"} => Total' = Opening - reserved' /\ faults' = 0
      BY <3>1, <3>2, <3>3, Zenon
    <3> QED
      BY <2>3, <3>4, <3>5, <3>6, Zenon DEF Balanced
  <2> QED
    BY <2>2, <2>4, Zenon
<1>5. (ReserveBalance /\ balances' # balances) \/ refundReservation \/ UNCHANGED <<balances, faults>>
  BY ZenonT(40) DEF Handler, ReserveBalance, Route, SendRequest, TakeAccepted, TakeFirstChunk, TakeEmpty,
         TakeError, Timeout, Cancelled, RelayChunk, RelayClosed, RelayError, RelayStopped, EndRelay, Finish
<1> QED
  BY <1>2, <1>3, <1>4, <1>5, Zenon

(* An attempt i, the only one being billed, hands out some of what was set *)
(* aside for it: the total moves by no more than what is set aside falls   *)
(* by, but for what turns out to be unpaid.                                *)
LEMMA HandsOut ==
    ASSUME MoneyInv, Uninterrupted, OneAttempt', Books',
           NEW i \in Attempts, Billing(i), Billing(i)', UNCHANGED <<hpc, reserved, cost>>,
           \A j \in Attempts : j # i => spc'[j] = spc[j], spc'[i] \notin BeforeCharge,
           Total' + SetAside(i)' + Unpaid(i) <= Total + SetAside(i) + Unpaid(i)',
           (\A j \in Attempts : spc'[j] \in BeforePayout) => balances'[Provider] = 0,
           faults' = 0 =>
              /\ faults = 0
              /\ Total' + SetAside(i)' + (IF spc'[i] \in BeforePayout THEN 0 ELSE Lost(i)')
                   = Total + SetAside(i) + (IF spc[i] \in BeforePayout THEN 0 ELSE Lost(i))
              /\ spc'[i] \notin BeforePayout /\ payee' /\ i \notin gone' =>
                   balances'[Provider] = ProviderPayout(cost[i])
    PROVE  Balanced'
<1>0. /\ Opening \in Int /\ OneAttempt /\ Balanced
      /\ \A j \in Attempts : Billing(j)' => j = i
  BY SettlementAssumption DEF MoneyInv, OneAttempt
<1>1. hpc' # "reserve"
  BY <1>0, ZenonT(40) DEF OneAttempt
<1>2. Total \in Int /\ Total' \in Int
  BY SettlementAssumption DEF MoneyInv, Books, Total
<1>3. Unpaid(i) \in Int /\ Unpaid(i)' \in Int
  BY DEF MoneyInv, Books, Unpaid
<1>4. SetAside(i) \in Int /\ SetAside(i)' \in Int
  BY <1>3, Shares DEF MoneyInv, Books, SetAside
<1>5. Total + SetAside(i) <= Opening + Unpaid(i)
  BY <1>0, Zenon DEF Balanced
<1>6. Total' + SetAside(i)' <= Opening + Unpaid(i)'
  BY <1>0, <1>2, <1>3, <1>4, <1>5
<1>7. faults' = 0 => Unpaid(i)' = Unpaid(i)
  BY Zenon DEF Unpaid
<1>8. faults' = 0 =>
        Total' + SetAside(i)' + (IF spc'[i] \in BeforePayout THEN 0 ELSE Lost(i)') = Opening + Unpaid(i)'
  BY <1>0, <1>7, Zenon DEF Balanced
<1>9. ~(\A j \in Attempts : ~Billing(j)') /\ ~(\A j \in Attempts : spc'[j] \in BeforeCharge)
  BY Zenon
<1> QED
  BY <1>0, <1>1, <1>6, <1>8, <1>9, ZenonT(40) DEF Balanced

(* No stage takes back what is unpaid.                                     *)
LEMMA UnpaidGrows ==
    ASSUME Books, NEW i \in Attempts, UNCHANGED <<reserved, cost>>, faults' \in {faults, faults + 1}
    PROVE  /\ Unpaid(i) \in Nat /\ Unpaid(i)' \in Nat /\ Unpaid(i) <= Unpaid(i)'
           /\ faults' = 0 => faults = 0
<1>1. cost[i] \in Nat /\ reserved \in Nat /\ faults \in Nat /\ Opening \in Nat
  BY SettlementAssumption, Zenon DEF Books
<1> QED
  BY <1>1 DEF Unpaid

(* Steps of a read loop that bill nothing.                                 *)
LEMMA UnbilledKeepsMoney ==
    ASSUME MoneyInv, NEW i \in Attempts,
           \/ handleInferenceAccepted(i) \/ handleChunk(i) \/ SendChunk(i)
           \/ handleInferenceError(i) \/ Disconnect(i) \/ ClosePending(i)
    PROVE  Books' /\ (Uninterrupted => Balanced')
<1> USE DEF request, handler, chans, ledgerVars
<1>1. UNCHANGED <<balances, plan, reserved, payee, hpc, cost, fee, faults>> /\ gone \subseteq gone'
  BY Zenon DEF handleInferenceAccepted, handleChunk, SendChunk, handleInferenceError, Disconnect, ClosePending, Fail
<1>2. spc \in [Attempts -> LoopStates]
  BY Zenon DEF MoneyInv, Ownership
<1>3. /\ \A j \in Attempts : j # i => spc'[j] = spc[j]
      /\ spc'[i] = spc[i] \/ (spc[i] \in {"idle", "chunk"} /\ spc'[i] \in {"idle", "chunk", "panic"})
  BY <1>2, Zenon DEF handleInferenceAccepted, handleChunk, SendChunk, handleInferenceError, Disconnect, ClosePending,
         Fail, Message, Loop
<1>4. Books'
  BY <1>1, <1>3, Zenon DEF MoneyInv, Books
<1>5. /\ Total' = Total
      /\ \A j \in Attempts :
            /\ Billing(j)' <=> Billing(j)
            /\ spc'[j] \in BeforePayout <=> spc[j] \in BeforePayout
            /\ spc'[j] \in BeforeCharge <=> spc[j] \in BeforeCharge
            /\ Lost(j)' = Lost(j) /\ Unpaid(j)' = Unpaid(j)
            /\ Billing(j) => spc'[j] = spc[j] /\ SetAside(j)' = SetAside(j)
  BY <1>1, <1>3, Zenon DEF Total, Billing, Busy, BeforePayout, BeforeCharge, Lost, Unpaid, SetAside
<1>6. Balanced => Balanced'
  BY <1>1, <1>5, Zenon DEF Balanced
<1> QED
  BY <1>4, <1>6, Zenon DEF MoneyInv

(* handleComplete finds the whole reservation set aside.                   *)
LEMMA CompleteKeepsMoney ==
    ASSUME MoneyInv, NEW i \in Attempts, handleComplete(i)
    PROVE  Books' /\ (Uninterrupted => Balanced')
<1> USE DEF request, handler, chans, ledgerVars
<1>1. /\ UNCHANGED <<balances, plan, reserved, n, hpc, fee, faults>> /\ i \in sent \cap pend
      /\ spc' = [spc EXCEPT ![i] = "consumer"]
  BY Zenon DEF handleComplete, Loop, Message
<1>2. PICK c \in plan.costs : cost' = [cost EXCEPT ![i] = IF reserved > 0 /\ c > reserved THEN reserved ELSE c]
  BY Zenon DEF handleComplete
<1>3. spc \in [Attempts -> LoopStates] /\ Books
  BY Zenon DEF MoneyInv, Ownership
<1>4. c \in Nat /\ reserved \in Nat
  BY <1>3, Zenon DEF Books
<1>5. Books'
  <2>1. cost' \in [Attempts -> Nat]
    BY <1>2, <1>3, <1>4, ZenonT(40) DEF Books
  <2>2. reserved > 0 => \A j \in Attempts : cost'[j] <= reserved
    BY <1>2, <1>3, <1>4 DEF Books
  <2>3. \A j \in Attempts : spc'[j] = "fee" => j # i /\ spc[j] = "fee" /\ cost'[j] = cost[j]
    BY <1>1, <1>2, <1>3, ZenonT(40) DEF Books
  <2> QED
    BY <1>1, <1>3, <2>1, <2>2, <2>3, Zenon DEF Books
<1>6. ASSUME Uninterrupted PROVE Balanced'
  <2>1. OneAttempt /\ Balanced
    BY <1>6, Zenon DEF MoneyInv
  <2>2. i = n /\ hpc \in {"first", "second", "relay"} /\ \A j \in Attempts : ~Billing(j)
    BY <1>1, <2>1, Zenon DEF OneAttempt
  <2>3. Total = Opening - reserved /\ faults = 0 /\ Total' = Total
    BY <1>1, <2>1, <2>2, Zenon DEF Balanced, Total
  <2>4. \A j \in Attempts : Billing(j)' <=> j = i
    BY <1>1, <1>3, <2>2, Zenon DEF Billing, Busy
  <2>5. \A j \in Attempts : spc[j] \in BeforePayout /\ spc[j] \in BeforeCharge
    BY <1>3, <2>2, Zenon DEF Billing, Busy, LoopStates, BeforePayout, BeforeCharge
  <2>6. balances'[Provider] = 0 /\ (reserved = 0 => balances'[Consumer] = Opening)
    BY <1>1, <2>1, <2>5, Zenon DEF Balanced
  <2>7. SetAside(i)' = reserved + Unpaid(i)' /\ spc'[i] \in BeforePayout
    BY <1>1, <1>3, Zenon DEF SetAside, BeforePayout
  <2>8. Unpaid(i)' \in Nat
    <3>1. cost'[i] \in Nat
      BY <1>5, Zenon DEF Books
    <3> QED
      BY <3>1 DEF Unpaid
  <2>9. Total' + SetAside(i)' = Opening + Unpaid(i)' /\ Total' + SetAside(i)' + 0 = Opening + Unpaid(i)'
        /\ Total' + SetAside(i)' <= Opening + Unpaid(i)'
    BY <1>4, <2>3, <2>7, <2>8, SettlementAssumption
  <2> QED
    BY <1>1, <2>2, <2>4, <2>6, <2>7, <2>9, ZenonT(40) DEF Balanced
<1> QED
  BY <1>5, <1>6, Zenon

(* The stages of handleComplete that move money.                           *)
LEMMA BillingKeepsMoney ==
    ASSUME MoneyInv, NEW i \in Attempts, Uninterrupted => OneAttempt',
           \/ SettleConsumer(i) \/ PayProvider(i) \/ DistributeReferralReward(i)
           \/ CreditPlatform(i) \/ SignalComplete(i)
    PROVE  Books' /\ (Uninterrupted => Balanced')
<1> USE DEF request, handler, chans, ledgerVars
<1>0. /\ spc \in [Attempts -> LoopStates] /\ Books /\ cost[i] \in Nat /\ fee[i] \in Nat
      /\ reserved \in Nat /\ faults \in Nat /\ balances \in [Accounts -> Int]
  BY Zenon DEF MoneyInv, Ownership, Books
<1>1. /\ UNCHANGED <<plan, reserved, payee, hpc, cost, gone>> /\ Billing(i) /\ Billing(i)'
      /\ \A j \in Attempts : j # i => spc'[j] = spc[j]
  BY <1>0, Zenon DEF SettleConsumer, PayProvider, DistributeReferralReward, CreditPlatform, SignalComplete, Loop,
         Billing, Busy
<1>2. /\ PlatformFee(cost[i]) \in Nat /\ ProviderPayout(cost[i]) \in Nat
      /\ PlatformFee(cost[i]) + ProviderPayout(cost[i]) = cost[i]
  BY <1>0, Shares, ZenonT(40)
<1>3. /\ Provider \notin {Consumer, Platform, Referrer} /\ Total \in Int
  BY <1>0, SettlementAssumption DEF Total
<1>4. ASSUME Uninterrupted
      PROVE  /\ reserved > 0 => cost[i] <= reserved
             /\ spc[i] \in BeforePayout => balances[Provider] = 0
             /\ spc[i] \in BeforeCharge /\ reserved = 0 => balances[Consumer] = Opening
             /\ faults = 0 /\ spc[i] \notin BeforePayout /\ payee /\ i \notin gone =>
                  balances[Provider] = ProviderPayout(cost[i])
  <2>1. \A j \in Attempts : j # i => spc[j] \in BeforePayout /\ spc[j] \in BeforeCharge
    BY <1>0, <1>1, <1>4, Zenon DEF MoneyInv, OneAttempt, Billing, Busy, LoopStates, BeforePayout, BeforeCharge
  <2> QED
    BY <1>0, <1>1, <1>4, <2>1, Zenon DEF MoneyInv, Books, Balanced
<1>5. CASE SettleConsumer(i)
  <2>1. spc[i] = "consumer" /\ spc'[i] = "provider" /\ fee' = fee
    BY <1>0, <1>5, Zenon DEF SettleConsumer, Loop
  <2>2. /\ faults' \in {faults, faults + 1} /\ balances' \in [Accounts -> Int] /\ balances'[Provider] = balances[Provider]
        /\ \/ reserved > 0 /\ cost[i] < reserved /\ Total' = Total + (reserved - cost[i]) /\ faults' = faults
           \/ reserved > 0 /\ ~(cost[i] < reserved) /\ Total' = Total /\ faults' = faults
           \/ ~(reserved > 0) /\ balances[Consumer] >= cost[i] /\ Total' = Total - cost[i] /\ faults' = faults
           \/ ~(reserved > 0) /\ ~(balances[Consumer] >= cost[i]) /\ Total' = Total /\ faults' = faults
           \/ Total' = Total /\ faults' = faults + 1
    <3>1. CASE /\ UNCHANGED <<ledgerVars, faults>>
               /\ \/ reserved > 0 /\ ~(cost[i] < reserved)
                  \/ ~(reserved > 0) /\ ~(balances[Consumer] >= cost[i])
      BY <1>0, <3>1, Zenon DEF Total
    <3>2. CASE UNCHANGED ledgerVars /\ faults' = faults + 1
      BY <1>0, <3>2, Zenon DEF Total
    <3>3. CASE reserved > 0 /\ cost[i] < reserved /\ Credit(Consumer, reserved - cost[i], "refund", i) /\ faults' = faults
      <4>1. balances' = [balances EXCEPT ![Consumer] = balances[Consumer] + (reserved - cost[i])]
        BY <3>3, Zenon DEF Credit, creditLocked
      <4>2. reserved - cost[i] \in Int
        BY <1>0
      <4> QED
        BY <1>0, <1>3, <3>3, <4>1, <4>2, TotalChanges, Zenon
    <3>4. CASE ~(reserved > 0) /\ balances[Consumer] >= cost[i] /\ Debit(Consumer, cost[i], "charge", i) /\ faults' = faults
      <4>1. balances' = [balances EXCEPT ![Consumer] = balances[Consumer] - cost[i]]
        BY <3>4, Zenon DEF Debit
      <4>2. Consumer \in Accounts /\ balances[Consumer] \in Int /\ -cost[i] \in Int
            /\ balances[Consumer] - cost[i] = balances[Consumer] + (-cost[i])
        BY <1>0, SettlementAssumption
      <4>3. balances' \in [Accounts -> Int] /\ Total' = Total + (-cost[i]) /\ balances'[Provider] = balances[Provider]
        BY <1>0, <1>3, <4>1, <4>2, TotalChanges, Zenon
      <4>4. Total' = Total - cost[i]
        BY <1>0, <1>3, <4>3
      <4> QED
        BY <3>4, <4>3, <4>4, Zenon
    <3> QED
      BY <1>5, <3>1, <3>2, <3>3, <3>4, Zenon DEF SettleConsumer, Unchecked, CanDebit
  <2>3. Books'
    <3>1. faults' \in Nat
      BY <1>0, <2>2
    <3> QED
      BY <1>0, <1>1, <2>1, <2>2, <3>1, Zenon DEF Books
  <2>4. SetAside(i) = reserved + Unpaid(i) /\ SetAside(i)' = cost[i]
    BY <1>1, <2>1, Zenon DEF SetAside
  <2>5. ASSUME Uninterrupted PROVE Balanced'
    <3>1. /\ Unpaid(i) \in Nat /\ Unpaid(i)' \in Nat /\ Unpaid(i) <= Unpaid(i)' /\ (faults' = 0 => faults = 0)
      BY <1>0, <1>1, <2>2, UnpaidGrows, Zenon
    <3>2. spc[i] \in BeforePayout /\ spc'[i] \in BeforePayout /\ spc[i] \in BeforeCharge /\ spc'[i] \notin BeforeCharge
      BY <2>1, ZenonT(40) DEF BeforePayout, BeforeCharge
    <3>3. /\ Unpaid(i) = IF reserved = 0 /\ (cost[i] > Opening \/ faults > 0) THEN cost[i] ELSE 0
          /\ Unpaid(i)' = IF reserved = 0 /\ (cost[i] > Opening \/ faults' > 0) THEN cost[i] ELSE 0
      BY <1>1, Zenon DEF Unpaid
    <3>4. (reserved > 0 => cost[i] <= reserved) /\ (reserved = 0 => balances[Consumer] = Opening) /\ Opening \in Nat
      BY <1>4, <2>5, <3>2, SettlementAssumption, Zenon
    <3>5. Total' + SetAside(i)' + Unpaid(i) <= Total + SetAside(i) + Unpaid(i)'
      BY <1>0, <1>3, <2>2, <2>4, <3>1, <3>3, <3>4
    <3>6. faults' = 0 => faults = 0 /\ Total' + SetAside(i)' + 0 = Total + SetAside(i) + 0
      BY <1>0, <1>3, <2>2, <2>4, <3>1, <3>3, <3>4
    <3>7. balances'[Provider] = 0
      BY <1>4, <2>2, <2>5, <3>2, Zenon
    <3> QED
      BY <1>1, <2>3, <2>5, <3>2, <3>5, <3>6, <3>7, HandsOut, Zenon
  <2> QED
    BY <2>3, <2>5, Zenon
<1>6. CASE PayProvider(i)
  <2>1. spc[i] = "provider" /\ spc'[i] = "referral" /\ fee' = fee
    BY <1>0, <1>6, Zenon DEF PayProvider, Loop
  <2>2. /\ faults' \in Nat /\ balances' \in [Accounts -> Int]
        /\ \/ /\ Total' = Total + ProviderPayout(cost[i]) /\ faults' = faults
              /\ balances'[Provider] = balances[Provider] + ProviderPayout(cost[i])
           \/ /\ Total' = Total /\ balances'[Provider] = balances[Provider]
              /\ faults' = faults + 1 \/ (faults' = faults /\ ~(payee /\ i \notin gone))
    <3>1. CASE UNCHANGED ledgerVars /\ (faults' = faults + 1 \/ (faults' = faults /\ ~(payee /\ i \notin gone)))
      BY <1>0, <3>1 DEF Total
    <3>2. CASE CreditProvider(Provider, ProviderPayout(cost[i]), i) /\ faults' = faults
      <4>1. balances' = [balances EXCEPT ![Provider] = balances[Provider] + ProviderPayout(cost[i])]
        BY <3>2, Zenon DEF CreditProvider, CreditWithdrawable, creditLocked
      <4>2. ProviderPayout(cost[i]) \in Int
        BY <1>2
      <4> QED
        BY <1>0, <1>3, <3>2, <4>1, <4>2, TotalChanges, Zenon
    <3> QED
      BY <1>6, <3>1, <3>2, ZenonT(40) DEF PayProvider, Unchecked
  <2>3. Books'
    BY <1>0, <1>1, <2>1, <2>2, Zenon DEF Books
  <2>4. SetAside(i) = cost[i] /\ SetAside(i)' = PlatformFee(cost[i])
    BY <1>1, <2>1, Zenon DEF SetAside
  <2>5. Lost(i)' = IF balances'[Provider] = 0 THEN ProviderPayout(cost[i]) ELSE 0
    BY <1>1, Zenon DEF Lost
  <2>6. ASSUME Uninterrupted PROVE Balanced'
    <3>1. balances[Provider] = 0
      BY <1>4, <2>1, <2>6, Zenon DEF BeforePayout
    <3>2. spc[i] \in BeforePayout /\ spc'[i] \notin BeforePayout /\ spc'[i] \notin BeforeCharge
      BY <2>1, ZenonT(40) DEF BeforePayout, BeforeCharge
    <3>3. Unpaid(i) \in Nat /\ Unpaid(i)' \in Nat /\ Unpaid(i) <= Unpaid(i)'
      BY <1>0, <1>1, <2>2, UnpaidGrows, Zenon
    <3>4. Total' + SetAside(i)' + Unpaid(i) <= Total + SetAside(i) + Unpaid(i)'
      BY <1>0, <1>2, <1>3, <2>2, <2>4, <3>3
    <3>5. faults' = 0 => faults = 0 /\ Total' + SetAside(i)' + Lost(i)' = Total + SetAside(i) + 0
      BY <1>0, <1>2, <1>3, <2>2, <2>4, <2>5, <3>1
    <3>6. faults' = 0 /\ payee' /\ i \notin gone' => balances'[Provider] = ProviderPayout(cost[i])
      BY <1>0, <1>1, <1>2, <2>2, <3>1
    <3> QED
      BY <1>1, <2>3, <2>6, <3>2, <3>4, <3>5, <3>6, HandsOut, Zenon
  <2> QED
    BY <2>3, <2>6, Zenon
<1>7. CASE DistributeReferralReward(i)
  <2>0. PICK reward \in Nat : /\ reward = (PlatformFee(cost[i]) * SharePercent) \div 100
                              /\ PlatformFee(cost[i]) - reward \in Nat
    BY <1>2, Shares, ZenonT(40)
  <2>1. spc[i] = "referral" /\ spc'[i] = "fee"
    BY <1>0, <1>7, Zenon DEF DistributeReferralReward, Loop
  <2>2. /\ faults' \in Nat /\ balances' \in [Accounts -> Int] /\ balances'[Provider] = balances[Provider]
        /\ fee' = [fee EXCEPT ![i] = fee'[i]]
        /\ \/ /\ Total' = Total + reward /\ faults' = faults
              /\ fee'[i] = PlatformFee(cost[i]) - reward
           \/ /\ Total' = Total /\ faults' \in {faults, faults + 1}
              /\ fee'[i] = PlatformFee(cost[i])
    <3>1. CASE /\ CreditWithdrawable(Referrer, reward, "referral_reward", i) /\ faults' = faults
               /\ fee' = [fee EXCEPT ![i] = PlatformFee(cost[i]) - reward]
      <4>1. balances' = [balances EXCEPT ![Referrer] = balances[Referrer] + reward]
        BY <3>1, Zenon DEF CreditWithdrawable, creditLocked
      <4>2. /\ balances' \in [Accounts -> Int] /\ balances'[Provider] = balances[Provider]
            /\ Total' = Total + reward
        BY <1>0, <1>3, <4>1, reward \in Int, TotalChanges, Zenon
      <4>3. fee'[i] = PlatformFee(cost[i]) - reward
        BY <1>0, <3>1, Zenon DEF Books
      <4> QED
        BY <1>0, <3>1, <4>2, <4>3, Zenon
    <3>2. CASE /\ UNCHANGED ledgerVars /\ faults' \in {faults, faults + 1}
               /\ fee' = [fee EXCEPT ![i] = PlatformFee(cost[i])]
      <4>1. fee'[i] = PlatformFee(cost[i])
        BY <1>0, <3>2, Zenon DEF Books
      <4>2. faults' \in Nat /\ Total' = Total /\ balances' = balances
        BY <1>0, <3>2 DEF Total
      <4> QED
        BY <1>0, <3>2, <4>1, <4>2, Zenon
    <3> QED
      BY <1>7, <2>0, <3>1, <3>2, Zenon DEF DistributeReferralReward
  <2>3. fee'[i] \in Nat /\ fee'[i] <= PlatformFee(cost[i])
    BY <1>2, <2>0, <2>2
  <2>4. Books'
    <3>1. fee' \in [Attempts -> Nat] /\ \A j \in Attempts : j # i => fee'[j] = fee[j]
      BY <1>0, <2>2, <2>3, Zenon DEF Books
    <3>2. \A j \in Attempts : spc'[j] = "fee" => fee'[j] <= PlatformFee(cost[j])
      BY <1>0, <1>1, <2>3, <3>1, Zenon DEF Books
    <3> QED
      BY <1>0, <1>1, <2>2, <3>1, <3>2, Zenon DEF Books
  <2>5. SetAside(i) = PlatformFee(cost[i]) /\ SetAside(i)' = fee'[i] /\ Lost(i)' = Lost(i)
    BY <1>1, <2>1, <2>2, Zenon DEF SetAside, Lost
  <2>6. ASSUME Uninterrupted PROVE Balanced'
    <3>1. spc[i] \notin BeforePayout /\ spc'[i] \notin BeforePayout /\ spc'[i] \notin BeforeCharge
      BY <2>1, ZenonT(40) DEF BeforePayout, BeforeCharge
    <3>u. Unpaid(i) \in Nat /\ Unpaid(i)' \in Nat /\ Unpaid(i) <= Unpaid(i)' /\ (faults' = 0 => faults = 0)
      BY <1>0, <1>1, <2>2, UnpaidGrows, Zenon
    <3>2. Total' + SetAside(i)' + Unpaid(i) <= Total + SetAside(i) + Unpaid(i)'
      BY <1>2, <1>3, <2>0, <2>2, <2>5, <3>u
    <3>3. Lost(i) \in Int
      BY <1>2 DEF Lost
    <3>4. faults' = 0 => faults = 0 /\ Total' + SetAside(i)' + Lost(i)' = Total + SetAside(i) + Lost(i)
      BY <1>0, <1>2, <1>3, <2>0, <2>2, <2>5, <3>3
    <3>5. faults' = 0 /\ payee' /\ i \notin gone' => balances'[Provider] = ProviderPayout(cost[i])
      BY <1>1, <1>4, <2>2, <2>6, <3>1, <3>u, Zenon
    <3> QED
      BY <1>1, <2>4, <2>6, <3>1, <3>2, <3>4, <3>5, HandsOut, Zenon
  <2> QED
    BY <2>4, <2>6, Zenon
<1>8. CASE CreditPlatform(i)
  <2>1. spc[i] = "fee" /\ spc'[i] = "signal" /\ fee' = fee
    BY <1>0, <1>8, Zenon DEF CreditPlatform, Loop
  <2>2. fee[i] <= PlatformFee(cost[i])
    BY <1>0, <2>1, Zenon DEF Books
  <2>3. /\ faults' \in Nat /\ balances' \in [Accounts -> Int] /\ balances'[Provider] = balances[Provider]
        /\ \/ Total' = Total + fee[i] /\ faults' = faults
           \/ Total' = Total /\ faults' = faults + 1
    <3>1. CASE Credit(Platform, fee[i], "platform_fee", i) /\ faults' = faults
      <4>1. balances' = [balances EXCEPT ![Platform] = balances[Platform] + fee[i]]
        BY <3>1, Zenon DEF Credit, creditLocked
      <4> QED
        BY <1>0, <1>3, <3>1, <4>1, fee[i] \in Int, TotalChanges, ZenonT(40)
    <3>2. CASE UNCHANGED ledgerVars /\ faults' = faults + 1
      BY <1>0, <3>2 DEF Total
    <3>3. CASE UNCHANGED <<ledgerVars, faults>> /\ ~(PlatformFee(cost[i]) > 0)
      <4>1. fee[i] = 0
        BY <1>0, <1>2, <2>2, <3>3
      <4> QED
        BY <1>0, <1>3, <3>3, <4>1 DEF Total
    <3> QED
      BY <1>8, <3>1, <3>2, <3>3, Zenon DEF CreditPlatform, Unchecked
  <2>4. Books'
    BY <1>0, <1>1, <2>1, <2>3, Zenon DEF Books
  <2>5. SetAside(i) = fee[i] /\ SetAside(i)' = 0 /\ Lost(i)' = Lost(i)
    BY <1>1, <2>1, <2>3, Zenon DEF SetAside, Lost
  <2>6. ASSUME Uninterrupted PROVE Balanced'
    <3>1. spc[i] \notin BeforePayout /\ spc'[i] \notin BeforePayout /\ spc'[i] \notin BeforeCharge
      BY <2>1, ZenonT(40) DEF BeforePayout, BeforeCharge
    <3>u. Unpaid(i) \in Nat /\ Unpaid(i)' \in Nat /\ Unpaid(i) <= Unpaid(i)' /\ (faults' = 0 => faults = 0)
      BY <1>0, <1>1, <2>3, UnpaidGrows, Zenon
    <3>2. Total' + SetAside(i)' + Unpaid(i) <= Total + SetAside(i) + Unpaid(i)'
      BY <1>0, <1>3, <2>3, <2>5, <3>u
    <3>3. Lost(i) \in Int
      BY <1>2 DEF Lost
    <3>4. faults' = 0 => faults = 0 /\ Total' + SetAside(i)' + Lost(i)' = Total + SetAside(i) + Lost(i)
      BY <1>0, <1>3, <2>3, <2>5, <3>3
    <3>5. faults' = 0 /\ payee' /\ i \notin gone' => balances'[Provider] = ProviderPayout(cost[i])
      BY <1>1, <1>4, <2>3, <2>6, <3>1, <3>u, Zenon
    <3> QED
      BY <1>1, <2>4, <2>6, <3>1, <3>2, <3>4, <3>5, HandsOut, Zenon
  <2> QED
    BY <2>4, <2>6, Zenon
<1>9. CASE SignalComplete(i)
  <2>1. spc[i] = "signal" /\ spc'[i] = "settled" /\ UNCHANGED <<balances, fee, faults>>
    BY <1>0, <1>9, Zenon DEF SignalComplete, Loop
  <2>2. Books'
    BY <1>0, <1>1, <2>1, Zenon DEF Books
  <2>3. SetAside(i) = 0 /\ SetAside(i)' = 0 /\ Lost(i)' = Lost(i) /\ Total' = Total
    BY <1>1, <2>1, ZenonT(40) DEF SetAside, Lost, Total
  <2>4. ASSUME Uninterrupted PROVE Balanced'
    <3>1. spc[i] \notin BeforePayout /\ spc'[i] \notin BeforePayout /\ spc'[i] \notin BeforeCharge
      BY <2>1, ZenonT(40) DEF BeforePayout, BeforeCharge
    <3>2. Unpaid(i)' = Unpaid(i) /\ Unpaid(i) \in Nat
      BY <1>0, <1>1, <2>1 DEF Unpaid
    <3>3. Total' + SetAside(i)' + Unpaid(i) <= Total + SetAside(i) + Unpaid(i)'
      BY <1>3, <2>3, <3>2
    <3>4. faults' = 0 /\ payee' /\ i \notin gone' => balances'[Provider] = ProviderPayout(cost[i])
      BY <1>1, <1>4, <2>1, <2>4, <3>1, Zenon
    <3> QED
      BY <1>1, <2>1, <2>2, <2>3, <2>4, <3>1, <3>3, <3>4, HandsOut, Zenon
  <2> QED
    BY <2>2, <2>4, Zenon
<1> QED
  BY <1>5, <1>6, <1>7, <1>8, <1>9, Zenon

(* For every cost, share, referral and number of attempts, and whichever   *)
(* store calls fail: unless a timer fires or the client leaves, the four   *)
(* accounts never hold more than the consumer had and the bill of a        *)
(* request without a reservation whose charge failed; and a bill settled   *)
(* without a failing call hands out what the consumer paid to the last     *)
(* micro-USD, less the share of a provider that is gone or has no account  *)
(* (provider.go, handleComplete; payments/pricing.go).                     *)
THEOREM MoneyIsConserved == Spec => []MoneyConserved
<1>1. MoneyInv /\ [Next]_vars => MoneyInv'
  <2> SUFFICES ASSUME MoneyInv, [Next]_vars PROVE MoneyInv'
    BY Zenon
  <2>a. Handler => UNCHANGED request
    BY Zenon DEF Handler, ReserveBalance, Route, SendRequest, TakeAccepted, TakeFirstChunk, TakeEmpty, TakeError,
         Timeout, Cancelled, RelayChunk, RelayClosed, RelayError, RelayStopped, EndRelay, refundReservation, Finish
  <2>b. ASSUME NEW i \in Attempts
        PROVE  handleInferenceAccepted(i) \/ handleChunk(i) \/ Ends(i) => UNCHANGED request
    BY Zenon DEF handleInferenceAccepted, handleChunk, Ends, handleComplete, handleInferenceError,
         Disconnect, Fail
  <2>c. ASSUME NEW i \in Attempts
        PROVE  Settle(i) \/ ClosePending(i) => UNCHANGED request
    BY Zenon DEF Settle, SettleConsumer, PayProvider, DistributeReferralReward, CreditPlatform, SignalComplete,
         SendChunk, ClosePending, Fail
  <2>d. UNCHANGED request
    BY <2>a, <2>b, <2>c, Zenon DEF Next, Quiet, vars
  <2>0. Ownership /\ (Uninterrupted => OneAttempt) /\ (Uninterrupted' <=> Uninterrupted)
    BY <2>d, Zenon DEF MoneyInv, Uninterrupted, request
  <2>1. CASE Handler
    BY <2>0, <2>1, HandlerKeeps, HandlerKeepsOneAttempt, HandlerKeepsMoney, Zenon DEF MoneyInv
  <2>2. ASSUME NEW i \in Attempts,
               \/ handleInferenceAccepted(i) \/ handleChunk(i)
               \/ Ends(i) \/ Settle(i) \/ ClosePending(i)
        PROVE  MoneyInv'
    <3>1. Ownership' /\ (Uninterrupted => OneAttempt')
      BY <2>0, <2>2, ReadLoopKeeps, ReadLoopKeepsOneAttempt, Zenon
    <3>2. Books' /\ (Uninterrupted => Balanced')
      BY <2>2, <3>1, UnbilledKeepsMoney, CompleteKeepsMoney, BillingKeepsMoney, Zenon DEF Ends, Settle
    <3> QED
      BY <2>0, <3>1, <3>2, Zenon DEF MoneyInv
  <2>3. CASE UNCHANGED vars
    <3>1. Ownership'
      BY <2>0, <2>3, Zenon DEF vars, handler, chans, Ownership, Untouched, NotRouted, Settling
    <3>2. Uninterrupted => OneAttempt'
      BY <2>0, <2>3, Zenon DEF vars, handler, chans, OneAttempt, NotRouted, Billing
    <3>3. Books'
      BY <2>3, Zenon DEF vars, request, ledgerVars, MoneyInv, Books
    <3>4. Uninterrupted => Balanced'
      BY <2>3 DEF vars, request, handler, ledgerVars, MoneyInv, Balanced, Billing, Total, SetAside, Lost, Unpaid
    <3> QED
      BY <2>0, <3>1, <3>2, <3>3, <3>4, Zenon DEF MoneyInv
  <2> QED
    BY <2>1, <2>2, <2>3, Zenon DEF Next, Quiet
<1>2. MoneyInv => MoneyConserved
  <2> SUFFICES ASSUME MoneyInv, Uninterrupted
               PROVE  /\ \E i \in Attempts : Total <= Opening + Unpaid(i)
                      /\ \A i \in Attempts :
                            faults = 0 /\ spc[i] = "settled" => Total + Forfeit(i) = Opening + Unpaid(i)
    BY Zenon DEF MoneyConserved
  <2>0. Balanced /\ Books
    BY Zenon DEF MoneyInv
  <2>1. Total \in Int /\ Opening \in Int /\ 1 \in Attempts
    BY <2>0, SettlementAssumption DEF Books, Total, Attempts
  <2>2. \A i \in Attempts : Unpaid(i) \in Nat /\ ProviderPayout(cost[i]) \in Nat
    BY <2>0, Shares DEF Books, Unpaid
  <2>3. \A i \in Attempts : SetAside(i) \in Nat /\ (spc[i] = "settled" => SetAside(i) = 0)
    BY <2>0, <2>2, Shares DEF Books, SetAside
  <2>4. \A i \in Attempts : spc[i] = "settled" => Billing(i) /\ spc[i] \notin BeforePayout
    BY Zenon DEF Billing, BeforePayout
  <2>5. \E i \in Attempts : Total <= Opening + Unpaid(i)
    <3>1. CASE \A i \in Attempts : ~Billing(i)
      BY <2>0, <2>1, <2>2, <3>1 DEF Balanced
    <3>2. ASSUME NEW i \in Attempts, Billing(i) PROVE Total <= Opening + Unpaid(i)
      <4>1. Total + SetAside(i) <= Opening + Unpaid(i)
        BY <2>0, <3>2, Zenon DEF Balanced
      <4> QED
        BY <2>1, <2>2, <2>3, <4>1
    <3> QED
      BY <3>1, <3>2, Zenon
  <2>6. ASSUME NEW i \in Attempts, faults = 0, spc[i] = "settled"
        PROVE  Total + Forfeit(i) = Opening + Unpaid(i)
    <3>1. /\ Total + SetAside(i) + Lost(i) = Opening + Unpaid(i)
          /\ payee /\ i \notin gone => balances[Provider] = ProviderPayout(cost[i])
      BY <2>0, <2>4, <2>6, Zenon DEF Balanced
    <3>2. Forfeit(i) = Lost(i) /\ Lost(i) \in Nat
      BY <2>2, <3>1 DEF Forfeit, Lost
    <3> QED
      BY <2>1, <2>3, <2>6, <3>1, <3>2
  <2> QED
    BY <2>5, <2>6, Zenon
<1> QED
  BY InitMoneyInv, <1>1, <1>2, PTL DEF Spec

=============================================================================
