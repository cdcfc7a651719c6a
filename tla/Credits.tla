------------------------------ MODULE Credits ------------------------------
(***************************************************************************)
(* What puts money or a referral on an account from outside a job: a paid  *)
(* Stripe checkout announced by a webhook (api/billing_handlers.go), the   *)
(* referral codes (billing/referral.go) and the invite codes               *)
(* (api/invite_handlers.go).  Every handler is a request that makes its    *)
(* store calls one by one, so requests interleave between any two calls.   *)
(* Each store call is one step (a mutex or one transaction, store/).       *)
(***************************************************************************)
EXTENDS Naturals, FiniteSets

CONSTANTS
    Users,          \* accounts
    Customers,      \* those of them that apply referral codes
    RefCodes,       \* referral codes accounts may choose
    Sessions,       \* billing_session_id of the checkouts
    PayerOf,        \* session -> consumer_key of its metadata
    CodeOf,         \* session -> referral_code of its metadata, or Nil
    Invites,        \* invite codes the administrator may create
    MaxUses,        \* max_uses of an invite code
    Requests,       \* HTTP requests the coordinator serves at a time
    MaxRepeats,     \* bound: deliveries Stripe makes without need
    MaxStoreFaults, \* bound: store calls that return an error
    MaxReboots,     \* bound: crashes of the coordinator
    Nil

ASSUME CreditsAssumption ==
    /\ MaxUses \in Nat \ {0}
    /\ Customers \subseteq Users
    /\ PayerOf \in [Sessions -> Users]
    /\ CodeOf \in [Sessions -> RefCodes \cup {Nil}]
    /\ Nil \notin Users \cup RefCodes \cup Sessions \cup Invites

VARIABLES
    session,        \* billing_sessions: "none", "unsaved", "pending", "completed"
    owed,           \* paid sessions whose event Stripe has no 200 for
    settled,        \* paid sessions whose event was answered 200
    deposits,       \* stripe_deposit ledger entries per session
    excused,        \* sessions whose mark was lost, late or overtaken
    ownerOf,        \* referrers: code -> account, or Nil
    referredBy,     \* referrals: account -> code, or Nil
    invite,         \* invite_codes: code -> [state, used]
    redeemed,       \* invite_redemptions: <<account, code>>
    inviteCredits,  \* invite_credit ledger entries per <<account, code>>
    req,            \* what each request is doing
    repeats, storeFaults, reboots

checkoutVars == <<session, owed, settled, deposits, excused>>
referralVars == <<ownerOf, referredBy>>
inviteVars == <<invite, redeemed, inviteCredits>>
limits == <<repeats, storeFaults, reboots>>
creditsVars == <<checkoutVars, referralVars, inviteVars, req, limits>>

Free == [at |-> "free", user |-> Nil, code |-> Nil, session |-> Nil]

NoCredits ==
    /\ session = [s \in Sessions |-> "none"]
    /\ owed = {} /\ settled = {} /\ excused = {}
    /\ deposits = [s \in Sessions |-> 0]
    /\ referredBy = [a \in Users |-> Nil]
    /\ invite = [i \in Invites |-> [state |-> "none", used |-> 0]]
    /\ redeemed = {}
    /\ inviteCredits = [p \in Users \X Invites |-> 0]
    /\ req = [r \in Requests |-> Free]
    /\ repeats = 0 /\ storeFaults = 0 /\ reboots = 0

(* Before anybody has registered a code; or after any registrations.       *)
CreditsInit == NoCredits /\ ownerOf = [c \in RefCodes |-> Nil]

RegisteredInit ==
    /\ NoCredits
    /\ ownerOf \in [RefCodes -> Users \cup {Nil}]
    /\ \A c, d \in RefCodes : ownerOf[c] = ownerOf[d] => c = d \/ ownerOf[c] = Nil

Begin(r, at, a, c, s) ==
    /\ req[r] = Free
    /\ req' = [req EXCEPT ![r] = [at |-> at, user |-> a, code |-> c, session |-> s]]

Step(r, from, to) == req[r].at = from /\ req' = [req EXCEPT ![r].at = to]

(* The response of a request; one that carried a webhook event answers it  *)
(* with 200.                                                               *)
Answered(r) ==
    /\ req' = [req EXCEPT ![r] = Free]
    /\ owed' = owed \ {req[r].session}
    /\ settled' = settled \cup ({req[r].session} \ {Nil})

Refused(r) == req' = [req EXCEPT ![r] = Free]

StoreWorks == UNCHANGED limits
StoreErrs ==
    /\ storeFaults < MaxStoreFaults /\ storeFaults' = storeFaults + 1
    /\ UNCHANGED <<repeats, reboots>>

-----------------------------------------------------------------------------
(* Checkout                                                                *)

(* handleStripeCreateSession: an unknown referral code is refused; a row   *)
(* that cannot be saved is only logged, the customer gets the page anyway. *)
handleStripeCreateSession(s) ==
    /\ session[s] = "none"
    /\ CodeOf[s] = Nil \/ ownerOf[CodeOf[s]] # Nil
    /\ \/ StoreWorks /\ session' = [session EXCEPT ![s] = "pending"]
          /\ UNCHANGED excused
       \/ StoreErrs /\ session' = [session EXCEPT ![s] = "unsaved"]
          /\ excused' = excused \cup {s}
    /\ UNCHANGED <<owed, settled, deposits, referralVars, inviteVars, req>>

(* The customer pays: Stripe owes the coordinator the event.               *)
CustomerPays(s) ==
    /\ session[s] # "none" /\ s \notin owed \cup settled
    /\ owed' = owed \cup {s}
    /\ UNCHANGED <<session, settled, deposits, excused, referralVars, inviteVars, req, limits>>

Handling(s) == {r \in Requests : req[r].session = s}

(* A delivery of checkout.session.completed.  Stripe repeats one that got  *)
(* no 200; it may also repeat one that was answered, or one that is still  *)
(* being handled.                                                          *)
DeliverEvent(r, s) ==
    /\ Begin(r, "lookup", PayerOf[s], CodeOf[s], s)
    /\ \/ s \in owed /\ Handling(s) = {} /\ UNCHANGED <<excused, limits>>
       \/ /\ s \in owed \cup settled /\ repeats < MaxRepeats
          /\ repeats' = repeats + 1 /\ UNCHANGED <<storeFaults, reboots>>
          /\ excused' = IF Handling(s) = {} THEN excused ELSE excused \cup {s}
    /\ UNCHANGED <<session, owed, settled, deposits, referralVars, inviteVars>>

(* GetBillingSession: "completed" is answered at once; a row that is       *)
(* missing, or a read that fails, is treated like a pending one.           *)
GetBillingSession(r) ==
    /\ req[r].at = "lookup"
    /\ \/ /\ session[req[r].session] = "completed"
          /\ Answered(r) /\ StoreWorks /\ UNCHANGED excused
       \/ /\ session[req[r].session] # "completed"
          /\ Step(r, "lookup", "credit") /\ StoreWorks /\ UNCHANGED <<owed, settled, excused>>
       \/ /\ Step(r, "lookup", "credit") /\ StoreErrs
          /\ excused' = excused \cup {req[r].session} /\ UNCHANGED <<owed, settled>>
    /\ UNCHANGED <<session, deposits, referralVars, inviteVars>>

(* CreditDeposit; a failure is a 500 and Stripe delivers again.            *)
CreditDeposit(r) ==
    /\ req[r].at = "credit"
    /\ \/ /\ Step(r, "credit", "complete") /\ StoreWorks
          /\ deposits' = [deposits EXCEPT ![req[r].session] = @ + 1]
       \/ Refused(r) /\ StoreErrs /\ UNCHANGED deposits
    /\ UNCHANGED <<session, owed, settled, excused, referralVars, inviteVars>>

AfterComplete(r) ==
    IF req[r].code = Nil THEN Answered(r)
    ELSE Step(r, "complete", "apply") /\ UNCHANGED <<owed, settled>>

(* CompleteBillingSession, whose error is dropped.                         *)
CompleteBillingSession(r) ==
    LET s == req[r].session
    IN /\ req[r].at = "complete"
       /\ \/ /\ StoreWorks /\ UNCHANGED excused
             /\ session' = [session EXCEPT ![s] = IF @ = "pending" THEN "completed" ELSE @]
          \/ StoreErrs /\ excused' = excused \cup {s} /\ UNCHANGED session
       /\ AfterComplete(r)
       /\ UNCHANGED <<deposits, referralVars, inviteVars>>

-----------------------------------------------------------------------------
(* Referrals                                                               *)

handleReferralRegister(r, a, c) ==
    /\ Begin(r, "register", a, c, Nil)
    /\ UNCHANGED <<checkoutVars, referralVars, inviteVars, limits>>

handleReferralApply(r, a, c) ==
    /\ Begin(r, "apply", a, c, Nil)
    /\ UNCHANGED <<checkoutVars, referralVars, inviteVars, limits>>

IsReferrer(a) == \E c \in RefCodes : ownerOf[c] = a

(* Register, its two look-ups: the code the account has is returned, a     *)
(* code that is taken is refused.  Owners never change, so that the two    *)
(* reads decide what one read of both would.                               *)
RegisterLookup(r) ==
    /\ req[r].at = "register"
    /\ IF IsReferrer(req[r].user) \/ ownerOf[req[r].code] # Nil
       THEN Refused(r) ELSE Step(r, "register", "create")
    /\ UNCHANGED <<checkoutVars, referralVars, inviteVars, limits>>

(* CreateReferrer asks again, under the lock.                              *)
CreateReferrer(r) ==
    /\ req[r].at = "create"
    /\ \/ /\ ownerOf[req[r].code] = Nil /\ ~IsReferrer(req[r].user)
          /\ ownerOf' = [ownerOf EXCEPT ![req[r].code] = req[r].user] /\ StoreWorks
       \/ /\ ownerOf[req[r].code] # Nil \/ IsReferrer(req[r].user)
          /\ UNCHANGED ownerOf /\ StoreWorks
       \/ StoreErrs /\ UNCHANGED ownerOf
    /\ Refused(r)
    /\ UNCHANGED <<checkoutVars, referredBy, inviteVars>>

(* Whoever called Apply goes on: the webhook answers 200 in any case.      *)
Applied(r) ==
    IF req[r].session = Nil THEN Refused(r) /\ UNCHANGED <<owed, settled>> ELSE Answered(r)

(* Apply, its look-ups: the code must exist, must not be the account's own *)
(* and the account must have no referrer; a failed read of the latter      *)
(* counts as none.  One read again stands for two of what is set once.     *)
ApplyLookup(r) ==
    LET owner == ownerOf[req[r].code]
    IN /\ req[r].at = "apply"
       /\ \/ /\ owner = Nil \/ owner = req[r].user \/ referredBy[req[r].user] # Nil
             /\ Applied(r) /\ StoreWorks
          \/ /\ owner \notin {Nil, req[r].user} /\ referredBy[req[r].user] = Nil
             /\ Step(r, "apply", "record") /\ StoreWorks /\ UNCHANGED <<owed, settled>>
          \/ /\ owner \notin {Nil, req[r].user}
             /\ Step(r, "apply", "record") /\ StoreErrs /\ UNCHANGED <<owed, settled>>
       /\ UNCHANGED <<session, deposits, excused, referralVars, inviteVars>>

(* A store that relies on the look-ups of Apply.                           *)
RecordUnasked(r) ==
    /\ req[r].at = "record"
    /\ referredBy' = [referredBy EXCEPT ![req[r].user] = req[r].code]
    /\ StoreWorks /\ Applied(r)
    /\ UNCHANGED <<session, deposits, excused, ownerOf, inviteVars>>

(* RecordReferral keeps the referrer an account has, under the lock.       *)
RecordReferral(r) ==
    /\ req[r].at = "record"
    /\ \/ /\ referredBy[req[r].user] = Nil /\ StoreWorks
          /\ referredBy' = [referredBy EXCEPT ![req[r].user] = req[r].code]
       \/ referredBy[req[r].user] # Nil /\ StoreWorks /\ UNCHANGED referredBy
       \/ StoreErrs /\ UNCHANGED referredBy
    /\ Applied(r)
    /\ UNCHANGED <<session, deposits, excused, ownerOf, inviteVars>>

-----------------------------------------------------------------------------
(* Invites                                                                 *)

(* CreateInviteCode of the administrator's request.                        *)
CreateInviteCode(i) ==
    /\ invite[i].state = "none"
    /\ invite' = [invite EXCEPT ![i].state = "active"]
    /\ UNCHANGED <<checkoutVars, referralVars, redeemed, inviteCredits, req, limits>>

(* DeactivateInviteCode, or the passing of ExpiresAt: both are for good.   *)
DeactivateInviteCode(i) ==
    /\ invite[i].state = "active"
    /\ invite' = [invite EXCEPT ![i].state = "inactive"]
    /\ UNCHANGED <<checkoutVars, referralVars, redeemed, inviteCredits, req, limits>>

(* handleRedeemInviteCode up to GetInviteCode, which only tells the amount.*)
handleRedeemInviteCode(r, a, i) ==
    /\ invite[i].state # "none"
    /\ Begin(r, "redeem", a, i, Nil)
    /\ UNCHANGED <<checkoutVars, referralVars, inviteVars, limits>>

Redeemable(a, i) ==
    /\ invite[i].state = "active"
    /\ invite[i].used < MaxUses
    /\ <<a, i>> \notin redeemed

(* A store that counts a use without asking whether one is left.           *)
RedeemUncounted(r) ==
    LET a == req[r].user
        i == req[r].code
    IN /\ req[r].at = "redeem" /\ StoreWorks
       /\ IF invite[i].state = "active" /\ <<a, i>> \notin redeemed
          THEN /\ invite' = [invite EXCEPT ![i].used = @ + 1]
               /\ redeemed' = redeemed \cup {<<a, i>>}
               /\ Step(r, "redeem", "grant")
          ELSE Refused(r) /\ UNCHANGED <<invite, redeemed>>
       /\ UNCHANGED <<checkoutVars, referralVars, inviteCredits>>

(* RedeemInviteCode: all its tests and the count in one critical section.  *)
RedeemInviteCode(r) ==
    LET a == req[r].user
        i == req[r].code
    IN /\ req[r].at = "redeem"
       /\ \/ /\ Redeemable(a, i)
             /\ invite' = [invite EXCEPT ![i].used = @ + 1]
             /\ redeemed' = redeemed \cup {<<a, i>>}
             /\ Step(r, "redeem", "grant") /\ StoreWorks
          \/ ~Redeemable(a, i) /\ Refused(r) /\ StoreWorks /\ UNCHANGED <<invite, redeemed>>
          \/ Refused(r) /\ StoreErrs /\ UNCHANGED <<invite, redeemed>>
       /\ UNCHANGED <<checkoutVars, referralVars, inviteCredits>>

(* The credit of a redemption.  When it fails the code stays redeemed.     *)
CreditInvite(r) ==
    /\ req[r].at = "grant"
    /\ \/ /\ StoreWorks
          /\ inviteCredits' = [inviteCredits EXCEPT ![<<req[r].user, req[r].code>>] = @ + 1]
       \/ StoreErrs /\ UNCHANGED inviteCredits
    /\ Refused(r)
    /\ UNCHANGED <<checkoutVars, referralVars, invite, redeemed>>

-----------------------------------------------------------------------------
(* The coordinator dies: requests are lost, the tables stay.  A deposit    *)
(* whose session was not marked yet will be credited again.                *)
Reboot ==
    /\ reboots < MaxReboots /\ reboots' = reboots + 1
    /\ excused' = excused \cup {req[r].session : r \in {q \in Requests : req[q].at = "complete"}}
    /\ req' = [r \in Requests |-> Free]
    /\ UNCHANGED <<session, owed, settled, deposits, referralVars, inviteVars, repeats, storeFaults>>

(* A checkout with the referrals it races with, the registration of codes, *)
(* and invites are followed one at a time: they meet only in the owners of *)
(* codes, which are set once.                                              *)
CheckoutStep(r) ==
    \/ GetBillingSession(r) \/ CreditDeposit(r) \/ CompleteBillingSession(r)
    \/ ApplyLookup(r) \/ RecordReferral(r)

CheckoutNext ==
    \/ \E s \in Sessions : handleStripeCreateSession(s) \/ CustomerPays(s)
    \/ \E r \in Requests :
          \/ CheckoutStep(r)
          \/ \E s \in Sessions : DeliverEvent(r, s)
          \/ \E a \in Customers, c \in RefCodes : handleReferralApply(r, a, c)
    \/ Reboot

RegisterNext ==
    \/ \E r \in Requests :
          \/ RegisterLookup(r) \/ CreateReferrer(r)
          \/ \E a \in Users, c \in RefCodes : handleReferralRegister(r, a, c)
    \/ Reboot

InviteNext ==
    \/ \E i \in Invites : CreateInviteCode(i) \/ DeactivateInviteCode(i)
    \/ \E r \in Requests :
          \/ RedeemInviteCode(r) \/ CreditInvite(r)
          \/ \E a \in Users, i \in Invites : handleRedeemInviteCode(r, a, i)
    \/ Reboot

(* All of them at once.                                                    *)
CreditsNext == CheckoutNext \/ RegisterNext \/ InviteNext

CreditsSpec == (CreditsInit \/ RegisteredInit) /\ [][CreditsNext]_creditsVars

-----------------------------------------------------------------------------
CreditsTypeOK ==
    /\ session \in [Sessions -> {"none", "unsaved", "pending", "completed"}]
    /\ owed \subseteq Sessions /\ settled \subseteq Sessions /\ excused \subseteq Sessions
    /\ deposits \in [Sessions -> Nat]
    /\ ownerOf \in [RefCodes -> Users \cup {Nil}]
    /\ referredBy \in [Users -> RefCodes \cup {Nil}]
    /\ invite \in [Invites -> [state : {"none", "active", "inactive"}, used : Nat]]
    /\ redeemed \subseteq Users \X Invites
    /\ inviteCredits \in [Users \X Invites -> Nat]
    /\ req \in [Requests -> [at : {"free", "lookup", "credit", "complete", "apply", "record",
                                   "register", "create", "redeem", "grant"},
                             user : Users \cup {Nil},
                             code : RefCodes \cup Invites \cup {Nil},
                             session : Sessions \cup {Nil}]]

(* However the deliveries of a paid checkout repeat, its deposit is        *)
(* credited once, unless the session could not be saved, read or marked,   *)
(* two deliveries overlapped, or the coordinator died between the credit   *)
(* and the mark: handleStripeWebhook has no other guard than the mark      *)
(* (api/billing_handlers.go:158).                                          *)
DepositedOnce == \A s \in Sessions : deposits[s] > 1 => s \in excused

(* A code keeps its owner and an account its code, whatever two Register   *)
(* calls saw before they wrote (CreateReferrer).                           *)
OneCodePerAccount ==
    [][\A c \in RefCodes :
         /\ ownerOf[c] # Nil => ownerOf'[c] = ownerOf[c]
         /\ \A d \in RefCodes \ {c} : ownerOf'[c] # ownerOf'[d] \/ ownerOf'[c] = Nil]_creditsVars

(* The referrer of an account is somebody else and never changes, although *)
(* Apply looks first and records later (billing/referral.go:138).          *)
ReferrerIsFinal ==
    [][\A a \in Users :
         referredBy'[a] # Nil =>
            /\ ownerOf'[referredBy'[a]] # a
            /\ referredBy[a] \in {Nil, referredBy'[a]}]_creditsVars

(* The codes of referrers and the referrers of accounts are settled once,  *)
(* whatever concurrent requests read before they wrote.                    *)
ReferralsAreFinal == OneCodePerAccount /\ ReferrerIsFinal

(* An invite code pays at most max_uses times, once for an account, and    *)
(* only for redemptions that were recorded.                                *)
InviteWithinUses ==
    \A i \in Invites :
       /\ Cardinality({a \in Users : inviteCredits[<<a, i>>] > 0}) <= MaxUses
       /\ \A a \in Users : inviteCredits[<<a, i>>] <= (IF <<a, i>> \in redeemed THEN 1 ELSE 0)

(* No credit is given twice: not for a checkout whose webhook repeats, nor *)
(* for an invite code.                                                     *)
CreditedOnce == DepositedOnce /\ InviteWithinUses

(* A paid checkout is credited in the end, through failing stores and a    *)
(* crash: Stripe delivers until it is told 200.                            *)
PaidIsCredited == \A s \in Sessions : s \in owed ~> deposits[s] > 0
=============================================================================
