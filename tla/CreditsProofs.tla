--------------------------- MODULE CreditsProofs ----------------------------
(***************************************************************************)
(* Checkouts, referrals and invites, for any number of accounts, codes,    *)
(* sessions, requests in progress, repeated deliveries, failing store      *)
(* calls and restarts, all interleaved (CreditsSpec).                      *)
(***************************************************************************)
EXTENDS Credits, FiniteSetTheorems, TLAPS

Checkout == {"lookup", "credit", "complete"}
Referral == {"apply", "record", "register", "create"}
Invite == {"redeem", "grant"}

(* What a request carries, by the handler it is in.                        *)
CarriedOK(q) ==
    /\ q.at \in Checkout => q.session \in Sessions /\ q.user \in Users /\ q.code \in RefCodes \cup {Nil}
    /\ q.at \in Referral => q.user \in Users /\ q.code \in RefCodes
    /\ q.at \in Invite => q.user \in Users /\ q.code \in Invites

TypeInv == CreditsTypeOK /\ \A r \in Requests : CarriedOK(req[r])

(* A referrer on record, or about to be recorded, owns the code and is     *)
(* somebody else; owners are set once, so this outlives the look-up.       *)
ReferralInv ==
    /\ \A c, d \in RefCodes : ownerOf[c] = ownerOf[d] => c = d \/ ownerOf[c] = Nil
    /\ \A a \in Users : referredBy[a] # Nil => ownerOf[referredBy[a]] \notin {Nil, a}
    /\ \A r \in Requests : req[r].at = "record" => ownerOf[req[r].code] \notin {Nil, req[r].user}

(* One delivery at a time handles a session that is not excused: while it  *)
(* may still credit, there is no deposit, and a deposit whose session is   *)
(* not marked yet belongs to a request that is about to mark it.           *)
PaidInv(s) ==
    /\ s \in owed \cup settled \/ Handling(s) # {} => session[s] # "none"
    /\ s \notin excused =>
         /\ session[s] # "unsaved"
         /\ \A r, q \in Handling(s) : r = q
         /\ deposits[s] <= 1
         /\ deposits[s] = 1 =>
              session[s] = "completed" \/ \E r \in Handling(s) : req[r].at = "complete"
         /\ \A r \in Handling(s) : req[r].at = "credit" => deposits[s] = 0

CheckoutInv == \A s \in Sessions : PaidInv(s)

(* The uses counted are the redemptions on record, and a redemption that   *)
(* is still to be credited belongs to one request.                         *)
Redeemers(i) == {a \in Users : <<a, i>> \in redeemed}

UsesCounted ==
    \A i \in Invites :
       /\ IsFiniteSet(Redeemers(i))
       /\ Cardinality(Redeemers(i)) = invite[i].used
       /\ invite[i].used <= MaxUses

GrantsInv ==
    /\ \A a \in Users, i \in Invites :
          inviteCredits[<<a, i>>] <= (IF <<a, i>> \in redeemed THEN 1 ELSE 0)
    /\ \A r \in Requests : req[r].at = "grant" =>
          /\ <<req[r].user, req[r].code>> \in redeemed
          /\ inviteCredits[<<req[r].user, req[r].code>>] = 0
          /\ \A q \in Requests :
                req[q].at = "grant" /\ req[q].user = req[r].user /\ req[q].code = req[r].code => q = r

CreditsInv == TypeInv /\ ReferralInv /\ CheckoutInv /\ UsesCounted /\ GrantsInv

-----------------------------------------------------------------------------
(* How a step changes the requests.                                        *)

Record == [at : {"free"} \cup Checkout \cup Referral \cup Invite,
           user : Users \cup {Nil},
           code : RefCodes \cup Invites \cup {Nil},
           session : Sessions \cup {Nil}]

Others(r) == \A q \in Requests \ {r} : req'[q] = req[q]

LEMMA ReqType == TypeInv => req \in [Requests -> Record] /\ \A r \in Requests : CarriedOK(req[r])
BY Zenon DEF TypeInv, CreditsTypeOK, Record, Checkout, Referral, Invite

LEMMA FreeIsRecord ==
    /\ Free \in Record /\ CarriedOK(Free)
    /\ Free.at = "free" /\ Free.session = Nil
BY Zenon DEF Free, Record, CarriedOK, Checkout, Referral, Invite

LEMMA BeginEffect ==
    ASSUME TypeInv, NEW r \in Requests, NEW at, NEW a, NEW c, NEW s, Begin(r, at, a, c, s),
           [at |-> at, user |-> a, code |-> c, session |-> s] \in Record,
           CarriedOK([at |-> at, user |-> a, code |-> c, session |-> s])
    PROVE  /\ req' \in [Requests -> Record]
           /\ \A q \in Requests : CarriedOK(req'[q])
           /\ Others(r)
           /\ req[r].at = "free" /\ req[r].session = Nil
           /\ req'[r].at = at /\ req'[r].user = a /\ req'[r].code = c /\ req'[r].session = s
<1> DEFINE x == [at |-> at, user |-> a, code |-> c, session |-> s]
<1>1. req \in [Requests -> Record] /\ \A q \in Requests : CarriedOK(req[q])
  BY ReqType, Zenon
<1>2. req' = [req EXCEPT ![r] = x] /\ req[r] = Free
  BY Zenon DEF Begin
<1>3. x.at = at /\ x.user = a /\ x.code = c /\ x.session = s
  BY Zenon
<1>4. x \in Record /\ CarriedOK(x)
  BY Zenon
<1> HIDE DEF x
<1>5. req'[r] = x /\ Others(r) /\ req' \in [Requests -> Record]
  BY <1>1, <1>2, <1>4, Zenon DEF Others
<1>6. \A q \in Requests : CarriedOK(req'[q])
  BY <1>1, <1>4, <1>5, Zenon DEF Others
<1> QED
  BY <1>2, <1>3, <1>5, <1>6, FreeIsRecord, Zenon

LEMMA StepEffect ==
    ASSUME TypeInv, NEW r \in Requests, NEW from, NEW to, Step(r, from, to),
           to \in Checkout \cup Referral \cup Invite,
           CarriedOK([req[r] EXCEPT !.at = to])
    PROVE  /\ req' \in [Requests -> Record]
           /\ \A q \in Requests : CarriedOK(req'[q])
           /\ Others(r)
           /\ req[r].at = from
           /\ req'[r].at = to /\ req'[r].user = req[r].user /\ req'[r].code = req[r].code
           /\ req'[r].session = req[r].session
<1>1. req \in [Requests -> Record] /\ \A q \in Requests : CarriedOK(req[q])
  BY ReqType, Zenon
<1>2. PICK x : x = [req[r] EXCEPT !.at = to]
  BY Zenon
<1>3. req' = [req EXCEPT ![r] = x] /\ req[r].at = from
  BY <1>2, Zenon DEF Step
<1>4. req[r] \in Record
  BY <1>1, Zenon
<1>5. x \in Record /\ x.at = to /\ x.user = req[r].user /\ x.code = req[r].code /\ x.session = req[r].session
  BY <1>2, <1>4, Zenon DEF Record
<1>6. CarriedOK(x)
  BY <1>2, Zenon
<1>7. req'[r] = x /\ Others(r) /\ req' \in [Requests -> Record]
  BY <1>1, <1>3, <1>5, Zenon DEF Others
<1>8. \A q \in Requests : CarriedOK(req'[q])
  BY <1>1, <1>6, <1>7, Zenon DEF Others
<1> QED
  BY <1>3, <1>5, <1>7, <1>8, Zenon

LEMMA FreeEffect ==
    ASSUME TypeInv, NEW r \in Requests, Refused(r) \/ Answered(r)
    PROVE  /\ req' \in [Requests -> Record]
           /\ \A q \in Requests : CarriedOK(req'[q])
           /\ Others(r)
           /\ req'[r].at = "free" /\ req'[r].session = Nil
<1>1. req \in [Requests -> Record] /\ \A q \in Requests : CarriedOK(req[q])
  BY ReqType, Zenon
<1>2. req' = [req EXCEPT ![r] = Free]
  BY Zenon DEF Refused, Answered
<1>3. req'[r] = Free /\ Others(r) /\ req' \in [Requests -> Record]
  BY <1>1, <1>2, FreeIsRecord, Zenon DEF Others
<1>4. \A q \in Requests : CarriedOK(req'[q])
  BY <1>1, <1>3, FreeIsRecord, Zenon DEF Others
<1> QED
  BY <1>3, <1>4, FreeIsRecord, Zenon

LEMMA RebootEffect ==
    ASSUME TypeInv, Reboot
    PROVE  /\ req' \in [Requests -> Record]
           /\ \A q \in Requests : CarriedOK(req'[q]) /\ req'[q].at = "free" /\ req'[q].session = Nil
<1>1. req' = [q \in Requests |-> Free]
  BY Zenon DEF Reboot
<1> QED
  BY <1>1, FreeIsRecord, Zenon

-----------------------------------------------------------------------------
(* What keeps a part of the invariant that a step does not touch.          *)

TablesOK ==
    /\ session \in [Sessions -> {"none", "unsaved", "pending", "completed"}]
    /\ owed \subseteq Sessions /\ settled \subseteq Sessions /\ excused \subseteq Sessions
    /\ deposits \in [Sessions -> Nat]
    /\ ownerOf \in [RefCodes -> Users \cup {Nil}]
    /\ referredBy \in [Users -> RefCodes \cup {Nil}]
    /\ invite \in [Invites -> [state : {"none", "active", "inactive"}, used : Nat]]
    /\ redeemed \subseteq Users \X Invites
    /\ inviteCredits \in [Users \X Invites -> Nat]

RequestsOK == req \in [Requests -> Record] /\ \A q \in Requests : CarriedOK(req[q])

LEMMA TypeParts == TypeInv <=> TablesOK /\ RequestsOK
BY Zenon DEF TypeInv, CreditsTypeOK, TablesOK, RequestsOK, Record, Checkout, Referral, Invite

LEMMA TypePartsNext == ASSUME TablesOK', RequestsOK' PROVE TypeInv'
BY Zenon DEF TypeInv, CreditsTypeOK, TablesOK, RequestsOK, Record, Checkout, Referral, Invite

(* What each action is shown to establish.                                 *)
LEMMA PartsMakeInv ==
    ASSUME TablesOK', RequestsOK', ReferralInv', CheckoutInv', UsesCounted', GrantsInv'
    PROVE  CreditsInv'
BY TypePartsNext, Zenon DEF CreditsInv

LEMMA ReferralFrame ==
    ASSUME ReferralInv, UNCHANGED referralVars,
           \A q \in Requests : req'[q].at = "record" => req'[q] = req[q]
    PROVE  ReferralInv'
BY Zenon DEF ReferralInv, referralVars

LEMMA GrantsFrame ==
    ASSUME GrantsInv, UNCHANGED <<redeemed, inviteCredits>>,
           \A q \in Requests : req'[q].at = "grant" => req'[q] = req[q]
    PROVE  GrantsInv'
<1>1. redeemed' = redeemed /\ inviteCredits' = inviteCredits
  BY Zenon
<1>2. \A r \in Requests : req'[r].at = "grant" =>
          /\ <<req'[r].user, req'[r].code>> \in redeemed
          /\ inviteCredits[<<req'[r].user, req'[r].code>>] = 0
          /\ \A q \in Requests :
                req'[q].at = "grant" /\ req'[q].user = req'[r].user /\ req'[q].code = req'[r].code => q = r
  <2> TAKE r \in Requests
  <2> HAVE req'[r].at = "grant"
  <2>1. req'[r] = req[r] /\ req[r].at = "grant"
    BY Zenon
  <2>2. <<req[r].user, req[r].code>> \in redeemed /\ inviteCredits[<<req[r].user, req[r].code>>] = 0
    BY <2>1, Zenon DEF GrantsInv
  <2>3. \A q \in Requests :
           req[q].at = "grant" /\ req[q].user = req[r].user /\ req[q].code = req[r].code => q = r
    BY <2>1, Zenon DEF GrantsInv
  <2>4. \A q \in Requests :
           req'[q].at = "grant" /\ req'[q].user = req'[r].user /\ req'[q].code = req'[r].code => q = r
    BY <2>1, <2>3, Zenon
  <2> QED
    BY <2>1, <2>2, <2>4, Zenon
<1> QED
  BY <1>1, <1>2, Zenon DEF GrantsInv

LEMMA UsesFrame == ASSUME UsesCounted, UNCHANGED <<invite, redeemed>> PROVE UsesCounted'
<1>1. \A i \in Invites : Redeemers(i)' = Redeemers(i)
  BY Zenon DEF Redeemers
<1> QED
  BY <1>1, Zenon DEF UsesCounted

LEMMA SessionFrame ==
    ASSUME NEW s \in Sessions, PaidInv(s),
           session'[s] = session[s], deposits'[s] = deposits[s],
           s \in excused => s \in excused',
           s \in owed' \cup settled' => session[s] # "none",
           \A q \in Requests : req'[q].session = s => req[q].session = s,
           \A q \in Requests : req'[q].session = s /\ req'[q].at = "credit" => req[q].at = "credit",
           \A q \in Requests : req[q].session = s /\ req[q].at = "complete" =>
                                  s \in excused' \/ req'[q] = req[q]
    PROVE  PaidInv(s)'
<1>1. Handling(s)' \subseteq Handling(s)
  BY Zenon DEF Handling
<1>2. s \notin excused' /\ (\E r \in Handling(s) : req[r].at = "complete") =>
          \E r \in Handling(s)' : req'[r].at = "complete"
  BY Zenon DEF Handling
<1>3. \A r \in Handling(s)' : req'[r].at = "credit" => req[r].at = "credit"
  BY Zenon DEF Handling
<1> HIDE DEF Handling
<1>4. s \in owed' \cup settled' \/ Handling(s)' # {} => session'[s] # "none"
  BY <1>1, Zenon DEF PaidInv
<1>5. s \notin excused' =>
         /\ session'[s] # "unsaved"
         /\ \A r, q \in Handling(s)' : r = q
         /\ deposits'[s] <= 1
         /\ deposits'[s] = 1 =>
              session'[s] = "completed" \/ \E r \in Handling(s)' : req'[r].at = "complete"
         /\ \A r \in Handling(s)' : req'[r].at = "credit" => deposits'[s] = 0
  <2> SUFFICES ASSUME s \notin excused' PROVE <1>5!2
    BY Zenon
  <2>1. s \notin excused
    BY Zenon
  <2>2. session'[s] # "unsaved" /\ deposits'[s] <= 1
    BY <2>1, Zenon DEF PaidInv
  <2>3. \A r, q \in Handling(s)' : r = q
    BY <1>1, <2>1, Zenon DEF PaidInv
  <2>4. deposits'[s] = 1 =>
              session'[s] = "completed" \/ \E r \in Handling(s)' : req'[r].at = "complete"
    BY <1>2, <2>1, Zenon DEF PaidInv
  <2>5. \A r \in Handling(s)' : req'[r].at = "credit" => deposits'[s] = 0
    BY <1>1, <1>3, <2>1, Zenon DEF PaidInv
  <2> QED
    BY <2>2, <2>3, <2>4, <2>5, Zenon
<1> QED
  BY <1>4, <1>5, Zenon DEF PaidInv

(* A session that the request r does not carry.                            *)
LEMMA OtherSession ==
    ASSUME NEW s \in Sessions, PaidInv(s), NEW r \in Requests, Others(r),
           req[r].session # s, req'[r].session # s,
           session'[s] = session[s], deposits'[s] = deposits[s],
           s \in excused => s \in excused',
           s \in owed' \cup settled' => s \in owed \cup settled
    PROVE  PaidInv(s)'
<1>1. \A q \in Requests : req'[q].session = s => req[q].session = s
  BY Zenon DEF Others
<1>2. \A q \in Requests : req'[q].session = s /\ req'[q].at = "credit" => req[q].at = "credit"
  BY Zenon DEF Others
<1>3. \A q \in Requests : req[q].session = s /\ req[q].at = "complete" =>
                                  s \in excused' \/ req'[q] = req[q]
  BY Zenon DEF Others
<1>4. s \in owed' \cup settled' => session[s] # "none"
  BY Zenon DEF PaidInv
<1> QED
  BY <1>1, <1>2, <1>3, <1>4, SessionFrame, Zenon

(* A request that is neither about to mark a session nor comes to credit   *)
(* one goes on or ends.                                                    *)
LEMMA CheckoutFrame ==
    ASSUME TypeInv, CheckoutInv, NEW r \in Requests, Others(r),
           req'[r].session \in {Nil, req[r].session},
           req[r].at # "complete", req'[r].at # "credit",
           UNCHANGED <<session, deposits, excused>>,
           owed' \cup settled' \subseteq owed \cup settled \cup {req[r].session}
    PROVE  CheckoutInv'
<1> SUFFICES ASSUME NEW s \in Sessions PROVE PaidInv(s)'
  BY Zenon DEF CheckoutInv
<1>1. PaidInv(s)
  BY Zenon DEF CheckoutInv
<1>2. \A q \in Requests : req'[q].session = s => req[q].session = s
  <2>1. s # Nil
    BY CreditsAssumption, Zenon
  <2> QED
    BY <2>1, Zenon DEF Others
<1>3. \A q \in Requests : req'[q].session = s /\ req'[q].at = "credit" => req[q].at = "credit"
  BY Zenon DEF Others
<1>4. \A q \in Requests : req[q].session = s /\ req[q].at = "complete" =>
                                  s \in excused' \/ req'[q] = req[q]
  BY Zenon DEF Others
<1>5. s \in owed' \cup settled' => session[s] # "none"
  <2>1. s = req[r].session => Handling(s) # {}
    BY Zenon DEF Handling
  <2>2. s \in owed' \cup settled' => s \in owed \cup settled \/ s = req[r].session
    BY Zenon
  <2> QED
    BY <1>1, <2>1, <2>2, Zenon DEF PaidInv
<1>6. session'[s] = session[s] /\ deposits'[s] = deposits[s] /\ (s \in excused => s \in excused')
  BY Zenon
<1> QED
  BY <1>1, <1>2, <1>3, <1>4, <1>5, <1>6, SessionFrame, Zenon

LEMMA OwedFrame ==
    ASSUME NEW r, Answered(r)
    PROVE  owed' \cup settled' \subseteq owed \cup settled \cup {req[r].session}
BY Zenon DEF Answered

LEMMA AnsweredTables ==
    ASSUME TypeInv, NEW r \in Requests, Answered(r)
    PROVE  owed' \subseteq Sessions /\ settled' \subseteq Sessions
<1>1. req[r].session \in Sessions \cup {Nil}
  BY ReqType, Zenon DEF Record
<1> QED
  BY <1>1, Zenon DEF Answered, TypeInv, CreditsTypeOK

-----------------------------------------------------------------------------
(* Checkout.                                                               *)

LEMMA CreateSessionKeeps ==
    ASSUME CreditsInv, NEW s \in Sessions, handleStripeCreateSession(s)
    PROVE  CreditsInv'
<1>0. TypeInv /\ TablesOK /\ RequestsOK
  BY TypeParts, Zenon DEF CreditsInv
<1>1. /\ UNCHANGED <<owed, settled, deposits, referralVars, inviteVars, req>>
      /\ session[s] = "none"
      /\ \/ session' = [session EXCEPT ![s] = "pending"] /\ excused' = excused
         \/ session' = [session EXCEPT ![s] = "unsaved"] /\ excused' = excused \cup {s}
  BY Zenon DEF handleStripeCreateSession
<1>2. TablesOK'
  BY <1>0, <1>1, Zenon DEF TablesOK, referralVars, inviteVars
<1>3. RequestsOK'
  BY <1>0, <1>1, Zenon DEF RequestsOK
<1>4. ReferralInv' /\ UsesCounted' /\ GrantsInv'
  BY <1>1, ReferralFrame, UsesFrame, GrantsFrame, Zenon DEF CreditsInv, inviteVars
<1>5. ASSUME NEW t \in Sessions PROVE PaidInv(t)'
  <2>1. PaidInv(t)
    BY Zenon DEF CreditsInv, CheckoutInv
  <2>2. Handling(t)' = Handling(t)
    BY <1>1, Zenon DEF Handling
  <2>3. CASE t # s
    <3>1. session'[t] = session[t] /\ (t \in excused' <=> t \in excused)
      BY <1>0, <1>1, <2>3, Zenon DEF TablesOK
    <3> QED
      BY <1>1, <2>1, <2>2, <3>1, Zenon DEF PaidInv
  <2>4. CASE t = s
    <3>1. t \notin owed \cup settled /\ Handling(t) = {}
      BY <1>1, <2>1, <2>4, Zenon DEF PaidInv
    <3>2. session'[t] # "none" /\ (t \notin excused' => t \notin excused /\ session'[t] = "pending")
      BY <1>0, <1>1, <2>4, Zenon DEF TablesOK
    <3>3. t \notin excused => deposits[t] <= 1 /\ deposits[t] # 1
      BY <1>1, <2>1, <2>4, <3>1, Zenon DEF PaidInv
    <3> QED
      BY <1>1, <2>2, <3>1, <3>2, <3>3, Zenon DEF PaidInv
  <2> QED
    BY <2>3, <2>4, Zenon
<1> CheckoutInv'
  BY <1>5, Zenon DEF CheckoutInv
<1> QED
  BY <1>2, <1>3, <1>4, PartsMakeInv, Zenon

LEMMA CustomerPaysKeeps ==
    ASSUME CreditsInv, NEW s \in Sessions, CustomerPays(s)
    PROVE  CreditsInv'
<1>0. TypeInv /\ TablesOK /\ RequestsOK
  BY TypeParts, Zenon DEF CreditsInv
<1>1. /\ UNCHANGED <<session, settled, deposits, excused, referralVars, inviteVars, req>>
      /\ session[s] # "none" /\ owed' = owed \cup {s}
  BY Zenon DEF CustomerPays
<1>2. TablesOK'
  BY <1>0, <1>1, Zenon DEF TablesOK, referralVars, inviteVars
<1>3. RequestsOK'
  BY <1>0, <1>1, Zenon DEF RequestsOK
<1>4. ReferralInv' /\ UsesCounted' /\ GrantsInv'
  BY <1>1, ReferralFrame, UsesFrame, GrantsFrame, Zenon DEF CreditsInv, inviteVars
<1>5. ASSUME NEW t \in Sessions PROVE PaidInv(t)'
  <2>1. PaidInv(t)
    BY Zenon DEF CreditsInv, CheckoutInv
  <2>2. t \in owed' \cup settled' => session[t] # "none"
    BY <1>1, <2>1, Zenon DEF PaidInv
  <2> QED
    BY <1>1, <2>1, <2>2, SessionFrame, Zenon
<1> CheckoutInv'
  BY <1>5, Zenon DEF CheckoutInv
<1> QED
  BY <1>2, <1>3, <1>4, PartsMakeInv, Zenon

LEMMA DeliverKeeps ==
    ASSUME CreditsInv, NEW r \in Requests, NEW s \in Sessions, DeliverEvent(r, s)
    PROVE  CreditsInv'
<1>0. TypeInv /\ TablesOK /\ RequestsOK
  BY TypeParts, Zenon DEF CreditsInv
<1>1. /\ UNCHANGED <<session, owed, settled, deposits, referralVars, inviteVars>>
      /\ s \in owed \cup settled
      /\ (excused' = excused /\ Handling(s) = {}) \/ excused' = excused \cup {s}
  BY Zenon DEF DeliverEvent
<1>2. /\ [at |-> "lookup", user |-> PayerOf[s], code |-> CodeOf[s], session |-> s] \in Record
      /\ CarriedOK([at |-> "lookup", user |-> PayerOf[s], code |-> CodeOf[s], session |-> s])
  BY CreditsAssumption, Zenon DEF Record, CarriedOK, Checkout, Referral, Invite
<1>3. Begin(r, "lookup", PayerOf[s], CodeOf[s], s)
  BY Zenon DEF DeliverEvent
<1>4. /\ RequestsOK' /\ Others(r)
      /\ req[r].session = Nil /\ req'[r].at = "lookup" /\ req'[r].session = s
  BY <1>0, <1>2, <1>3, BeginEffect, Zenon DEF RequestsOK
<1>5. TablesOK'
  BY <1>0, <1>1, Zenon DEF TablesOK, referralVars, inviteVars
<1>6. \A q \in Requests : req'[q].at \in {"record", "grant"} => req'[q] = req[q]
  BY <1>4, Zenon DEF Others
<1>7. ReferralInv' /\ UsesCounted' /\ GrantsInv'
  BY <1>1, <1>6, ReferralFrame, UsesFrame, GrantsFrame, Zenon DEF CreditsInv, inviteVars
<1>8. ASSUME NEW t \in Sessions PROVE PaidInv(t)'
  <2>1. PaidInv(t)
    BY Zenon DEF CreditsInv, CheckoutInv
  <2>2. CASE t # s
    <3>1. req[r].session # t
      BY <1>4, CreditsAssumption, Zenon
    <3>2. t \in excused => t \in excused'
      BY <1>1, Zenon
    <3> QED
      BY <1>1, <1>4, <2>1, <2>2, <3>1, <3>2, OtherSession, Zenon
  <2>3. CASE t = s
    <3>1. session[t] # "none"
      BY <1>1, <2>1, <2>3, Zenon DEF PaidInv
    <3>2. t \notin excused' => t \notin excused /\ Handling(t) = {} /\ Handling(t)' = {r}
      BY <1>1, <1>4, <2>3, Zenon DEF Handling, Others
    <3>3. t \notin excused' => deposits[t] <= 1 /\ (deposits[t] = 1 => session[t] = "completed")
      BY <2>1, <3>2, Zenon DEF PaidInv
    <3> QED
      BY <1>1, <1>4, <2>1, <3>1, <3>2, <3>3, Zenon DEF PaidInv
  <2> QED
    BY <2>2, <2>3, Zenon
<1> CheckoutInv'
  BY <1>8, Zenon DEF CheckoutInv
<1> QED
  BY <1>4, <1>5, <1>7, PartsMakeInv, Zenon

LEMMA Stages ==
    /\ "lookup" \in Checkout /\ "credit" \in Checkout /\ "complete" \in Checkout
    /\ "apply" \in Referral /\ "record" \in Referral /\ "register" \in Referral /\ "create" \in Referral
    /\ "redeem" \in Invite /\ "grant" \in Invite
BY Zenon DEF Checkout, Referral, Invite

(* A request goes on inside its handler, or from the mark to the referral. *)
LEMMA GoesOn ==
    ASSUME TypeInv, NEW r \in Requests, NEW from, NEW to, Step(r, from, to),
           \/ from \in Checkout /\ to \in Checkout
           \/ from \in Referral /\ to \in Referral
           \/ from \in Invite /\ to \in Invite
           \/ from = "complete" /\ to = "apply" /\ req[r].code # Nil
    PROVE  /\ RequestsOK' /\ Others(r)
           /\ req[r].at = from
           /\ req'[r].at = to /\ req'[r].user = req[r].user /\ req'[r].code = req[r].code
           /\ req'[r].session = req[r].session
<1>1. req[r] \in Record /\ CarriedOK(req[r]) /\ req[r].at = from
  BY ReqType, Zenon DEF Step
<1>2. PICK x : x = [req[r] EXCEPT !.at = to]
  BY Zenon
<1>3. x.at = to /\ x.user = req[r].user /\ x.code = req[r].code /\ x.session = req[r].session
  BY <1>1, <1>2, Zenon DEF Record
<1>4. CarriedOK(x)
  BY <1>1, <1>3, Zenon DEF CarriedOK, Record, Checkout, Referral, Invite
<1>5. CarriedOK([req[r] EXCEPT !.at = to])
  BY <1>2, <1>4, Zenon
<1>6. to \in Checkout \cup Referral \cup Invite
  BY Zenon DEF Checkout, Referral, Invite
<1> QED
  BY <1>5, <1>6, StepEffect, Zenon DEF RequestsOK

LEMMA RequestEnds ==
    ASSUME TypeInv, NEW r \in Requests, Refused(r) \/ Answered(r)
    PROVE  RequestsOK' /\ Others(r) /\ req'[r].at = "free" /\ req'[r].session = Nil
BY FreeEffect, Zenon DEF RequestsOK

(* What request r carries while it handles a webhook event.                *)
LEMMA Carries ==
    ASSUME TypeInv, NEW r \in Requests, req[r].at \in Checkout
    PROVE  req[r].session \in Sessions /\ req[r].session # Nil
BY ReqType, CreditsAssumption, Zenon DEF CarriedOK

LEMMA GetBillingSessionKeeps ==
    ASSUME CreditsInv, NEW r \in Requests, GetBillingSession(r)
    PROVE  CreditsInv'
<1>0. TypeInv /\ TablesOK /\ RequestsOK /\ CheckoutInv
  BY TypeParts, Zenon DEF CreditsInv
<1>1. req[r].at = "lookup" /\ UNCHANGED <<session, deposits, referralVars, inviteVars>>
  BY Zenon DEF GetBillingSession
<1>2. PICK s \in Sessions : s = req[r].session
  BY <1>0, <1>1, Carries, Zenon DEF Checkout
<1>3. CASE Answered(r) /\ excused' = excused
  <2>1. RequestsOK' /\ Others(r) /\ req'[r].at = "free" /\ req'[r].session = Nil
    BY <1>0, <1>3, RequestEnds, Zenon
  <2>2. TablesOK'
    <3>1. owed' \subseteq Sessions /\ settled' \subseteq Sessions
      BY <1>0, <1>3, AnsweredTables, Zenon
    <3> QED
      BY <1>0, <1>1, <1>3, <3>1, Zenon DEF TablesOK, referralVars, inviteVars
  <2>3. \A q \in Requests : req'[q].at \in {"record", "grant"} => req'[q] = req[q]
    BY <2>1, Zenon DEF Others
  <2>4. ReferralInv' /\ UsesCounted' /\ GrantsInv'
    BY <1>1, <2>3, ReferralFrame, UsesFrame, GrantsFrame, Zenon DEF CreditsInv, inviteVars
  <2>5. req'[r].at # "credit" /\ req[r].at # "complete"
    BY <1>1, <2>1, Zenon
  <2>6. CheckoutInv'
    BY <1>0, <1>1, <1>3, <2>1, <2>5, OwedFrame, CheckoutFrame, Zenon
  <2> QED
    BY <2>1, <2>2, <2>4, <2>6, PartsMakeInv, Zenon
<1>4. CASE /\ Step(r, "lookup", "credit") /\ UNCHANGED <<owed, settled>>
           /\ \/ session[req[r].session] # "completed" /\ excused' = excused
              \/ excused' = excused \cup {req[r].session}
  <2>1. /\ RequestsOK' /\ Others(r)
        /\ req'[r].at = "credit" /\ req'[r].session = s
    <3>1. RequestsOK' /\ Others(r) /\ req'[r].at = "credit" /\ req'[r].session = req[r].session
      BY <1>0, <1>4, GoesOn, Stages, ZenonT(40)
    <3> QED
      BY <1>2, <3>1, Zenon
  <2>2. TablesOK'
    BY <1>0, <1>1, <1>2, <1>4, Zenon DEF TablesOK, referralVars, inviteVars
  <2>3. \A q \in Requests : req'[q].at \in {"record", "grant"} => req'[q] = req[q]
    BY <2>1, Zenon DEF Others
  <2>4. ReferralInv' /\ UsesCounted' /\ GrantsInv'
    BY <1>1, <2>3, ReferralFrame, UsesFrame, GrantsFrame, Zenon DEF CreditsInv, inviteVars
  <2>5. ASSUME NEW t \in Sessions PROVE PaidInv(t)'
    <3>1. PaidInv(t)
      BY <1>0, Zenon DEF CheckoutInv
    <3>2. CASE t # s
      <4>1. t \in excused => t \in excused'
        BY <1>4, Zenon
      <4> QED
        BY <1>1, <1>2, <1>4, <2>1, <3>1, <3>2, <4>1, OtherSession, Zenon
    <3>3. CASE t = s
      <4>1. r \in Handling(t) /\ Handling(t)' = Handling(t)
        BY <1>2, <2>1, <3>3, Zenon DEF Handling, Others
      <4>2. session[t] # "none"
        BY <3>1, <4>1, Zenon DEF PaidInv
      <4>3. ASSUME t \notin excused'
            PROVE  /\ session[t] # "unsaved" /\ deposits[t] = 0
                   /\ \A q, p \in Handling(t) : q = p
        <5>1. t \notin excused /\ session[t] # "completed"
          BY <1>2, <1>4, <3>3, <4>3, Zenon
        <5>2. \A q \in Handling(t) : req[q].at # "complete"
          BY <1>1, <3>1, <4>1, <5>1, Zenon DEF PaidInv
        <5>3. deposits[t] \in Nat
          BY <1>0, Zenon DEF TablesOK
        <5> QED
          BY <3>1, <5>1, <5>2, <5>3 DEF PaidInv
      <4> QED
        BY <1>1, <4>1, <4>2, <4>3 DEF PaidInv
    <3> QED
      BY <3>2, <3>3, Zenon
  <2>6. CheckoutInv'
    BY <2>5, Zenon DEF CheckoutInv
  <2> QED
    BY <2>1, <2>2, <2>4, <2>6, PartsMakeInv, Zenon
<1> QED
  BY <1>3, <1>4, Zenon DEF GetBillingSession

LEMMA CreditDepositKeeps ==
    ASSUME CreditsInv, NEW r \in Requests, CreditDeposit(r)
    PROVE  CreditsInv'
<1>0. TypeInv /\ TablesOK /\ RequestsOK /\ CheckoutInv
  BY TypeParts, Zenon DEF CreditsInv
<1>1. req[r].at = "credit" /\ UNCHANGED <<session, owed, settled, excused, referralVars, inviteVars>>
  BY Zenon DEF CreditDeposit
<1>2. PICK s \in Sessions : s = req[r].session
  BY <1>0, <1>1, Carries, Zenon DEF Checkout
<1>3. CASE Refused(r) /\ deposits' = deposits
  <2>1. RequestsOK' /\ Others(r) /\ req'[r].at = "free" /\ req'[r].session = Nil
    BY <1>0, <1>3, RequestEnds, Zenon
  <2>2. TablesOK'
    BY <1>0, <1>1, <1>3, Zenon DEF TablesOK, referralVars, inviteVars
  <2>3. \A q \in Requests : req'[q].at \in {"record", "grant"} => req'[q] = req[q]
    BY <2>1, Zenon DEF Others
  <2>4. ReferralInv' /\ UsesCounted' /\ GrantsInv'
    BY <1>1, <2>3, ReferralFrame, UsesFrame, GrantsFrame, Zenon DEF CreditsInv, inviteVars
  <2>5. req'[r].at # "credit" /\ req[r].at # "complete"
    BY <1>1, <2>1, Zenon
  <2>6. owed' \cup settled' \subseteq owed \cup settled \cup {req[r].session}
    BY <1>1, Zenon
  <2>7. CheckoutInv'
    BY <1>0, <1>1, <1>3, <2>1, <2>5, <2>6, CheckoutFrame, Zenon
  <2> QED
    BY <2>1, <2>2, <2>4, <2>7, PartsMakeInv, Zenon
<1>4. CASE /\ Step(r, "credit", "complete")
           /\ deposits' = [deposits EXCEPT ![req[r].session] = @ + 1]
  <2>1. /\ RequestsOK' /\ Others(r)
        /\ req'[r].at = "complete" /\ req'[r].session = s
    <3>1. RequestsOK' /\ Others(r) /\ req'[r].at = "complete" /\ req'[r].session = req[r].session
      BY <1>0, <1>4, GoesOn, Stages, ZenonT(40)
    <3> QED
      BY <1>2, <3>1, Zenon
  <2>2. TablesOK'
    BY <1>0, <1>1, <1>2, <1>4 DEF TablesOK, referralVars, inviteVars
  <2>3. \A q \in Requests : req'[q].at \in {"record", "grant"} => req'[q] = req[q]
    BY <2>1, Zenon DEF Others
  <2>4. ReferralInv' /\ UsesCounted' /\ GrantsInv'
    BY <1>1, <2>3, ReferralFrame, UsesFrame, GrantsFrame, Zenon DEF CreditsInv, inviteVars
  <2>5. ASSUME NEW t \in Sessions PROVE PaidInv(t)'
    <3>1. PaidInv(t)
      BY <1>0, Zenon DEF CheckoutInv
    <3>2. CASE t # s
      <4>1. deposits'[t] = deposits[t]
        BY <1>0, <1>2, <1>4, <3>2, Zenon DEF TablesOK
      <4> QED
        BY <1>1, <1>2, <2>1, <3>1, <3>2, <4>1, OtherSession, Zenon
    <3>3. CASE t = s
      <4>1. r \in Handling(t) /\ Handling(t)' = Handling(t)
        BY <1>2, <2>1, <3>3, Zenon DEF Handling, Others
      <4>2. t \notin excused => deposits'[t] = 1
        <5>1. t \notin excused => deposits[t] = 0
          BY <1>1, <3>1, <4>1, Zenon DEF PaidInv
        <5> QED
          BY <1>0, <1>2, <1>4, <3>3, <5>1 DEF TablesOK
      <4>3. t \notin excused => \A q \in Handling(t)' : q = r
        BY <3>1, <4>1, Zenon DEF PaidInv
      <4>4. \A q \in Handling(t)' : t \notin excused => req'[q].at # "credit"
        BY <2>1, <4>3, Zenon
      <4> QED
        BY <1>1, <2>1, <3>1, <4>1, <4>2, <4>4 DEF PaidInv
    <3> QED
      BY <3>2, <3>3, Zenon
  <2>6. CheckoutInv'
    BY <2>5, Zenon DEF CheckoutInv
  <2> QED
    BY <2>1, <2>2, <2>4, <2>6, PartsMakeInv, Zenon
<1> QED
  BY <1>3, <1>4, Zenon DEF CreditDeposit

LEMMA CompleteSessionKeeps ==
    ASSUME CreditsInv, NEW r \in Requests, CompleteBillingSession(r)
    PROVE  CreditsInv'
<1>0. TypeInv /\ TablesOK /\ RequestsOK /\ CheckoutInv
  BY TypeParts, Zenon DEF CreditsInv
<1>1. /\ req[r].at = "complete" /\ UNCHANGED <<deposits, referralVars, inviteVars>>
      /\ AfterComplete(r)
  BY Zenon DEF CompleteBillingSession
<1>2. PICK s \in Sessions : s = req[r].session
  BY <1>0, <1>1, Carries, Zenon DEF Checkout
<1>3. \/ /\ excused' = excused
         /\ session' = [session EXCEPT ![s] = IF @ = "pending" THEN "completed" ELSE @]
      \/ excused' = excused \cup {s} /\ session' = session
  BY <1>2, Zenon DEF CompleteBillingSession
<1>4. /\ RequestsOK' /\ Others(r) /\ req'[r].at \in {"free", "apply"}
      /\ req'[r].session \in {Nil, s}
      /\ owed' \cup settled' \subseteq owed \cup settled \cup {s}
      /\ owed' \subseteq Sessions /\ settled' \subseteq Sessions
  <2>1. CASE Answered(r)
    <3>1. RequestsOK' /\ Others(r) /\ req'[r].at = "free" /\ req'[r].session = Nil
      BY <1>0, <2>1, RequestEnds, Zenon
    <3>2. owed' \subseteq Sessions /\ settled' \subseteq Sessions
      BY <1>0, <2>1, AnsweredTables, Zenon
    <3>3. owed' \cup settled' \subseteq owed \cup settled \cup {s}
      BY <1>2, <2>1, OwedFrame, Zenon
    <3> QED
      BY <3>1, <3>2, <3>3, Zenon
  <2>2. CASE Step(r, "complete", "apply") /\ req[r].code # Nil /\ UNCHANGED <<owed, settled>>
    <3>1. RequestsOK' /\ Others(r) /\ req'[r].at = "apply" /\ req'[r].session = req[r].session
      BY <1>0, <2>2, GoesOn
    <3> QED
      BY <1>0, <1>2, <2>2, <3>1, Zenon DEF TablesOK
  <2> QED
    BY <1>1, <2>1, <2>2, Zenon DEF AfterComplete
<1>5. TablesOK'
  <2>1. session' \in [Sessions -> {"none", "unsaved", "pending", "completed"}]
    BY <1>0, <1>3, Zenon DEF TablesOK
  <2>2. excused' \subseteq Sessions
    BY <1>0, <1>3, Zenon DEF TablesOK
  <2> QED
    BY <1>0, <1>1, <1>4, <2>1, <2>2, Zenon DEF TablesOK, referralVars, inviteVars
<1>6. \A q \in Requests : req'[q].at \in {"record", "grant"} => req'[q] = req[q]
  BY <1>4, Zenon DEF Others
<1>7. ReferralInv' /\ UsesCounted' /\ GrantsInv'
  BY <1>1, <1>6, ReferralFrame, UsesFrame, GrantsFrame, Zenon DEF CreditsInv, inviteVars
<1>8. ASSUME NEW t \in Sessions PROVE PaidInv(t)'
  <2>1. PaidInv(t)
    BY <1>0, Zenon DEF CheckoutInv
  <2>2. CASE t # s
    <3>1. /\ session'[t] = session[t] /\ (t \in excused => t \in excused')
          /\ (t \in owed' \cup settled' => t \in owed \cup settled)
      BY <1>0, <1>3, <1>4, <2>2, Zenon DEF TablesOK
    <3>2. deposits'[t] = deposits[t] /\ req[r].session # t /\ req'[r].session # t
      BY <1>1, <1>2, <1>4, <2>2, CreditsAssumption, Zenon
    <3> QED
      BY <1>4, <2>1, <3>1, <3>2, OtherSession, Zenon
  <2>3. CASE t = s
    <3>1. r \in Handling(t) /\ Handling(t)' \subseteq Handling(t)
      BY <1>2, <1>4, <2>3, CreditsAssumption, Zenon DEF Handling, Others
    <3>2. session[t] # "none" /\ session[t] \in {"none", "unsaved", "pending", "completed"}
      BY <1>0, <2>1, <3>1, Zenon DEF PaidInv, TablesOK
    <3>3. session'[t] # "none"
      BY <1>0, <1>3, <2>3, <3>2, Zenon DEF TablesOK
    <3>4. ASSUME t \notin excused'
          PROVE  /\ session'[t] = "completed" /\ deposits[t] <= 1
                 /\ \A q, p \in Handling(t)' : q = p
                 /\ \A q \in Handling(t)' : req'[q].at # "credit"
      <4>1. t \notin excused
        BY <1>3, <3>4, Zenon
      <4>2. session'[t] = "completed"
        BY <1>0, <1>3, <2>1, <2>3, <3>2, <3>4, Zenon DEF PaidInv, TablesOK
      <4>3. \A q, p \in Handling(t) : q = p
        BY <2>1, <4>1, Zenon DEF PaidInv
      <4>4. \A q \in Handling(t)' : q = r
        BY <3>1, <4>3, Zenon
      <4>5. deposits[t] <= 1
        BY <2>1, <4>1, Zenon DEF PaidInv
      <4> QED
        BY <1>4, <4>2, <4>4, <4>5, Zenon
    <3> QED
      BY <1>1, <3>3, <3>4, Zenon DEF PaidInv
  <2> QED
    BY <2>2, <2>3, Zenon
<1>9. CheckoutInv'
  BY <1>8, Zenon DEF CheckoutInv
<1> QED
  BY <1>4, <1>5, <1>7, <1>9, PartsMakeInv, Zenon

-----------------------------------------------------------------------------
(* Referrals.                                                              *)

(* How Apply comes back to its caller.                                     *)
LEMMA AppliedEffect ==
    ASSUME TypeInv, NEW r \in Requests, Applied(r)
    PROVE  /\ RequestsOK' /\ Others(r) /\ req'[r].at = "free" /\ req'[r].session = Nil
           /\ owed' \cup settled' \subseteq owed \cup settled \cup {req[r].session}
           /\ owed' \subseteq Sessions /\ settled' \subseteq Sessions
<1>1. CASE Refused(r) /\ UNCHANGED <<owed, settled>>
  <2>1. RequestsOK' /\ Others(r) /\ req'[r].at = "free" /\ req'[r].session = Nil
    BY <1>1, RequestEnds, Zenon
  <2> QED
    BY <1>1, <2>1, TypeParts, Zenon DEF TablesOK
<1>2. CASE Answered(r)
  BY <1>2, RequestEnds, OwedFrame, AnsweredTables, Zenon
<1> QED
  BY <1>1, <1>2, Zenon DEF Applied

LEMMA BeginReferralKeeps ==
    ASSUME CreditsInv, NEW r \in Requests, NEW a \in Users, NEW c \in RefCodes,
           handleReferralRegister(r, a, c) \/ handleReferralApply(r, a, c)
    PROVE  CreditsInv'
<1>0. TypeInv /\ TablesOK /\ RequestsOK /\ CheckoutInv
  BY TypeParts, Zenon DEF CreditsInv
<1>1. UNCHANGED <<checkoutVars, referralVars, inviteVars>>
  BY Zenon DEF handleReferralRegister, handleReferralApply
<1>2. PICK at \in {"register", "apply"} : Begin(r, at, a, c, Nil)
  BY Zenon DEF handleReferralRegister, handleReferralApply
<1>3. /\ [at |-> at, user |-> a, code |-> c, session |-> Nil] \in Record
      /\ CarriedOK([at |-> at, user |-> a, code |-> c, session |-> Nil])
  BY <1>2, Zenon DEF Record, CarriedOK, Checkout, Referral, Invite
<1>4. /\ RequestsOK' /\ Others(r) /\ req[r].at = "free"
      /\ req'[r].at = at /\ req'[r].session = Nil
  BY <1>0, <1>2, <1>3, BeginEffect DEF RequestsOK
<1>5. TablesOK'
  BY <1>0, <1>1, Zenon DEF TablesOK, checkoutVars, referralVars, inviteVars
<1>6. \A q \in Requests : req'[q].at \in {"record", "grant"} => req'[q] = req[q]
  BY <1>2, <1>4, Zenon DEF Others
<1>7. ReferralInv' /\ UsesCounted' /\ GrantsInv'
  BY <1>1, <1>6, ReferralFrame, UsesFrame, GrantsFrame, Zenon DEF CreditsInv, inviteVars
<1>8. CheckoutInv'
  <2>1. req'[r].at # "credit" /\ req[r].at # "complete" /\ req'[r].session \in {Nil, req[r].session}
    BY <1>2, <1>4, Zenon
  <2>2. owed' \cup settled' \subseteq owed \cup settled \cup {req[r].session}
    BY <1>1, Zenon DEF checkoutVars
  <2> QED
    BY <1>0, <1>1, <1>4, <2>1, <2>2, CheckoutFrame, Zenon DEF checkoutVars
<1> QED
  BY <1>4, <1>5, <1>7, <1>8, PartsMakeInv, Zenon

LEMMA RegisterLookupKeeps ==
    ASSUME CreditsInv, NEW r \in Requests, RegisterLookup(r)
    PROVE  CreditsInv'
<1>0. TypeInv /\ TablesOK /\ RequestsOK /\ CheckoutInv
  BY TypeParts, Zenon DEF CreditsInv
<1>1. req[r].at = "register" /\ UNCHANGED <<checkoutVars, referralVars, inviteVars>>
  BY Zenon DEF RegisterLookup
<1>2. /\ RequestsOK' /\ Others(r) /\ req'[r].at \in {"free", "create"}
      /\ req'[r].session \in {Nil, req[r].session}
  <2>1. CASE Refused(r)
    BY <1>0, <2>1, RequestEnds, Zenon
  <2>2. CASE Step(r, "register", "create")
    <3>1. RequestsOK' /\ Others(r) /\ req'[r].at = "create" /\ req'[r].session = req[r].session
      BY <1>0, <2>2, GoesOn, Stages, ZenonT(40)
    <3> QED
      BY <3>1, Zenon
  <2> QED
    BY <2>1, <2>2, Zenon DEF RegisterLookup
<1>3. TablesOK'
  BY <1>0, <1>1, Zenon DEF TablesOK, checkoutVars, referralVars, inviteVars
<1>4. \A q \in Requests : req'[q].at \in {"record", "grant"} => req'[q] = req[q]
  BY <1>2, Zenon DEF Others
<1>5. ReferralInv' /\ UsesCounted' /\ GrantsInv'
  BY <1>1, <1>4, ReferralFrame, UsesFrame, GrantsFrame, Zenon DEF CreditsInv, inviteVars
<1>6. CheckoutInv'
  <2>1. req'[r].at # "credit" /\ req[r].at # "complete"
    BY <1>1, <1>2, Zenon
  <2>2. owed' \cup settled' \subseteq owed \cup settled \cup {req[r].session}
    BY <1>1, Zenon DEF checkoutVars
  <2> QED
    BY <1>0, <1>1, <1>2, <2>1, <2>2, CheckoutFrame, Zenon DEF checkoutVars
<1> QED
  BY <1>2, <1>3, <1>5, <1>6, PartsMakeInv, Zenon

(* The request that a referral handler is working on.                      *)
LEMMA Refers ==
    ASSUME TypeInv, NEW r \in Requests, req[r].at \in Referral
    PROVE  req[r].user \in Users /\ req[r].code \in RefCodes /\ req[r].user # Nil
BY ReqType, CreditsAssumption, Zenon DEF CarriedOK

LEMMA CreateReferrerKeeps ==
    ASSUME CreditsInv, NEW r \in Requests, CreateReferrer(r)
    PROVE  CreditsInv'
<1>0. TypeInv /\ TablesOK /\ RequestsOK /\ CheckoutInv /\ ReferralInv
  BY TypeParts, Zenon DEF CreditsInv
<1>1. req[r].at = "create" /\ Refused(r) /\ UNCHANGED <<checkoutVars, referredBy, inviteVars>>
  BY Zenon DEF CreateReferrer
<1>2. PICK a \in Users, c \in RefCodes : a = req[r].user /\ c = req[r].code
  BY <1>0, <1>1, Refers, Stages, Zenon
<1>3. \/ ownerOf' = ownerOf
      \/ ownerOf' = [ownerOf EXCEPT ![c] = a] /\ ownerOf[c] = Nil /\ ~IsReferrer(a)
  BY <1>2, Zenon DEF CreateReferrer
<1>4. RequestsOK' /\ Others(r) /\ req'[r].at = "free" /\ req'[r].session = Nil
  BY <1>0, <1>1, RequestEnds, Zenon
<1>5. TablesOK'
  <2>1. ownerOf' \in [RefCodes -> Users \cup {Nil}]
    BY <1>0, <1>3, Zenon DEF TablesOK
  <2> QED
    BY <1>0, <1>1, <2>1, Zenon DEF TablesOK, checkoutVars, inviteVars
<1>6. \A q \in Requests : req'[q].at \in {"record", "grant"} => req'[q] = req[q]
  BY <1>4, Zenon DEF Others
<1>7. UsesCounted' /\ GrantsInv'
  BY <1>1, <1>6, UsesFrame, GrantsFrame, Zenon DEF CreditsInv, inviteVars
<1>8. ReferralInv'
  <2>1. CASE ownerOf' = ownerOf
    BY <1>0, <1>1, <1>6, <2>1, ReferralFrame, Zenon DEF referralVars
  <2>2. CASE ownerOf' = [ownerOf EXCEPT ![c] = a] /\ ownerOf[c] = Nil /\ ~IsReferrer(a)
    <3>1. \A d \in RefCodes : ownerOf[d] # a
      BY <2>2, Zenon DEF IsReferrer
    <3>2. \A d \in RefCodes : ownerOf'[d] = IF d = c THEN a ELSE ownerOf[d]
      BY <1>0, <2>2, Zenon DEF TablesOK
    <3>3. \A d \in RefCodes : ownerOf[d] # Nil => ownerOf'[d] = ownerOf[d]
      BY <2>2, <3>2, Zenon
    <3>4. \A d, e \in RefCodes : ownerOf'[d] = ownerOf'[e] => d = e \/ ownerOf'[d] = Nil
      BY <1>0, <3>1, <3>2, Zenon DEF ReferralInv
    <3>5. \A b \in Users : referredBy'[b] # Nil => ownerOf'[referredBy'[b]] \notin {Nil, b}
      <4> TAKE b \in Users
      <4> HAVE referredBy'[b] # Nil
      <4>1. referredBy[b] \in RefCodes /\ ownerOf[referredBy[b]] \notin {Nil, b}
        BY <1>0, <1>1, Zenon DEF TablesOK, ReferralInv
      <4> QED
        BY <1>1, <3>3, <4>1, Zenon
    <3>6. \A q \in Requests : req'[q].at = "record" => ownerOf'[req'[q].code] \notin {Nil, req'[q].user}
      <4> TAKE q \in Requests
      <4> HAVE req'[q].at = "record"
      <4>1. req'[q] = req[q] /\ req[q].at = "record"
        BY <1>6, Zenon
      <4>2. req[q].code \in RefCodes /\ ownerOf[req[q].code] \notin {Nil, req[q].user}
        BY <1>0, <4>1, Refers, Stages, Zenon DEF ReferralInv
      <4> QED
        BY <3>3, <4>1, <4>2, Zenon
    <3> QED
      BY <3>4, <3>5, <3>6, Zenon DEF ReferralInv
  <2> QED
    BY <1>3, <2>1, <2>2, Zenon
<1>9. CheckoutInv'
  <2>1. req'[r].at # "credit" /\ req[r].at # "complete" /\ req'[r].session \in {Nil, req[r].session}
    BY <1>1, <1>4, Zenon
  <2>2. owed' \cup settled' \subseteq owed \cup settled \cup {req[r].session}
    BY <1>1, Zenon DEF checkoutVars
  <2> QED
    BY <1>0, <1>1, <1>4, <2>1, <2>2, CheckoutFrame, Zenon DEF checkoutVars
<1> QED
  BY <1>4, <1>5, <1>7, <1>8, <1>9, PartsMakeInv, Zenon

LEMMA ApplyLookupKeeps ==
    ASSUME CreditsInv, NEW r \in Requests, ApplyLookup(r)
    PROVE  CreditsInv'
<1>0. TypeInv /\ TablesOK /\ RequestsOK /\ CheckoutInv /\ ReferralInv
  BY TypeParts, Zenon DEF CreditsInv
<1>1. req[r].at = "apply" /\ UNCHANGED <<session, deposits, excused, referralVars, inviteVars>>
  BY Zenon DEF ApplyLookup
<1>2. \/ Applied(r)
      \/ /\ Step(r, "apply", "record") /\ UNCHANGED <<owed, settled>>
         /\ ownerOf[req[r].code] \notin {Nil, req[r].user}
  BY Zenon DEF ApplyLookup
<1>3. /\ RequestsOK' /\ Others(r) /\ req'[r].session \in {Nil, req[r].session}
      /\ owed' \cup settled' \subseteq owed \cup settled \cup {req[r].session}
      /\ owed' \subseteq Sessions /\ settled' \subseteq Sessions
      /\ req'[r].at \in {"free", "record"}
      /\ req'[r].at = "record" =>
            /\ req'[r].code = req[r].code /\ req'[r].user = req[r].user
            /\ ownerOf[req[r].code] \notin {Nil, req[r].user}
  <2>1. CASE Applied(r)
    BY <1>0, <2>1, AppliedEffect, Zenon
  <2>2. CASE /\ Step(r, "apply", "record") /\ UNCHANGED <<owed, settled>>
             /\ ownerOf[req[r].code] \notin {Nil, req[r].user}
    <3>1. /\ RequestsOK' /\ Others(r) /\ req'[r].at = "record" /\ req'[r].session = req[r].session
          /\ req'[r].code = req[r].code /\ req'[r].user = req[r].user
      BY <1>0, <2>2, GoesOn, Stages, ZenonT(40)
    <3> QED
      BY <1>0, <2>2, <3>1, Zenon DEF TablesOK
  <2> QED
    BY <1>2, <2>1, <2>2, Zenon
<1>4. TablesOK'
  BY <1>0, <1>1, <1>3, Zenon DEF TablesOK, referralVars, inviteVars
<1>5. \A q \in Requests : req'[q].at = "grant" => req'[q] = req[q]
  BY <1>3, Zenon DEF Others
<1>6. UsesCounted' /\ GrantsInv'
  BY <1>1, <1>5, UsesFrame, GrantsFrame, Zenon DEF CreditsInv, inviteVars
<1>7. ReferralInv'
  <2>1. ownerOf' = ownerOf /\ referredBy' = referredBy
    BY <1>1, Zenon DEF referralVars
  <2>2. \A q \in Requests : req'[q].at = "record" => ownerOf[req'[q].code] \notin {Nil, req'[q].user}
    <3> TAKE q \in Requests
    <3>1. CASE q = r
      BY <1>3, <3>1, Zenon
    <3>2. CASE q # r
      BY <1>0, <1>3, <3>2, Zenon DEF Others, ReferralInv
    <3> QED
      BY <3>1, <3>2, Zenon
  <2> QED
    BY <1>0, <2>1, <2>2, Zenon DEF ReferralInv
<1>8. CheckoutInv'
  <2>1. req'[r].at # "credit" /\ req[r].at # "complete"
    BY <1>1, <1>3, Zenon
  <2> QED
    BY <1>0, <1>1, <1>3, <2>1, CheckoutFrame, Zenon
<1> QED
  BY <1>3, <1>4, <1>6, <1>7, <1>8, PartsMakeInv, Zenon

LEMMA RecordReferralKeeps ==
    ASSUME CreditsInv, NEW r \in Requests, RecordReferral(r)
    PROVE  CreditsInv'
<1>0. TypeInv /\ TablesOK /\ RequestsOK /\ CheckoutInv /\ ReferralInv
  BY TypeParts, Zenon DEF CreditsInv
<1>1. /\ req[r].at = "record" /\ Applied(r)
      /\ UNCHANGED <<session, deposits, excused, ownerOf, inviteVars>>
  BY Zenon DEF RecordReferral
<1>2. PICK a \in Users, c \in RefCodes : a = req[r].user /\ c = req[r].code
  BY <1>0, <1>1, Refers, Stages, Zenon
<1>3. referredBy' = referredBy \/ referredBy' = [referredBy EXCEPT ![a] = c]
  BY <1>2, Zenon DEF RecordReferral
<1>4. /\ RequestsOK' /\ Others(r) /\ req'[r].at = "free" /\ req'[r].session = Nil
      /\ owed' \cup settled' \subseteq owed \cup settled \cup {req[r].session}
      /\ owed' \subseteq Sessions /\ settled' \subseteq Sessions
  BY <1>0, <1>1, AppliedEffect, Zenon
<1>5. TablesOK'
  <2>1. referredBy' \in [Users -> RefCodes \cup {Nil}]
    BY <1>0, <1>3, Zenon DEF TablesOK
  <2> QED
    BY <1>0, <1>1, <1>4, <2>1, Zenon DEF TablesOK, inviteVars
<1>6. \A q \in Requests : req'[q].at \in {"record", "grant"} => req'[q] = req[q]
  BY <1>4, Zenon DEF Others
<1>7. UsesCounted' /\ GrantsInv'
  BY <1>1, <1>6, UsesFrame, GrantsFrame, Zenon DEF CreditsInv, inviteVars
<1>8. ReferralInv'
  <2>1. ownerOf[c] \notin {Nil, a}
    BY <1>0, <1>1, <1>2, Zenon DEF ReferralInv
  <2>2. \A b \in Users : referredBy'[b] # Nil => ownerOf[referredBy'[b]] \notin {Nil, b}
    BY <1>0, <1>3, <2>1, Zenon DEF ReferralInv, TablesOK
  <2>3. \A q \in Requests : req'[q].at = "record" => ownerOf[req'[q].code] \notin {Nil, req'[q].user}
    BY <1>0, <1>6, Zenon DEF ReferralInv
  <2> QED
    BY <1>0, <1>1, <2>2, <2>3, Zenon DEF ReferralInv
<1>9. CheckoutInv'
  <2>1. req'[r].at # "credit" /\ req[r].at # "complete" /\ req'[r].session \in {Nil, req[r].session}
    BY <1>1, <1>4, Zenon
  <2> QED
    BY <1>0, <1>1, <1>4, <2>1, CheckoutFrame, Zenon
<1> QED
  BY <1>4, <1>5, <1>7, <1>8, <1>9, PartsMakeInv, Zenon

-----------------------------------------------------------------------------
(* Invites.                                                                *)

LEMMA RedeemsInvite ==
    ASSUME TypeInv, NEW r \in Requests, req[r].at \in Invite
    PROVE  req[r].user \in Users /\ req[r].code \in Invites
BY ReqType, Zenon DEF CarriedOK

LEMMA InviteCodeKeeps ==
    ASSUME CreditsInv, NEW i \in Invites, CreateInviteCode(i) \/ DeactivateInviteCode(i)
    PROVE  CreditsInv'
<1>0. TypeInv /\ TablesOK /\ RequestsOK /\ CheckoutInv /\ ReferralInv
  BY TypeParts, Zenon DEF CreditsInv
<1>1. UNCHANGED <<checkoutVars, referralVars, redeemed, inviteCredits, req>>
  BY Zenon DEF CreateInviteCode, DeactivateInviteCode
<1>2. PICK st \in {"active", "inactive"} : invite' = [invite EXCEPT ![i].state = st]
  BY Zenon DEF CreateInviteCode, DeactivateInviteCode
<1>3. PICK x : x = [invite[i] EXCEPT !.state = st]
  BY Zenon
<1>4. invite' = [invite EXCEPT ![i] = x]
  BY <1>2, <1>3, Zenon
<1>5. invite[i] \in [state : {"none", "active", "inactive"}, used : Nat]
  BY <1>0, Zenon DEF TablesOK
<1>6. x \in [state : {"none", "active", "inactive"}, used : Nat] /\ x.used = invite[i].used
  BY <1>2, <1>3, <1>5, Zenon
<1>7. invite' \in [Invites -> [state : {"none", "active", "inactive"}, used : Nat]]
  BY <1>0, <1>4, <1>6, Zenon DEF TablesOK
<1>8. TablesOK' /\ RequestsOK'
  BY <1>0, <1>1, <1>7, Zenon DEF TablesOK, RequestsOK, checkoutVars, referralVars
<1>9. \A j \in Invites : invite'[j].used = invite[j].used
  BY <1>0, <1>4, <1>6, Zenon DEF TablesOK
<1>10. UsesCounted'
  <2>1. \A j \in Invites : Redeemers(j)' = Redeemers(j)
    BY <1>1, Zenon DEF Redeemers
  <2> QED
    BY <1>9, <2>1, Zenon DEF UsesCounted, CreditsInv
<1>11. ReferralInv' /\ GrantsInv'
  BY <1>1, ReferralFrame, GrantsFrame, Zenon DEF CreditsInv
<1>12. CheckoutInv'
  <2>1. ASSUME NEW s \in Sessions PROVE PaidInv(s)'
    <3>1. Handling(s)' = Handling(s)
      BY <1>1, Zenon DEF Handling
    <3> QED
      BY <1>0, <1>1, <3>1, ZenonT(40) DEF CheckoutInv, PaidInv, checkoutVars
  <2> QED
    BY <2>1, Zenon DEF CheckoutInv
<1> QED
  BY <1>8, <1>10, <1>11, <1>12, PartsMakeInv, Zenon

LEMMA BeginRedeemKeeps ==
    ASSUME CreditsInv, NEW r \in Requests, NEW a \in Users, NEW i \in Invites,
           handleRedeemInviteCode(r, a, i)
    PROVE  CreditsInv'
<1>0. TypeInv /\ TablesOK /\ RequestsOK /\ CheckoutInv
  BY TypeParts, Zenon DEF CreditsInv
<1>1. UNCHANGED <<checkoutVars, referralVars, inviteVars>> /\ Begin(r, "redeem", a, i, Nil)
  BY Zenon DEF handleRedeemInviteCode
<1>2. /\ [at |-> "redeem", user |-> a, code |-> i, session |-> Nil] \in Record
      /\ CarriedOK([at |-> "redeem", user |-> a, code |-> i, session |-> Nil])
  BY Zenon DEF Record, CarriedOK, Checkout, Referral, Invite
<1>3. /\ RequestsOK' /\ Others(r) /\ req[r].at = "free"
      /\ req'[r].at = "redeem" /\ req'[r].session = Nil
  BY <1>0, <1>1, <1>2, BeginEffect DEF RequestsOK
<1>4. TablesOK'
  BY <1>0, <1>1, Zenon DEF TablesOK, checkoutVars, referralVars, inviteVars
<1>5. \A q \in Requests : req'[q].at \in {"record", "grant"} => req'[q] = req[q]
  BY <1>3, Zenon DEF Others
<1>6. ReferralInv' /\ UsesCounted' /\ GrantsInv'
  BY <1>1, <1>5, ReferralFrame, UsesFrame, GrantsFrame, Zenon DEF CreditsInv, inviteVars
<1>7. CheckoutInv'
  <2>1. req'[r].at # "credit" /\ req[r].at # "complete" /\ req'[r].session \in {Nil, req[r].session}
    BY <1>3, Zenon
  <2>2. owed' \cup settled' \subseteq owed \cup settled \cup {req[r].session}
    BY <1>1, Zenon DEF checkoutVars
  <2> QED
    BY <1>0, <1>1, <1>3, <2>1, <2>2, CheckoutFrame, Zenon DEF checkoutVars
<1> QED
  BY <1>3, <1>4, <1>6, <1>7, PartsMakeInv, Zenon

LEMMA CreditInviteKeeps ==
    ASSUME CreditsInv, NEW r \in Requests, CreditInvite(r)
    PROVE  CreditsInv'
<1>0. TypeInv /\ TablesOK /\ RequestsOK /\ CheckoutInv /\ GrantsInv
  BY TypeParts, Zenon DEF CreditsInv
<1>1. req[r].at = "grant" /\ Refused(r) /\ UNCHANGED <<checkoutVars, referralVars, invite, redeemed>>
  BY Zenon DEF CreditInvite
<1>2. PICK a \in Users, i \in Invites : a = req[r].user /\ i = req[r].code
  BY <1>0, <1>1, RedeemsInvite, Stages, Zenon
<1>3. RequestsOK' /\ Others(r) /\ req'[r].at = "free" /\ req'[r].session = Nil
  BY <1>0, <1>1, RequestEnds, Zenon
<1>4. \/ inviteCredits' = inviteCredits
      \/ inviteCredits' = [inviteCredits EXCEPT ![<<a, i>>] = @ + 1]
  BY <1>2, Zenon DEF CreditInvite
<1>5. TablesOK'
  <2>1. inviteCredits' \in [Users \X Invites -> Nat]
    <3>1. inviteCredits \in [Users \X Invites -> Nat] /\ <<a, i>> \in Users \X Invites
      BY <1>0, Zenon DEF TablesOK
    <3>2. inviteCredits[<<a, i>>] + 1 \in Nat
      BY <3>1
    <3>3. [inviteCredits EXCEPT ![<<a, i>>] = @ + 1] \in [Users \X Invites -> Nat]
      BY <3>1, <3>2, Zenon
    <3> QED
      BY <1>4, <3>1, <3>3, Zenon
  <2> QED
    BY <1>0, <1>1, <2>1, Zenon DEF TablesOK, checkoutVars, referralVars
<1>6. \A q \in Requests : req'[q].at \in {"record", "grant"} => q # r /\ req'[q] = req[q]
  BY <1>3, Zenon DEF Others
<1>7. ReferralInv' /\ UsesCounted'
  BY <1>1, <1>6, ReferralFrame, UsesFrame, Zenon DEF CreditsInv
<1>8. GrantsInv'
  <2>1. CASE inviteCredits' = inviteCredits
    BY <1>0, <1>1, <1>6, <2>1, GrantsFrame, Zenon
  <2>2. CASE inviteCredits' = [inviteCredits EXCEPT ![<<a, i>>] = @ + 1]
    <3>1. <<a, i>> \in redeemed /\ inviteCredits[<<a, i>>] = 0
      BY <1>0, <1>1, <1>2, Zenon DEF GrantsInv
    <3>2. \A p \in Users \X Invites : inviteCredits'[p] = IF p = <<a, i>> THEN 1 ELSE inviteCredits[p]
      BY <1>0, <2>2, <3>1 DEF TablesOK
    <3>3. \A b \in Users, j \in Invites :
            inviteCredits'[<<b, j>>] <= (IF <<b, j>> \in redeemed' THEN 1 ELSE 0)
      <4> TAKE b \in Users, j \in Invites
      <4>1. inviteCredits[<<b, j>>] <= (IF <<b, j>> \in redeemed THEN 1 ELSE 0)
        BY <1>0, Zenon DEF GrantsInv
      <4>2. inviteCredits'[<<b, j>>] = IF <<b, j>> = <<a, i>> THEN 1 ELSE inviteCredits[<<b, j>>]
        BY <3>2, Zenon
      <4> QED
        BY <1>1, <3>1, <4>1, <4>2
    <3>4. ASSUME NEW p \in Requests, req'[p].at = "grant"
          PROVE  /\ <<req'[p].user, req'[p].code>> \in redeemed'
                 /\ inviteCredits'[<<req'[p].user, req'[p].code>>] = 0
                 /\ \A q \in Requests :
                       req'[q].at = "grant" /\ req'[q].user = req'[p].user /\ req'[q].code = req'[p].code => q = p
      <4>1. p # r /\ req'[p] = req[p] /\ req[p].at = "grant"
        BY <1>6, <3>4, Zenon
      <4>2. PICK b \in Users, j \in Invites : b = req[p].user /\ j = req[p].code
        BY <1>0, <4>1, RedeemsInvite, Stages, Zenon
      <4>3. <<b, j>> # <<a, i>>
        <5>1. ~(req[p].user = req[r].user /\ req[p].code = req[r].code)
          BY <1>0, <1>1, <4>1, Zenon DEF GrantsInv
        <5> QED
          BY <1>2, <4>2, <5>1, Zenon
      <4>4. <<b, j>> \in redeemed /\ inviteCredits[<<b, j>>] = 0
        BY <1>0, <4>1, <4>2, Zenon DEF GrantsInv
      <4>5. inviteCredits'[<<b, j>>] = 0
        BY <3>2, <4>3, <4>4, Zenon
      <4>6. \A q \in Requests :
               req'[q].at = "grant" /\ req'[q].user = req'[p].user /\ req'[q].code = req'[p].code => q = p
        <5> TAKE q \in Requests
        <5> HAVE req'[q].at = "grant" /\ req'[q].user = req'[p].user /\ req'[q].code = req'[p].code
        <5>1. req'[q] = req[q] /\ req[q].at = "grant"
          BY <1>6, Zenon
        <5>2. req[q].user = req[p].user /\ req[q].code = req[p].code
          BY <4>1, <5>1, Zenon
        <5> QED
          BY <1>0, <4>1, <5>1, <5>2, Zenon DEF GrantsInv
      <4> QED
        BY <1>1, <4>1, <4>2, <4>4, <4>5, <4>6, Zenon
    <3> QED
      BY <3>3, <3>4, Zenon DEF GrantsInv
  <2> QED
    BY <1>4, <2>1, <2>2, Zenon
<1>9. CheckoutInv'
  <2>1. req'[r].at # "credit" /\ req[r].at # "complete" /\ req'[r].session \in {Nil, req[r].session}
    BY <1>1, <1>3, Zenon
  <2>2. owed' \cup settled' \subseteq owed \cup settled \cup {req[r].session}
    BY <1>1, Zenon DEF checkoutVars
  <2> QED
    BY <1>0, <1>1, <1>3, <2>1, <2>2, CheckoutFrame, Zenon DEF checkoutVars
<1> QED
  BY <1>3, <1>5, <1>7, <1>8, <1>9, PartsMakeInv, Zenon

-----------------------------------------------------------------------------

LEMMA RebootKeeps ==
    ASSUME CreditsInv, Reboot
    PROVE  CreditsInv'
<1>0. TypeInv /\ TablesOK /\ RequestsOK /\ CheckoutInv
  BY TypeParts, Zenon DEF CreditsInv
<1>1. /\ UNCHANGED <<session, owed, settled, deposits, referralVars, inviteVars>>
      /\ excused' = excused \cup {req[r].session : r \in {q \in Requests : req[q].at = "complete"}}
  BY Zenon DEF Reboot
<1>2. RequestsOK' /\ \A q \in Requests : req'[q].at = "free" /\ req'[q].session = Nil
  BY <1>0, RebootEffect, Zenon DEF RequestsOK
<1>3. excused' \subseteq Sessions
  <2>1. \A q \in Requests : req[q].at = "complete" => req[q].session \in Sessions
    BY <1>0, Carries, Stages, Zenon
  <2> QED
    BY <1>0, <1>1, <2>1 DEF TablesOK
<1>4. TablesOK'
  BY <1>0, <1>1, <1>3, Zenon DEF TablesOK, referralVars, inviteVars
<1>5. \A q \in Requests : req'[q].at \notin {"record", "grant", "credit"}
  BY <1>2, Zenon
<1>6. ReferralInv' /\ UsesCounted' /\ GrantsInv'
  BY <1>1, <1>5, ReferralFrame, UsesFrame, GrantsFrame, Zenon DEF CreditsInv, inviteVars
<1>7. ASSUME NEW s \in Sessions PROVE PaidInv(s)'
  <2>1. PaidInv(s)
    BY <1>0, Zenon DEF CheckoutInv
  <2>2. s # Nil
    BY CreditsAssumption, Zenon
  <2>3. \A q \in Requests : req'[q].session # s /\ req'[q].at # "credit"
    BY <1>2, <2>2, Zenon
  <2>4. \A q \in Requests : req[q].session = s /\ req[q].at = "complete" => s \in excused'
    BY <1>1, Zenon
  <2>5. s \in owed' \cup settled' => session[s] # "none"
    BY <1>1, <2>1, Zenon DEF PaidInv
  <2>6. session'[s] = session[s] /\ deposits'[s] = deposits[s] /\ (s \in excused => s \in excused')
    BY <1>1, Zenon
  <2> QED
    BY <2>1, <2>3, <2>4, <2>5, <2>6, SessionFrame, Zenon
<1>8. CheckoutInv'
  BY <1>7, Zenon DEF CheckoutInv
<1> QED
  BY <1>2, <1>4, <1>6, <1>8, PartsMakeInv, Zenon

LEMMA StutterKeeps == CreditsInv /\ UNCHANGED creditsVars => CreditsInv'
<1> SUFFICES ASSUME CreditsInv, UNCHANGED creditsVars PROVE CreditsInv'
  BY Zenon
<1>1. UNCHANGED <<checkoutVars, referralVars, inviteVars, req>>
  BY Zenon DEF creditsVars
<1>2. TypeInv'
  BY <1>1, Zenon DEF CreditsInv, TypeInv, CreditsTypeOK, checkoutVars, referralVars, inviteVars
<1>3. ReferralInv' /\ UsesCounted' /\ GrantsInv'
  BY <1>1, ReferralFrame, UsesFrame, GrantsFrame, Zenon DEF CreditsInv, inviteVars
<1>4. CheckoutInv'
  <2>1. ASSUME NEW s \in Sessions PROVE PaidInv(s)'
    <3>1. Handling(s)' = Handling(s)
      BY <1>1, Zenon DEF Handling
    <3> QED
      BY <1>1, <3>1 DEF CreditsInv, CheckoutInv, PaidInv, checkoutVars
  <2> QED
    BY <2>1, Zenon DEF CheckoutInv
<1> QED
  BY <1>2, <1>3, <1>4, Zenon DEF CreditsInv

(* One more redeemer of a code, and one more use.                          *)
LEMMA UseCounted ==
    ASSUME CreditsInv, NEW a \in Users, NEW i \in Invites, Redeemable(a, i),
           invite' = [invite EXCEPT ![i].used = @ + 1],
           redeemed' = redeemed \cup {<<a, i>>}
    PROVE  /\ UsesCounted'
           /\ invite' \in [Invites -> [state : {"none", "active", "inactive"}, used : Nat]]
<1>0. TablesOK /\ UsesCounted
  BY TypeParts, Zenon DEF CreditsInv
<1>1. invite[i] \in [state : {"none", "active", "inactive"}, used : Nat]
  BY <1>0, Zenon DEF TablesOK
<1>2. PICK x : x = [invite[i] EXCEPT !.used = @ + 1]
  BY Zenon
<1>3. x \in [state : {"none", "active", "inactive"}, used : Nat] /\ x.used = invite[i].used + 1
  BY <1>1, <1>2
<1>4. invite' = [invite EXCEPT ![i] = x]
  BY <1>2, Zenon
<1>5. invite'[i] = x /\ \A j \in Invites \ {i} : invite'[j] = invite[j]
  BY <1>0, <1>4, Zenon DEF TablesOK
<1>6. invite[i].used < MaxUses /\ <<a, i>> \notin redeemed
  BY Zenon DEF Redeemable
<1>7. Redeemers(i)' = Redeemers(i) \cup {a} /\ a \notin Redeemers(i)
  BY <1>6, Zenon DEF Redeemers
<1>8. \A j \in Invites \ {i} : Redeemers(j)' = Redeemers(j)
  BY Zenon DEF Redeemers
<1>9. IsFiniteSet(Redeemers(i)) /\ Cardinality(Redeemers(i)) = invite[i].used
  BY <1>0, Zenon DEF UsesCounted
<1>10. IsFiniteSet(Redeemers(i)') /\ Cardinality(Redeemers(i)') = invite[i].used + 1
  BY <1>7, <1>9, FS_AddElement, Zenon
<1>11. invite'[i].used = invite[i].used + 1 /\ invite'[i].used <= MaxUses
  BY <1>1, <1>3, <1>5, <1>6, CreditsAssumption
<1>12. \A j \in Invites : /\ IsFiniteSet(Redeemers(j)')
                         /\ Cardinality(Redeemers(j)') = invite'[j].used
                         /\ invite'[j].used <= MaxUses
  <2> TAKE j \in Invites
  <2>1. CASE j = i
    BY <1>10, <1>11, <2>1, Zenon
  <2>2. CASE j # i
    <3>1. Redeemers(j)' = Redeemers(j) /\ invite'[j] = invite[j]
      BY <1>5, <1>8, <2>2, Zenon
    <3> QED
      BY <1>0, <3>1, Zenon DEF UsesCounted
  <2> QED
    BY <2>1, <2>2, Zenon
<1>13. UsesCounted'
  BY <1>12, Zenon DEF UsesCounted
<1> QED
  BY <1>0, <1>3, <1>4, <1>13, ZenonT(40) DEF TablesOK

LEMMA RedeemKeeps ==
    ASSUME CreditsInv, NEW r \in Requests, RedeemInviteCode(r)
    PROVE  CreditsInv'
<1>0. TypeInv /\ TablesOK /\ RequestsOK /\ CheckoutInv /\ GrantsInv
  BY TypeParts, Zenon DEF CreditsInv
<1>1. req[r].at = "redeem" /\ UNCHANGED <<checkoutVars, referralVars, inviteCredits>>
  BY Zenon DEF RedeemInviteCode
<1>2. PICK a \in Users, i \in Invites : a = req[r].user /\ i = req[r].code
  BY <1>0, <1>1, RedeemsInvite, Stages, Zenon
<1>3. CASE Refused(r) /\ UNCHANGED <<invite, redeemed>>
  <2>1. RequestsOK' /\ Others(r) /\ req'[r].at = "free" /\ req'[r].session = Nil
    BY <1>0, <1>3, RequestEnds, Zenon
  <2>2. TablesOK'
    BY <1>0, <1>1, <1>3, Zenon DEF TablesOK, checkoutVars, referralVars
  <2>3. \A q \in Requests : req'[q].at \in {"record", "grant"} => req'[q] = req[q]
    BY <2>1, Zenon DEF Others
  <2>4. ReferralInv' /\ UsesCounted' /\ GrantsInv'
    BY <1>1, <1>3, <2>3, ReferralFrame, UsesFrame, GrantsFrame, Zenon DEF CreditsInv
  <2>5. req'[r].at # "credit" /\ req[r].at # "complete" /\ req'[r].session \in {Nil, req[r].session}
    BY <1>1, <2>1, Zenon
  <2>6. owed' \cup settled' \subseteq owed \cup settled \cup {req[r].session}
    BY <1>1, Zenon DEF checkoutVars
  <2>7. CheckoutInv'
    BY <1>0, <1>1, <2>1, <2>5, <2>6, CheckoutFrame, Zenon DEF checkoutVars
  <2> QED
    BY <2>1, <2>2, <2>4, <2>7, PartsMakeInv, Zenon
<1>4. CASE /\ Redeemable(a, i) /\ Step(r, "redeem", "grant")
           /\ invite' = [invite EXCEPT ![i].used = @ + 1]
           /\ redeemed' = redeemed \cup {<<a, i>>}
  <2>1. /\ RequestsOK' /\ Others(r) /\ req'[r].at = "grant" /\ req'[r].session = req[r].session
        /\ req'[r].user = req[r].user /\ req'[r].code = req[r].code
    BY <1>0, <1>4, GoesOn, Stages, ZenonT(40)
  <2>2. /\ UsesCounted'
        /\ invite' \in [Invites -> [state : {"none", "active", "inactive"}, used : Nat]]
    BY <1>4, UseCounted, Zenon
  <2>3. TablesOK'
    <3>1. redeemed' \subseteq Users \X Invites
      BY <1>0, <1>4, Zenon DEF TablesOK
    <3> QED
      BY <1>0, <1>1, <2>2, <3>1, Zenon DEF TablesOK, checkoutVars, referralVars
  <2>4. ReferralInv'
    <3>1. \A q \in Requests : req'[q].at = "record" => req'[q] = req[q]
      BY <2>1, Zenon DEF Others
    <3> QED
      BY <1>1, <3>1, ReferralFrame, Zenon DEF CreditsInv
  <2>5. GrantsInv'
    <3>1. <<a, i>> \notin redeemed
      BY <1>4, Zenon DEF Redeemable
    <3>2. inviteCredits[<<a, i>>] = 0
      <4>1. inviteCredits[<<a, i>>] \in Nat
        BY <1>0, Zenon DEF TablesOK
      <4> QED
        BY <1>0, <3>1, <4>1 DEF GrantsInv
    <3>3. \A b \in Users, j \in Invites :
            inviteCredits[<<b, j>>] <= (IF <<b, j>> \in redeemed' THEN 1 ELSE 0)
      <4> TAKE b \in Users, j \in Invites
      <4>1. inviteCredits[<<b, j>>] <= (IF <<b, j>> \in redeemed THEN 1 ELSE 0)
        BY <1>0, Zenon DEF GrantsInv
      <4>2. inviteCredits[<<b, j>>] \in Nat
        BY <1>0, Zenon DEF TablesOK
      <4> QED
        BY <1>4, <4>1, <4>2
    <3>4. ASSUME NEW p \in Requests, req'[p].at = "grant"
          PROVE  /\ <<req'[p].user, req'[p].code>> \in redeemed'
                 /\ inviteCredits[<<req'[p].user, req'[p].code>>] = 0
                 /\ \A q \in Requests :
                       req'[q].at = "grant" /\ req'[q].user = req'[p].user /\ req'[q].code = req'[p].code => q = p
      <4>1. ASSUME NEW q \in Requests, q # r, req'[q].at = "grant"
            PROVE  req'[q] = req[q] /\ req[q].at = "grant" /\ <<req[q].user, req[q].code>> \in redeemed
        BY <1>0, <2>1, <4>1, Zenon DEF Others, GrantsInv
      <4>2. CASE p = r
        <5>1. req'[p].user = a /\ req'[p].code = i
          BY <1>2, <2>1, <4>2, Zenon
        <5>2. \A q \in Requests : q # r /\ req'[q].at = "grant" => <<req'[q].user, req'[q].code>> \in redeemed
          BY <4>1, Zenon
        <5>3. \A q \in Requests :
                req'[q].at = "grant" /\ req'[q].user = a /\ req'[q].code = i => q = p
          BY <3>1, <4>2, <5>2, Zenon
        <5> QED
          BY <1>4, <3>2, <5>1, <5>3, Zenon
      <4>3. CASE p # r
        <5>1. req'[p] = req[p] /\ req[p].at = "grant" /\ <<req[p].user, req[p].code>> \in redeemed
          BY <3>4, <4>1, <4>3, Zenon
        <5>2. inviteCredits[<<req[p].user, req[p].code>>] = 0
          BY <1>0, <5>1, Zenon DEF GrantsInv
        <5>3. ASSUME NEW q \in Requests, req'[q].at = "grant", req'[q].user = req'[p].user, req'[q].code = req'[p].code
              PROVE  q = p
          <6>1. CASE q = r
            <7>1. req[p].user = a /\ req[p].code = i
              BY <1>2, <2>1, <5>1, <5>3, <6>1, Zenon
            <7> QED
              BY <3>1, <5>1, <7>1, Zenon
          <6>2. CASE q # r
            <7>1. req'[q] = req[q] /\ req[q].at = "grant"
              BY <4>1, <5>3, <6>2, Zenon
            <7> QED
              BY <1>0, <5>1, <5>3, <7>1, ZenonT(40) DEF GrantsInv
          <6> QED
            BY <6>1, <6>2, Zenon
        <5> QED
          BY <1>4, <5>1, <5>2, <5>3, Zenon
      <4> QED
        BY <4>2, <4>3, Zenon
    <3> QED
      BY <1>1, <3>3, <3>4, Zenon DEF GrantsInv
  <2>6. CheckoutInv'
    <3>1. req'[r].at # "credit" /\ req[r].at # "complete" /\ req'[r].session \in {Nil, req[r].session}
      BY <1>1, <2>1, Zenon
    <3>2. owed' \cup settled' \subseteq owed \cup settled \cup {req[r].session}
      BY <1>1, Zenon DEF checkoutVars
    <3> QED
      BY <1>0, <1>1, <2>1, <3>1, <3>2, CheckoutFrame, Zenon DEF checkoutVars
  <2> QED
    BY <2>1, <2>2, <2>3, <2>4, <2>5, <2>6, PartsMakeInv, Zenon
<1> QED
  BY <1>2, <1>3, <1>4, Zenon DEF RedeemInviteCode

LEMMA InitCreditsInv == CreditsInit \/ RegisteredInit => CreditsInv
<1> SUFFICES ASSUME NoCredits, ownerOf \in [RefCodes -> Users \cup {Nil}],
                    \A c, d \in RefCodes : ownerOf[c] = ownerOf[d] => c = d \/ ownerOf[c] = Nil
             PROVE  CreditsInv
  BY Zenon DEF CreditsInit, RegisteredInit
<1>1. req \in [Requests -> Record] /\ \A r \in Requests : req[r] = Free
  BY FreeIsRecord, Zenon DEF NoCredits
<1>2. RequestsOK /\ \A r \in Requests : req[r].at = "free" /\ req[r].session = Nil
  BY <1>1, FreeIsRecord, Zenon DEF RequestsOK
<1>3. TablesOK
  <2>1. session \in [Sessions -> {"none", "unsaved", "pending", "completed"}] /\ deposits \in [Sessions -> Nat]
    BY Zenon DEF NoCredits
  <2>2. invite \in [Invites -> [state : {"none", "active", "inactive"}, used : Nat]]
    BY Zenon DEF NoCredits
  <2>3. inviteCredits \in [Users \X Invites -> Nat] /\ referredBy \in [Users -> RefCodes \cup {Nil}]
    BY Zenon DEF NoCredits
  <2> QED
    BY <2>1, <2>2, <2>3, Zenon DEF NoCredits, TablesOK
<1>4. TypeInv
  BY <1>2, <1>3, TypeParts, Zenon
<1>5. ReferralInv
  BY <1>2, Zenon DEF NoCredits, ReferralInv
<1>6. CheckoutInv
  <2>1. ASSUME NEW s \in Sessions PROVE PaidInv(s)
    <3>1. Handling(s) = {}
      BY <1>2, CreditsAssumption, Zenon DEF Handling
    <3> QED
      BY <3>1 DEF NoCredits, PaidInv
  <2> QED
    BY <2>1, Zenon DEF CheckoutInv
<1>7. UsesCounted
  <2>1. ASSUME NEW i \in Invites PROVE Redeemers(i) = {} /\ invite[i].used = 0
    BY Zenon DEF NoCredits, Redeemers
  <2>2. 0 <= MaxUses
    BY CreditsAssumption
  <2>3. IsFiniteSet({}) /\ Cardinality({}) = 0
    BY FS_EmptySet, Zenon
  <2> QED
    BY <2>1, <2>2, <2>3, Zenon DEF UsesCounted
<1>8. GrantsInv
  BY <1>2 DEF NoCredits, GrantsInv
<1> QED
  BY <1>4, <1>5, <1>6, <1>7, <1>8, Zenon DEF CreditsInv

LEMMA NextKeepsCredits == CreditsInv /\ CreditsNext => CreditsInv'
<1> SUFFICES ASSUME CreditsInv, CreditsNext PROVE CreditsInv'
  BY Zenon
<1>1. ASSUME NEW s \in Sessions, handleStripeCreateSession(s) \/ CustomerPays(s) PROVE CreditsInv'
  BY <1>1, CreateSessionKeeps, CustomerPaysKeeps, Zenon
<1>2. ASSUME NEW r \in Requests, CheckoutStep(r) PROVE CreditsInv'
  BY <1>2, GetBillingSessionKeeps, CreditDepositKeeps, CompleteSessionKeeps, ApplyLookupKeeps,
     RecordReferralKeeps, Zenon DEF CheckoutStep
<1>3. ASSUME NEW r \in Requests, NEW s \in Sessions, DeliverEvent(r, s) PROVE CreditsInv'
  BY <1>3, DeliverKeeps, Zenon
<1>4. ASSUME NEW r \in Requests, NEW a \in Users, NEW c \in RefCodes,
             handleReferralRegister(r, a, c) \/ handleReferralApply(r, a, c)
      PROVE  CreditsInv'
  BY <1>4, BeginReferralKeeps, Zenon
<1>5. ASSUME NEW r \in Requests, RegisterLookup(r) \/ CreateReferrer(r) PROVE CreditsInv'
  BY <1>5, RegisterLookupKeeps, CreateReferrerKeeps, Zenon
<1>6. ASSUME NEW i \in Invites, CreateInviteCode(i) \/ DeactivateInviteCode(i) PROVE CreditsInv'
  BY <1>6, InviteCodeKeeps, Zenon
<1>7. ASSUME NEW r \in Requests, RedeemInviteCode(r) \/ CreditInvite(r) PROVE CreditsInv'
  BY <1>7, RedeemKeeps, CreditInviteKeeps, Zenon
<1>8. ASSUME NEW r \in Requests, NEW a \in Users, NEW i \in Invites, handleRedeemInviteCode(r, a, i)
      PROVE  CreditsInv'
  BY <1>8, BeginRedeemKeeps, Zenon
<1>9. CASE Reboot
  BY <1>9, RebootKeeps, Zenon
<1>10. CASE CheckoutNext
  <2>1. \A a \in Customers : a \in Users
    BY CreditsAssumption, Zenon
  <2> QED
    BY <1>1, <1>2, <1>3, <1>4, <1>9, <1>10, <2>1, Zenon DEF CheckoutNext
<1>11. CASE RegisterNext
  BY <1>4, <1>5, <1>9, <1>11, Zenon DEF RegisterNext
<1>12. CASE InviteNext
  BY <1>6, <1>7, <1>8, <1>9, <1>12, Zenon DEF InviteNext
<1> QED
  BY <1>10, <1>11, <1>12, Zenon DEF CreditsNext

(* What the parts of CreditedOnce ask for follows from the invariant.      *)
LEMMA InvIsCreditedOnce == CreditsInv => CreditedOnce
<1> SUFFICES ASSUME CreditsInv PROVE CreditedOnce
  BY Zenon
<1>0. TablesOK
  BY TypeParts, Zenon DEF CreditsInv
<1>1. DepositedOnce
  <2> SUFFICES ASSUME NEW s \in Sessions, deposits[s] > 1, s \notin excused PROVE FALSE
    BY Zenon DEF DepositedOnce
  <2>1. deposits[s] <= 1
    BY Zenon DEF CreditsInv, CheckoutInv, PaidInv
  <2> QED
    BY <1>0, <2>1 DEF TablesOK
<1>2. ASSUME NEW i \in Invites
      PROVE  Cardinality({a \in Users : inviteCredits[<<a, i>>] > 0}) <= MaxUses
  <2> DEFINE paid == {a \in Users : inviteCredits[<<a, i>>] > 0}
  <2>1. paid \subseteq Redeemers(i)
    <3> SUFFICES ASSUME NEW a \in Users, inviteCredits[<<a, i>>] > 0 PROVE <<a, i>> \in redeemed
      BY Zenon DEF Redeemers
    <3>1. inviteCredits[<<a, i>>] <= (IF <<a, i>> \in redeemed THEN 1 ELSE 0)
      BY Zenon DEF CreditsInv, GrantsInv
    <3>2. inviteCredits[<<a, i>>] \in Nat
      BY <1>0, Zenon DEF TablesOK
    <3> QED
      BY <3>1, <3>2
  <2>2. /\ IsFiniteSet(Redeemers(i)) /\ Cardinality(Redeemers(i)) = invite[i].used
        /\ invite[i].used <= MaxUses
    BY Zenon DEF CreditsInv, UsesCounted
  <2> HIDE DEF paid
  <2>3. IsFiniteSet(paid) /\ Cardinality(paid) <= Cardinality(Redeemers(i))
    BY <2>1, <2>2, FS_Subset, Zenon
  <2>4. Cardinality(paid) \in Nat /\ invite[i].used \in Nat
    BY <1>0, <2>3, FS_CardinalityType, Zenon DEF TablesOK
  <2>5. Cardinality(paid) <= MaxUses
    BY <2>2, <2>3, <2>4, CreditsAssumption
  <2> QED
    BY <2>5, Zenon DEF paid
<1>3. InviteWithinUses
  BY <1>2, Zenon DEF CreditsInv, GrantsInv, InviteWithinUses
<1> QED
  BY <1>1, <1>3, Zenon DEF CreditedOnce

-----------------------------------------------------------------------------

LEMMA CreditsInductive == CreditsSpec => []CreditsInv
<1>1. CreditsInit \/ RegisteredInit => CreditsInv
  BY InitCreditsInv, Zenon
<1>2. CreditsInv /\ [CreditsNext]_creditsVars => CreditsInv'
  BY NextKeepsCredits, StutterKeeps, Zenon
<1> QED
  BY <1>1, <1>2, PTL DEF CreditsSpec

(* handleStripeWebhook credits a paid checkout once, however its event is  *)
(* repeated, unless the mark it relies on could not be saved, read or set, *)
(* two deliveries overlapped, or the coordinator died in between; and      *)
(* RedeemInviteCode pays a code max_uses times at most, once an account.   *)
THEOREM CreditsGivenOnce == CreditsSpec => []CreditedOnce
BY CreditsInductive, InvIsCreditedOnce, PTL

(* CreateReferrer and RecordReferral settle a code's owner and an          *)
(* account's referrer once and for all, whatever the requests that race    *)
(* saw in the look-ups of Register and Apply; nobody refers themself.      *)
THEOREM ReferralsSettle == CreditsSpec => ReferralsAreFinal
<1> DEFINE OneCode == \A c \in RefCodes :
                         /\ ownerOf[c] # Nil => ownerOf'[c] = ownerOf[c]
                         /\ \A d \in RefCodes \ {c} : ownerOf'[c] # ownerOf'[d] \/ ownerOf'[c] = Nil
           Final == \A a \in Users :
                       referredBy'[a] # Nil =>
                          /\ ownerOf'[referredBy'[a]] # a
                          /\ referredBy[a] \in {Nil, referredBy'[a]}
<1>1. ASSUME CreditsInv, CreditsNext
      PROVE  /\ \A c \in RefCodes : ownerOf[c] # Nil => ownerOf'[c] = ownerOf[c]
             /\ \A a \in Users : referredBy[a] # Nil => referredBy'[a] = referredBy[a]
  <2>0. TypeInv /\ TablesOK
    BY <1>1, TypeParts, Zenon DEF CreditsInv
  <2>1. CASE \E r \in Requests : CreateReferrer(r)
    <3>1. PICK r \in Requests : CreateReferrer(r)
      BY <2>1, Zenon
    <3>2. req[r].code \in RefCodes /\ referredBy' = referredBy
      BY <2>0, <3>1, Refers, Stages, Zenon DEF CreateReferrer
    <3>3. ownerOf' = ownerOf \/ (ownerOf[req[r].code] = Nil /\ ownerOf' = [ownerOf EXCEPT ![req[r].code] = req[r].user])
      BY <3>1, Zenon DEF CreateReferrer
    <3> QED
      BY <2>0, <3>2, <3>3, Zenon DEF TablesOK
  <2>2. CASE \E r \in Requests : RecordReferral(r)
    <3>1. PICK r \in Requests : RecordReferral(r)
      BY <2>2, Zenon
    <3>2. req[r].user \in Users /\ ownerOf' = ownerOf
      BY <2>0, <3>1, Refers, Stages, Zenon DEF RecordReferral
    <3>3. \/ referredBy' = referredBy
          \/ referredBy[req[r].user] = Nil /\ referredBy' = [referredBy EXCEPT ![req[r].user] = req[r].code]
      BY <3>1, Zenon DEF RecordReferral
    <3> QED
      BY <2>0, <3>2, <3>3, Zenon DEF TablesOK
  <2>3. CASE UNCHANGED referralVars
    BY <2>3, Zenon DEF referralVars
  <2>4. \/ \E r \in Requests : CreateReferrer(r) \/ RecordReferral(r)
        \/ UNCHANGED referralVars
    <3>1. CASE CheckoutNext
      BY <3>1, Zenon DEF CheckoutNext, CheckoutStep, handleStripeCreateSession, CustomerPays, GetBillingSession,
         CreditDeposit, CompleteBillingSession, ApplyLookup, DeliverEvent, handleReferralApply, Reboot
    <3>2. CASE RegisterNext
      BY <3>2, Zenon DEF RegisterNext, RegisterLookup, handleReferralRegister, Reboot
    <3>3. CASE InviteNext
      BY <3>3, Zenon DEF InviteNext, CreateInviteCode, DeactivateInviteCode, RedeemInviteCode, CreditInvite,
         handleRedeemInviteCode, Reboot
    <3> QED
      BY <1>1, <3>1, <3>2, <3>3, Zenon DEF CreditsNext
  <2> QED
    BY <2>1, <2>2, <2>3, <2>4, Zenon
<1>2. ASSUME CreditsInv, CreditsInv', [CreditsNext]_creditsVars PROVE OneCode /\ Final
  <2>1. /\ \A c \in RefCodes : ownerOf[c] # Nil => ownerOf'[c] = ownerOf[c]
        /\ \A a \in Users : referredBy[a] # Nil => referredBy'[a] = referredBy[a]
    <3>1. CASE CreditsNext
      BY <1>1, <1>2, <3>1, Zenon
    <3>2. CASE UNCHANGED creditsVars
      BY <3>2, Zenon DEF creditsVars, referralVars
    <3> QED
      BY <1>2, <3>1, <3>2, Zenon
  <2>2. /\ \A c, d \in RefCodes : ownerOf'[c] = ownerOf'[d] => c = d \/ ownerOf'[c] = Nil
        /\ \A a \in Users : referredBy'[a] # Nil => ownerOf'[referredBy'[a]] \notin {Nil, a}
    BY <1>2, Zenon DEF CreditsInv, ReferralInv
  <2> QED
    BY <2>1, <2>2, Zenon
<1>3. CreditsInv /\ CreditsInv' /\ [CreditsNext]_creditsVars => [OneCode]_creditsVars /\ [Final]_creditsVars
  BY <1>2, Zenon
<1> QED
  BY <1>3, CreditsInductive, PTL DEF CreditsSpec, ReferralsAreFinal, OneCodePerAccount, ReferrerIsFinal

=============================================================================
