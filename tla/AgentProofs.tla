---------------------------- MODULE AgentProofs ----------------------------
(***************************************************************************)
(* The tracker of the requests in flight and the order of a provider's     *)
(* messages, for any number of requests, engines, tokens, connections and  *)
(* schedule windows and any capacity of the channels.  What the engines do *)
(* does not matter to either: a task says what its place lets it say,      *)
(* whatever the engine answered.                                           *)
(***************************************************************************)
EXTENDS Agent, TLAPS

Serving == {"accept", "refuse", "lookup", "isloaded", "load"}
Message == [req : Requests, kind : Kinds]
Stages == {"none", "start", "relay", "abandon", "await", "last", "single",
           "complete", "fail", "report", "gone"}

(* The client holds an event only while it delivers it, the event loop a   *)
(* request only while it serves it, and an exited process does nothing.    *)
ClientOK ==
    /\ cpc \in {"connect", "deliver", "lost", "select", "stopped"}
    /\ plan.sessions \in Nat /\ session \in 0 .. plan.sessions
    /\ cpc \in {"select", "deliver"} => session # 0
    /\ asked \in [Requests -> Nat]
    /\ \A r \in Requests : asked[r] <= session \/ asked[r] = Dropped
    /\ heard \in [Requests -> Seq(Kinds)]
    /\ cevent \in Event \cup {NoEvent}
    /\ cpc \notin {"deliver", "stopped"} => cevent = NoEvent
    /\ cpc = "deliver" => cevent \in Event

LoopOK ==
    /\ ereq \in Requests \cup {NoReq}
    /\ epc \in Serving => ereq \in Requests
    /\ epc \notin Serving \cup {"exited"} => ereq = NoReq
    /\ proc = "exited" => cpc = "stopped" /\ epc = "exited"
    /\ epc = "exited" => proc = "exited"

ChannelsOK ==
    /\ eventQ \in Seq(Event) /\ outQ \in Seq(Message) /\ doneQ \in Seq(Requests)
    /\ inflight \subseteq Requests
    /\ task \in [Requests -> Stages]

AgentTypeInv == ClientOK /\ LoopOK /\ ChannelsOK

-----------------------------------------------------------------------------
(* A request is one event, then in the event loop's hands, then one task;  *)
(* before it was asked nothing of it exists.                               *)

IsRequest(e, r) == e.type = "request" /\ e.req = r
Enqueued(r) == \E i \in 1 .. Len(eventQ) : IsRequest(eventQ[i], r)
Waiting(r) == IsRequest(cevent, r) \/ Enqueued(r)
Outgoing(r) == \E i \in 1 .. Len(outQ) : outQ[i].req = r

OneEvent(r) ==
    \A i, j \in 1 .. Len(eventQ) : IsRequest(eventQ[i], r) /\ IsRequest(eventQ[j], r) => i = j

Once(r) ==
    /\ OneEvent(r)
    /\ ~(IsRequest(cevent, r) /\ Enqueued(r))
    /\ Waiting(r) => ereq # r /\ task[r] = "none"
    /\ ereq = r => task[r] = "none"
    /\ asked[r] = 0 =>
          /\ ~Waiting(r) /\ ereq # r /\ task[r] = "none"
          /\ ~Outgoing(r) /\ heard[r] = <<>>

OnceInv == proc # "exited" => \A r \in Requests : Once(r)

(* What the tracker says of the tasks.  A cancel event is of a request the *)
(* coordinator cancelled, and a report is of a task that has ended.        *)
TrackInv ==
    /\ TrackedExactly
    /\ \A i \in 1 .. Len(doneQ) : task[doneQ[i]] = "gone"
    /\ cevent.type = "cancel" => cevent.req \in cancelled
    /\ \A i \in 1 .. Len(eventQ) : eventQ[i].type = "cancel" => eventQ[i].req \in cancelled
    /\ epc \in Serving => active
    /\ BusyIsReported

-----------------------------------------------------------------------------
(* The message of r before place k of the outbound channel: the nearest    *)
(* one ahead in the channel, or the last one the coordinator heard.        *)

LastHeard(r) == IF heard[r] = <<>> THEN "nothing" ELSE heard[r][Len(heard[r])]

Before(r, k, v) ==
    \/ \E i \in 1 .. (k - 1) :
          /\ outQ[i].req = r /\ outQ[i].kind = v
          /\ \A j \in (i + 1) .. (k - 1) : outQ[j].req # r
    \/ v = LastHeard(r) /\ \A j \in 1 .. (k - 1) : outQ[j].req # r

Follows(v, kind) ==
    \/ v = "nothing" /\ kind \in {"accepted", "error"}
    \/ v \in {"accepted", "chunk"} /\ kind \in {"chunk", "done", "error"}
    \/ v \in {"chunk", "done"} /\ kind = "complete"
    \/ v = "done" /\ kind = "error"

InOrder(r) ==
    \A k \in 1 .. Len(outQ) :
        outQ[k].req = r => \E v \in Kinds \cup {"nothing"} : Before(r, k, v) /\ Follows(v, outQ[k].kind)

Latest(r, v) == Before(r, Len(outQ) + 1, v)

(* The place a request has reached tells the last message it sent.         *)
Current(r) == cpc \in {"select", "deliver"} /\ asked[r] = session

Speech(r) ==
    /\ InOrder(r)
    /\ Waiting(r) \/ (ereq = r /\ epc = "accept") => Latest(r, "nothing")
    /\ (ereq = r /\ epc # "accept") \/ task[r] \in {"start", "await", "single"} => Latest(r, "accepted")
    /\ task[r] \in {"relay", "abandon", "last", "fail"} => Latest(r, "accepted") \/ Latest(r, "chunk")
    /\ task[r] = "complete" => Latest(r, "chunk") \/ Latest(r, "done")

SpeechInv == \A r \in Requests : Current(r) => Speech(r)

AgentInv == AgentTypeInv /\ OnceInv /\ TrackInv /\ SpeechInv

-----------------------------------------------------------------------------
(* How the channels' operations move the messages of a request.            *)

LEMMA AppendGives ==
    ASSUME NEW S, NEW s \in Seq(S), NEW e \in S, NEW t, t = Append(s, e)
    PROVE  /\ t \in Seq(S) /\ Len(t) = Len(s) + 1
           /\ \A i \in 1 .. Len(s) : t[i] = s[i]
           /\ t[Len(s) + 1] = e
OBVIOUS

LEMMA TailGives ==
    ASSUME NEW S, NEW s \in Seq(S), s # <<>>, NEW t, t = Tail(s)
    PROVE  /\ t \in Seq(S) /\ Len(t) = Len(s) - 1 /\ Len(s) \in Nat \ {0}
           /\ \A i \in 1 .. Len(t) : t[i] = s[i + 1]
           /\ Head(s) = s[1] /\ s[1] \in S
OBVIOUS

(* Nothing of r is said: the message before each place stays.              *)
LEMMA SpeechSame ==
    ASSUME NEW r \in Requests, UNCHANGED outQ, heard'[r] = heard[r]
    PROVE  /\ InOrder(r) => InOrder(r)'
           /\ \A v : Latest(r, v) => Latest(r, v)'
<1>1. ASSUME NEW k, NEW v PROVE Before(r, k, v)' <=> Before(r, k, v)
  BY Zenon DEF Before, LastHeard
<1> QED
  BY <1>1, Zenon DEF InOrder, Latest

(* A message is queued: the ones before it stay, and it is the latest of   *)
(* its request.                                                            *)
LEMMA BeforeAppend ==
    ASSUME NEW r \in Requests, NEW m \in Message, outQ \in Seq(Message),
           outQ' = Append(outQ, m), heard'[r] = heard[r]
    PROVE  /\ \A k \in 1 .. (Len(outQ) + 1) : \A v : Before(r, k, v) => Before(r, k, v)'
           /\ m.req = r => Latest(r, m.kind)'
           /\ m.req # r => \A v : Latest(r, v) => Latest(r, v)'
<1>0. /\ Len(outQ') = Len(outQ) + 1 /\ Len(outQ) \in Nat
      /\ \A i \in 1 .. Len(outQ) : outQ'[i] = outQ[i]
      /\ outQ'[Len(outQ) + 1] = m
  BY AppendGives
<1>h. LastHeard(r)' = LastHeard(r)
  BY Zenon DEF LastHeard
<1>1. ASSUME NEW k \in 1 .. (Len(outQ) + 1), NEW v, Before(r, k, v) PROVE Before(r, k, v)'
  <2>1. \A j \in 1 .. (k - 1) : j \in 1 .. Len(outQ) /\ outQ'[j] = outQ[j]
    BY <1>0
  <2>2. CASE v = LastHeard(r) /\ \A j \in 1 .. (k - 1) : outQ[j].req # r
    BY <1>h, <2>1, <2>2, Zenon DEF Before
  <2>3. CASE \E i \in 1 .. (k - 1) : /\ outQ[i].req = r /\ outQ[i].kind = v
                                     /\ \A j \in (i + 1) .. (k - 1) : outQ[j].req # r
    <3>1. PICK i \in 1 .. (k - 1) : /\ outQ[i].req = r /\ outQ[i].kind = v
                                    /\ \A j \in (i + 1) .. (k - 1) : outQ[j].req # r
      BY <2>3, Zenon
    <3>2. \A j \in (i + 1) .. (k - 1) : outQ'[j].req # r
      BY <2>1, <3>1
    <3> QED
      BY <2>1, <3>1, <3>2, Zenon DEF Before
  <2> QED
    BY <1>1, <2>2, <2>3, Zenon DEF Before
<1>2. ASSUME m.req = r PROVE Latest(r, m.kind)'
  <2>1. \A j \in (Len(outQ) + 1 + 1) .. (Len(outQ') + 1 - 1) : outQ'[j].req # r
    BY <1>0
  <2>2. Len(outQ) + 1 \in 1 .. (Len(outQ') + 1 - 1)
    BY <1>0
  <2> QED
    BY <1>0, <1>2, <2>1, <2>2 DEF Latest, Before
<1>3. ASSUME m.req # r, NEW v, Latest(r, v) PROVE Latest(r, v)'
  <2>1. CASE v = LastHeard(r) /\ \A j \in 1 .. (Len(outQ) + 1 - 1) : outQ[j].req # r
    <3>1. \A j \in 1 .. (Len(outQ') + 1 - 1) : outQ'[j].req # r
      BY <1>0, <1>3, <2>1
    <3> QED
      BY <1>h, <2>1, <3>1 DEF Latest, Before
  <2>2. CASE \E i \in 1 .. (Len(outQ) + 1 - 1) :
                /\ outQ[i].req = r /\ outQ[i].kind = v
                /\ \A j \in (i + 1) .. (Len(outQ) + 1 - 1) : outQ[j].req # r
    <3>1. PICK i \in 1 .. (Len(outQ) + 1 - 1) :
                /\ outQ[i].req = r /\ outQ[i].kind = v
                /\ \A j \in (i + 1) .. (Len(outQ) + 1 - 1) : outQ[j].req # r
      BY <2>2, Zenon
    <3>2. ASSUME NEW j \in (i + 1) .. (Len(outQ') + 1 - 1) PROVE outQ'[j].req # r
      <4>1. \/ j \in 1 .. Len(outQ) /\ j \in (i + 1) .. (Len(outQ) + 1 - 1)
            \/ j = Len(outQ) + 1
        BY <1>0, <3>1
      <4> QED
        BY <1>0, <1>3, <3>1, <4>1, Zenon
    <3>3. i \in 1 .. (Len(outQ') + 1 - 1) /\ outQ'[i] = outQ[i]
      BY <1>0
    <3> QED
      BY <3>1, <3>2, <3>3, SMTT(30) DEF Latest, Before
  <2> QED
    BY <1>3, <2>1, <2>2 DEF Latest, Before
<1> QED
  BY <1>1, <1>2, <1>3, Zenon

LEMMA SpeechOther ==
    ASSUME NEW r \in Requests, NEW q \in Requests, q # r, NEW kind \in Kinds, outQ \in Seq(Message),
           outQ' = Append(outQ, Msg(r, kind)), heard'[q] = heard[q]
    PROVE  /\ InOrder(q) => InOrder(q)'
           /\ \A v : Latest(q, v) => Latest(q, v)'
<1>1. PICK m \in Message : m = Msg(r, kind) /\ m.req = r /\ m.kind = kind
  BY DEF Message, Msg
<1>2. /\ Len(outQ') = Len(outQ) + 1 /\ Len(outQ) \in Nat
      /\ \A i \in 1 .. Len(outQ) : outQ'[i] = outQ[i]
      /\ outQ'[Len(outQ) + 1] = m
  BY <1>1, AppendGives
<1>3. /\ \A k \in 1 .. (Len(outQ) + 1) : \A v : Before(q, k, v) => Before(q, k, v)'
      /\ \A v : Latest(q, v) => Latest(q, v)'
  BY <1>1, BeforeAppend, Zenon
<1>4. ASSUME InOrder(q), NEW k \in 1 .. Len(outQ'), outQ'[k].req = q
      PROVE  \E v \in Kinds \cup {"nothing"} : Before(q, k, v)' /\ Follows(v, outQ'[k].kind)
  <2>1. k \in 1 .. Len(outQ) /\ outQ'[k] = outQ[k]
    BY <1>1, <1>2, <1>4
  <2>2. k \in 1 .. (Len(outQ) + 1)
    BY <1>2, <2>1, Zenon
  <2>3. PICK v \in Kinds \cup {"nothing"} : Before(q, k, v) /\ Follows(v, outQ[k].kind)
    BY <1>4, <2>1, Zenon DEF InOrder
  <2> QED
    BY <1>3, <2>1, <2>2, <2>3, Zenon
<1> QED
  BY <1>3, <1>4, Zenon DEF InOrder

LEMMA SpeechSay ==
    ASSUME NEW r \in Requests, NEW kind \in Kinds, NEW v \in Kinds \cup {"nothing"}, outQ \in Seq(Message),
           outQ' = Append(outQ, Msg(r, kind)), UNCHANGED heard,
           InOrder(r), Latest(r, v), Follows(v, kind)
    PROVE  InOrder(r)' /\ Latest(r, kind)'
<1>1. PICK m \in Message : m = Msg(r, kind) /\ m.req = r /\ m.kind = kind
  BY DEF Message, Msg
<1>2. /\ Len(outQ') = Len(outQ) + 1 /\ Len(outQ) \in Nat
      /\ \A i \in 1 .. Len(outQ) : outQ'[i] = outQ[i]
      /\ outQ'[Len(outQ) + 1] = m
  BY <1>1, AppendGives
<1>3. /\ \A k \in 1 .. (Len(outQ) + 1) : \A w : Before(r, k, w) => Before(r, k, w)'
      /\ Latest(r, kind)'
  BY <1>1, BeforeAppend, Zenon
<1>4. ASSUME NEW k \in 1 .. Len(outQ'), outQ'[k].req = r
      PROVE  \E w \in Kinds \cup {"nothing"} : Before(r, k, w)' /\ Follows(w, outQ'[k].kind)
  <2>0. k \in 1 .. (Len(outQ) + 1)
    BY <1>2, Zenon
  <2>1. CASE k = Len(outQ) + 1
    <3>1. Before(r, k, v)' /\ outQ'[k].kind = kind
      BY <1>1, <1>2, <1>3, <2>0, <2>1, Zenon DEF Latest
    <3> QED
      BY <3>1, Zenon
  <2>2. CASE k \in 1 .. Len(outQ)
    <3>1. outQ'[k] = outQ[k]
      BY <1>2, <2>2, Zenon
    <3>2. PICK w \in Kinds \cup {"nothing"} : Before(r, k, w) /\ Follows(w, outQ[k].kind)
      BY <1>4, <2>2, <3>1, Zenon DEF InOrder
    <3> QED
      BY <1>3, <2>0, <3>1, <3>2, Zenon
  <2> QED
    BY <1>2, <2>0, <2>1, <2>2
<1> QED
  BY <1>3, <1>4, Zenon DEF InOrder

LEMMA PlacesMoveUp ==
    ASSUME NEW k \in Nat, NEW n \in Nat, n = k + 1, NEW i \in 1 .. (n - 1), i # 1,
           NEW j \in (i - 1 + 1) .. (k - 1)
    PROVE  j \in 1 .. (k - 1) /\ j + 1 \in (i + 1) .. (n - 1)
  OBVIOUS

(* The coordinator hears the head: a place moves up by one.                *)
LEMMA SpeechHeard ==
    ASSUME NEW r \in Requests, outQ \in Seq(Message), outQ # <<>>, outQ' = Tail(outQ),
           heard[r] \in Seq(Kinds),
           heard'[r] = IF Head(outQ).req = r THEN Append(heard[r], Head(outQ).kind) ELSE heard[r]
    PROVE  /\ InOrder(r) => InOrder(r)'
           /\ \A v : Latest(r, v) => Latest(r, v)'
<1>0. /\ Len(outQ') = Len(outQ) - 1 /\ Len(outQ) \in Nat \ {0}
      /\ \A i \in 1 .. Len(outQ') : outQ'[i] = outQ[i + 1]
      /\ Head(outQ) = outQ[1] /\ outQ[1] \in Message
  BY TailGives
<1>1. LastHeard(r)' = IF outQ[1].req = r THEN outQ[1].kind ELSE LastHeard(r)
  <2>1. outQ[1].kind \in Kinds
    BY <1>0, Zenon DEF Message
  <2>2. CASE outQ[1].req = r
    <3>1. heard'[r] = Append(heard[r], outQ[1].kind)
      BY <1>0, <2>2, Zenon
    <3>2. heard'[r] # <<>> /\ heard'[r][Len(heard'[r])] = outQ[1].kind
      BY <2>1, <3>1
    <3> QED
      BY <2>2, <3>2, Zenon DEF LastHeard
  <2>3. CASE outQ[1].req # r
    BY <1>0, <2>3, Zenon DEF LastHeard
  <2> QED
    BY <2>2, <2>3, Zenon
<1>2. ASSUME NEW k \in 1 .. Len(outQ), NEW n \in Nat, n = k + 1, NEW v, Before(r, n, v) PROVE Before(r, k, v)'
  <2>0. k \in Nat
    BY <1>0
  <2>1. \A j \in 1 .. (k - 1) : outQ'[j] = outQ[j + 1] /\ j + 1 \in 2 .. k
    BY <1>0
  <2>2. CASE v = LastHeard(r) /\ \A j \in 1 .. (n - 1) : outQ[j].req # r
    <3>1. outQ[1].req # r /\ \A j \in 1 .. (k - 1) : outQ'[j].req # r
      BY <1>0, <1>2, <2>1, <2>2
    <3> QED
      BY <1>1, <2>2, <3>1, Zenon DEF Before
  <2>3. CASE \E i \in 1 .. (n - 1) : /\ outQ[i].req = r /\ outQ[i].kind = v
                                         /\ \A j \in (i + 1) .. (n - 1) : outQ[j].req # r
    <3>1. PICK i \in 1 .. (n - 1) : /\ outQ[i].req = r /\ outQ[i].kind = v
                                        /\ \A j \in (i + 1) .. (n - 1) : outQ[j].req # r
      BY <2>3, Zenon
    <3>2. CASE i = 1
      <4>1. \A j \in 1 .. (k - 1) : outQ'[j].req # r
        BY <1>2, <2>1, <3>1, <3>2
      <4> QED
        BY <1>1, <3>1, <3>2, <4>1, Zenon DEF Before
    <3>3. CASE i # 1
      <4>0. i - 1 \in 1 .. (k - 1) /\ (i - 1) + 1 = i
        BY <1>2, <3>3
      <4>1. i - 1 \in 1 .. (k - 1) /\ outQ'[i - 1] = outQ[i]
        BY <2>1, <4>0, Zenon
      <4>2. ASSUME NEW j \in (i - 1 + 1) .. (k - 1) PROVE outQ'[j].req # r
        <5>1. j \in 1 .. (k - 1) /\ j + 1 \in (i + 1) .. (n - 1)
          BY <1>2, <2>0, <3>3, PlacesMoveUp, Zenon
        <5> QED
          BY <2>1, <3>1, <5>1, Zenon
      <4> QED
        BY <3>1, <4>1, <4>2, Zenon DEF Before
    <3> QED
      BY <3>2, <3>3, Zenon
  <2> QED
    BY <1>2, <2>2, <2>3, Zenon DEF Before
<1>3. ASSUME NEW v, Latest(r, v) PROVE Latest(r, v)'
  <2>1. Len(outQ') + 1 = Len(outQ) /\ Len(outQ) \in 1 .. Len(outQ) /\ Len(outQ) + 1 \in Nat
    BY <1>0
  <2> QED
    BY <1>2, <1>3, <2>1, Zenon DEF Latest
<1>4. ASSUME InOrder(r), NEW k \in 1 .. Len(outQ'), outQ'[k].req = r
      PROVE  \E v \in Kinds \cup {"nothing"} : Before(r, k, v)' /\ Follows(v, outQ'[k].kind)
  <2>1. k + 1 \in Nat /\ k + 1 \in 1 .. Len(outQ) /\ k \in 1 .. Len(outQ) /\ outQ'[k] = outQ[k + 1]
    BY <1>0
  <2>2. PICK v \in Kinds \cup {"nothing"} : Before(r, k + 1, v) /\ Follows(v, outQ[k + 1].kind)
    BY <1>4, <2>1, Zenon DEF InOrder
  <2> QED
    BY <1>2, <2>1, <2>2, Zenon
<1> QED
  BY <1>3, <1>4, Zenon DEF InOrder

-----------------------------------------------------------------------------
(* What a step may change without disturbing the invariant.                *)

LEMMA EventForms ==
    /\ \A e \in Event : /\ e.type \in {"disconnected", "request", "cancel"}
                        /\ e.type # "disconnected" => e.req \in Requests
    /\ NoEvent.type = "none" /\ NoEvent \notin Event
    /\ \A r \in Requests : /\ [type |-> "request", req |-> r] \in Event
                           /\ [type |-> "cancel", req |-> r] \in Event
    /\ [type |-> "disconnected"] \in Event
BY Zenon DEF Event, NoEvent

LEMMA SomeRequest == NoReq \notin Requests
BY AgentAssumption, Zenon DEF NoReq

LEMMA OnceFrame ==
    ASSUME NEW r \in Requests, Once(r), UNCHANGED <<cevent, eventQ>>, asked'[r] = asked[r],
           ereq' = r => ereq = r,
           \/ task'[r] = "none"
           \/ ~Waiting(r) /\ ereq' # r /\ asked[r] # 0,
           Outgoing(r)' => Outgoing(r) \/ asked[r] # 0,
           heard'[r] # <<>> => heard[r] # <<>> \/ asked[r] # 0
    PROVE  Once(r)'
<1>1. (Waiting(r)' <=> Waiting(r)) /\ (Enqueued(r)' <=> Enqueued(r)) /\ (OneEvent(r)' <=> OneEvent(r))
  BY Zenon DEF Waiting, Enqueued, OneEvent
<1> QED
  BY <1>1, Zenon DEF Once

(* A request that has a task is nowhere else.                              *)
LEMMA OnceTask ==
    ASSUME NEW r \in Requests, Once(r), task[r] # "none"
    PROVE  ~Waiting(r) /\ ereq # r /\ asked[r] # 0
BY Zenon DEF Once

LEMMA OnceServed ==
    ASSUME NEW r \in Requests, Once(r), ereq = r
    PROVE  ~Waiting(r) /\ task[r] = "none" /\ asked[r] # 0
BY Zenon DEF Once

(* A task may go on without a word where what it said last still fits.     *)
Silently(from, to) ==
    \/ to = from
    \/ to \in {"await", "single"} /\ from \in {"start", "await"}
    \/ to \in {"relay", "abandon", "last", "fail"} /\ from \in {"start", "relay", "abandon", "await", "last", "single"}
    \/ to = "gone"

LEMMA SpeechFrame ==
    ASSUME NEW r \in Requests, Speech(r), InOrder(r) => InOrder(r)',
           \A v : Latest(r, v) => Latest(r, v)',
           Waiting(r)' => Waiting(r),
           ereq' = r => ereq = r /\ (epc' = "accept" <=> epc = "accept"),
           Silently(task[r], task'[r])
    PROVE  Speech(r)'
<1>1. InOrder(r)'
  BY Zenon DEF Speech
<1>2. Waiting(r)' \/ (ereq' = r /\ epc' = "accept") => Latest(r, "nothing")'
  BY Zenon DEF Speech
<1>3. (ereq' = r /\ epc' # "accept") \/ task'[r] \in {"start", "await", "single"} => Latest(r, "accepted")'
  BY Zenon DEF Speech, Silently
<1>4. task'[r] \in {"relay", "abandon", "last", "fail"} => Latest(r, "accepted")' \/ Latest(r, "chunk")'
  BY Zenon DEF Speech, Silently
<1>5. task'[r] = "complete" => Latest(r, "chunk")' \/ Latest(r, "done")'
  BY Zenon DEF Speech, Silently
<1> QED
  BY <1>1, <1>2, <1>3, <1>4, <1>5, Zenon DEF Speech

LEMMA TrackFrame ==
    ASSUME TrackInv, UNCHANGED <<inflight, active, cancelled, doneQ, cevent, eventQ>>,
           epc' \in Serving => epc \in Serving,
           doneQ \in Seq(Requests),
           \A r \in Requests : (Live(r)' <=> Live(r)) /\ (task[r] = "gone" => task'[r] = "gone")
    PROVE  TrackInv'
<1>1. TrackedExactly'
  <2>1. ASSUME NEW r \in Requests
        PROVE  /\ Live(r)' => r \in inflight' \cup cancelled'
               /\ r \in inflight' => Live(r)' \/ \E i \in DOMAIN doneQ' : doneQ'[i] = r
    BY Zenon DEF TrackInv, TrackedExactly
  <2> QED
    BY <2>1, Zenon DEF TrackedExactly
<1>2. \A i \in 1 .. Len(doneQ') : task'[doneQ'[i]] = "gone"
  <2> TAKE i \in 1 .. Len(doneQ')
  <2>1. doneQ'[i] = doneQ[i] /\ i \in 1 .. Len(doneQ) /\ doneQ[i] \in Requests
    OBVIOUS
  <2> QED
    BY <2>1, Zenon DEF TrackInv
<1>3. (epc' \in Serving => active') /\ BusyIsReported'
  BY Zenon DEF TrackInv, BusyIsReported
<1>4. /\ cevent'.type = "cancel" => cevent'.req \in cancelled'
      /\ \A i \in 1 .. Len(eventQ') : eventQ'[i].type = "cancel" => eventQ'[i].req \in cancelled'
  BY Zenon DEF TrackInv
<1> QED
  BY <1>1, <1>2, <1>3, <1>4, Zenon DEF TrackInv

LEMMA PartsMakeAgentInv ==
    ASSUME ClientOK', LoopOK', ChannelsOK', TrackInv',
           proc' # "exited" => \A r \in Requests : Once(r)',
           \A r \in Requests : Current(r)' => Speech(r)'
    PROVE  AgentInv'
BY Zenon DEF AgentInv, AgentTypeInv, OnceInv, SpeechInv

LEMMA AgentParts ==
    ASSUME AgentInv
    PROVE  /\ ClientOK /\ LoopOK /\ ChannelsOK /\ TrackInv
           /\ proc # "exited" => \A r \in Requests : Once(r)
           /\ \A r \in Requests : Current(r) => Speech(r)
BY Zenon DEF AgentInv, AgentTypeInv, OnceInv, SpeechInv

-----------------------------------------------------------------------------
(* Steps that only concern the engines, Ctrl-C, and the turns of the event *)
(* loop that touch no channel.                                             *)

shared == <<clientVars, eventQ, outQ, doneQ, inflight, active>>

LEMMA SharedFrame ==
    ASSUME UNCHANGED shared
    PROVE  /\ ClientOK => ClientOK'
           /\ \A r \in Requests : (Waiting(r)' <=> Waiting(r)) /\ (Outgoing(r)' <=> Outgoing(r))
           /\ \A r \in Requests : (InOrder(r) => InOrder(r)') /\ \A v : Latest(r, v) => Latest(r, v)'
           /\ \A r \in Requests : Current(r)' <=> Current(r)
<1>0. UNCHANGED <<plan, cpc, cevent, session, asked, heard, eventQ, outQ>>
  BY Zenon DEF shared, clientVars, coordVars
<1>1. ClientOK => ClientOK'
  BY <1>0, Zenon DEF ClientOK, Dropped
<1>2. \A r \in Requests : (Waiting(r)' <=> Waiting(r)) /\ (Outgoing(r)' <=> Outgoing(r))
  BY <1>0, Zenon DEF Waiting, Enqueued, Outgoing
<1>3. \A r \in Requests : (InOrder(r) => InOrder(r)') /\ \A v : Latest(r, v) => Latest(r, v)'
  BY <1>0, SpeechSame, Zenon
<1>4. \A r \in Requests : Current(r)' <=> Current(r)
  BY <1>0, Zenon DEF Current
<1> QED
  BY <1>1, <1>2, <1>3, <1>4, Zenon

(* The event loop turns, or the tasks move, without touching a channel.    *)
LEMMA TurnKeeps ==
    ASSUME AgentInv, UNCHANGED shared, LoopOK', task' \in [Requests -> Stages],
           epc' \in Serving => epc \in Serving,
           \A r \in Requests : (Live(r)' <=> Live(r)) /\ (task[r] = "gone" => task'[r] = "gone"),
           proc' # "exited" => proc # "exited",
           \A r \in Requests :
              /\ ereq' = r => ereq = r /\ (epc' = "accept" <=> epc = "accept")
              /\ Silently(task[r], task'[r]) /\ (task[r] = "none" => task'[r] = "none")
    PROVE  AgentInv'
<1>0. /\ ClientOK /\ LoopOK /\ ChannelsOK /\ TrackInv
      /\ proc # "exited" => \A r \in Requests : Once(r)
      /\ \A r \in Requests : Current(r) => Speech(r)
  BY AgentParts, Zenon
<1>1. ClientOK'
  BY <1>0, SharedFrame, Zenon
<1>2. ChannelsOK'
  BY <1>0, Zenon DEF shared, ChannelsOK
<1>3. TrackInv'
  <2>1. UNCHANGED <<inflight, active, cancelled, doneQ, cevent, eventQ>>
    BY Zenon DEF shared, clientVars, coordVars
  <2>2. doneQ \in Seq(Requests)
    BY <1>0, Zenon DEF ChannelsOK
  <2> QED
    BY <1>0, <2>1, <2>2, TrackFrame, Zenon
<1>4. ASSUME proc' # "exited", NEW r \in Requests PROVE Once(r)'
  <2>1. Once(r) /\ UNCHANGED <<cevent, eventQ>> /\ asked'[r] = asked[r] /\ heard'[r] = heard[r]
    BY <1>0, <1>4, Zenon DEF shared, clientVars, coordVars
  <2>2. Outgoing(r)' <=> Outgoing(r)
    BY SharedFrame, Zenon
  <2>3. \/ task'[r] = "none"
        \/ ~Waiting(r) /\ ereq' # r /\ asked[r] # 0
    <3>1. CASE task[r] = "none"
      BY <3>1, Zenon
    <3>2. CASE task[r] # "none"
      BY <2>1, <3>2, OnceTask, Zenon
    <3> QED
      BY <3>1, <3>2, Zenon
  <2> QED
    BY <2>1, <2>2, <2>3, OnceFrame, Zenon
<1>5. ASSUME NEW r \in Requests, Current(r)' PROVE Speech(r)'
  <2>1. Speech(r)
    BY <1>0, <1>5, SharedFrame, Zenon
  <2> QED
    BY <2>1, SharedFrame, SpeechFrame, Zenon
<1> QED
  BY <1>0, <1>1, <1>2, <1>3, <1>4, <1>5, PartsMakeAgentInv, Zenon

LEMMA QuietKeeps ==
    ASSUME AgentInv, UNCHANGED <<shared, epc, ereq, task, proc>>
    PROVE  AgentInv'
<1>0. LoopOK /\ ChannelsOK /\ cpc' = cpc
  BY AgentParts, Zenon DEF shared, clientVars
<1>1. LoopOK' /\ task' \in [Requests -> Stages]
  BY <1>0, Zenon DEF LoopOK, ChannelsOK
<1>2. \A r \in Requests : (Live(r)' <=> Live(r)) /\ Silently(task[r], task'[r])
  BY Zenon DEF Live, Silently
<1> QED
  BY <1>1, <1>2, TurnKeeps, Zenon

LEMMA CtrlCKeeps == ASSUME AgentInv, CtrlC PROVE AgentInv'
<1>0. LoopOK /\ ChannelsOK /\ proc = "up" /\ proc' = "stopping" /\ UNCHANGED <<shared, epc, ereq, task, cpc>>
  BY AgentParts, Zenon DEF CtrlC, notSchedule, shared, loopVars, callVars, flagVars, taskVars, clientVars
<1>1. LoopOK' /\ task' \in [Requests -> Stages]
  BY <1>0, Zenon DEF LoopOK, ChannelsOK
<1>2. \A r \in Requests : (Live(r)' <=> Live(r)) /\ Silently(task[r], task'[r])
  BY <1>0, Zenon DEF Live, Silently
<1>3. proc # "exited"
  BY <1>0, Zenon
<1> QED
  BY <1>0, <1>1, <1>2, <1>3, TurnKeeps, Zenon

(* A turn of the event loop: the request it holds stays the same.          *)
LEMMA LoopTurnKeeps ==
    ASSUME AgentInv, UNCHANGED <<shared, ereq, task, proc>>,
           \/ epc \in Serving \ {"accept"} /\ epc' \in Serving \ {"accept"}
           \/ {epc, epc'} \subseteq {"select", "unload"}
    PROVE  AgentInv'
<1>0. LoopOK /\ ChannelsOK /\ cpc' = cpc
  BY AgentParts, Zenon DEF shared, clientVars
<1>1. LoopOK'
  BY <1>0, Zenon DEF LoopOK, Serving
<1>2. \A r \in Requests : (Live(r)' <=> Live(r)) /\ Silently(task[r], task'[r])
  BY Zenon DEF Live, Silently
<1>3. task' \in [Requests -> Stages]
  BY <1>0, Zenon DEF ChannelsOK
<1>4. (epc' \in Serving => epc \in Serving) /\ epc # "accept" /\ epc' # "accept"
  BY Zenon DEF Serving
<1> QED
  BY <1>1, <1>2, <1>3, <1>4, TurnKeeps, Zenon

LEMMA LoopTurns ==
    ASSUME AgentInv, LookUp \/ MakeEngine \/ LoadFailed \/ IdleExpires \/ IdleDone
    PROVE  AgentInv'
<1>1. UNCHANGED <<shared, ereq, task, proc>>
  BY Zenon DEF LookUp, MakeEngine, LoadFailed, IdleExpires, IdleDone, notLoop, shared, callVars, flagVars
<1>2. \/ epc \in {"lookup", "isloaded", "load"} /\ epc' \in {"isloaded", "load", "refuse"}
      \/ epc = "select" /\ epc' = "unload"
      \/ epc = "unload" /\ epc' = "select"
  BY Zenon DEF LookUp, MakeEngine, LoadFailed, IdleExpires, IdleDone
<1>3. \/ epc \in Serving \ {"accept"} /\ epc' \in Serving \ {"accept"}
      \/ {epc, epc'} \subseteq {"select", "unload"}
  BY <1>2, Zenon DEF Serving
<1> QED
  BY <1>1, <1>3, LoopTurnKeeps, Zenon

LEMMA QuietSteps ==
    ASSUME AgentInv,
           IdleUnload \/ WindowUnload \/ WindowUnloaded \/ WindowCloses \/ WindowOpens \/ \E e \in Engines : EngineStep(e)
    PROVE  AgentInv'
<1>1. UNCHANGED <<shared, epc, ereq, task, proc>>
  BY Zenon DEF IdleUnload, WindowUnload, WindowUnloaded, WindowCloses, WindowOpens, EngineStep, notLoop, notHost, notSchedule,
     loopVars, callVars, flagVars, taskVars, shared
<1> QED
  BY <1>1, QuietKeeps, Zenon

-----------------------------------------------------------------------------
(* The tasks.                                                              *)

LEMMA TaskQuiet ==
    ASSUME AgentInv, NEW r \in Requests, NEW pc \in Stages, task' = [task EXCEPT ![r] = pc],
           UNCHANGED <<shared, epc, ereq, proc>>, Live(r), pc \notin {"none", "gone"}, Silently(task[r], pc)
    PROVE  AgentInv'
<1>0. LoopOK /\ task \in [Requests -> Stages] /\ cpc' = cpc
  BY AgentParts, Zenon DEF ChannelsOK, shared, clientVars
<1>1. LoopOK' /\ task' \in [Requests -> Stages]
  BY <1>0, Zenon DEF LoopOK
<1>2. \A q \in Requests : task'[q] = IF q = r THEN pc ELSE task[q]
  BY <1>0, Zenon
<1>3. \A q \in Requests : /\ Live(q)' <=> Live(q)
                          /\ task[q] = "gone" => task'[q] = "gone"
                          /\ task[q] = "none" => task'[q] = "none"
                          /\ Silently(task[q], task'[q])
  BY <1>2, Zenon DEF Live, Silently
<1> QED
  BY <1>1, <1>3, TurnKeeps, Zenon

LEMMA TaskSilentSteps ==
    ASSUME AgentInv, NEW r \in Requests, TaskStart(r) \/ RelayFails(r) \/ Settled(r)
    PROVE  AgentInv'
<1>1. UNCHANGED <<shared, epc, ereq, proc>>
  BY Zenon DEF TaskStart, RelayFails, Settled, notTask, loopVars, callVars, flagVars, shared
<1>2. \E pc \in {"fail", "relay", "await", "abandon", "last", "single"} :
         task' = [task EXCEPT ![r] = pc] /\ Live(r) /\ Silently(task[r], pc)
  BY Zenon DEF TaskStart, RelayFails, Settled, At, Goto, Live, Silently
<1>3. {"fail", "relay", "await", "abandon", "last", "single"} \subseteq Stages \ {"none", "gone"}
  BY Zenon DEF Stages
<1>4. PICK pc \in Stages \ {"none", "gone"} :
         task' = [task EXCEPT ![r] = pc] /\ Live(r) /\ Silently(task[r], pc)
  BY <1>2, <1>3, Zenon
<1> QED
  BY <1>1, <1>4, TaskQuiet, Zenon

(* A task says what its place lets it say and goes on.                     *)
Says(from, kind, to) ==
    \/ from = "relay" /\ kind = "chunk" /\ to = "relay"
    \/ from = "last" /\ kind = "done" /\ to = "complete"
    \/ from = "single" /\ kind = "chunk" /\ to = "complete"
    \/ from = "complete" /\ kind = "complete" /\ to = "report"
    \/ from = "fail" /\ kind = "error" /\ to = "report"

LEMMA TaskSays ==
    ASSUME AgentInv, NEW r \in Requests, NEW pc, NEW kind, Says(task[r], kind, pc),
           outQ' = Append(outQ, Msg(r, kind)), task' = [task EXCEPT ![r] = pc],
           UNCHANGED <<clientVars, eventQ, doneQ, inflight, active, epc, ereq, proc>>
    PROVE  AgentInv'
<1>0. /\ ClientOK /\ LoopOK /\ ChannelsOK /\ TrackInv
      /\ proc # "exited" => \A q \in Requests : Once(q)
      /\ \A q \in Requests : Current(q) => Speech(q)
  BY AgentParts, Zenon
<1>1. UNCHANGED <<plan, cpc, cevent, session, asked, heard, cancelled>>
  BY Zenon DEF clientVars, coordVars
<1>2. ClientOK' /\ LoopOK'
  BY <1>0, <1>1, Zenon DEF ClientOK, LoopOK, Dropped
<1>3. kind \in Kinds /\ pc \in Stages /\ pc \notin {"none", "gone"} /\ task[r] \notin {"none", "gone"}
  BY Zenon DEF Says, Kinds, Stages
<1>4. Msg(r, kind) \in Message /\ outQ \in Seq(Message) /\ outQ' \in Seq(Message)
  BY <1>0, <1>3 DEF ChannelsOK, Msg, Message
<1>5. \A q \in Requests : task'[q] = IF q = r THEN pc ELSE task[q]
  BY <1>0, Zenon DEF ChannelsOK
<1>6. ChannelsOK'
  BY <1>0, <1>3, <1>4, Zenon DEF ChannelsOK
<1>7. TrackInv'
  <2>1. \A q \in Requests : (Live(q)' <=> Live(q)) /\ (task[q] = "gone" => task'[q] = "gone")
    BY <1>3, <1>5, Zenon DEF Live
  <2>2. doneQ \in Seq(Requests) /\ (epc' \in Serving => epc \in Serving)
    BY <1>0, Zenon DEF ChannelsOK
  <2> QED
    BY <1>0, <1>1, <2>1, <2>2, TrackFrame, Zenon
<1>8. \A i \in 1 .. Len(outQ') : (i \in 1 .. Len(outQ) /\ outQ'[i] = outQ[i]) \/ outQ'[i].req = r
  <2>1. Msg(r, kind).req = r
    BY Zenon DEF Msg
  <2> QED
    BY <1>4, <2>1
<1>9. ASSUME proc' # "exited", NEW q \in Requests PROVE Once(q)'
  <2>1. Once(q) /\ Once(r)
    BY <1>0, <1>9, Zenon
  <2>2. ~Waiting(r) /\ ereq # r /\ asked[r] # 0
    BY <1>3, <2>1, OnceTask, Zenon
  <2>3. Outgoing(q)' => Outgoing(q) \/ asked[q] # 0
    BY <1>8, <2>2, Zenon DEF Outgoing
  <2>4. task'[q] = "none" \/ (~Waiting(q) /\ ereq' # q /\ asked[q] # 0)
    <3>1. CASE task[q] = "none"
      BY <1>3, <1>5, <2>2, <3>1, Zenon
    <3>2. CASE task[q] # "none"
      BY <2>1, <3>2, OnceTask, Zenon
    <3> QED
      BY <3>1, <3>2, Zenon
  <2> QED
    BY <1>1, <2>1, <2>3, <2>4, OnceFrame, Zenon
<1>10. ASSUME NEW q \in Requests, Current(q)' PROVE Speech(q)'
  <2>1. Speech(q) /\ (Waiting(q)' <=> Waiting(q))
    BY <1>0, <1>1, <1>10, Zenon DEF Current, Waiting, Enqueued
  <2>2. CASE q # r
    <3>1. (InOrder(q) => InOrder(q)') /\ \A v : Latest(q, v) => Latest(q, v)'
      BY <1>1, <1>3, <1>4, <2>2, SpeechOther, Zenon
    <3>2. Silently(task[q], task'[q])
      BY <1>5, <2>2, Zenon DEF Silently
    <3> QED
      BY <2>1, <3>1, <3>2, SpeechFrame, Zenon
  <2>3. CASE q = r
    <3>0. ~Waiting(r)' /\ ereq' # r
      <4>1. proc # "exited"
        BY <1>0, <1>1, <1>10, Zenon DEF Current, LoopOK
      <4> QED
        BY <1>0, <1>3, <2>1, <2>3, <4>1, OnceTask, Zenon
    <3>1. PICK v \in Kinds \cup {"nothing"} : Latest(r, v) /\ Follows(v, kind)
      BY <2>1, <2>3, Zenon DEF Speech, Says, Follows, Kinds
    <3>2. InOrder(r)' /\ Latest(r, kind)'
      BY <1>1, <1>3, <1>4, <2>1, <2>3, <3>1, SpeechSay, Zenon DEF Speech
    <3>3. /\ task'[r] \in {"relay", "complete", "report"}
          /\ task'[r] = "relay" => kind = "chunk"
          /\ task'[r] = "complete" => kind \in {"chunk", "done"}
      BY <1>5, Zenon DEF Says
    <3> QED
      BY <2>3, <3>0, <3>2, <3>3, Zenon DEF Speech
  <2> QED
    BY <2>2, <2>3, Zenon
<1> QED
  BY <1>2, <1>6, <1>7, <1>9, <1>10, PartsMakeAgentInv, Zenon

LEMMA TaskSpeaks ==
    ASSUME AgentInv, NEW r \in Requests, Relay(r) \/ LastChunk(r) \/ Complete(r) \/ Fail(r)
    PROVE  AgentInv'
<1>0. task \in [Requests -> Stages]
  BY AgentParts, Zenon DEF ChannelsOK
<1>1. UNCHANGED <<clientVars, eventQ, doneQ, inflight, active, epc, ereq, proc>>
  BY Zenon DEF Relay, LastChunk, Complete, Fail, notTask, loopVars, callVars, flagVars
<1>2. CASE Relay(r)
  <2>1. task[r] = "relay" /\ task' = task /\ outQ' = Append(outQ, Msg(r, "chunk"))
    BY <1>2, Zenon DEF Relay, At, Say
  <2>2. task' = [task EXCEPT ![r] = "relay"]
    BY <1>0, <2>1, Zenon
  <2>3. Says(task[r], "chunk", "relay")
    BY <2>1, Zenon DEF Says
  <2> QED
    BY <1>1, <2>1, <2>2, <2>3, TaskSays, Zenon
<1>3. CASE LastChunk(r)
  <2>1. CASE task[r] = "last" /\ Say(r, "done") /\ Goto(r, "complete")
    <3>1. Says(task[r], "done", "complete")
      BY <2>1, Zenon DEF Says
    <3> QED
      BY <1>1, <2>1, <3>1, TaskSays, Zenon DEF Say, Goto
  <2>2. CASE task[r] = "single" /\ Say(r, "chunk") /\ Goto(r, "complete")
    <3>1. Says(task[r], "chunk", "complete")
      BY <2>2, Zenon DEF Says
    <3> QED
      BY <1>1, <2>2, <3>1, TaskSays, Zenon DEF Say, Goto
  <2>3. CASE task[r] \in {"last", "single"} /\ Goto(r, "fail") /\ UNCHANGED outQ
    <3>1. Live(r) /\ "fail" \in Stages /\ Silently(task[r], "fail") /\ "fail" \notin {"none", "gone"}
      BY <2>3, Zenon DEF Live, Stages, Silently
    <3>2. UNCHANGED <<shared, epc, ereq, proc>> /\ task' = [task EXCEPT ![r] = "fail"]
      BY <1>1, <2>3, Zenon DEF shared, Goto
    <3> QED
      BY <3>1, <3>2, TaskQuiet, Zenon
  <2> QED
    BY <1>3, <2>1, <2>2, <2>3, Zenon DEF LastChunk, At
<1>4. CASE Complete(r)
  <2>1. task[r] = "complete" /\ Say(r, "complete") /\ Goto(r, "report")
    BY <1>4, Zenon DEF Complete, At
  <2>2. Says(task[r], "complete", "report")
    BY <2>1, Zenon DEF Says
  <2> QED
    BY <1>1, <2>1, <2>2, TaskSays, Zenon DEF Say, Goto
<1>5. CASE Fail(r)
  <2>1. task[r] = "fail" /\ Say(r, "error") /\ Goto(r, "report")
    BY <1>5, Zenon DEF Fail, At
  <2>2. Says(task[r], "error", "report")
    BY <2>1, Zenon DEF Says
  <2> QED
    BY <1>1, <2>1, <2>2, TaskSays, Zenon DEF Say, Goto
<1> QED
  BY <1>2, <1>3, <1>4, <1>5, Zenon

(* Steps of the tracker: tasks may end and requests leave the tracker.     *)
LEMMA TrackerKeeps ==
    ASSUME AgentInv, UNCHANGED <<clientVars, outQ, epc, ereq, proc>>, TrackInv', ChannelsOK',
           \A r \in Requests : task'[r] = task[r] \/ (task'[r] = "gone" /\ task[r] # "none"),
           \A r \in Requests : /\ Enqueued(r)' => Enqueued(r)
                               /\ OneEvent(r) => OneEvent(r)'
    PROVE  AgentInv'
<1>0. /\ ClientOK /\ LoopOK /\ ChannelsOK
      /\ proc # "exited" => \A r \in Requests : Once(r)
      /\ \A r \in Requests : Current(r) => Speech(r)
  BY AgentParts, Zenon
<1>1. UNCHANGED <<plan, cpc, cevent, session, asked, heard>>
  BY Zenon DEF clientVars, coordVars
<1>2. ClientOK' /\ LoopOK'
  BY <1>0, <1>1, Zenon DEF ClientOK, LoopOK, Dropped
<1>3. \A r \in Requests : Waiting(r)' => Waiting(r)
  BY <1>1, Zenon DEF Waiting
<1>4. \A r \in Requests : Outgoing(r)' <=> Outgoing(r)
  BY Zenon DEF Outgoing
<1>5. ASSUME proc' # "exited", NEW r \in Requests PROVE Once(r)'
  <2>1. Once(r)
    BY <1>0, <1>5, Zenon
  <2>2. task[r] # "none" => ~Waiting(r) /\ ereq # r /\ asked[r] # 0
    BY <2>1, OnceTask, Zenon
  <2> QED
    BY <1>1, <1>3, <1>4, <2>1, <2>2, Zenon DEF Once
<1>6. ASSUME NEW r \in Requests, Current(r)' PROVE Speech(r)'
  <2>1. Speech(r)
    BY <1>0, <1>1, <1>6, Zenon DEF Current
  <2>2. (InOrder(r) => InOrder(r)') /\ \A v : Latest(r, v) => Latest(r, v)'
    BY <1>1, SpeechSame, Zenon
  <2>3. Silently(task[r], task'[r])
    BY Zenon DEF Silently
  <2> QED
    BY <1>3, <2>1, <2>2, <2>3, SpeechFrame, Zenon
<1> QED
  BY <1>2, <1>5, <1>6, PartsMakeAgentInv, Zenon

LEMMA ReportKeeps == ASSUME AgentInv, NEW r \in Requests, Report(r) PROVE AgentInv'
<1>0. ChannelsOK /\ TrackInv /\ LoopOK
  BY AgentParts, Zenon
<1>1. /\ task[r] = "report" /\ doneQ' = Append(doneQ, r) /\ task' = [task EXCEPT ![r] = "gone"]
      /\ UNCHANGED <<clientVars, eventQ, outQ, epc, ereq, inflight, active, proc>>
  BY Zenon DEF Report, At, Goto, notTask, loopVars, callVars, flagVars
<1>2. \A q \in Requests : task'[q] = IF q = r THEN "gone" ELSE task[q]
  BY <1>0, <1>1, Zenon DEF ChannelsOK
<1>3. /\ doneQ' \in Seq(Requests) /\ Len(doneQ') = Len(doneQ) + 1 /\ Len(doneQ) \in Nat
      /\ \A i \in 1 .. Len(doneQ) : doneQ'[i] = doneQ[i] /\ doneQ[i] \in Requests
      /\ doneQ'[Len(doneQ) + 1] = r
  BY <1>0, <1>1 DEF ChannelsOK
<1>4. ChannelsOK'
  BY <1>0, <1>1, <1>3, Zenon DEF ChannelsOK, Stages
<1>5. TrackInv'
  <2>1. \A i \in 1 .. Len(doneQ') : task'[doneQ'[i]] = "gone"
    <3> TAKE i \in 1 .. Len(doneQ')
    <3>1. i \in 1 .. Len(doneQ) \/ i = Len(doneQ) + 1
      BY <1>3
    <3>2. task[doneQ[i]] = "gone" \/ i = Len(doneQ) + 1
      BY <1>0, <3>1, Zenon DEF TrackInv
    <3> QED
      BY <1>2, <1>3, <3>1, <3>2, Zenon
  <2>2. ASSUME NEW q \in Requests
        PROVE  /\ Live(q)' => q \in inflight' \cup cancelled'
               /\ q \in inflight' => Live(q)' \/ \E i \in DOMAIN doneQ' : doneQ'[i] = q
    <3>1. /\ Live(q) => q \in inflight \cup cancelled
          /\ q \in inflight => Live(q) \/ \E i \in DOMAIN doneQ : doneQ[i] = q
      BY <1>0, Zenon DEF TrackInv, TrackedExactly
    <3>2. Live(q)' <=> Live(q) /\ q # r
      BY <1>1, <1>2, Zenon DEF Live
    <3>3. DOMAIN doneQ = 1 .. Len(doneQ) /\ DOMAIN doneQ' = 1 .. Len(doneQ')
      BY <1>0, <1>3 DEF ChannelsOK
    <3>4. (\E i \in DOMAIN doneQ : doneQ[i] = q) \/ q = r => \E i \in DOMAIN doneQ' : doneQ'[i] = q
      BY <1>3, <3>3
    <3> QED
      BY <1>1, <3>1, <3>2, <3>4, Zenon DEF clientVars, coordVars
  <2>3. TrackedExactly'
    BY <2>2, Zenon DEF TrackedExactly
  <2> QED
    BY <1>0, <1>1, <2>1, <2>3, Zenon DEF TrackInv, BusyIsReported, clientVars, coordVars
<1>6. \A q \in Requests : task'[q] = task[q] \/ (task'[q] = "gone" /\ task[q] # "none")
  BY <1>1, <1>2, Zenon
<1>7. \A q \in Requests : (Enqueued(q)' => Enqueued(q)) /\ (OneEvent(q) => OneEvent(q)')
  BY <1>1, Zenon DEF Enqueued, OneEvent
<1> QED
  BY <1>1, <1>4, <1>5, <1>6, <1>7, TrackerKeeps, Zenon

LEMMA OnDoneKeeps == ASSUME AgentInv, OnDone PROVE AgentInv'
<1>0. ChannelsOK /\ TrackInv /\ LoopOK
  BY AgentParts, Zenon
<1>1. /\ epc = "select" /\ doneQ # <<>> /\ doneQ' = Tail(doneQ) /\ inflight' = inflight \ {Head(doneQ)}
      /\ active' = (active /\ ~(Head(doneQ) \in inflight /\ inflight' = {}))
      /\ UNCHANGED <<clientVars, eventQ, outQ, epc, ereq, task, proc>>
  BY Zenon DEF OnDone, notLoop, callVars
<1>2. /\ doneQ' \in Seq(Requests) /\ Len(doneQ') = Len(doneQ) - 1 /\ Len(doneQ) \in Nat \ {0}
      /\ \A i \in 1 .. Len(doneQ') : doneQ'[i] = doneQ[i + 1]
      /\ Head(doneQ) = doneQ[1] /\ doneQ[1] \in Requests
      /\ DOMAIN doneQ = 1 .. Len(doneQ) /\ DOMAIN doneQ' = 1 .. Len(doneQ')
  BY <1>0, <1>1 DEF ChannelsOK
<1>3. ChannelsOK'
  BY <1>0, <1>1, <1>2, Zenon DEF ChannelsOK
<1>4. TrackInv'
  <2>1. \A i \in 1 .. Len(doneQ') : task'[doneQ'[i]] = "gone"
    <3> TAKE i \in 1 .. Len(doneQ')
    <3>1. i + 1 \in 1 .. Len(doneQ) /\ doneQ'[i] = doneQ[i + 1]
      BY <1>2
    <3> QED
      BY <1>0, <1>1, <3>1, Zenon DEF TrackInv
  <2>2. ASSUME NEW q \in Requests
        PROVE  /\ Live(q)' => q \in inflight' \cup cancelled'
               /\ q \in inflight' => Live(q)' \/ \E i \in DOMAIN doneQ' : doneQ'[i] = q
    <3>1. /\ Live(q) => q \in inflight \cup cancelled
          /\ q \in inflight => Live(q) \/ \E i \in DOMAIN doneQ : doneQ[i] = q
      BY <1>0, Zenon DEF TrackInv, TrackedExactly
    <3>2. (Live(q)' <=> Live(q)) /\ (Live(q) => q # doneQ[1])
      BY <1>0, <1>1, <1>2 DEF Live, TrackInv
    <3>3. ASSUME q # doneQ[1], NEW i \in DOMAIN doneQ, doneQ[i] = q
          PROVE  \E j \in DOMAIN doneQ' : doneQ'[j] = q
      <4>1. i - 1 \in DOMAIN doneQ' /\ doneQ'[i - 1] = doneQ[i]
        BY <1>2, <3>3
      <4> QED
        BY <3>3, <4>1, Zenon
    <3> QED
      BY <1>1, <1>2, <3>1, <3>2, <3>3, Zenon DEF clientVars, coordVars
  <2>3. TrackedExactly'
    BY <2>2, Zenon DEF TrackedExactly
  <2>4. BusyIsReported' /\ epc' \notin Serving
    BY <1>0, <1>1, Zenon DEF TrackInv, BusyIsReported, Serving
  <2> QED
    BY <1>0, <1>1, <2>1, <2>3, <2>4, Zenon DEF TrackInv, clientVars, coordVars
<1>5. \A q \in Requests : (Enqueued(q)' => Enqueued(q)) /\ (OneEvent(q) => OneEvent(q)')
  BY <1>1, Zenon DEF Enqueued, OneEvent
<1> QED
  BY <1>1, <1>3, <1>4, <1>5, TrackerKeeps, Zenon

-----------------------------------------------------------------------------
(* The event loop.                                                         *)

LEMMA TakeEvent ==
    ASSUME eventQ \in Seq(Event), eventQ # <<>>, eventQ' = Tail(eventQ)
    PROVE  /\ eventQ' \in Seq(Event) /\ Head(eventQ) \in Event /\ 1 \in 1 .. Len(eventQ) /\ Head(eventQ) = eventQ[1]
           /\ \A i \in 1 .. Len(eventQ') : i + 1 \in 1 .. Len(eventQ) /\ eventQ'[i] = eventQ[i + 1]
           /\ \A r \in Requests :
                 /\ Enqueued(r)' => Enqueued(r)
                 /\ IsRequest(Head(eventQ), r) => Enqueued(r)
                 /\ OneEvent(r) => OneEvent(r)'
                 /\ OneEvent(r) /\ IsRequest(Head(eventQ), r) => ~Enqueued(r)'
<1>0. /\ eventQ' \in Seq(Event) /\ Len(eventQ') = Len(eventQ) - 1 /\ Len(eventQ) \in Nat \ {0}
      /\ \A i \in 1 .. Len(eventQ') : eventQ'[i] = eventQ[i + 1]
      /\ Head(eventQ) = eventQ[1] /\ eventQ[1] \in Event
  BY TailGives
<1>1. /\ 1 \in 1 .. Len(eventQ)
      /\ \A i \in 1 .. Len(eventQ') : i \in Nat /\ i + 1 # 1 /\ i + 1 \in 1 .. Len(eventQ) /\ eventQ'[i] = eventQ[i + 1]
      /\ \A i, j \in 1 .. Len(eventQ') : i + 1 = j + 1 => i = j
  BY <1>0
<1>2. ASSUME NEW r \in Requests
      PROVE  /\ Enqueued(r)' => Enqueued(r)
             /\ IsRequest(Head(eventQ), r) => Enqueued(r)
             /\ OneEvent(r) => OneEvent(r)'
             /\ OneEvent(r) /\ IsRequest(Head(eventQ), r) => ~Enqueued(r)'
  <2>1. (Enqueued(r)' => Enqueued(r)) /\ (IsRequest(Head(eventQ), r) => Enqueued(r))
    BY <1>0, <1>1, Zenon DEF Enqueued
  <2>2. ASSUME OneEvent(r) PROVE OneEvent(r)'
    <3>1. ASSUME NEW i \in 1 .. Len(eventQ'), NEW j \in 1 .. Len(eventQ'),
                 IsRequest(eventQ'[i], r), IsRequest(eventQ'[j], r)
          PROVE  i = j
      <4>1. i + 1 = j + 1
        BY <1>1, <2>2, <3>1, Zenon DEF OneEvent
      <4> QED
        BY <1>1, <4>1, Zenon
    <3> QED
      BY <3>1, Zenon DEF OneEvent
  <2>3. OneEvent(r) /\ IsRequest(Head(eventQ), r) => ~Enqueued(r)'
    BY <1>0, <1>1, Zenon DEF OneEvent, Enqueued
  <2> QED
    BY <2>1, <2>2, <2>3, Zenon
<1> QED
  BY <1>0, <1>1, <1>2, Zenon

(* Events taken are no longer there to disagree with what was cancelled.   *)
LEMMA CancelsTaken ==
    ASSUME TrackInv, UNCHANGED <<cevent, cancelled>>,
           eventQ \in Seq(Event), eventQ # <<>>, eventQ' = Tail(eventQ)
    PROVE  /\ cevent'.type = "cancel" => cevent'.req \in cancelled'
           /\ \A i \in 1 .. Len(eventQ') : eventQ'[i].type = "cancel" => eventQ'[i].req \in cancelled'
BY TakeEvent DEF TrackInv

LEMMA OnDisconnectedKeeps == ASSUME AgentInv, OnDisconnected PROVE AgentInv'
<1>0. ChannelsOK /\ TrackInv /\ LoopOK
  BY AgentParts, Zenon
<1>1. /\ epc = "select" /\ eventQ # <<>> /\ eventQ' = Tail(eventQ)
      /\ task' = [r \in Requests |-> IF r \in inflight THEN "gone" ELSE task[r]]
      /\ inflight' = {} /\ UNCHANGED <<clientVars, cevent, cancelled, outQ, doneQ, epc, ereq, proc>>
  BY Zenon DEF OnDisconnected, NextEvent, notLoop, callVars, clientVars, coordVars
<1>2. eventQ \in Seq(Event) /\ eventQ' \in Seq(Event)
  BY <1>0, <1>1, TakeEvent, Zenon DEF ChannelsOK
<1>3. \A r \in Requests : task'[r] = IF r \in inflight THEN "gone" ELSE task[r]
  BY <1>1, Zenon
<1>4. ChannelsOK'
  BY <1>0, <1>1, <1>2, Zenon DEF ChannelsOK, Stages
<1>5. \A r \in inflight : task[r] # "none"
  <2> TAKE r \in inflight
  <2>1. r \in Requests /\ (Live(r) \/ \E i \in DOMAIN doneQ : doneQ[i] = r)
    BY <1>0, Zenon DEF ChannelsOK, TrackInv, TrackedExactly
  <2>2. DOMAIN doneQ = 1 .. Len(doneQ)
    BY <1>0 DEF ChannelsOK
  <2> QED
    BY <1>0, <2>1, <2>2, Zenon DEF Live, TrackInv
<1>6. TrackInv'
  <2>1. \A i \in 1 .. Len(doneQ') : task'[doneQ'[i]] = "gone"
    BY <1>0, <1>1, <1>3 DEF ChannelsOK, TrackInv
  <2>2. TrackedExactly'
    BY <1>0, <1>1, <1>3, Zenon DEF TrackInv, TrackedExactly, Live
  <2>3. BusyIsReported' /\ epc' \notin Serving
    BY <1>1, Zenon DEF BusyIsReported, Serving
  <2> QED
    BY <1>0, <1>1, <1>2, <2>1, <2>2, <2>3, CancelsTaken, Zenon DEF TrackInv
<1>7. \A r \in Requests : task'[r] = task[r] \/ (task'[r] = "gone" /\ task[r] # "none")
  BY <1>3, <1>5, Zenon
<1>8. \A r \in Requests : (Enqueued(r)' => Enqueued(r)) /\ (OneEvent(r) => OneEvent(r)')
  BY <1>1, <1>2, TakeEvent, Zenon
<1> QED
  BY <1>1, <1>4, <1>6, <1>7, <1>8, TrackerKeeps, Zenon

LEMMA OnCancelKeeps == ASSUME AgentInv, OnCancel PROVE AgentInv'
<1>0. ChannelsOK /\ TrackInv /\ LoopOK
  BY AgentParts, Zenon
<1>1. /\ epc = "select" /\ eventQ # <<>> /\ eventQ' = Tail(eventQ) /\ Head(eventQ).type = "cancel"
      /\ inflight' = inflight \ {Head(eventQ).req}
      /\ active' = (active /\ ~(Head(eventQ).req \in inflight /\ inflight' = {}))
      /\ UNCHANGED <<clientVars, cevent, cancelled, outQ, doneQ, epc, ereq, task, proc>>
  BY Zenon DEF OnCancel, NextEvent, notLoop, callVars, clientVars, coordVars
<1>2. eventQ \in Seq(Event) /\ eventQ' \in Seq(Event) /\ Head(eventQ) = eventQ[1] /\ 1 \in 1 .. Len(eventQ)
  BY <1>0, <1>1, TakeEvent, Zenon DEF ChannelsOK
<1>3. Head(eventQ).req \in cancelled
  BY <1>0, <1>1, <1>2, Zenon DEF TrackInv
<1>4. ChannelsOK'
  BY <1>0, <1>1, <1>2, Zenon DEF ChannelsOK
<1>5. TrackInv'
  <2>1. \A i \in 1 .. Len(doneQ') : task'[doneQ'[i]] = "gone"
    BY <1>0, <1>1, Zenon DEF TrackInv
  <2>2. TrackedExactly'
    BY <1>0, <1>1, <1>3, Zenon DEF TrackInv, TrackedExactly, Live
  <2>3. BusyIsReported' /\ epc' \notin Serving
    BY <1>0, <1>1, Zenon DEF TrackInv, BusyIsReported, Serving
  <2> QED
    BY <1>0, <1>1, <1>2, <2>1, <2>2, <2>3, CancelsTaken, Zenon DEF TrackInv
<1>6. \A r \in Requests : (Enqueued(r)' => Enqueued(r)) /\ (OneEvent(r) => OneEvent(r)')
  BY <1>1, <1>2, TakeEvent, Zenon
<1> QED
  BY <1>1, <1>4, <1>5, <1>6, TrackerKeeps, Zenon

LEMMA OnRequestKeeps == ASSUME AgentInv, OnRequest PROVE AgentInv'
<1>0. /\ ClientOK /\ LoopOK /\ ChannelsOK /\ TrackInv
      /\ proc # "exited" => \A r \in Requests : Once(r)
      /\ \A r \in Requests : Current(r) => Speech(r)
  BY AgentParts, Zenon
<1>1. /\ epc = "select" /\ eventQ # <<>> /\ eventQ' = Tail(eventQ) /\ Head(eventQ).type = "request"
      /\ ereq' = Head(eventQ).req /\ epc' = "accept" /\ active' = TRUE
      /\ UNCHANGED <<clientVars, cevent, cancelled, outQ, doneQ, inflight, task, proc>>
  BY Zenon DEF OnRequest, NextEvent, notLoop, clientVars, coordVars
<1>2. UNCHANGED <<plan, cpc, session, asked, heard>>
  BY <1>1, Zenon DEF clientVars, coordVars
<1>3. /\ eventQ \in Seq(Event) /\ eventQ' \in Seq(Event) /\ Head(eventQ) \in Event
      /\ \A r \in Requests :
                 /\ Enqueued(r)' => Enqueued(r)
                 /\ IsRequest(Head(eventQ), r) => Enqueued(r)
                 /\ OneEvent(r) => OneEvent(r)'
                 /\ OneEvent(r) /\ IsRequest(Head(eventQ), r) => ~Enqueued(r)'
  BY <1>0, <1>1, TakeEvent, Zenon DEF ChannelsOK
<1>4. Head(eventQ).req \in Requests
  BY <1>1, <1>3, EventForms, Zenon
<1>5. ereq = NoReq /\ proc # "exited" /\ ereq' \in Requests
  BY <1>0, <1>1, <1>4, Zenon DEF LoopOK, Serving
<1>6. ClientOK' /\ LoopOK' /\ ChannelsOK'
  <2>1. ClientOK'
    BY <1>0, <1>1, <1>2, Zenon DEF ClientOK, Dropped
  <2>2. LoopOK'
    BY <1>0, <1>1, <1>5, Zenon DEF LoopOK, Serving
  <2>3. ChannelsOK'
    BY <1>0, <1>1, <1>3, Zenon DEF ChannelsOK
  <2> QED
    BY <2>1, <2>2, <2>3, Zenon
<1>7. TrackInv'
  <2>1. TrackedExactly' /\ BusyIsReported'
    BY <1>0, <1>1, Zenon DEF TrackInv, TrackedExactly, Live, BusyIsReported
  <2>2. \A i \in 1 .. Len(doneQ') : task'[doneQ'[i]] = "gone"
    BY <1>0, <1>1, Zenon DEF TrackInv
  <2> QED
    BY <1>0, <1>1, <1>3, <2>1, <2>2, CancelsTaken, Zenon DEF TrackInv
<1>8. \A r \in Requests : ereq' = r <=> IsRequest(Head(eventQ), r)
  BY <1>1, Zenon DEF IsRequest
<1>9. \A r \in Requests : Waiting(r)' => Waiting(r)
  BY <1>1, <1>3, Zenon DEF Waiting
<1>10. ASSUME NEW r \in Requests PROVE Once(r)'
  <2>1. Once(r)
    BY <1>0, <1>5, Zenon
  <2>2. ereq' = r => Enqueued(r) /\ ~Enqueued(r)' /\ ~Waiting(r)' /\ Waiting(r)
    BY <1>1, <1>3, <1>8, <2>1, Zenon DEF Once, Waiting
  <2>3. Outgoing(r)' <=> Outgoing(r)
    BY <1>1, Zenon DEF Outgoing
  <2> QED
    BY <1>1, <1>2, <1>3, <1>9, <2>1, <2>2, <2>3, Zenon DEF Once
<1>11. ASSUME NEW r \in Requests, Current(r)' PROVE Speech(r)'
  <2>1. Speech(r) /\ Once(r)
    BY <1>0, <1>2, <1>5, <1>11, Zenon DEF Current
  <2>2. (InOrder(r) => InOrder(r)') /\ \A v : Latest(r, v) => Latest(r, v)'
    BY <1>1, <1>2, SpeechSame, Zenon
  <2>3. CASE ereq' = r
    <3>1. Waiting(r) /\ ~Waiting(r)' /\ task[r] = "none" /\ task'[r] = "none"
      BY <1>1, <1>3, <1>8, <2>1, <2>3, Zenon DEF Once, Waiting
    <3> QED
      BY <1>1, <2>1, <2>2, <2>3, <3>1, Zenon DEF Speech
  <2>4. CASE ereq' # r
    <3>1. Silently(task[r], task'[r])
      BY <1>1, Zenon DEF Silently
    <3> QED
      BY <1>9, <2>1, <2>2, <2>4, <3>1, SpeechFrame, Zenon
  <2> QED
    BY <2>3, <2>4, Zenon
<1> QED
  BY <1>6, <1>7, <1>10, <1>11, PartsMakeAgentInv, Zenon

(* The event loop says something about the request it holds.               *)
LEMMA LoopSays ==
    ASSUME AgentInv, epc \in Serving, NEW kind \in {"accepted", "error"},
           outQ' = Append(outQ, Msg(ereq, kind)),
           UNCHANGED <<clientVars, cevent, cancelled, eventQ, doneQ, inflight, active, task, proc>>,
           \/ epc = "accept" /\ kind = "accepted" /\ epc' \in {"lookup", "refuse"} /\ ereq' = ereq
           \/ epc = "refuse" /\ kind = "error" /\ epc' = "select" /\ ereq' = NoReq
    PROVE  AgentInv'
<1>0. /\ ClientOK /\ LoopOK /\ ChannelsOK /\ TrackInv
      /\ proc # "exited" => \A q \in Requests : Once(q)
      /\ \A q \in Requests : Current(q) => Speech(q)
  BY AgentParts, Zenon
<1>1. UNCHANGED <<plan, cpc, session, asked, heard>>
  BY Zenon DEF clientVars, coordVars
<1>2. ereq \in Requests /\ proc # "exited" /\ NoReq \notin Requests
  BY <1>0, SomeRequest, Zenon DEF LoopOK, Serving
<1>3. PICK r \in Requests : r = ereq
  BY <1>2, Zenon
<1>4. ClientOK' /\ LoopOK'
  BY <1>0, <1>1, <1>2, Zenon DEF ClientOK, LoopOK, Dropped, Serving
<1>5. /\ kind \in Kinds /\ Msg(r, kind) \in Message /\ Msg(r, kind).req = r
      /\ outQ \in Seq(Message) /\ outQ' \in Seq(Message) /\ outQ' = Append(outQ, Msg(r, kind))
  BY <1>0, <1>3 DEF ChannelsOK, Msg, Message, Kinds
<1>6. ChannelsOK'
  BY <1>0, <1>5, Zenon DEF ChannelsOK
<1>7. TrackInv'
  <2>1. \A q \in Requests : (Live(q)' <=> Live(q)) /\ (task[q] = "gone" => task'[q] = "gone")
    BY Zenon DEF Live
  <2>2. doneQ \in Seq(Requests)
    BY <1>0, Zenon DEF ChannelsOK
  <2> QED
    BY <1>0, <2>1, <2>2, TrackFrame, Zenon
<1>8. \A i \in 1 .. Len(outQ') : (i \in 1 .. Len(outQ) /\ outQ'[i] = outQ[i]) \/ outQ'[i].req = r
  BY <1>5
<1>9. Once(r) /\ ~Waiting(r) /\ task[r] = "none" /\ asked[r] # 0
  BY <1>0, <1>2, <1>3, OnceServed, Zenon
<1>10. ASSUME NEW q \in Requests PROVE Once(q)'
  <2>1. Once(q)
    BY <1>0, <1>2, Zenon
  <2>2. Outgoing(q)' => Outgoing(q) \/ asked[q] # 0
    BY <1>8, <1>9, Zenon DEF Outgoing
  <2>3. task'[q] = "none" \/ (~Waiting(q) /\ ereq' # q /\ asked[q] # 0)
    BY <1>2, <2>1, OnceTask, Zenon
  <2>4. ereq' = q => ereq = q
    BY <1>2, Zenon
  <2> QED
    BY <1>1, <2>1, <2>2, <2>3, <2>4, OnceFrame, Zenon
<1>11. ASSUME NEW q \in Requests, Current(q)' PROVE Speech(q)'
  <2>1. Speech(q) /\ (Waiting(q)' <=> Waiting(q))
    BY <1>0, <1>1, <1>11, Zenon DEF Current, Waiting, Enqueued
  <2>2. CASE q # r
    <3>1. (InOrder(q) => InOrder(q)') /\ \A v : Latest(q, v) => Latest(q, v)'
      BY <1>1, <1>5, <2>2, SpeechOther, Zenon
    <3>2. Silently(task[q], task'[q]) /\ ereq' # q
      BY <1>2, <1>3, <2>2, Zenon DEF Silently
    <3> QED
      BY <2>1, <3>1, <3>2, SpeechFrame, Zenon
  <2>3. CASE q = r
    <3>1. PICK v \in Kinds \cup {"nothing"} : Latest(r, v) /\ Follows(v, kind)
      BY <1>3, <2>1, <2>3, Zenon DEF Speech, Follows, Kinds
    <3>2. InOrder(r)' /\ Latest(r, kind)'
      BY <1>1, <1>5, <2>1, <2>3, <3>1, SpeechSay, Zenon DEF Speech
    <3>3. ~Waiting(q)' /\ task'[q] = "none" /\ epc' # "accept" /\ (ereq' = q => kind = "accepted")
      BY <1>2, <1>9, <2>1, <2>3, Zenon
    <3> QED
      BY <2>3, <3>2, <3>3, Zenon DEF Speech
  <2> QED
    BY <2>2, <2>3, Zenon
<1> QED
  BY <1>4, <1>6, <1>7, <1>10, <1>11, PartsMakeAgentInv, Zenon

LEMMA LoopSpeaks == ASSUME AgentInv, Accept \/ Refuse PROVE AgentInv'
<1>1. UNCHANGED <<clientVars, cevent, cancelled, eventQ, doneQ, inflight, active, task, proc>>
  BY Zenon DEF Accept, Refuse, notLoop, flagVars, clientVars, coordVars
<1>2. CASE Accept
  <2>1. /\ epc = "accept" /\ epc \in Serving /\ outQ' = Append(outQ, Msg(ereq, "accepted"))
        /\ epc' \in {"lookup", "refuse"} /\ ereq' = ereq
    BY <1>2, Zenon DEF Accept, Say, Serving
  <2> QED
    BY <1>1, <2>1, LoopSays, Zenon
<1>3. CASE Refuse
  <2>1. /\ epc = "refuse" /\ epc \in Serving /\ outQ' = Append(outQ, Msg(ereq, "error"))
        /\ epc' = "select" /\ ereq' = NoReq
    BY <1>3, Zenon DEF Refuse, Say, Serving, Forget
  <2> QED
    BY <1>1, <2>1, LoopSays, Zenon
<1> QED
  BY <1>2, <1>3, Zenon

LEMMA SpawnKeeps == ASSUME AgentInv, Spawn PROVE AgentInv'
<1>0. /\ ClientOK /\ LoopOK /\ ChannelsOK /\ TrackInv
      /\ proc # "exited" => \A q \in Requests : Once(q)
      /\ \A q \in Requests : Current(q) => Speech(q)
  BY AgentParts, Zenon
<1>1. /\ epc \in {"isloaded", "load"} /\ task' = [task EXCEPT ![ereq] = "start"] /\ inflight' = inflight \cup {ereq}
      /\ epc' = "select" /\ ereq' = NoReq
      /\ UNCHANGED <<clientVars, cevent, cancelled, eventQ, outQ, doneQ, active, proc>>
  BY Zenon DEF Spawn, Loaded, Forget, notLoop, clientVars, coordVars
<1>2. UNCHANGED <<plan, cpc, session, asked, heard>>
  BY <1>1, Zenon DEF clientVars, coordVars
<1>3. ereq \in Requests /\ proc # "exited" /\ NoReq \notin Requests /\ epc \in Serving /\ epc # "accept"
  BY <1>0, <1>1, SomeRequest, Zenon DEF LoopOK, Serving
<1>4. PICK r \in Requests : r = ereq
  BY <1>3, Zenon
<1>5. \A q \in Requests : task'[q] = IF q = r THEN "start" ELSE task[q]
  BY <1>0, <1>1, <1>4, Zenon DEF ChannelsOK
<1>6. Once(r) /\ ~Waiting(r) /\ task[r] = "none" /\ asked[r] # 0
  BY <1>0, <1>3, <1>4, OnceServed, Zenon
<1>7. ClientOK' /\ LoopOK' /\ ChannelsOK'
  <2>1. ClientOK'
    BY <1>0, <1>1, <1>2, Zenon DEF ClientOK, Dropped
  <2>2. LoopOK'
    BY <1>0, <1>1, <1>2, <1>3, Zenon DEF LoopOK, Serving
  <2>3. ChannelsOK'
    BY <1>0, <1>1, <1>3, Zenon DEF ChannelsOK, Stages
  <2> QED
    BY <2>1, <2>2, <2>3, Zenon
<1>8. TrackInv'
  <2>1. TrackedExactly'
    <3> SUFFICES ASSUME NEW q \in Requests
                 PROVE  /\ Live(q)' => q \in inflight' \cup cancelled'
                        /\ q \in inflight' => Live(q)' \/ \E i \in DOMAIN doneQ' : doneQ'[i] = q
      BY Zenon DEF TrackedExactly
    <3>1. /\ Live(q) => q \in inflight \cup cancelled
          /\ q \in inflight => Live(q) \/ \E i \in DOMAIN doneQ : doneQ[i] = q
      BY <1>0, Zenon DEF TrackInv, TrackedExactly
    <3>2. CASE q = r
      <4>1. q \in inflight' /\ Live(q)'
        BY <1>1, <1>4, <1>5, <3>2 DEF Live
      <4> QED
        BY <4>1, Zenon
    <3>3. CASE q # r
      <4>1. /\ Live(q)' <=> Live(q)
            /\ q \in inflight' <=> q \in inflight
            /\ cancelled' = cancelled /\ doneQ' = doneQ
        BY <1>1, <1>4, <1>5, <3>3, Zenon DEF Live
      <4> QED
        BY <3>1, <4>1, Zenon
    <3> QED
      BY <3>2, <3>3, Zenon
  <2>2. \A i \in 1 .. Len(doneQ') : task'[doneQ'[i]] = "gone"
    BY <1>0, <1>1, <1>5, <1>6 DEF TrackInv, ChannelsOK
  <2>3. BusyIsReported' /\ epc' \notin Serving
    BY <1>0, <1>1, <1>3, Zenon DEF TrackInv, BusyIsReported, Serving
  <2> QED
    BY <1>0, <1>1, <2>1, <2>2, <2>3, Zenon DEF TrackInv
<1>9. ASSUME NEW q \in Requests PROVE Once(q)'
  <2>1. Once(q)
    BY <1>0, <1>3, Zenon
  <2>2. Outgoing(q)' <=> Outgoing(q)
    BY <1>1, Zenon DEF Outgoing
  <2>3. ereq' # q
    BY <1>1, <1>3, Zenon
  <2>4. task'[q] = "none" \/ (~Waiting(q) /\ ereq' # q /\ asked[q] # 0)
    BY <1>5, <1>6, <2>1, <2>3, OnceTask, Zenon
  <2> QED
    BY <1>1, <1>2, <2>1, <2>2, <2>3, <2>4, OnceFrame, Zenon
<1>10. ASSUME NEW q \in Requests, Current(q)' PROVE Speech(q)'
  <2>1. Speech(q) /\ (Waiting(q)' <=> Waiting(q)) /\ ereq' # q
    BY <1>0, <1>1, <1>2, <1>3, <1>10, Zenon DEF Current, Waiting, Enqueued
  <2>2. (InOrder(q) => InOrder(q)') /\ \A v : Latest(q, v) => Latest(q, v)'
    BY <1>1, <1>2, SpeechSame, Zenon
  <2>3. CASE q # r
    <3>1. Silently(task[q], task'[q])
      BY <1>5, <2>3, Zenon DEF Silently
    <3> QED
      BY <2>1, <2>2, <3>1, SpeechFrame, Zenon
  <2>4. CASE q = r
    <3>1. Latest(q, "accepted")
      BY <1>3, <1>4, <2>1, <2>4, Zenon DEF Speech
    <3>2. InOrder(q)' /\ Latest(q, "accepted")' /\ task'[q] = "start" /\ ~Waiting(q)'
      BY <1>5, <1>6, <2>1, <2>2, <2>4, <3>1, Zenon DEF Speech
    <3> QED
      BY <2>1, <3>2, Zenon DEF Speech
  <2> QED
    BY <2>3, <2>4, Zenon
<1> QED
  BY <1>7, <1>8, <1>9, <1>10, PartsMakeAgentInv, Zenon

-----------------------------------------------------------------------------
(* The client and the coordinator.                                         *)

LEMMA PutEvent ==
    ASSUME eventQ \in Seq(Event), NEW e \in Event, eventQ' = Append(eventQ, e)
    PROVE  /\ eventQ' \in Seq(Event)
           /\ \A i \in 1 .. Len(eventQ') : (i \in 1 .. Len(eventQ) /\ eventQ'[i] = eventQ[i]) \/ eventQ'[i] = e
           /\ \A r \in Requests :
                 /\ Enqueued(r)' <=> Enqueued(r) \/ IsRequest(e, r)
                 /\ OneEvent(r) /\ ~(IsRequest(e, r) /\ Enqueued(r)) => OneEvent(r)'
<1>0. /\ eventQ' \in Seq(Event) /\ Len(eventQ') = Len(eventQ) + 1 /\ Len(eventQ) \in Nat
      /\ \A i \in 1 .. Len(eventQ) : eventQ'[i] = eventQ[i]
      /\ eventQ'[Len(eventQ) + 1] = e
  BY AppendGives
<1>1. /\ \A i \in 1 .. Len(eventQ') : i \in 1 .. Len(eventQ) \/ i = Len(eventQ) + 1
      /\ \A i \in 1 .. Len(eventQ) : i \in 1 .. Len(eventQ') /\ i # Len(eventQ) + 1
      /\ Len(eventQ) + 1 \in 1 .. Len(eventQ')
  BY <1>0
<1>2. ASSUME NEW r \in Requests PROVE Enqueued(r)' <=> Enqueued(r) \/ IsRequest(e, r)
  BY <1>0, <1>1, Zenon DEF Enqueued
<1>3. ASSUME NEW r \in Requests, OneEvent(r), ~(IsRequest(e, r) /\ Enqueued(r)) PROVE OneEvent(r)'
  <2>1. ASSUME NEW i \in 1 .. Len(eventQ'), NEW j \in 1 .. Len(eventQ'),
               IsRequest(eventQ'[i], r), IsRequest(eventQ'[j], r)
        PROVE  i = j
    <3>1. CASE i \in 1 .. Len(eventQ) /\ j \in 1 .. Len(eventQ)
      BY <1>0, <1>3, <2>1, <3>1, Zenon DEF OneEvent
    <3>2. CASE i = Len(eventQ) + 1 /\ j = Len(eventQ) + 1
      BY <3>2, Zenon
    <3>3. CASE i = Len(eventQ) + 1 /\ j \in 1 .. Len(eventQ)
      BY <1>0, <1>3, <2>1, <3>3, Zenon DEF Enqueued
    <3>4. CASE j = Len(eventQ) + 1 /\ i \in 1 .. Len(eventQ)
      BY <1>0, <1>3, <2>1, <3>4, Zenon DEF Enqueued
    <3> QED
      BY <1>1, <3>1, <3>2, <3>3, <3>4, Zenon
  <2> QED
    BY <2>1, Zenon DEF OneEvent
<1> QED
  BY <1>0, <1>1, <1>2, <1>3, Zenon

notShared == <<doneQ, epc, ereq, inflight, active, task, proc>>

(* The client leaves the connection, or has none.                          *)
LEMMA OfflineKeeps ==
    ASSUME AgentInv, UNCHANGED <<notShared, cevent, cancelled, asked, heard, eventQ>>,
           ClientOK', outQ' \in Seq(Message), cpc # "stopped",
           cpc' \notin {"select", "deliver"},
           \A r \in Requests : Outgoing(r)' => Outgoing(r)
    PROVE  AgentInv'
<1>0. /\ LoopOK /\ ChannelsOK /\ TrackInv
      /\ proc # "exited" => \A r \in Requests : Once(r)
  BY AgentParts, Zenon
<1>1. UNCHANGED <<doneQ, epc, ereq, inflight, active, task, proc>>
  BY Zenon DEF notShared
<1>2. LoopOK' /\ ChannelsOK'
  BY <1>0, <1>1, Zenon DEF LoopOK, ChannelsOK
<1>3. TrackInv'
  BY <1>0, <1>1, Zenon DEF TrackInv, TrackedExactly, BusyIsReported, Live
<1>4. ASSUME proc' # "exited", NEW r \in Requests PROVE Once(r)'
  <2>1. Once(r)
    BY <1>0, <1>1, <1>4, Zenon
  <2>2. task'[r] = "none" \/ (~Waiting(r) /\ ereq' # r /\ asked[r] # 0)
    BY <1>1, <2>1, OnceTask, Zenon
  <2> QED
    BY <1>1, <2>1, <2>2, OnceFrame, Zenon
<1>5. \A r \in Requests : ~Current(r)'
  BY Zenon DEF Current
<1> QED
  BY <1>2, <1>3, <1>4, <1>5, PartsMakeAgentInv, Zenon

LEMMA ConnectKeeps == ASSUME AgentInv, Connect PROVE AgentInv'
<1>0. /\ ClientOK /\ LoopOK /\ ChannelsOK /\ TrackInv
      /\ proc # "exited" => \A r \in Requests : Once(r)
  BY AgentParts, Zenon
<1>1. /\ cpc = "connect" /\ proc = "up" /\ session < plan.sessions /\ session' = session + 1
      /\ cpc' \in {"select", "lost"}
      /\ UNCHANGED <<plan, cevent, asked, cancelled, heard, eventQ, outQ, doneQ, epc, ereq, inflight, active, task, proc>>
  BY Zenon DEF Connect, notClient, loopVars, callVars, flagVars, taskVars
<1>2. ClientOK'
  BY <1>0, <1>1 DEF ClientOK, Dropped
<1>3. LoopOK' /\ ChannelsOK'
  BY <1>0, <1>1, Zenon DEF LoopOK, ChannelsOK
<1>4. TrackInv'
  BY <1>0, <1>1, Zenon DEF TrackInv, TrackedExactly, BusyIsReported, Live
<1>5. ASSUME NEW r \in Requests PROVE Once(r)'
  <2>1. Once(r)
    BY <1>0, <1>1, Zenon
  <2>2. task'[r] = "none" \/ (~Waiting(r) /\ ereq' # r /\ asked[r] # 0)
    BY <1>1, <2>1, OnceTask, Zenon
  <2>3. Outgoing(r)' <=> Outgoing(r)
    BY <1>1, Zenon DEF Outgoing
  <2> QED
    BY <1>1, <2>1, <2>2, <2>3, OnceFrame, Zenon
<1>6. \A r \in Requests : ~Current(r)'
  BY <1>0, <1>1 DEF Current, ClientOK, Dropped
<1> QED
  BY <1>2, <1>3, <1>4, <1>5, <1>6, PartsMakeAgentInv, Zenon

LEMMA LeavesKeeps == ASSUME AgentInv, ConnectionLost \/ SeeShutdown PROVE AgentInv'
<1>0. ClientOK /\ ChannelsOK
  BY AgentParts, Zenon
<1>1. /\ cpc \in {"connect", "select"} /\ cpc' \in {"lost", "stopped"}
      /\ UNCHANGED <<notShared, cevent, cancelled, asked, heard, eventQ, outQ, plan, session>>
  BY Zenon DEF ConnectionLost, SeeShutdown, notClient, notShared, loopVars, callVars, flagVars, taskVars, coordVars
<1>2. ClientOK' /\ outQ' \in Seq(Message)
  BY <1>0, <1>1, Zenon DEF ClientOK, Dropped, ChannelsOK
<1>3. \A r \in Requests : Outgoing(r)' => Outgoing(r)
  BY <1>1, Zenon DEF Outgoing
<1> QED
  BY <1>1, <1>2, <1>3, OfflineKeeps, Zenon

LEMMA ReportLostKeeps == ASSUME AgentInv, ReportLost PROVE AgentInv'
<1>0. /\ ClientOK /\ LoopOK /\ ChannelsOK /\ TrackInv
      /\ proc # "exited" => \A r \in Requests : Once(r)
  BY AgentParts, Zenon
<1>1. PICK e \in Event : e = [type |-> "disconnected"] /\ e.type = "disconnected"
  BY EventForms, Zenon
<1>2. /\ cpc = "lost" /\ cpc' = "connect" /\ eventQ' = Append(eventQ, e)
      /\ UNCHANGED <<plan, session, cevent, asked, cancelled, heard, outQ, doneQ, epc, ereq, inflight, active, task, proc>>
  BY <1>1, Zenon DEF ReportLost, notClient, loopVars, callVars, flagVars, taskVars, coordVars
<1>3. /\ eventQ' \in Seq(Event)
      /\ \A i \in 1 .. Len(eventQ') : (i \in 1 .. Len(eventQ) /\ eventQ'[i] = eventQ[i]) \/ eventQ'[i] = e
      /\ \A r \in Requests : (Enqueued(r)' <=> Enqueued(r)) /\ (OneEvent(r) => OneEvent(r)')
  BY <1>0, <1>1, <1>2, PutEvent, ZenonT(40) DEF ChannelsOK, IsRequest
<1>4. ClientOK' /\ LoopOK' /\ ChannelsOK'
  BY <1>0, <1>2, <1>3, Zenon DEF ClientOK, Dropped, LoopOK, ChannelsOK
<1>5. TrackInv'
  <2>1. \A i \in 1 .. Len(eventQ') : eventQ'[i].type = "cancel" => eventQ'[i].req \in cancelled'
    BY <1>0, <1>1, <1>2, <1>3, Zenon DEF TrackInv
  <2> QED
    BY <1>0, <1>2, <2>1, Zenon DEF TrackInv, TrackedExactly, BusyIsReported, Live
<1>6. ASSUME proc' # "exited", NEW r \in Requests PROVE Once(r)'
  <2>1. Once(r)
    BY <1>0, <1>2, <1>6, Zenon
  <2>2. (Outgoing(r)' <=> Outgoing(r)) /\ (Waiting(r)' <=> Waiting(r))
    BY <1>2, <1>3, Zenon DEF Outgoing, Waiting
  <2> QED
    BY <1>2, <1>3, <2>1, <2>2, Zenon DEF Once
<1>7. \A r \in Requests : ~Current(r)'
  BY <1>2, Zenon DEF Current
<1> QED
  BY <1>4, <1>5, <1>6, <1>7, PartsMakeAgentInv, Zenon

LEMMA DeliverKeeps == ASSUME AgentInv, Deliver PROVE AgentInv'
<1>0. /\ ClientOK /\ LoopOK /\ ChannelsOK /\ TrackInv
      /\ proc # "exited" => \A r \in Requests : Once(r)
      /\ \A r \in Requests : Current(r) => Speech(r)
  BY AgentParts, Zenon
<1>1. /\ cpc = "deliver" /\ cpc' = "select" /\ eventQ' = Append(eventQ, cevent) /\ cevent' = NoEvent
      /\ UNCHANGED <<plan, session, asked, cancelled, heard, outQ, doneQ, epc, ereq, inflight, active, task, proc>>
  BY Zenon DEF Deliver, notClient, loopVars, callVars, flagVars, taskVars, coordVars
<1>2. PICK e \in Event : e = cevent
  BY <1>0, <1>1, Zenon DEF ClientOK
<1>3. /\ eventQ' \in Seq(Event)
      /\ \A i \in 1 .. Len(eventQ') : (i \in 1 .. Len(eventQ) /\ eventQ'[i] = eventQ[i]) \/ eventQ'[i] = e
      /\ \A r \in Requests :
            /\ Enqueued(r)' <=> Enqueued(r) \/ IsRequest(e, r)
            /\ OneEvent(r) /\ ~(IsRequest(e, r) /\ Enqueued(r)) => OneEvent(r)'
  BY <1>0, <1>1, <1>2, PutEvent, Zenon DEF ChannelsOK
<1>4. cevent'.type = "none" /\ proc # "exited"
  BY <1>0, <1>1, EventForms, Zenon DEF LoopOK
<1>5. ClientOK' /\ LoopOK' /\ ChannelsOK'
  BY <1>0, <1>1, <1>3, Zenon DEF ClientOK, Dropped, LoopOK, ChannelsOK
<1>6. TrackInv'
  <2>1. \A i \in 1 .. Len(eventQ') : eventQ'[i].type = "cancel" => eventQ'[i].req \in cancelled'
    BY <1>0, <1>1, <1>2, <1>3, Zenon DEF TrackInv
  <2> QED
    BY <1>0, <1>1, <1>4, <2>1, Zenon DEF TrackInv, TrackedExactly, BusyIsReported, Live
<1>7. \A r \in Requests : Waiting(r)' <=> Waiting(r)
  BY <1>2, <1>3, <1>4, Zenon DEF Waiting, IsRequest
<1>8. ASSUME NEW r \in Requests PROVE Once(r)'
  <2>1. Once(r)
    BY <1>0, <1>4, Zenon
  <2>2. Outgoing(r)' <=> Outgoing(r)
    BY <1>1, Zenon DEF Outgoing
  <2>3. ~IsRequest(cevent', r)
    BY <1>4, Zenon DEF IsRequest
  <2>4. OneEvent(r)'
    BY <1>2, <1>3, <2>1, Zenon DEF Once
  <2> QED
    BY <1>1, <1>7, <2>1, <2>2, <2>3, <2>4, Zenon DEF Once
<1>9. ASSUME NEW r \in Requests, Current(r)' PROVE Speech(r)'
  <2>1. Speech(r)
    BY <1>0, <1>1, <1>9, Zenon DEF Current
  <2>2. (InOrder(r) => InOrder(r)') /\ \A v : Latest(r, v) => Latest(r, v)'
    BY <1>1, SpeechSame, Zenon
  <2>3. Silently(task[r], task'[r])
    BY <1>1, Zenon DEF Silently
  <2> QED
    BY <1>1, <1>7, <2>1, <2>2, <2>3, SpeechFrame, Zenon
<1> QED
  BY <1>5, <1>6, <1>8, <1>9, PartsMakeAgentInv, Zenon

LEMMA WriteKeeps == ASSUME AgentInv, Write PROVE AgentInv'
<1>0. /\ ClientOK /\ LoopOK /\ ChannelsOK /\ TrackInv
      /\ proc # "exited" => \A r \in Requests : Once(r)
      /\ \A r \in Requests : Current(r) => Speech(r)
  BY AgentParts, Zenon
<1>1. /\ cpc = "select" /\ outQ # <<>> /\ outQ' = Tail(outQ)
      /\ UNCHANGED <<plan, session, cevent, asked, cancelled, eventQ, doneQ, epc, ereq, inflight, active, task, proc>>
  BY Zenon DEF Write, notClient, loopVars, callVars, flagVars, taskVars
<1>2. /\ outQ' \in Seq(Message) /\ Len(outQ') = Len(outQ) - 1 /\ Len(outQ) \in Nat \ {0}
      /\ \A i \in 1 .. Len(outQ') : outQ'[i] = outQ[i + 1]
      /\ Head(outQ) = outQ[1] /\ outQ[1] \in Message /\ outQ \in Seq(Message)
  BY <1>0, <1>1, TailGives DEF ChannelsOK
<1>3. \A r \in Requests : Outgoing(r)' => Outgoing(r)
  BY <1>2, SMTT(30) DEF Outgoing
<1>4. CASE session < plan.sessions /\ cpc' = "lost" /\ UNCHANGED heard
  <2>1. ClientOK'
    BY <1>0, <1>1, <1>4, Zenon DEF ClientOK, Dropped
  <2> QED
    BY <1>1, <1>2, <1>3, <1>4, <2>1, OfflineKeeps, Zenon DEF notShared
<1>5. CASE /\ heard' = [heard EXCEPT ![Head(outQ).req] =
                     IF asked[Head(outQ).req] = session THEN Append(@, Head(outQ).kind) ELSE @]
           /\ UNCHANGED cpc
  <2>1. PICK q \in Requests, kind \in Kinds : q = Head(outQ).req /\ kind = Head(outQ).kind
    BY <1>2, Zenon DEF Message
  <2>2. \A r \in Requests : heard[r] \in Seq(Kinds) /\
           heard'[r] = IF r = q /\ asked[q] = session THEN Append(heard[q], kind) ELSE heard[r]
    BY <1>0, <1>5, <2>1, Zenon DEF ClientOK
  <2>3. heard' \in [Requests -> Seq(Kinds)]
    BY <1>0, <1>5, <2>1, SMTT(60) DEF ClientOK
  <2>4. session # 0 /\ proc # "exited"
    BY <1>0, <1>1, Zenon DEF ClientOK, LoopOK
  <2>5. ClientOK' /\ LoopOK' /\ ChannelsOK'
    BY <1>0, <1>1, <1>2, <1>5, <2>3, Zenon DEF ClientOK, Dropped, LoopOK, ChannelsOK
  <2>6. TrackInv'
    BY <1>0, <1>1, Zenon DEF TrackInv, TrackedExactly, BusyIsReported, Live
  <2>7. ASSUME NEW r \in Requests PROVE Once(r)'
    <3>1. Once(r)
      BY <1>0, <2>4, Zenon
    <3>2. task'[r] = "none" \/ (~Waiting(r) /\ ereq' # r /\ asked[r] # 0)
      BY <1>1, <3>1, OnceTask, Zenon
    <3>3. heard'[r] # <<>> => heard[r] # <<>> \/ asked[r] # 0
      BY <2>2, <2>4, Zenon
    <3> QED
      BY <1>1, <1>3, <3>1, <3>2, <3>3, OnceFrame, Zenon
  <2>8. ASSUME NEW r \in Requests, Current(r)' PROVE Speech(r)'
    <3>1. Speech(r) /\ (Waiting(r)' <=> Waiting(r)) /\ asked[r] = session
      BY <1>0, <1>1, <1>5, <2>8, Zenon DEF Current, Waiting, Enqueued
    <3>2. heard'[r] = IF Head(outQ).req = r THEN Append(heard[r], Head(outQ).kind) ELSE heard[r]
      BY <2>1, <2>2, <3>1, Zenon
    <3>3. (InOrder(r) => InOrder(r)') /\ \A v : Latest(r, v) => Latest(r, v)'
      BY <1>1, <1>2, <2>2, <3>2, SpeechHeard, Zenon
    <3>4. Silently(task[r], task'[r])
      BY <1>1, Zenon DEF Silently
    <3> QED
      BY <1>1, <3>1, <3>3, <3>4, SpeechFrame, Zenon
  <2> QED
    BY <2>5, <2>6, <2>7, <2>8, PartsMakeAgentInv, Zenon
<1> QED
  BY <1>4, <1>5, Zenon DEF Write

(* A step that leaves the channels alone and does not concern r.           *)
LEMMA BystanderKeeps ==
    ASSUME AgentInv, NEW r \in Requests, cpc = "select", cpc' \in {"select", "deliver"},
           UNCHANGED <<notShared, session, eventQ, outQ>>,
           asked'[r] = asked[r], heard'[r] = heard[r], ~IsRequest(cevent', r)
    PROVE  Once(r)' /\ (Current(r)' => Speech(r)')
<1>0. /\ proc # "exited" /\ Once(r) /\ (Current(r) => Speech(r))
  BY AgentParts, Zenon DEF LoopOK
<1>1. UNCHANGED <<epc, ereq, task>>
  BY Zenon DEF notShared
<1>2. /\ Waiting(r)' => Waiting(r)
      /\ Enqueued(r)' <=> Enqueued(r)
      /\ OneEvent(r)' <=> OneEvent(r)
      /\ Outgoing(r)' <=> Outgoing(r)
  BY Zenon DEF Waiting, Enqueued, OneEvent, Outgoing
<1>3. Once(r)'
  BY <1>0, <1>1, <1>2, Zenon DEF Once
<1>4. ASSUME Current(r)' PROVE Speech(r)'
  <2>1. Speech(r)
    BY <1>0, <1>4, Zenon DEF Current
  <2>2. (InOrder(r) => InOrder(r)') /\ \A v : Latest(r, v) => Latest(r, v)'
    BY SpeechSame, Zenon
  <2>3. Silently(task[r], task'[r])
    BY <1>1, Zenon DEF Silently
  <2> QED
    BY <1>1, <1>2, <2>1, <2>2, <2>3, SpeechFrame, Zenon
<1> QED
  BY <1>3, <1>4, Zenon

LEMMA ReadRequestKeeps == ASSUME AgentInv, NEW r \in Requests, ReadRequest(r) PROVE AgentInv'
<1>0. /\ ClientOK /\ LoopOK /\ ChannelsOK /\ TrackInv
      /\ proc # "exited" => \A q \in Requests : Once(q)
  BY AgentParts, Zenon
<1>1. /\ cpc = "select" /\ asked[r] = 0
      /\ UNCHANGED <<notShared, plan, session, cancelled, eventQ, outQ>>
      /\ UNCHANGED <<doneQ, epc, ereq, inflight, active, task, proc>>
  BY Zenon DEF ReadRequest, notClient, notShared, loopVars, callVars, flagVars, taskVars
<1>2. PICK body \in Bodies :
          /\ asked' = [asked EXCEPT ![r] = IF body = "plain" \/ Opens(body) THEN session ELSE Dropped]
          /\ heard' = IF body = "plain" THEN [heard EXCEPT ![r] = <<"error">>] ELSE heard
          /\ IF Opens(body) THEN cevent' = [type |-> "request", req |-> r] /\ cpc' = "deliver"
                            ELSE UNCHANGED <<cevent, cpc>>
  BY Zenon DEF ReadRequest
<1>3. /\ session \in Nat /\ session # 0 /\ plan.sessions \in Nat /\ session <= plan.sessions
      /\ Dropped \in Nat /\ Dropped # 0 /\ Dropped # session /\ Dropped' = Dropped
      /\ proc # "exited" /\ cevent = NoEvent
  BY <1>0, <1>1 DEF ClientOK, LoopOK, Dropped
<1>4. /\ \A q \in Requests : q # r => asked'[q] = asked[q] /\ heard'[q] = heard[q]
      /\ asked'[r] = IF body = "plain" \/ Opens(body) THEN session ELSE Dropped
      /\ asked' \in [Requests -> Nat] /\ heard' \in [Requests -> Seq(Kinds)]
      /\ body # "plain" => heard' = heard
  <2>1. <<"error">> \in Seq(Kinds)
    BY DEF Kinds
  <2> QED
    BY <1>0, <1>2, <1>3, <2>1, Zenon DEF ClientOK
<1>5. /\ Opens(body) => body = "sealed" /\ cpc' = "deliver" /\ cevent' \in Event /\ cevent'.type = "request" /\ cevent'.req = r
      /\ ~Opens(body) => cpc' = "select" /\ cevent' = NoEvent
  <2>1. PICK e \in Event : e = [type |-> "request", req |-> r] /\ e.type = "request" /\ e.req = r
    BY EventForms, Zenon
  <2>2. Opens(body) => body = "sealed" /\ cpc' = "deliver" /\ cevent' = e
    BY <1>2, <2>1, Zenon DEF Opens
  <2>3. ~Opens(body) => cpc' = "select" /\ cevent' = NoEvent
    BY <1>1, <1>2, <1>3, Zenon
  <2> QED
    BY <2>1, <2>2, <2>3, Zenon
<1>6. \A q \in Requests : IsRequest(cevent', q) <=> q = r /\ Opens(body)
  BY <1>5, EventForms, Zenon DEF IsRequest
<1>7. ClientOK' /\ LoopOK' /\ ChannelsOK'
  <2>1. ClientOK'
    <3>1. \A q \in Requests : asked'[q] <= session' \/ asked'[q] = Dropped'
      <4> TAKE q \in Requests
      <4>1. asked[q] <= session \/ asked[q] = Dropped
        BY <1>0, Zenon DEF ClientOK
      <4>2. asked'[q] = asked[q] \/ asked'[q] = session \/ asked'[q] = Dropped
        BY <1>4, Zenon
      <4>3. session' = session /\ Dropped' = Dropped /\ session <= session
        BY <1>1, <1>3
      <4> QED
        BY <4>1, <4>2, <4>3, Zenon
    <3>2. /\ cpc' \in {"connect", "deliver", "lost", "select", "stopped"}
          /\ cevent' \in Event \cup {NoEvent}
          /\ cpc' \notin {"deliver", "stopped"} => cevent' = NoEvent
          /\ cpc' = "deliver" => cevent' \in Event
      BY <1>5, Zenon
    <3> QED
      BY <1>1, <1>3, <1>4, <3>1, <3>2 DEF ClientOK
  <2>2. LoopOK' /\ ChannelsOK'
    BY <1>0, <1>1, <1>3, Zenon DEF LoopOK, ChannelsOK
  <2> QED
    BY <2>1, <2>2, Zenon
<1>8. TrackInv'
  <2>1. cevent'.type # "cancel"
    BY <1>5, EventForms, Zenon
  <2> QED
    BY <1>0, <1>1, <2>1, Zenon DEF TrackInv, TrackedExactly, BusyIsReported, Live
<1>9. Once(r) /\ ~Waiting(r) /\ ereq # r /\ task[r] = "none" /\ ~Outgoing(r) /\ heard[r] = <<>>
  BY <1>0, <1>1, <1>3, Zenon DEF Once
<1>10. (Enqueued(r)' <=> Enqueued(r)) /\ (OneEvent(r)' <=> OneEvent(r)) /\ (Outgoing(r)' <=> Outgoing(r))
  BY <1>1, Zenon DEF Enqueued, OneEvent, Outgoing
<1>11. Once(r)'
  <2>1. asked'[r] # 0 /\ ~Enqueued(r)
    BY <1>3, <1>4, <1>9, Zenon DEF Waiting
  <2> QED
    BY <1>1, <1>9, <1>10, <2>1, Zenon DEF Once
<1>12. ASSUME Current(r)' PROVE Speech(r)'
  <2>1. body = "plain" \/ Opens(body)
    BY <1>1, <1>3, <1>4, <1>12, Zenon DEF Current
  <2>2. \A i \in 1 .. Len(outQ') : outQ'[i].req # r
    BY <1>9, <1>10, Zenon DEF Outgoing
  <2>3. InOrder(r)'
    BY <2>2, Zenon DEF InOrder
  <2>4. Waiting(r)' => Latest(r, "nothing")'
    <3>1. Waiting(r)' => Opens(body)
      BY <1>6, <1>9, <1>10, Zenon DEF Waiting
    <3>2. Opens(body) => heard'[r] = <<>>
      BY <1>4, <1>5, <1>9, Zenon
    <3>3. Len(outQ') + 1 - 1 = Len(outQ')
      BY <1>0, <1>1 DEF ChannelsOK
    <3>4. heard'[r] = <<>> => Latest(r, "nothing")'
      BY <2>2, <3>3, SMTT(60) DEF Latest, Before, LastHeard
    <3> QED
      BY <3>1, <3>2, <3>4, Zenon
  <2> QED
    BY <1>1, <1>9, <2>3, <2>4, Zenon DEF Speech
<1>13. ASSUME NEW q \in Requests, q # r PROVE Once(q)' /\ (Current(q)' => Speech(q)')
  <2>1. cpc' \in {"select", "deliver"} /\ ~IsRequest(cevent', q)
    BY <1>5, <1>6, <1>13, Zenon
  <2> QED
    BY <1>1, <1>4, <1>13, <2>1, BystanderKeeps, Zenon
<1> QED
  BY <1>7, <1>8, <1>11, <1>12, <1>13, PartsMakeAgentInv, Zenon

LEMMA ReadCancelKeeps == ASSUME AgentInv, NEW r \in Requests, ReadCancel(r) PROVE AgentInv'
<1>0. ClientOK /\ LoopOK /\ ChannelsOK /\ TrackInv
  BY AgentParts, Zenon
<1>1. /\ cpc = "select" /\ cpc' = "deliver" /\ cancelled' = cancelled \cup {r}
      /\ cevent' = [type |-> "cancel", req |-> r]
      /\ UNCHANGED <<notShared, plan, session, asked, heard, eventQ, outQ>>
      /\ UNCHANGED <<doneQ, epc, ereq, inflight, active, task, proc>>
  BY Zenon DEF ReadCancel, notClient, notShared, loopVars, callVars, flagVars, taskVars
<1>2. cevent' \in Event /\ cevent'.type = "cancel" /\ cevent'.req = r
  BY <1>1, EventForms, Zenon
<1>3. ClientOK' /\ LoopOK' /\ ChannelsOK'
  BY <1>0, <1>1, <1>2, Zenon DEF ClientOK, Dropped, LoopOK, ChannelsOK
<1>4. TrackInv'
  BY <1>0, <1>1, <1>2, Zenon DEF TrackInv, TrackedExactly, BusyIsReported, Live
<1>5. \A q \in Requests : ~IsRequest(cevent', q)
  BY <1>2, Zenon DEF IsRequest
<1>6. \A q \in Requests : Once(q)' /\ (Current(q)' => Speech(q)')
  BY <1>1, <1>5, BystanderKeeps, Zenon
<1> QED
  BY <1>3, <1>4, <1>6, PartsMakeAgentInv, Zenon

LEMMA ExitKeeps == ASSUME AgentInv, Exit PROVE AgentInv'
<1>0. ClientOK /\ LoopOK /\ ChannelsOK /\ TrackInv
  BY AgentParts, Zenon
<1>1. /\ proc' = "exited" /\ cpc' = "stopped" /\ epc' = "exited" /\ task' = [r \in Requests |-> "gone"]
      /\ inflight' = {} /\ doneQ' = <<>>
      /\ UNCHANGED <<plan, session, asked, cancelled, heard, cevent, eventQ, outQ, ereq>>
  BY Zenon DEF Exit, coordVars, callVars
<1>2. ClientOK' /\ LoopOK' /\ ChannelsOK'
  BY <1>0, <1>1, SMTT(60) DEF ClientOK, Dropped, LoopOK, ChannelsOK, Serving, Stages
<1>3. TrackInv'
  <2>1. \A r \in Requests : ~Live(r)' /\ r \notin inflight'
    BY <1>1, Zenon DEF Live
  <2>2. TrackedExactly'
    BY <2>1, Zenon DEF TrackedExactly
  <2>3. BusyIsReported' /\ epc' \notin Serving
    BY <1>1, Zenon DEF BusyIsReported, Serving
  <2>4. \A i \in 1 .. Len(doneQ') : task'[doneQ'[i]] = "gone"
    BY <1>1
  <2> QED
    BY <1>0, <1>1, <2>2, <2>3, <2>4, Zenon DEF TrackInv
<1>4. \A r \in Requests : ~Current(r)'
  BY <1>1, Zenon DEF Current
<1> QED
  BY <1>1, <1>2, <1>3, <1>4, PartsMakeAgentInv, Zenon

-----------------------------------------------------------------------------
LEMMA InitAgentInv == Init => AgentInv
<1> SUFFICES ASSUME Init PROVE AgentInv
  BY Zenon
<1>1. /\ cpc = "connect" /\ cevent = NoEvent /\ session = 0 /\ plan \in Plans
      /\ asked = [r \in Requests |-> 0] /\ heard = [r \in Requests |-> <<>>]
      /\ eventQ = <<>> /\ outQ = <<>> /\ doneQ = <<>>
      /\ epc = "select" /\ ereq = NoReq /\ inflight = {} /\ active = FALSE
      /\ task = [r \in Requests |-> "none"] /\ proc = "up"
  BY Zenon DEF Init
<1>2. plan.sessions \in Nat
  BY <1>1, AgentAssumption, Zenon DEF Plan
<1>3. ClientOK /\ LoopOK /\ ChannelsOK
  BY <1>1, <1>2 DEF ClientOK, LoopOK, ChannelsOK, Serving, Stages
<1>4. cevent.type = "none"
  BY <1>1, EventForms, Zenon
<1>5. TrackInv
  BY <1>1, <1>4 DEF TrackInv, TrackedExactly, BusyIsReported, Live, Serving
<1>6. \A r \in Requests : Once(r)
  BY <1>1, <1>4, SomeRequest DEF Once, OneEvent, Waiting, Enqueued, Outgoing, IsRequest
<1>7. \A r \in Requests : ~Current(r)
  BY <1>1, Zenon DEF Current
<1> QED
  BY <1>3, <1>5, <1>6, <1>7, Zenon DEF AgentInv, AgentTypeInv, OnceInv, SpeechInv

LEMMA NextKeepsAgentInv == AgentInv /\ [Next]_vars => AgentInv'
<1> SUFFICES ASSUME AgentInv, [Next]_vars PROVE AgentInv'
  BY Zenon
<1>1. CASE ClientStep
  BY <1>1, ConnectKeeps, DeliverKeeps, ReportLostKeeps, WriteKeeps, LeavesKeeps, Zenon DEF ClientStep
<1>2. CASE Coordinator
  BY <1>2, LeavesKeeps, ReadRequestKeeps, ReadCancelKeeps, Zenon DEF Coordinator
<1>3. CASE EventLoopStep \/ IdleExpires
  BY <1>3, OnDisconnectedKeeps, OnCancelKeeps, OnRequestKeeps, LoopSpeaks, LoopTurns, SpawnKeeps, OnDoneKeeps,
     QuietSteps, ZenonT(40) DEF EventLoopStep
<1>4. CASE \E r \in Requests : TaskStep(r)
  BY <1>4, TaskSilentSteps, TaskSpeaks, ReportKeeps, Zenon DEF TaskStep
<1>5. CASE (\E e \in Engines : EngineStep(e)) \/ ScheduleStep \/ WindowCloses \/ WindowOpens
  BY <1>5, QuietSteps, Zenon DEF ScheduleStep
<1>6. CASE CtrlC \/ Exit
  BY <1>6, CtrlCKeeps, ExitKeeps, Zenon
<1>7. CASE UNCHANGED vars
  <2>1. UNCHANGED <<shared, epc, ereq, task, proc>>
    BY <1>7, Zenon DEF vars, shared, loopVars, callVars, flagVars, taskVars
  <2> QED
    BY <2>1, QuietKeeps, Zenon
<1> QED
  BY <1>1, <1>2, <1>3, <1>4, <1>5, <1>6, <1>7, Zenon DEF Next

LEMMA AgentInductive == Spec => []AgentInv
BY InitAgentInv, NextKeepsAgentInv, PTL DEF Spec

(* cmd_serve's inflight table and inference_active flag: a task that runs  *)
(* is in the table unless its request was cancelled, what is in the table  *)
(* leaves it, and the heartbeat does not report an idle provider while it  *)
(* has an entry; through cancellations, reconnections and shutdown.        *)
THEOREM RequestsAreTracked == Spec => []InFlightIsTracked
<1>1. AgentInv => InFlightIsTracked
  BY Zenon DEF AgentInv, TrackInv, InFlightIsTracked
<1> QED
  BY <1>1, AgentInductive, PTL

-----------------------------------------------------------------------------
(* The provider implements AnswerStream.                                   *)

(* The message that is heard fits the last one that was.                   *)
LEMMA HeardInOrder ==
    ASSUME AgentInv, Write, ~UNCHANGED heard
    PROVE  \E r \in Requests, kind \in Kinds :
              heard' = [heard EXCEPT ![r] = Append(@, kind)] /\ Follows(LastHeard(r), kind)
<1>0. /\ ClientOK /\ ChannelsOK
      /\ \A r \in Requests : Current(r) => Speech(r)
  BY AgentParts, Zenon
<1>1. /\ cpc = "select" /\ outQ # <<>>
      /\ heard' = [heard EXCEPT ![Head(outQ).req] =
                     IF asked[Head(outQ).req] = session THEN Append(@, Head(outQ).kind) ELSE @]
  BY Zenon DEF Write
<1>2. /\ outQ \in Seq(Message) /\ Head(outQ) = outQ[1] /\ 1 \in 1 .. Len(outQ) /\ outQ[1] \in Message
  BY <1>0, <1>1 DEF ChannelsOK
<1>3. PICK r \in Requests, kind \in Kinds : r = outQ[1].req /\ kind = outQ[1].kind
  BY <1>2, Zenon DEF Message
<1>4. heard' = [heard EXCEPT ![r] = IF asked[r] = session THEN Append(@, kind) ELSE @]
  BY <1>1, <1>2, <1>3, Zenon
<1>5. asked[r] = session
  <2>1. ASSUME asked[r] # session PROVE FALSE
    <3>1. heard' = [heard EXCEPT ![r] = heard[r]]
      BY <1>4, <2>1, Zenon
    <3>2. heard' = heard
      BY <1>0, <3>1, Zenon DEF ClientOK
    <3> QED
      BY <3>2, Zenon
  <2> QED
    BY <2>1, Zenon
<1>6. heard' = [heard EXCEPT ![r] = Append(@, kind)]
  BY <1>4, <1>5, Zenon
<1>7. InOrder(r)
  BY <1>0, <1>1, <1>5, Zenon DEF Current, Speech
<1>8. PICK v \in Kinds \cup {"nothing"} : Before(r, 1, v) /\ Follows(v, kind)
  BY <1>2, <1>3, <1>7, Zenon DEF InOrder
<1>9. v = LastHeard(r)
  BY <1>8 DEF Before
<1> QED
  BY <1>6, <1>8, <1>9, Zenon

LEMMA StepKeepsPromise == AgentInv /\ [Next]_vars => [Promise!Next]_heard
<1> SUFFICES ASSUME AgentInv, Next, heard' # heard PROVE Promise!Next
  BY Zenon DEF vars, clientVars, coordVars
<1>0. ClientOK /\ LoopOK /\ (proc # "exited" => \A r \in Requests : Once(r))
  BY AgentParts, Zenon
<1>1. Write \/ \E r \in Requests : ReadRequest(r)
  <2>1. CASE ClientStep
    BY <2>1, Zenon DEF ClientStep, Connect, Deliver, ReportLost, SeeShutdown, coordVars
  <2>2. CASE Coordinator
    BY <2>2, Zenon DEF Coordinator, ConnectionLost, ReadCancel, coordVars
  <2>3. CASE EventLoopStep \/ IdleExpires
    BY <2>3, Zenon DEF EventLoopStep, IdleExpires, OnDisconnected, OnCancel, OnRequest, Accept, Refuse, LookUp, MakeEngine,
       LoadFailed, Spawn, OnDone, IdleUnload, IdleDone, notLoop, clientVars, coordVars
  <2>4. CASE \E r \in Requests : TaskStep(r)
    BY <2>4, Zenon DEF TaskStep, TaskStart, Relay, RelayFails, Settled, LastChunk, Complete, Fail, Report, notTask,
       clientVars, coordVars
  <2>5. CASE (\E e \in Engines : EngineStep(e)) \/ ScheduleStep \/ WindowCloses \/ WindowOpens \/ CtrlC \/ Exit
    BY <2>5, Zenon DEF EngineStep, ScheduleStep, WindowUnload, WindowUnloaded, WindowCloses, WindowOpens, CtrlC, Exit,
       notHost, notSchedule, clientVars, coordVars
  <2> QED
    BY <2>1, <2>2, <2>3, <2>4, <2>5, Zenon DEF Next
<1>2. CASE Write
  <2>1. PICK r \in Requests, kind \in Kinds :
           heard' = [heard EXCEPT ![r] = Append(@, kind)] /\ Follows(LastHeard(r), kind)
    BY <1>2, HeardInOrder, Zenon
  <2>2. Promise!Speak(r, kind)
    BY <2>1, Zenon DEF Promise!Speak
  <2>3. LastHeard(r) = "nothing" => heard[r] = <<>>
    BY <1>0 DEF LastHeard, ClientOK, Kinds
  <2>4. LastHeard(r) # "nothing" => heard[r] # <<>> /\ Promise!Last(r) = LastHeard(r)
    BY Zenon DEF LastHeard, Promise!Last
  <2>5. \/ Promise!Refuse(r) \/ Promise!Accept(r) \/ Promise!Chunk(r)
        \/ Promise!Done(r) \/ Promise!Complete(r) \/ Promise!Fail(r)
    BY <2>1, <2>2, <2>3, <2>4, Zenon DEF Follows, Promise!Refuse, Promise!Accept, Promise!Chunk, Promise!Done,
       Promise!Complete, Promise!Fail
  <2> QED
    BY <2>5, Zenon DEF Promise!Next
<1>3. CASE \E r \in Requests : ReadRequest(r)
  <2>1. PICK r \in Requests : ReadRequest(r)
    BY <1>3, Zenon
  <2>2. cpc = "select" /\ asked[r] = 0 /\ heard' = [heard EXCEPT ![r] = <<"error">>]
    BY <2>1, Zenon DEF ReadRequest
  <2>3. heard[r] = <<>>
    BY <1>0, <2>2, Zenon DEF Once, LoopOK
  <2>4. heard' = [heard EXCEPT ![r] = Append(heard[r], "error")]
    BY <2>2, <2>3
  <2>5. Promise!Refuse(r)
    BY <2>3, <2>4, Zenon DEF Promise!Refuse, Promise!Speak
  <2> QED
    BY <2>5, Zenon DEF Promise!Next
<1> QED
  BY <1>1, <1>2, <1>3, Zenon

(* What the coordinator hears of a request on its connection is what       *)
(* AnswerStream promises: an error and nothing else, or an acceptance,     *)
(* chunks, and one last message; whatever the engines, cancellations, lost *)
(* connections, full channels and unloads do meanwhile.                    *)
THEOREM AnswersKeepOrder == Spec => KeepsPromise
<1>1. Init => Promise!Init
  BY Zenon DEF Init, Promise!Init
<1> QED
  BY <1>1, AgentInductive, StepKeepsPromise, PTL DEF Spec, KeepsPromise, Promise!Spec
=============================================================================
