------------------------------- MODULE Dispatch -------------------------------
(***************************************************************************)
(* How the coordinator hands requests to providers: the pending sets of    *)
(* registry.go, ReserveProviderEx and the queue drain of scheduler.go, the *)
(* wait queue of queue.go, and the parts of the HTTP handlers and of the   *)
(* provider connections that drive them.                                   *)
(*                                                                         *)
(* There is no lock around the whole: the registry, every provider and the *)
(* queue have a mutex each, and a drain runs in whatever goroutine freed   *)
(* capacity: a request handler, a connection's read loop or its challenge  *)
(* loop.  One critical section is one step.                                *)
(***************************************************************************)
EXTENDS Integers, Sequences, FiniteSets

CONSTANTS
    Requests,       \* HTTP requests, each handled once
    Providers,      \* provider connections; a reconnect is a new one
    Models,
    ModelOf,        \* request -> model
    Allowed,        \* request -> providers its serial allow-list admits
    ModelsOf,       \* provider -> its models, in the order it registered them
    DefaultMaxConcurrent,
    Tiers,          \* provider -> the limits its reported memory may put it in
    MaxSize,        \* queue limit per model
    Patient,        \* requests whose client waits and whose queue timer does not fire
    Flaky,          \* providers that may fail challenges, lose slots or disconnect
    MaxDrains,      \* bound: drains running at once
    EncryptFaults,  \* whether encrypting a request may fail
    None, Empty, Nil

ReadLoop(p) == <<"read", p>>
ChallengeLoop(p) == <<"challenge", p>>
Handler(r) == <<"handler", r>>

Threads == {ReadLoop(p) : p \in Providers} \cup {ChallengeLoop(p) : p \in Providers}
              \cup {Handler(r) : r \in Requests}

ASSUME DispatchAssumption ==
    /\ ModelOf \in [Requests -> Models]
    /\ Allowed \in [Requests -> SUBSET Providers]
    /\ ModelsOf \in [Providers -> Seq(Models) \ {<<>>}]
    /\ DefaultMaxConcurrent \in Nat
    /\ Tiers \in [Providers -> SUBSET Nat]
    /\ MaxSize \in Nat
    /\ Patient \subseteq Requests
    /\ EncryptFaults \in BOOLEAN
    /\ Flaky \subseteq Providers
    /\ MaxDrains \in Nat
    /\ None \notin Requests \cup Providers
    /\ Empty \notin Providers /\ Nil \notin Providers /\ Empty # Nil

VARIABLES
    rpc,            \* where each request's handler stands
    prov,           \* the provider it is working with, or None
    respCh,         \* ResponseCh: Empty, Nil (timed out in the queue) or a provider
    done,           \* requests whose DoneCh is closed
    stale,          \* queued requests older than maxWait
    queue,          \* model -> waiting requests
    pending,        \* provider -> requests that occupy a slot
    registered,     \* providers in the registry's map
    trusted,        \* providers whose last challenge result admits them
    usable,         \* <<provider, model>> whose backend slot takes requests
    limit,          \* provider -> maxConcurrency()
    dpc, todo, skipped, cur, at
                    \* per thread, its drain: position, models left, requests
                    \* set aside, request in hand, provider reserved for it

queueVars == <<respCh, done, queue>>
provVars == <<registered, trusted, usable, limit>>
drainVars == <<dpc, todo, skipped, cur, at>>
vars == <<rpc, prov, stale, queueVars, pending, provVars, drainVars>>

Elements(s) == {s[i] : i \in DOMAIN s}

Init ==
    /\ rpc = [r \in Requests |-> "start"]
    /\ prov = [r \in Requests |-> None]
    /\ respCh = [r \in Requests |-> Empty]
    /\ done = {}
    /\ stale = {}
    /\ queue = [m \in Models |-> <<>>]
    /\ pending = [p \in Providers |-> {}]
    /\ registered = Providers
    /\ trusted = Providers
    /\ usable = Providers \X Models
    /\ limit = [p \in Providers |-> DefaultMaxConcurrent]
    /\ dpc = [t \in Threads |-> "none"]
    /\ todo = [t \in Threads |-> <<>>]
    /\ skipped = [t \in Threads |-> <<>>]
    /\ cur = [t \in Threads |-> None]
    /\ at = [t \in Threads |-> None]

-----------------------------------------------------------------------------
(* Admission and slots.                                                     *)

(* Mutant: the limit is off by one.                                         *)
AdmitsOneMore(p, r) ==
    /\ p \in registered \cap trusted \cap Allowed[r]
    /\ ModelOf[r] \in Elements(ModelsOf[p])
    /\ <<p, ModelOf[r]>> \in usable
    /\ Cardinality(pending[p]) <= limit[p]

(* snapshotProviderLocked, buildCandidateWithReason and                     *)
(* providerCanAdmitLocked: which providers may take r.  The cost model      *)
(* picks one of them; here any may win.                                     *)
Admits(p, r) ==
    /\ p \in registered \cap trusted \cap Allowed[r]
    /\ ModelOf[r] \in Elements(ModelsOf[p])
    /\ <<p, ModelOf[r]>> \in usable
    /\ Cardinality(pending[p]) < limit[p]

addPending(p, r) == pending' = [pending EXCEPT ![p] = @ \cup {r}]
RemovePending(p, r) == pending' = [pending EXCEPT ![p] = @ \ {r}]

(* ReserveProviderEx found nobody.  It gives up as well when the provider   *)
(* it selected fails a challenge before the re-check under p.mu, even if    *)
(* another one would do.                                                    *)
ReserveFails(r) ==
    /\ \/ /\ \A p \in Providers : ~Admits(p, r)
          /\ UNCHANGED trusted
       \/ \E p \in Flaky :
             /\ Admits(p, r)
             /\ dpc[ChallengeLoop(p)] = "none"
             /\ trusted' = trusted \ {p}
    /\ UNCHANGED <<pending, registered, usable, limit>>

(* SetProviderIdle, and the end of Heartbeat and RecordChallengeSuccess: a  *)
(* provider still in the map has the queues of all its models drained.      *)
StartDrain(t, p) ==
    IF p \in registered
    THEN /\ Cardinality({u \in Threads : dpc[u] # "none"}) < MaxDrains
         /\ dpc' = [dpc EXCEPT ![t] = "pop"]
         /\ todo' = [todo EXCEPT ![t] = ModelsOf[p]]
         /\ UNCHANGED <<skipped, cur, at>>
    ELSE UNCHANGED drainVars

-----------------------------------------------------------------------------
(* The queue.                                                               *)

(* Stale requests leave the queue with their DoneCh closed and a nil answer *)
(* if the response channel has room.                                        *)
Expire(S) ==
    /\ done' = done \cup S
    /\ respCh' = [r \in Requests |->
                     IF r \in S /\ respCh[r] = Empty THEN Nil ELSE respCh[r]]

(* s is q without its stale requests, in the same order.                    *)
FreshPart(s, q) ==
    /\ Elements(s) = Elements(q) \ stale
    /\ \A i, j \in DOMAIN s : i < j =>
          \E k, l \in DOMAIN q : k < l /\ q[k] = s[i] /\ q[l] = s[j]

SequencesUpTo(S, n) == UNION {[1..k -> S] : k \in 0..n}

Enqueue(r) ==
    LET m == ModelOf[r]
        q == queue[m]
    IN  /\ rpc[r] = "enqueue"
        /\ Expire(Elements(q) \cap stale)
        /\ \E s \in SequencesUpTo(Elements(q), Len(q)) :
              /\ FreshPart(s, q)
              /\ IF Len(s) >= MaxSize
                 THEN /\ queue' = [queue EXCEPT ![m] = s]
                      /\ rpc' = [rpc EXCEPT ![r] = "left"]
                 ELSE /\ queue' = [queue EXCEPT ![m] = Append(s, r)]
                      /\ rpc' = [rpc EXCEPT ![r] = "waiting"]
        /\ UNCHANGED <<prov, stale, pending, provVars, drainVars>>

GrowStale(r) ==
    /\ rpc[r] = "waiting" /\ r \notin stale /\ r \notin Patient
    /\ stale' = stale \cup {r}
    /\ UNCHANGED <<rpc, prov, queueVars, pending, provVars, drainVars>>

(* WaitForProviderContext, an answer arrived.                               *)
TakeAnswer(r) ==
    /\ rpc[r] = "waiting" /\ respCh[r] # Empty
    /\ respCh' = [respCh EXCEPT ![r] = Empty]
    /\ done' = done \cup {r}
    /\ IF respCh[r] = Nil
       THEN /\ rpc' = [rpc EXCEPT ![r] = "left"]
            /\ UNCHANGED prov
       ELSE /\ rpc' = [rpc EXCEPT ![r] = "dispatch"]
            /\ prov' = [prov EXCEPT ![r] = respCh[r]]
    /\ UNCHANGED <<stale, queue, pending, provVars, drainVars>>

(* WaitForProviderContext, the timer fired or the client went away; select  *)
(* may choose this branch although an answer is already in the channel.     *)
GiveUp(r) ==
    /\ rpc[r] = "waiting" /\ r \notin Patient
    /\ done' = done \cup {r}
    /\ rpc' = [rpc EXCEPT ![r] = "remove"]
    /\ UNCHANGED <<prov, stale, respCh, queue, pending, provVars, drainVars>>

Remove(r) ==
    LET m == ModelOf[r]
        q == queue[m]
    IN  /\ rpc[r] = "remove"
        /\ rpc' = [rpc EXCEPT ![r] = "left"]
        /\ \/ /\ r \notin Elements(q)
              /\ UNCHANGED queue
           \/ \E i \in DOMAIN q :
                 /\ q[i] = r
                 /\ queue' = [queue EXCEPT ![m] = SubSeq(q, 1, i - 1) \o SubSeq(q, i + 1, Len(q))]
        /\ UNCHANGED <<prov, stale, respCh, done, pending, provVars, drainVars>>

-----------------------------------------------------------------------------
(* The request handler around the queue (handleGenericInference, and one    *)
(* dispatch attempt of handleChatCompletions).                              *)

Arrive(r) ==
    /\ rpc[r] = "start"
    /\ \/ \E p \in Providers :
             /\ Admits(p, r)
             /\ addPending(p, r)
             /\ prov' = [prov EXCEPT ![r] = p]
             /\ rpc' = [rpc EXCEPT ![r] = "dispatch"]
             /\ UNCHANGED provVars
       \/ /\ ReserveFails(r)
          /\ rpc' = [rpc EXCEPT ![r] = "enqueue"]
          /\ UNCHANGED prov
    /\ UNCHANGED <<stale, queueVars, drainVars>>

WriteOK(r) ==
    /\ rpc[r] = "dispatch"
    /\ rpc' = [rpc EXCEPT ![r] = "running"]
    /\ UNCHANGED <<prov, stale, queueVars, pending, provVars, drainVars>>

(* The encryption errors call SetProviderIdle without RemovePending.        *)
EncryptFails(r) ==
    /\ EncryptFaults
    /\ rpc[r] = "dispatch"
    /\ rpc' = [rpc EXCEPT ![r] = "left"]
    /\ prov' = [prov EXCEPT ![r] = None]
    /\ StartDrain(Handler(r), prov[r])
    /\ UNCHANGED <<stale, queueVars, pending, provVars>>

(* Mutant: the cleanup forgets the slot.                                    *)
ReturnKeepingSlot(r) ==
    /\ rpc[r] \in {"dispatch", "running"}
    /\ rpc' = [rpc EXCEPT ![r] = "left"]
    /\ prov' = [prov EXCEPT ![r] = None]
    /\ StartDrain(Handler(r), prov[r])
    /\ UNCHANGED <<stale, queueVars, pending, provVars>>

(* A failed write, and the deferred cleanup once a response was relayed,    *)
(* failed, timed out or lost its client.                                    *)
Return(r) ==
    /\ rpc[r] \in {"dispatch", "running"}
    /\ rpc' = [rpc EXCEPT ![r] = "left"]
    /\ RemovePending(prov[r], r)
    /\ prov' = [prov EXCEPT ![r] = None]
    /\ StartDrain(Handler(r), prov[r])
    /\ UNCHANGED <<stale, queueVars, provVars>>

-----------------------------------------------------------------------------
(* drainQueuedRequestsForModels in thread t.  A nested drain (through       *)
(* SetProviderIdle) only starts when nothing is set aside, so it is the     *)
(* freed provider's models put in front of the models still to do.          *)

(* Mutant: an exhausted queue ends the model without requeueSkipped.        *)
ProceedWithoutRequeue(t, c, s) ==
    /\ skipped' = [skipped EXCEPT ![t] = IF c = None THEN <<>> ELSE s]
    /\ cur' = [cur EXCEPT ![t] = c]
    /\ dpc' = [dpc EXCEPT ![t] =
                  IF c # None THEN IF s # <<>> THEN "requeue" ELSE "check"
                  ELSE IF Len(todo[t]) = 1 THEN "none" ELSE "pop"]
    /\ todo' = [todo EXCEPT ![t] = IF c = None THEN Tail(@) ELSE @]

(* Where the drain goes once it holds request c with s set aside.           *)
Proceed(t, c, s) ==
    /\ skipped' = [skipped EXCEPT ![t] = s]
    /\ cur' = [cur EXCEPT ![t] = c]
    /\ dpc' = [dpc EXCEPT ![t] =
                  IF s # <<>> THEN "requeue"
                  ELSE IF c # None THEN "check"
                  ELSE IF Len(todo[t]) = 1 THEN "none" ELSE "pop"]
    /\ todo' = [todo EXCEPT ![t] = IF s = <<>> /\ c = None THEN Tail(@) ELSE @]

(* PopNextFresh: drops the stale prefix, takes the first fresh request; if  *)
(* there is none, the model is finished.                                    *)
Pop(t) ==
    LET m == Head(todo[t])
        q == queue[m]
    IN  /\ dpc[t] = "pop"
        /\ \E k \in 1..(Len(q) + 1) :
              /\ \A i \in 1..(k - 1) : q[i] \in stale
              /\ k <= Len(q) => q[k] \notin stale
              /\ Expire({q[i] : i \in 1..(k - 1)})
              /\ queue' = [queue EXCEPT ![m] = SubSeq(q, k + 1, Len(q))]
              /\ IF k <= Len(q)
                 THEN /\ cur' = [cur EXCEPT ![t] = q[k]]
                      /\ dpc' = [dpc EXCEPT ![t] = "reserve"]
                      /\ UNCHANGED <<skipped, todo>>
                 ELSE Proceed(t, None, skipped[t])
        /\ UNCHANGED <<rpc, prov, stale, pending, provVars, at>>

(* Mutant: every request popped is set aside, the assigned one too.         *)
DrainReserveAndSkip(t) ==
    /\ dpc[t] = "reserve"
    /\ \/ \E p \in Providers :
             /\ Admits(p, cur[t])
             /\ addPending(p, cur[t])
             /\ at' = [at EXCEPT ![t] = p]
             /\ Proceed(t, cur[t], Append(skipped[t], cur[t]))
             /\ UNCHANGED provVars
       \/ /\ ReserveFails(cur[t])
          /\ skipped' = [skipped EXCEPT ![t] = Append(@, cur[t])]
          /\ cur' = [cur EXCEPT ![t] = None]
          /\ dpc' = [dpc EXCEPT ![t] = "pop"]
          /\ UNCHANGED <<todo, at>>
    /\ UNCHANGED <<rpc, prov, stale, queueVars>>

DrainReserve(t) ==
    /\ dpc[t] = "reserve"
    /\ \/ \E p \in Providers :
             /\ Admits(p, cur[t])
             /\ addPending(p, cur[t])
             /\ at' = [at EXCEPT ![t] = p]
             /\ Proceed(t, cur[t], skipped[t])
             /\ UNCHANGED provVars
       \/ /\ ReserveFails(cur[t])
          /\ skipped' = [skipped EXCEPT ![t] = Append(@, cur[t])]
          /\ cur' = [cur EXCEPT ![t] = None]
          /\ dpc' = [dpc EXCEPT ![t] = "pop"]
          /\ UNCHANGED <<todo, at>>
    /\ UNCHANGED <<rpc, prov, stale, queueVars>>

(* requeueSkipped puts them back one by one, last first.                    *)
RequeueFront(t) ==
    LET s == skipped[t]
        r == s[Len(s)]
    IN  /\ dpc[t] = "requeue"
        /\ queue' = [queue EXCEPT ![ModelOf[r]] = <<r>> \o @]
        /\ Proceed(t, cur[t], SubSeq(s, 1, Len(s) - 1))
        /\ UNCHANGED <<rpc, prov, stale, respCh, done, pending, provVars, at>>

(* The waiter is gone: give the slot back and drain for that provider.      *)
Release(t) ==
    /\ RemovePending(at[t], cur[t])
    /\ dpc' = [dpc EXCEPT ![t] = "pop"]
    /\ todo' = [todo EXCEPT ![t] = IF at[t] \in registered THEN ModelsOf[at[t]] \o @ ELSE @]
    /\ cur' = [cur EXCEPT ![t] = None]
    /\ at' = [at EXCEPT ![t] = None]
    /\ UNCHANGED <<skipped, respCh>>

CheckDone(t) ==
    /\ dpc[t] = "check"
    /\ IF cur[t] \in done
       THEN Release(t)
       ELSE /\ dpc' = [dpc EXCEPT ![t] = "send"]
            /\ UNCHANGED <<todo, skipped, cur, at, respCh, pending>>
    /\ UNCHANGED <<rpc, prov, stale, done, queue, provVars>>

(* The second select: with room in the channel and DoneCh closed meanwhile  *)
(* either branch may run.                                                   *)
Send(t) ==
    /\ dpc[t] = "send"
    /\ \/ /\ respCh[cur[t]] = Empty
          /\ respCh' = [respCh EXCEPT ![cur[t]] = at[t]]
          /\ dpc' = [dpc EXCEPT ![t] = "pop"]
          /\ cur' = [cur EXCEPT ![t] = None]
          /\ at' = [at EXCEPT ![t] = None]
          /\ UNCHANGED <<pending, todo, skipped>>
       \/ /\ cur[t] \in done \/ respCh[cur[t]] # Empty
          /\ Release(t)
    /\ UNCHANGED <<rpc, prov, stale, done, queue, provVars>>

Drain(t) == Pop(t) \/ DrainReserve(t) \/ RequeueFront(t) \/ CheckDone(t) \/ Send(t)

-----------------------------------------------------------------------------
(* The provider's connection.                                               *)

(* handleComplete and handleInferenceError: only a request whose body was   *)
(* written to the provider can be answered.                                 *)
ProviderFinishes(p, r) ==
    /\ dpc[ReadLoop(p)] = "none"
    /\ r \in pending[p] /\ rpc[r] = "running"
    /\ RemovePending(p, r)
    /\ StartDrain(ReadLoop(p), p)
    /\ UNCHANGED <<rpc, prov, stale, queueVars, provVars>>

(* The limit is the default until a heartbeat carries a BackendCapacity,    *)
(* and then the tier of the memory last reported, whatever is pending.      *)
ReportCapacity(p) ==
    \/ UNCHANGED limit
    \/ \E n \in Tiers[p] : limit' = [limit EXCEPT ![p] = n]

(* Mutant: a heartbeat updates the slots and does not drain.                *)
HeartbeatOnly(p) ==
    /\ dpc[ReadLoop(p)] = "none"
    /\ p \in registered
    /\ \E ok \in IF p \in Flaky THEN SUBSET Models ELSE {Models} :
          usable' = {u \in usable : u[1] # p} \cup ({p} \X ok)
    /\ ReportCapacity(p)
    /\ UNCHANGED <<rpc, prov, stale, queueVars, pending, registered, trusted, drainVars>>

(* A heartbeat may report any slot states and, or not, a capacity.          *)
Heartbeat(p) ==
    /\ dpc[ReadLoop(p)] = "none"
    /\ p \in registered
    /\ \E ok \in IF p \in Flaky THEN SUBSET Models ELSE {Models} :
          usable' = {u \in usable : u[1] # p} \cup ({p} \X ok)
    /\ ReportCapacity(p)
    /\ StartDrain(ReadLoop(p), p)
    /\ UNCHANGED <<rpc, prov, stale, queueVars, pending, registered, trusted>>

RecordChallengeSuccess(p) ==
    /\ dpc[ChallengeLoop(p)] = "none"
    /\ p \in registered
    /\ trusted' = trusted \cup {p}
    /\ StartDrain(ChallengeLoop(p), p)
    /\ UNCHANGED <<rpc, prov, stale, queueVars, pending, registered, usable, limit>>

RecordChallengeFailure(p) ==
    /\ dpc[ChallengeLoop(p)] = "none"
    /\ p \in registered \cap trusted \cap Flaky
    /\ trusted' = trusted \ {p}
    /\ UNCHANGED <<rpc, prov, stale, queueVars, pending, registered, usable, limit, drainVars>>

(* Disconnect drops the provider from the map, and in a second critical     *)
(* section fails and forgets what was pending on it.  Its challenge result, *)
(* slots and capacity are not looked at again.                              *)
Disconnect(p) ==
    /\ p \in registered \cap Flaky
    /\ registered' = registered \ {p}
    /\ trusted' = trusted \ {p}
    /\ usable' = {u \in usable : u[1] # p}
    /\ limit' = [limit EXCEPT ![p] = DefaultMaxConcurrent]
    /\ UNCHANGED <<rpc, prov, stale, queueVars, pending, drainVars>>

ClosePending(p) ==
    /\ p \notin registered /\ pending[p] # {}
    /\ pending' = [pending EXCEPT ![p] = {}]
    /\ UNCHANGED <<rpc, prov, stale, queueVars, provVars, drainVars>>

HandlerStep(r) ==
    Arrive(r) \/ Enqueue(r) \/ TakeAnswer(r) \/ Remove(r) \/ WriteOK(r) \/ EncryptFails(r) \/ Return(r)

ProviderStep(p) ==
    \/ \E r \in Requests : ProviderFinishes(p, r)
    \/ Heartbeat(p)
    \/ RecordChallengeSuccess(p)
    \/ RecordChallengeFailure(p)
    \/ Disconnect(p)
    \/ ClosePending(p)

Next ==
    \/ \E r \in Requests : HandlerStep(r) \/ GrowStale(r) \/ GiveUp(r)
    \/ \E t \in Threads : Drain(t)
    \/ \E p \in Providers : ProviderStep(p)

Spec == Init /\ [][Next]_vars

(* Goroutines run, HTTP handlers end (at the latest by their timeout) and a *)
(* sound provider keeps sending heartbeats.                                 *)
Fairness ==
    /\ \A r \in Requests : WF_vars(HandlerStep(r))
    /\ \A t \in Threads : WF_vars(Drain(t))
    /\ \A p \in Providers \ Flaky : WF_vars(Heartbeat(p))

FairSpec == Spec /\ Fairness

-----------------------------------------------------------------------------

TypeOK ==
    /\ rpc \in [Requests -> {"start", "enqueue", "waiting", "remove", "dispatch", "running", "left"}]
    /\ prov \in [Requests -> Providers \cup {None}]
    /\ respCh \in [Requests -> Providers \cup {Empty, Nil}]
    /\ done \subseteq Requests
    /\ stale \subseteq Requests
    /\ queue \in [Models -> Seq(Requests)]
    /\ pending \in [Providers -> SUBSET Requests]
    /\ registered \subseteq Providers
    /\ trusted \subseteq Providers
    /\ usable \subseteq Providers \X Models
    /\ limit \in [Providers -> Nat]
    /\ dpc \in [Threads -> {"none", "pop", "reserve", "requeue", "check", "send"}]
    /\ todo \in [Threads -> Seq(Models)]
    /\ skipped \in [Threads -> Seq(Requests)]
    /\ cur \in [Threads -> Requests \cup {None}]
    /\ at \in [Threads -> Providers \cup {None}]

Held(t) == Elements(skipped[t]) \cup ({cur[t]} \ {None})

Queued(r) == r \in Elements(queue[ModelOf[r]])

(* A request that still waits for an answer can be reached by a drain: it   *)
(* is in its queue or in the hands of one, at every point between           *)
(* PopNextFresh, requeueSkipped and the delivery, whoever else drains,      *)
(* enqueues or gives up meanwhile.                                          *)
NoLostWaiter ==
    \A r \in Requests :
        (rpc[r] = "waiting" /\ respCh[r] = Empty) =>
            Queued(r) \/ \E t \in Threads : r \in Held(t)

(* No request is in two places at once: not twice in a queue, not in two    *)
(* drains, not queued while a drain holds it.                               *)
NoDuplicate ==
    /\ \A m \in Models : \A i, j \in DOMAIN queue[m] : queue[m][i] = queue[m][j] => i = j
    /\ \A t \in Threads : \A i, j \in DOMAIN skipped[t] : skipped[t][i] = skipped[t][j] => i = j
    /\ \A t, u \in Threads : t # u => Held(t) \cap Held(u) = {}
    /\ \A t \in Threads : cur[t] \notin Elements(skipped[t])
    /\ \A t \in Threads : \A r \in Held(t) : ~Queued(r)

(* Every waiting request is in exactly one place where a drain finds it.   *)
QueueExact == NoLostWaiter /\ NoDuplicate

(* A request occupies a slot of one provider at most, although handlers and *)
(* drains reserve for it independently.                                     *)
OneProvider ==
    \A p, q \in Providers : pending[p] \cap pending[q] # {} => p = q

(* Handlers and drains never take a provider past maxConcurrency as it      *)
(* stands.  A heartbeat may lower the limit below what is pending; the      *)
(* provider is then given nothing until enough of it has ended.             *)
WithinCapacity ==
    [][\A p \in Providers :
          Cardinality(pending'[p]) > Cardinality(pending[p]) => Cardinality(pending'[p]) <= limit[p]]_vars

(* A request that was told its provider has a slot there, unless that       *)
(* provider disconnected: the answer in the channel, and the provider the   *)
(* handler goes on to write to, are never a reservation somebody released.  *)
AssignmentHoldsSlot ==
    \A r \in Requests, p \in registered :
        \/ respCh[r] = p
        \/ rpc[r] = "dispatch" /\ prov[r] = p
        => r \in pending[p]

(* A request holds one slot at most, and does hold the one it was told of. *)
SlotsAreRight == OneProvider /\ AssignmentHoldsSlot

(* Only requests in flight occupy slots ("pendingCount returns the number   *)
(* of in-flight requests"): when a handler is gone its slot is free, or a   *)
(* drain still holds the reservation and is about to release it.            *)
InFlightOnly ==
    \A p \in Providers : \A r \in pending[p] :
        rpc[r] # "left" \/ \E t \in Threads : cur[t] = r

(* A waiting request is answered once only sound providers are left.  The   *)
(* drain of the request that freed the slot may run before the waiter is    *)
(* enqueued, or while another drain has it set aside; the next heartbeat    *)
(* makes up for it.  (A provider that fails a challenge each time it was    *)
(* selected can hold a request back for as long as it stays connected.)     *)
Served ==
    <>[](registered \cap Flaky = {}) =>
        \A r \in Requests : rpc[r] = "waiting" ~> rpc[r] # "waiting"

=============================================================================
