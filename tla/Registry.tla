------------------------------ MODULE Registry ------------------------------
(***************************************************************************)
(* Which providers the coordinator counts as present                       *)
(* (coordinator/registry/registry.go, coordinator/api/provider.go).        *)
(*                                                                         *)
(* Every WebSocket gets an id of its own, so a machine that reconnects is  *)
(* a second provider until the first is dropped.  Four kinds of goroutines *)
(* change the provider map: the read loop of each connection (Register,    *)
(* duplicates, heartbeats, the final Disconnect), request handlers, the    *)
(* verifiers that call MarkUntrusted, and the eviction loop.  Counters are *)
(* kept beside the map and have to agree with it.                          *)
(***************************************************************************)
EXTENDS Integers, FiniteSets

CONSTANTS
    Conns,      \* connections, that is provider ids
    Serials,    \* machine serial numbers
    NoSerial,   \* the empty serial number
    SerialOf,   \* serial number in the attestation of each connection
    Models,
    ModelsOf,   \* models each connection registers, catalog filter applied
    MaxPending, \* bound: requests reserved on a provider
    MaxEntries  \* connection -> bound: register messages it sends

ASSUME RegistryAssumption ==
    /\ IsFiniteSet(Conns)
    /\ NoSerial \notin Serials
    /\ SerialOf \in [Conns -> Serials \cup {NoSerial}]
    /\ ModelsOf \in [Conns -> SUBSET Models]
    /\ MaxPending \in Nat
    /\ MaxEntries \in [Conns -> Nat]

VARIABLES
    reg,            \* keys of Registry.providers
    status,         \* Provider.Status
    pending,        \* size of pendingReqs
    result,         \* AttestationResult: none, or parsed and found invalid or valid
    pc,             \* what the read loop of each connection is doing
    dups,           \* toEvict of a running DisconnectDuplicatesBySerial
    open,           \* connections whose WebSocket is open
    stale,          \* those of reg without a heartbeat for the eviction timeout
    sweep,          \* providers the eviction loop has found stale
    entries,        \* how many register messages each connection has sent
    replaced,       \* entries overwritten while they were counted
    onlineCount,
    modelProviders

conns == <<pc, dups, open>>
counts == <<onlineCount, modelProviders>>
history == <<entries, replaced>>
vars == <<reg, status, pending, result, conns, stale, sweep, counts, history>>

Init ==
    /\ reg = {} /\ stale = {} /\ sweep = {} /\ open = {}
    /\ status = [c \in Conns |-> "online"]
    /\ pending = [c \in Conns |-> 0]
    /\ result = [c \in Conns |-> "none"]
    /\ pc = [c \in Conns |-> "new"]
    /\ dups = [c \in Conns |-> {}]
    /\ entries = [c \in Conns |-> 0] /\ replaced = {}
    /\ onlineCount = 0
    /\ modelProviders = [m \in Models |-> 0]

Goto(c, at) == pc' = [pc EXCEPT ![c] = at]

-----------------------------------------------------------------------------
(* The counters, changed under the registry's write lock.  An entry of      *)
(* modelProviders that reaches 0 is deleted, and a missing one stays.       *)

CountIn(c) ==
    /\ onlineCount' = onlineCount + 1
    /\ modelProviders' = [m \in Models |->
           IF m \in ModelsOf[c] THEN modelProviders[m] + 1 ELSE modelProviders[m]]

CountOut(c) ==
    /\ onlineCount' = onlineCount - 1
    /\ modelProviders' = [m \in Models |->
           IF m \in ModelsOf[c] /\ modelProviders[m] > 0
           THEN modelProviders[m] - 1 ELSE modelProviders[m]]

(* Mutant: a provider is counted out whatever its status.                   *)
DropCounting(c) ==
    /\ reg' = reg \ {c}
    /\ stale' = stale \ {c}
    /\ pending' = [pending EXCEPT ![c] = IF c \in reg THEN 0 ELSE @]
    /\ IF c \in reg THEN CountOut(c) ELSE UNCHANGED counts

(* Registry.Disconnect: a provider that is not in the map is left alone, an *)
(* untrusted one was counted out before.  Its requests end with an error.   *)
Drop(c) ==
    /\ reg' = reg \ {c}
    /\ stale' = stale \ {c}
    /\ pending' = [pending EXCEPT ![c] = IF c \in reg THEN 0 ELSE @]
    /\ IF c \in reg /\ status[c] # "untrusted" THEN CountOut(c) ELSE UNCHANGED counts

-----------------------------------------------------------------------------
(* The read loop of a connection.                                           *)

Present(c) == c \in reg /\ status[c] # "untrusted"

(* Registry.Register, for the first register message of a connection and    *)
(* for any further one: the entry of the connection is replaced by a fresh  *)
(* one and counted, whether or not there was one that is counted already.   *)
Register(c) ==
    /\ pc[c] \in {"new", "run"}
    /\ entries[c] < MaxEntries[c]
    /\ entries' = [entries EXCEPT ![c] = @ + 1]
    /\ replaced' = IF Present(c) THEN replaced \cup {<<c, entries[c]>>} ELSE replaced
    /\ open' = IF pc[c] = "new" THEN open \cup {c} ELSE open
    /\ reg' = reg \cup {c}
    /\ status' = [status EXCEPT ![c] = "online"]
    /\ pending' = [pending EXCEPT ![c] = 0]
    /\ result' = [result EXCEPT ![c] = "none"]
    /\ stale' = stale \ {c}
    /\ CountIn(c)
    /\ Goto(c, "verify")
    /\ UNCHANGED <<dups, sweep>>

(* Registry.MarkUntrusted                                                   *)
Distrust(c) ==
    IF c \in reg /\ status[c] # "untrusted"
    THEN status' = [status EXCEPT ![c] = "untrusted"] /\ CountOut(c)
    ELSE UNCHANGED <<status, counts>>

(* verifyProviderAttestation: without a valid attestation the provider is   *)
(* kept in Open Mode, or marked untrusted when a binary hash policy is set. *)
Verify(c) ==
    /\ pc[c] = "verify"
    /\ \/ /\ \E r \in {"none", "invalid"} : result' = [result EXCEPT ![c] = r]
          /\ Goto(c, "run")
          /\ Distrust(c) \/ UNCHANGED <<status, counts>>
       \/ /\ result' = [result EXCEPT ![c] = "valid"]
          /\ Goto(c, "list")
          /\ UNCHANGED <<status, counts>>
    /\ UNCHANGED <<reg, pending, dups, open, stale, sweep, history>>

SameMachine(c, d) == c # d /\ SerialOf[c] = SerialOf[d] /\ SerialOf[c] # NoSerial

(* Mutant: only connections that have finished registering are looked at.   *)
ListDuplicatesRunning(c) ==
    /\ pc[c] = "list"
    /\ dups' = [dups EXCEPT ![c] =
           {d \in reg : SameMachine(c, d) /\ result[d] # "none" /\ pc[d] = "run"}]
    /\ Goto(c, "evict")
    /\ UNCHANGED <<reg, status, pending, result, open, stale, sweep, counts, history>>

(* DisconnectDuplicatesBySerial, its first pass.                            *)
ListDuplicates(c) ==
    /\ pc[c] = "list"
    /\ dups' = [dups EXCEPT ![c] = {d \in reg : SameMachine(c, d) /\ result[d] # "none"}]
    /\ Goto(c, "evict")
    /\ UNCHANGED <<reg, status, pending, result, open, stale, sweep, counts, history>>

(* Its second pass; a provider still in the map has its WebSocket closed.   *)
EvictDuplicate(c, d) ==
    /\ pc[c] = "evict" /\ d \in dups[c]
    /\ dups' = [dups EXCEPT ![c] = @ \ {d}]
    /\ Drop(d)
    /\ open' = IF d \in reg THEN open \ {d} ELSE open
    /\ UNCHANGED <<status, result, pc, sweep, history>>

Registered(c) ==
    /\ pc[c] = "evict" /\ dups[c] = {}
    /\ Goto(c, "run")
    /\ UNCHANGED <<reg, status, pending, result, dups, open, stale, sweep, counts, history>>

(* Mutant: an untrusted provider that is heard of again is counted back in. *)
HeartbeatRevives(c, reported) ==
    /\ pc[c] = "run" /\ c \in open
    /\ IF c \in reg
       THEN /\ stale' = stale \ {c}
            /\ status' = [status EXCEPT ![c] = IF reported = "idle" THEN "online" ELSE "serving"]
            /\ IF status[c] = "untrusted" THEN CountIn(c) ELSE UNCHANGED counts
       ELSE UNCHANGED <<stale, status, counts>>
    /\ UNCHANGED <<reg, pending, result, conns, sweep, history>>

(* A heartbeat of a provider that is no longer in the map is ignored, and   *)
(* so is the status reported by an untrusted one.                           *)
Heartbeat(c, reported) ==
    /\ pc[c] = "run" /\ c \in open
    /\ IF c \in reg
       THEN /\ stale' = stale \ {c}
            /\ status' = IF status[c] = "untrusted" THEN status
                         ELSE [status EXCEPT ![c] =
                                 IF reported = "idle" THEN "online" ELSE "serving"]
       ELSE UNCHANGED <<stale, status>>
    /\ UNCHANGED <<reg, pending, result, conns, sweep, counts, history>>

(* The read loop ends, with a deferred Disconnect, once the WebSocket does. *)
Leave(c) ==
    /\ pc[c] = "run" /\ c \notin open
    /\ Drop(c)
    /\ Goto(c, "closed")
    /\ UNCHANGED <<status, result, dups, open, sweep, history>>

ReadLoop(c) ==
    \/ Verify(c) \/ ListDuplicates(c) \/ Registered(c) \/ Leave(c)
    \/ \E d \in Conns : EvictDuplicate(c, d)

-----------------------------------------------------------------------------
(* Request handlers, verifiers, the eviction loop, the network and time.    *)

(* ReserveProviderEx on a provider it found in the map.                     *)
ReserveProvider(c) ==
    /\ c \in reg /\ status[c] # "untrusted" /\ pending[c] < MaxPending
    /\ pending' = [pending EXCEPT ![c] = @ + 1]
    /\ status' = [status EXCEPT ![c] = "serving"]
    /\ UNCHANGED <<reg, result, conns, stale, sweep, counts, history>>

RemovePending(c) ==
    /\ pending[c] > 0
    /\ pending' = [pending EXCEPT ![c] = @ - 1]
    /\ UNCHANGED <<reg, status, result, conns, stale, sweep, counts, history>>

SetProviderIdle(c) ==
    /\ c \in reg
    /\ pending[c] = 0 /\ status[c] # "untrusted"
    /\ status' = [status EXCEPT ![c] = "online"]
    /\ UNCHANGED <<reg, pending, result, conns, stale, sweep, counts, history>>

(* From the challenge loop, the MDM check or a chunk in plain text, any of  *)
(* which may come after the provider was dropped.                           *)
MarkUntrusted(c) ==
    /\ pc[c] # "new"
    /\ Distrust(c)
    /\ UNCHANGED <<reg, pending, result, conns, stale, sweep, history>>

(* evictStale: collects under the read lock, disconnects afterwards.        *)
EvictionScan ==
    /\ sweep = {}
    /\ sweep' = reg \cap stale
    /\ UNCHANGED <<reg, status, pending, result, conns, stale, counts, history>>

Evict(c) ==
    /\ c \in sweep
    /\ sweep' = sweep \ {c}
    /\ Drop(c)
    /\ UNCHANGED <<status, result, conns, history>>

LoseConnection(c) ==
    /\ c \in open
    /\ open' = open \ {c}
    /\ UNCHANGED <<reg, status, pending, result, pc, dups, stale, sweep, counts, history>>

TimePasses(c) ==
    /\ c \in reg \ stale
    /\ stale' = stale \cup {c}
    /\ UNCHANGED <<reg, status, pending, result, conns, sweep, counts, history>>

Next ==
    \/ EvictionScan
    \/ \E c \in Conns :
          \/ Register(c) \/ ReadLoop(c)
          \/ \E s \in {"idle", "serving"} : Heartbeat(c, s)
          \/ ReserveProvider(c) \/ RemovePending(c) \/ SetProviderIdle(c)
          \/ MarkUntrusted(c) \/ Evict(c)
          \/ LoseConnection(c) \/ TimePasses(c)

Spec == Init /\ [][Next]_vars

EvictionLoop == EvictionScan \/ \E c \in Conns : Evict(c)

(* The eviction ticker fires for ever and read loops run; no machine has to *)
(* connect, to send heartbeats or to fall silent.                           *)
Fairness == WF_vars(EvictionLoop) /\ \A c \in Conns : WF_vars(ReadLoop(c))

FairSpec == Spec /\ Fairness

-----------------------------------------------------------------------------

TypeOK ==
    /\ reg \subseteq Conns /\ open \subseteq Conns
    /\ stale \subseteq Conns /\ sweep \subseteq Conns
    /\ status \in [Conns -> {"online", "serving", "untrusted"}]
    /\ pending \in [Conns -> 0..MaxPending]
    /\ result \in [Conns -> {"none", "invalid", "valid"}]
    /\ pc \in [Conns -> {"new", "verify", "list", "evict", "run", "closed"}]
    /\ dups \in [Conns -> SUBSET Conns]
    /\ entries \in [Conns -> Nat] /\ replaced \subseteq Conns \X Nat
    /\ onlineCount \in Int
    /\ modelProviders \in [Models -> Nat]

(* onlineCount and modelProviders always say what a recount of the provider *)
(* map would, and one more for every entry that a repeated register message *)
(* overwrote while it was counted: no path that drops or distrusts a        *)
(* provider counts it out twice or forgets to ("an onlineCount              *)
(* double-decrement", Heartbeat).                                           *)
CountsExact ==
    /\ onlineCount = Cardinality({c \in Conns : Present(c)}) + Cardinality(replaced)
    /\ \A m \in Models :
          modelProviders[m] = Cardinality({c \in Conns : Present(c) /\ m \in ModelsOf[c]})
                                + Cardinality({e \in replaced : m \in ModelsOf[e[1]]})

(* "an untrusted provider must NOT transition back to StatusOnline": once   *)
(* untrusted, the entry of a connection stays so, whatever heartbeats,      *)
(* finished requests or late verdicts follow.  Only another register        *)
(* message, which makes a new entry, ends it.                               *)
UntrustedIsFinal ==
    [][\A c \in Conns :
          status[c] = "untrusted" /\ entries'[c] = entries[c] => status'[c] = "untrusted"]_vars

(* "prevents multiple WebSocket connections from the same physical machine  *)
(* from competing": however their registrations overlap, two attested       *)
(* connections of a machine are never both registered for good.             *)
OnePerMachine ==
    \A c, d \in reg :
        ~ /\ SameMachine(c, d)
          /\ result[c] = "valid" /\ result[d] = "valid"
          /\ pc[c] = "run" /\ pc[d] = "run"

(* A provider whose WebSocket is gone, or that has gone silent: its own     *)
(* read loop or the eviction loop drops it, unless it is heard of again.    *)
Dead(c) == c \in reg /\ (c \notin open \/ c \in stale)

=============================================================================
