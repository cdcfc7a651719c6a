----------------------------- MODULE EngineHost -----------------------------
(***************************************************************************)
(* The in-process engines of a provider (provider/src/inference.rs).       *)
(*                                                                         *)
(* Every SharedEngine owns one OS thread that takes commands from an       *)
(* unbounded queue, in order, and answers each on a one-shot channel.  The *)
(* engine's own flag `loaded` lives in Rust, the model object in a Python  *)
(* dictionary that all engines share and that is keyed by the model, not   *)
(* by the engine.  A streamed token goes through a bounded channel to the  *)
(* task of its request, and the thread keeps Python's global lock while it *)
(* waits for room there.                                                   *)
(***************************************************************************)
EXTENDS Integers, Sequences, FiniteSets

CONSTANTS
    Requests,
    Models,      \* models this provider has slots for
    MaxEngines,  \* bound: SharedEngines ever created
    MaxTokens,   \* bound: tokens the model generates for a request
    TokenCap     \* capacity of a token channel (4 in the code)

ASSUME EngineAssumption ==
    /\ MaxEngines \in Nat /\ {MaxTokens, TokenCap} \subseteq Nat \ {0}
    /\ Cardinality(Models) <= MaxEngines

Engines == 1 .. MaxEngines
NoEngine == 0
Callers == Requests \cup {"events", "schedule"}

VARIABLES
    faults,     \* may the SIP check, loads, generations, encryption fail?
    of,         \* model of each engine created so far
    loaded,     \* InProcessEngine.loaded
    cmds,       \* command queue of each worker thread; its head is being run
    gen,        \* what a streaming generation at the head is doing
    store,      \* the engine whose object the Python dictionary has per model
    engines,    \* SharedInprocessEngineMap
    reply,      \* one-shot channel each caller waits on
    tokens,     \* tokens in the channel of each request
    produced,   \* chunks of the answer generated for each request
    rxOpen      \* does the task still hold the receiving end?

hostVars == <<faults, of, loaded, cmds, gen, store, engines, reply, tokens, produced, rxOpen>>

Command == [op : {"load", "generate", "stream", "unload", "isloaded"}, who : Callers]

HostTypeOK ==
    /\ faults \in BOOLEAN
    /\ of \in UNION {[1 .. n -> Models] : n \in 0 .. MaxEngines}
    /\ loaded \in [Engines -> BOOLEAN]
    /\ cmds \in [Engines -> Seq(Command)]
    /\ gen \in [Engines -> {"idle", "run", "send"}]
    /\ store \in [Models -> Engines \cup {NoEngine}]
    /\ engines \in [Models -> Engines \cup {NoEngine}]
    /\ reply \in [Callers -> {"none", "wait", "ok", "err"}]
    /\ tokens \in [Requests -> 0 .. TokenCap]
    /\ produced \in [Requests -> 0 .. MaxTokens]
    /\ rxOpen \in [Requests -> BOOLEAN]

(* Phase 2 of cmd_serve ran get_or_load_inprocess_engine once for every     *)
(* slot; a model in `failed` did not load and has no engine in the map.     *)
HostInit ==
    \E order \in {f \in [1 .. Cardinality(Models) -> Models] : \A m \in Models : \E i \in DOMAIN f : f[i] = m},
       failed \in (IF faults THEN SUBSET Models ELSE {{}}) :
        LET Ready(i) == i \in DOMAIN order /\ order[i] \notin failed
            Holds(m) == IF m \in failed THEN NoEngine ELSE CHOOSE i \in DOMAIN order : order[i] = m
        IN  /\ of = order
            /\ loaded = [e \in Engines |-> Ready(e)]
            /\ store = [m \in Models |-> Holds(m)]
            /\ engines = [m \in Models |-> Holds(m)]
            /\ cmds = [e \in Engines |-> <<>>]
            /\ gen = [e \in Engines |-> "idle"]
            /\ reply = [c \in Callers |-> "none"]
            /\ tokens = [r \in Requests |-> 0]
            /\ produced = [r \in Requests |-> 0]
            /\ rxOpen = [r \in Requests |-> FALSE]

-----------------------------------------------------------------------------
(* The callers' side: a command is queued and its reply awaited.            *)

Queued(e, op, who) == [cmds EXCEPT ![e] = Append(@, [op |-> op, who |-> who])]
Waits(who) == [reply EXCEPT ![who] = "wait"]

-----------------------------------------------------------------------------
(* The worker threads.                                                      *)

Cur(e) == Head(cmds[e])
Busy(e, op) == cmds[e] # <<>> /\ Cur(e).op = op

(* A thread that waits for room in a full token channel does so inside      *)
(* Python::with_gil, so no other thread can run Python meanwhile.           *)
GilFree(e) ==
    \A f \in Engines \ {e} :
        ~(/\ gen[f] = "send"
          /\ rxOpen[Cur(f).who]
          /\ tokens[Cur(f).who] = TokenCap)

(* A reply to a caller that has gone away is lost.                          *)
Answer(e, result) ==
    /\ reply' = [reply EXCEPT ![Cur(e).who] = IF @ = "wait" THEN result ELSE @]
    /\ cmds' = [cmds EXCEPT ![e] = Tail(@)]

(* InProcessEngine.load: detect_engine, then load_vllm_mlx puts the new     *)
(* object under the model's key, over whatever is there.                    *)
Load(e) ==
    /\ Busy(e, "load") /\ GilFree(e)
    /\ \/ /\ store' = [store EXCEPT ![of[e]] = e]
          /\ loaded' = [loaded EXCEPT ![e] = TRUE]
          /\ Answer(e, "ok")
       \/ /\ faults
          /\ Answer(e, "err")
          /\ UNCHANGED <<store, loaded>>
    /\ UNCHANGED <<faults, of, gen, engines, tokens, produced, rxOpen>>

(* unload_vllm_mlx pops the entry under the model's key, whichever engine   *)
(* put it there.                                                            *)
UnloadPop(e) == store' = [store EXCEPT ![of[e]] = NoEngine]

(* InProcessEngine.unload: returns early when not loaded.                   *)
Unload(e) ==
    /\ Busy(e, "unload")
    /\ \/ /\ ~loaded[e]
          /\ UNCHANGED <<store, loaded>>
       \/ /\ loaded[e] /\ GilFree(e)
          /\ UnloadPop(e)
          /\ loaded' = [loaded EXCEPT ![e] = FALSE]
    /\ Answer(e, "ok")
    /\ UNCHANGED <<faults, of, gen, engines, tokens, produced, rxOpen>>

IsLoaded(e) ==
    /\ Busy(e, "isloaded")
    /\ Answer(e, IF loaded[e] THEN "ok" ELSE "err")
    /\ UNCHANGED <<faults, of, loaded, gen, store, engines, tokens, produced, rxOpen>>

(* InProcessEngine.generate: the whole answer in one call.  It fails when   *)
(* the engine is not loaded, when the dictionary has no object under the    *)
(* key (KeyError), and when the model does.                                 *)
Generate(e) ==
    /\ Busy(e, "generate")
    /\ loaded[e] => GilFree(e)
    /\ \/ /\ loaded[e] /\ store[of[e]] # NoEngine
          /\ produced' = [produced EXCEPT ![Cur(e).who] = 1]
          /\ Answer(e, "ok")
       \/ /\ faults \/ ~loaded[e] \/ store[of[e]] = NoEngine
          /\ Answer(e, "err")
          /\ UNCHANGED produced
    /\ UNCHANGED <<faults, of, loaded, gen, store, engines, tokens, rxOpen>>

(* InProcessEngine.stream_generate: the set-up code.                        *)
StreamSetup(e) ==
    /\ Busy(e, "stream") /\ gen[e] = "idle"
    /\ loaded[e] => GilFree(e)
    /\ IF loaded[e] /\ store[of[e]] # NoEngine
       THEN gen' = [gen EXCEPT ![e] = "run"] /\ UNCHANGED <<cmds, reply>>
       ELSE Answer(e, "err") /\ UNCHANGED gen
    /\ UNCHANGED <<faults, of, loaded, store, engines, tokens, produced, rxOpen>>

(* One round of its loop: the next token, or the sentinel and the counts,   *)
(* or an exception.                                                         *)
StreamNext(e) ==
    /\ gen[e] = "run" /\ GilFree(e)
    /\ LET r == Cur(e).who
       IN  \/ /\ produced[r] < MaxTokens
              /\ produced' = [produced EXCEPT ![r] = @ + 1]
              /\ gen' = [gen EXCEPT ![e] = "send"]
              /\ UNCHANGED <<cmds, reply>>
           \/ /\ produced[r] = MaxTokens \/ faults
              /\ gen' = [gen EXCEPT ![e] = "idle"]
              /\ Answer(e, IF produced[r] = MaxTokens THEN "ok" ELSE "err")
              /\ UNCHANGED produced
    /\ UNCHANGED <<faults, of, loaded, store, engines, tokens, rxOpen>>

(* blocking_send of a token: waits for room, fails once the receiver is     *)
(* dropped, which ends the generation.                                      *)
StreamSend(e) ==
    /\ gen[e] = "send"
    /\ LET r == Cur(e).who
       IN  \/ /\ rxOpen[r] /\ tokens[r] < TokenCap
              /\ tokens' = [tokens EXCEPT ![r] = @ + 1]
              /\ gen' = [gen EXCEPT ![e] = "run"]
              /\ UNCHANGED <<cmds, reply>>
           \/ /\ ~rxOpen[r]
              /\ gen' = [gen EXCEPT ![e] = "idle"]
              /\ Answer(e, "err")
              /\ UNCHANGED tokens
    /\ UNCHANGED <<faults, of, loaded, store, engines, produced, rxOpen>>

Worker(e) ==
    \/ Load(e) \/ Unload(e) \/ IsLoaded(e) \/ Generate(e)
    \/ StreamSetup(e) \/ StreamNext(e) \/ StreamSend(e)

=============================================================================
