------------------------------- MODULE Agent -------------------------------
(***************************************************************************)
(* A provider that is serving: the WebSocket client                        *)
(* (provider/src/coordinator.rs), the event loop, the request tasks and    *)
(* the schedule loop (provider/src/main.rs, cmd_serve and                  *)
(* handle_inprocess_request), and the engines of EngineHost.               *)
(*                                                                         *)
(* The actors share bounded channels: the client puts events into eventQ   *)
(* and takes messages from outQ, the event loop and the tasks put messages *)
(* into outQ, the tasks report on doneQ.  Every send waits for room.  The  *)
(* coordinator is the environment: it sends requests and cancellations,    *)
(* hears the messages, and may drop the connection at any time.            *)
(***************************************************************************)
EXTENDS EngineHost

CONSTANTS
    EventCap,   \* capacity of the event channel (64 in the code)
    OutCap,     \* capacity of the outbound channel (64)
    DoneCap,    \* capacity of the done channel (64)
    Plans       \* what a behaviour may contain, see Plan

(* The requests that come, how many connections are made and how many       *)
(* schedule windows close (bounds), and whether requests are cancelled,     *)
(* things fail, an idle timeout is configured, and Ctrl-C may be pressed.   *)
Plan == [requests : SUBSET Requests, sessions : Nat \ {0}, windows : Nat,
         cancels : BOOLEAN, faults : BOOLEAN, idle : BOOLEAN, stop : BOOLEAN]

ASSUME AgentAssumption ==
    /\ {EventCap, OutCap, DoneCap} \subseteq Nat \ {0}
    /\ Plans \subseteq Plan
    /\ "none" \notin Requests

VARIABLES
    plan,       \* the plan of this behaviour
    cpc,        \* where the client is
    cevent,     \* the event it is sending
    session,    \* connections made so far
    asked,      \* session that carried each request, 0 if none did
    cancelled,  \* requests the coordinator cancelled
    heard,      \* messages of a request the coordinator got on its session
    eventQ, outQ, doneQ,
    epc,        \* where the event loop is
    ereq,       \* the request it is handling
    emodel,     \* slot found for it
    eengine,    \* engine it is loading
    inflight, active,
    backend,    \* tri-state backend_running flag
    task,       \* where the task of each request is
    engineOf,   \* engine each task was given
    spc,        \* where the schedule loop is
    windows,    \* schedule windows that have closed
    toUnload,   \* engines an unload_inprocess_engines has still to unload
    proc        \* the process: up, stopping or exited

coordVars == <<plan, session, asked, cancelled, heard>>
clientVars == <<cpc, cevent, coordVars>>
callVars == <<ereq, emodel, eengine>>
flagVars == <<inflight, active, backend>>
loopVars == <<epc, callVars, flagVars>>
taskVars == <<task, engineOf>>
schedVars == <<spc, windows, toUnload>>
vars == <<hostVars, clientVars, eventQ, outQ, doneQ, loopVars, taskVars, schedVars, proc>>

NoReq == "none"
NoEvent == [type |-> "none"]
Event == [type : {"disconnected"}] \cup [type : {"request", "cancel"}, req : Requests]
Kinds == {"accepted", "chunk", "done", "complete", "error"}
Ends == {"complete", "error"}

Init ==
    /\ plan \in Plans /\ faults = plan.faults
    /\ HostInit
    /\ cpc = "connect" /\ cevent = NoEvent /\ session = 0
    /\ asked = [r \in Requests |-> 0] /\ cancelled = {}
    /\ heard = [r \in Requests |-> <<>>]
    /\ eventQ = <<>> /\ outQ = <<>> /\ doneQ = <<>>
    /\ epc = "select" /\ ereq = NoReq /\ emodel = NoReq /\ eengine = NoEngine
    /\ inflight = {} /\ active = FALSE /\ backend = "running"
    /\ task = [r \in Requests |-> "none"]
    /\ engineOf = [r \in Requests |-> NoEngine]
    /\ spc = "open" /\ windows = 0
    /\ toUnload = [w \in {"events", "schedule"} |-> {}]
    /\ proc = "up"

Msg(r, kind) == [req |-> r, kind |-> kind]
Room == Len(outQ) < OutCap
Say(r, kind) == Room /\ outQ' = Append(outQ, Msg(r, kind))

-----------------------------------------------------------------------------
(* The client: run around connect_and_run.  Heartbeats, pings and the       *)
(* answers to attestation challenges change nothing the actors share.       *)

notClient == <<hostVars, doneQ, loopVars, taskVars, schedVars, proc>>

(* Connects and writes Register, or fails to.  The event Connected is only  *)
(* logged by the event loop and left out.                                   *)
Connect ==
    /\ cpc = "connect" /\ proc = "up" /\ session < plan.sessions
    /\ session' = session + 1
    /\ \/ cpc' = "select"
       \/ cpc' = "lost" /\ session' < plan.sessions
    /\ UNCHANGED <<notClient, plan, cevent, asked, cancelled, heard, eventQ, outQ>>

(* event_tx.send(..).await: back to the select! once there is room.         *)
Deliver ==
    /\ cpc = "deliver" /\ Len(eventQ) < EventCap
    /\ eventQ' = Append(eventQ, cevent)
    /\ cpc' = "select" /\ cevent' = NoEvent
    /\ UNCHANGED <<notClient, coordVars, outQ>>

(* connect_and_run returned an error: run sends Disconnected, sleeps and    *)
(* connects again.                                                          *)
ReportLost ==
    /\ cpc = "lost" /\ Len(eventQ) < EventCap
    /\ eventQ' = Append(eventQ, [type |-> "disconnected"])
    /\ cpc' = "connect"
    /\ UNCHANGED <<notClient, cevent, coordVars, outQ>>

(* A close frame, a read error, the end of the stream, a failed ping or     *)
(* heartbeat, or 30 seconds without a pong.                                 *)
ConnectionLost ==
    /\ cpc = "select" /\ session < plan.sessions
    /\ cpc' = "lost"
    /\ UNCHANGED <<notClient, cevent, coordVars, eventQ, outQ>>

(* outbound_rx: the message is written, or the write fails, the message is  *)
(* gone and connect_and_run returns the error.  The coordinator has given   *)
(* up the requests of earlier sessions and ignores what still comes.        *)
Write ==
    /\ cpc = "select" /\ outQ # <<>>
    /\ outQ' = Tail(outQ)
    /\ LET m == Head(outQ)
       IN  \/ /\ heard' = [heard EXCEPT ![m.req] =
                     IF asked[m.req] = session THEN Append(@, m.kind) ELSE @]
              /\ UNCHANGED cpc
           \/ session < plan.sessions /\ cpc' = "lost" /\ UNCHANGED heard
    /\ UNCHANGED <<notClient, plan, cevent, session, asked, cancelled, eventQ>>

Dropped == plan.sessions + 1

(* The body of a request: in the clear, sealed for the key of this process, *)
(* or sealed for another key, cut short or not JSON.                        *)
Bodies == {"plain", "sealed", "garbled"}

(* NodeKeyPair::decrypt opens what was sealed for its own key.              *)
Opens(body) == body = "sealed"

(* An InferenceRequest: without an encrypted body it is refused on the      *)
(* spot, one that decrypt_request_body cannot read is dropped without a     *)
(* word, any other becomes an event, with the sender's key.                 *)
ReadRequest(r) ==
    /\ cpc = "select" /\ r \in plan.requests /\ asked[r] = 0
    /\ \E body \in Bodies :
          /\ asked' = [asked EXCEPT ![r] =
                IF body = "plain" \/ Opens(body) THEN session ELSE Dropped]
          /\ heard' = IF body = "plain" THEN [heard EXCEPT ![r] = <<"error">>] ELSE heard
          /\ IF Opens(body) THEN cevent' = [type |-> "request", req |-> r] /\ cpc' = "deliver"
                            ELSE UNCHANGED <<cevent, cpc>>
    /\ UNCHANGED <<notClient, plan, session, cancelled, eventQ, outQ>>

ReadCancel(r) ==
    /\ cpc = "select" /\ plan.cancels /\ asked[r] = session /\ r \notin cancelled
    /\ cancelled' = cancelled \cup {r}
    /\ cevent' = [type |-> "cancel", req |-> r]
    /\ cpc' = "deliver"
    /\ UNCHANGED <<notClient, plan, session, asked, heard, eventQ, outQ>>

(* The watch channel, looked at in both select!s and before a connection.   *)
SeeShutdown ==
    /\ proc = "stopping" /\ cpc \in {"connect", "select"}
    /\ cpc' = "stopped"
    /\ UNCHANGED <<notClient, cevent, coordVars, eventQ, outQ>>

ClientStep == Connect \/ Deliver \/ ReportLost \/ Write \/ SeeShutdown

Coordinator == ConnectionLost \/ \E r \in Requests : ReadRequest(r) \/ ReadCancel(r)

-----------------------------------------------------------------------------
(* The event loop.                                                          *)

notLoop == <<clientVars, spc, windows, proc>>
quietHost == <<faults, of, loaded, gen, store, tokens, produced>>

Forget == ereq' = NoReq /\ emodel' = NoReq /\ eengine' = NoEngine

(* The caller has taken its reply.                                          *)
Heard(who) == reply' = [reply EXCEPT ![who] = "none"]

NextEvent(type) == epc = "select" /\ eventQ # <<>> /\ Head(eventQ).type = type

(* Disconnected: every tracked task is aborted where it waits, which drops  *)
(* the receiver of its tokens.  The flag is left alone if none was tracked. *)
OnDisconnected ==
    /\ NextEvent("disconnected")
    /\ eventQ' = Tail(eventQ)
    /\ task' = [r \in Requests |-> IF r \in inflight THEN "gone" ELSE task[r]]
    /\ rxOpen' = [r \in Requests |-> rxOpen[r] /\ r \notin inflight]
    /\ tokens' = [r \in Requests |-> IF r \in inflight THEN 0 ELSE tokens[r]]
    /\ reply' = [c \in Callers |-> IF c \in inflight THEN "none" ELSE reply[c]]
    /\ inflight' = {}
    /\ active' = (active /\ inflight = {})
    /\ UNCHANGED <<notLoop, faults, of, loaded, gen, store, produced, cmds, engines, outQ, doneQ, epc, callVars, backend, engineOf, toUnload>>

(* Cancel: the request is no longer tracked.  Its CancellationToken is      *)
(* cancelled, which nothing waits on: the task runs on.                     *)
OnCancel ==
    /\ NextEvent("cancel")
    /\ eventQ' = Tail(eventQ)
    /\ LET r == Head(eventQ).req
       IN  /\ inflight' = inflight \ {r}
           /\ active' = (active /\ ~(r \in inflight /\ inflight' = {}))
    /\ UNCHANGED <<notLoop, hostVars, outQ, doneQ, epc, callVars, backend, task, engineOf, toUnload>>

(* InferenceRequest: accepted.  (Without a response key it is refused, but  *)
(* a request that was decrypted always has one.)                            *)
OnRequest ==
    /\ NextEvent("request")
    /\ eventQ' = Tail(eventQ)
    /\ ereq' = Head(eventQ).req
    /\ epc' = "accept" /\ active' = TRUE
    /\ UNCHANGED <<notLoop, hostVars, outQ, doneQ, emodel, eengine, inflight, backend, task, engineOf, toUnload>>

(* InferenceAccepted goes out before any load; then the slot of the model   *)
(* the request names is looked up.                                          *)
Accept ==
    /\ epc = "accept" /\ Say(ereq, "accepted")
    /\ \/ \E m \in Models :
            emodel' = m /\ epc' = "lookup"
       \/ epc' = "refuse" /\ UNCHANGED emodel
    /\ UNCHANGED <<notLoop, hostVars, eventQ, doneQ, ereq, eengine, inflight, active, backend, task, engineOf, toUnload>>

(* An InferenceError of the event loop: 400, 404 or 503.                    *)
Refuse ==
    /\ epc = "refuse" /\ Say(ereq, "error")
    /\ epc' = "select" /\ Forget
    /\ UNCHANGED <<notLoop, hostVars, eventQ, doneQ, flagVars, task, engineOf, toUnload>>

(* get_or_load_inprocess_engine: an engine in the map is asked whether it   *)
(* is loaded; the question waits its turn behind the engine's other work.   *)
LookUp ==
    /\ epc = "lookup" /\ engines[emodel] # NoEngine
    /\ eengine' = engines[emodel]
    /\ cmds' = Queued(eengine', "isloaded", "events")
    /\ reply' = Waits("events")
    /\ epc' = "isloaded"
    /\ UNCHANGED <<notLoop, quietHost, engines, rxOpen, eventQ, outQ, doneQ, ereq, emodel, flagVars, task, engineOf, toUnload>>

(* No engine, or one that is not loaded: a new one is made and loaded.      *)
MakeEngine ==
    /\ \/ epc = "lookup" /\ engines[emodel] = NoEngine
       \/ epc = "isloaded" /\ reply["events"] = "err"
    /\ Len(of) < MaxEngines
    /\ of' = Append(of, emodel)
    /\ eengine' = Len(of')
    /\ cmds' = Queued(eengine', "load", "events")
    /\ reply' = Waits("events")
    /\ epc' = "load"
    /\ UNCHANGED <<notLoop, faults, loaded, gen, store, tokens, produced, engines, rxOpen, eventQ, outQ, doneQ, ereq, emodel, flagVars, task, engineOf, toUnload>>

(* Mutant: a failed load is logged and not answered.                        *)
LoadFailedSilent ==
    /\ epc = "load" /\ reply["events"] = "err"
    /\ epc' = "select" /\ Forget
    /\ Heard("events")
    /\ UNCHANGED <<notLoop, quietHost, cmds, engines, rxOpen, eventQ, outQ, doneQ, flagVars, task, engineOf, toUnload>>

LoadFailed ==
    /\ epc = "load" /\ reply["events"] = "err"
    /\ epc' = "refuse"
    /\ Heard("events")
    /\ UNCHANGED <<notLoop, quietHost, cmds, engines, rxOpen, eventQ, outQ, doneQ, callVars, flagVars, task, engineOf, toUnload>>

(* A new engine enters the map unless the map has one for the model, which  *)
(* is then used instead (or_insert_with).                                   *)
InsertEngine ==
    engines' = IF epc = "load" /\ engines[emodel] = NoEngine
               THEN [engines EXCEPT ![emodel] = eengine] ELSE engines

Loaded ==
    /\ epc \in {"isloaded", "load"} /\ reply["events"] = "ok"
    /\ InsertEngine
    /\ backend' = "running"

(* Mutant: the task is spawned and not tracked.                             *)
SpawnUntracked ==
    /\ Loaded
    /\ engineOf' = [engineOf EXCEPT ![ereq] = IF epc = "load" THEN engines'[emodel] ELSE eengine]
    /\ task' = [task EXCEPT ![ereq] = "start"]
    /\ epc' = "select" /\ Forget
    /\ Heard("events")
    /\ UNCHANGED <<notLoop, quietHost, cmds, rxOpen, eventQ, outQ, doneQ, inflight, active, toUnload>>

(* The engine is ready, the task is spawned and tracked.                    *)
Spawn ==
    /\ Loaded
    /\ engineOf' = [engineOf EXCEPT ![ereq] = IF epc = "load" THEN engines'[emodel] ELSE eengine]
    /\ task' = [task EXCEPT ![ereq] = "start"]
    /\ inflight' = inflight \cup {ereq}
    /\ epc' = "select" /\ Forget
    /\ Heard("events")
    /\ UNCHANGED <<notLoop, quietHost, cmds, rxOpen, eventQ, outQ, doneQ, active, toUnload>>

(* done_rx: the request is no longer tracked.                               *)
OnDone ==
    /\ epc = "select" /\ doneQ # <<>>
    /\ doneQ' = Tail(doneQ)
    /\ inflight' = inflight \ {Head(doneQ)}
    /\ active' = (active /\ ~(Head(doneQ) \in inflight /\ inflight' = {}))
    /\ UNCHANGED <<notLoop, hostVars, eventQ, outQ, epc, callVars, backend, task, engineOf, toUnload>>

(* unload_inprocess_engines empties the map, then unloads what was in it,   *)
(* one engine after the other.                                              *)
EmptyMap(who) ==
    /\ toUnload' = [toUnload EXCEPT ![who] = {engines[m] : m \in Models} \ {NoEngine}]
    /\ engines' = [m \in Models |-> NoEngine]

UnloadNext(who) ==
    /\ reply[who] # "wait"
    /\ \E e \in toUnload[who] :
        /\ cmds' = Queued(e, "unload", who)
        /\ toUnload' = [toUnload EXCEPT ![who] = @ \ {e}]
    /\ reply' = Waits(who)
    /\ UNCHANGED <<quietHost, engines, rxOpen>>

(* idle_sleep: only with a timeout, a running backend and nothing tracked.  *)
IdleExpires ==
    /\ plan.idle /\ epc = "select" /\ backend = "running" /\ inflight = {}
    /\ EmptyMap("events")
    /\ epc' = "unload"
    /\ UNCHANGED <<notLoop, quietHost, cmds, reply, rxOpen, eventQ, outQ, doneQ, callVars, flagVars, task, engineOf>>

IdleUnload ==
    /\ epc = "unload" /\ UnloadNext("events")
    /\ UNCHANGED <<notLoop, eventQ, outQ, doneQ, loopVars, task, engineOf>>

IdleDone ==
    /\ epc = "unload" /\ toUnload["events"] = {} /\ reply["events"] # "wait"
    /\ backend' = "idle" /\ epc' = "select"
    /\ Heard("events")
    /\ UNCHANGED <<notLoop, quietHost, cmds, engines, rxOpen, eventQ, outQ, doneQ, callVars, inflight, active, task, engineOf, toUnload>>

EventLoopStep ==
    \/ OnDisconnected \/ OnCancel \/ OnRequest \/ Accept \/ Refuse
    \/ LookUp \/ MakeEngine \/ LoadFailed \/ Spawn \/ OnDone \/ IdleUnload \/ IdleDone

-----------------------------------------------------------------------------
(* A request's task: handle_inprocess_request, then the report on doneQ.    *)

notTask == <<clientVars, eventQ, loopVars, engineOf, schedVars, proc>>
At(r, pc) == task[r] = pc
Goto(r, pc) == task' = [task EXCEPT ![r] = pc]

(* The SIP check, then the command to the engine.                           *)
TaskStart(r) ==
    /\ At(r, "start")
    /\ \/ /\ faults /\ Goto(r, "fail")
          /\ UNCHANGED <<cmds, reply, rxOpen>>
       \/ /\ Goto(r, "relay")
          /\ cmds' = Queued(engineOf[r], "stream", r)
          /\ reply' = Waits(r)
          /\ rxOpen' = [rxOpen EXCEPT ![r] = TRUE]
       \/ /\ Goto(r, "await")
          /\ cmds' = Queued(engineOf[r], "generate", r)
          /\ reply' = Waits(r)
          /\ UNCHANGED rxOpen
    /\ UNCHANGED <<notTask, quietHost, engines, outQ, doneQ>>

(* Mutant: the token is taken before the send and dropped if there is no    *)
(* room.                                                                    *)
RelayDrops(r) ==
    /\ At(r, "relay") /\ tokens[r] > 0
    /\ tokens' = [tokens EXCEPT ![r] = @ - 1]
    /\ IF Room THEN Say(r, "chunk") ELSE UNCHANGED outQ
    /\ UNCHANGED <<notTask, faults, of, loaded, cmds, gen, store, engines, reply, produced, rxOpen, doneQ, task>>

(* NodeKeyPair::encrypt.                                                    *)
EncryptFails == faults

(* One token: encrypted and sent.  The token in the task's hand counts as   *)
(* still in the channel until the send is done.                             *)
Relay(r) ==
    /\ At(r, "relay") /\ tokens[r] > 0
    /\ tokens' = [tokens EXCEPT ![r] = @ - 1]
    /\ Say(r, "chunk")
    /\ UNCHANGED <<notTask, faults, of, loaded, cmds, gen, store, engines, reply, produced, rxOpen, doneQ, task>>

(* Encryption fails: the receiver is dropped and the engine awaited.        *)
RelayFails(r) ==
    /\ EncryptFails /\ At(r, "relay") /\ tokens[r] > 0
    /\ rxOpen' = [rxOpen EXCEPT ![r] = FALSE]
    /\ Goto(r, "abandon")
    /\ UNCHANGED <<notTask, quietHost, cmds, engines, reply, outQ, doneQ>>

(* The engine has answered and every token was relayed.                     *)
Settled(r) ==
    /\ reply[r] \in {"ok", "err"}
    /\ \/ At(r, "relay") /\ tokens[r] = 0 /\ Goto(r, IF reply[r] = "ok" THEN "last" ELSE "fail")
       \/ At(r, "abandon") /\ Goto(r, "fail")
       \/ At(r, "await") /\ Goto(r, IF reply[r] = "ok" THEN "single" ELSE "fail")
    /\ Heard(r)
    /\ UNCHANGED <<notTask, quietHost, cmds, engines, rxOpen, outQ, doneQ>>

(* The [DONE] chunk of a stream, or the one chunk of a plain answer.  If it *)
(* cannot be encrypted the request ends with an error.                      *)
LastChunk(r) ==
    /\ \/ At(r, "last") /\ Say(r, "done") /\ Goto(r, "complete")
       \/ At(r, "single") /\ Say(r, "chunk") /\ Goto(r, "complete")
       \/ EncryptFails /\ task[r] \in {"last", "single"} /\ Goto(r, "fail") /\ UNCHANGED outQ
    /\ UNCHANGED <<notTask, hostVars, doneQ>>

(* Mutant: the error is reported after the answer has been closed.          *)
CompleteTwice(r) ==
    /\ At(r, "complete") /\ Say(r, "complete")
    /\ Goto(r, "fail")
    /\ UNCHANGED <<notTask, hostVars, doneQ>>

Complete(r) ==
    /\ At(r, "complete") /\ Say(r, "complete")
    /\ Goto(r, "report")
    /\ UNCHANGED <<notTask, hostVars, doneQ>>

Fail(r) ==
    /\ At(r, "fail") /\ Say(r, "error")
    /\ Goto(r, "report")
    /\ UNCHANGED <<notTask, hostVars, doneQ>>

(* done_tx.send, the last thing the spawned future does.                    *)
Report(r) ==
    /\ At(r, "report") /\ Len(doneQ) < DoneCap
    /\ doneQ' = Append(doneQ, r)
    /\ rxOpen' = [rxOpen EXCEPT ![r] = FALSE]
    /\ Goto(r, "gone")
    /\ UNCHANGED <<notTask, quietHost, cmds, engines, reply, outQ>>

TaskStep(r) ==
    \/ TaskStart(r) \/ Relay(r) \/ RelayFails(r) \/ Settled(r)
    \/ LastChunk(r) \/ Complete(r) \/ Fail(r) \/ Report(r)

-----------------------------------------------------------------------------
(* The schedule loop and the end of the process.                            *)

notSchedule == <<clientVars, eventQ, outQ, doneQ, loopVars, taskVars>>

(* The window closes: the engines are unloaded, whatever they are doing.    *)
(* The connection and the event loop stay as they are.                      *)
WindowCloses ==
    /\ spc = "open" /\ proc = "up" /\ windows < plan.windows
    /\ EmptyMap("schedule")
    /\ spc' = "unload" /\ windows' = windows + 1
    /\ UNCHANGED <<notSchedule, quietHost, cmds, reply, rxOpen, proc>>

WindowUnload ==
    /\ spc = "unload" /\ UnloadNext("schedule")
    /\ UNCHANGED <<notSchedule, spc, windows, proc>>

WindowUnloaded ==
    /\ spc = "unload" /\ toUnload["schedule"] = {} /\ reply["schedule"] # "wait"
    /\ spc' = "closed"
    /\ Heard("schedule")
    /\ UNCHANGED <<notSchedule, quietHost, cmds, engines, rxOpen, windows, toUnload, proc>>

WindowOpens ==
    /\ spc = "closed" /\ proc = "up"
    /\ spc' = "open"
    /\ UNCHANGED <<notSchedule, hostVars, windows, toUnload, proc>>

(* Ctrl-C is only waited for between unloads.                               *)
CtrlC ==
    /\ plan.stop /\ proc = "up" /\ spc # "unload"
    /\ proc' = "stopping"
    /\ UNCHANGED <<notSchedule, hostVars, schedVars>>

(* The client has stopped, or five seconds have passed: the event loop is   *)
(* aborted, main returns, and every task and thread ends with the process.  *)
Exit ==
    /\ proc = "stopping"
    /\ proc' = "exited" /\ cpc' = "stopped" /\ epc' = "exited"
    /\ task' = [r \in Requests |-> "gone"]
    /\ inflight' = {} /\ doneQ' = <<>>
    /\ cmds' = [e \in Engines |-> <<>>]
    /\ gen' = [e \in Engines |-> "idle"]
    /\ store' = [m \in Models |-> NoEngine]
    /\ UNCHANGED <<cevent, coordVars, eventQ, outQ, callVars, active, backend, engineOf, schedVars,
                   faults, of, loaded, engines, reply, tokens, produced, rxOpen>>

ScheduleStep == WindowUnload \/ WindowUnloaded

-----------------------------------------------------------------------------
notHost == <<clientVars, eventQ, outQ, doneQ, loopVars, taskVars, schedVars, proc>>

EngineStep(e) == Worker(e) /\ UNCHANGED notHost

Next ==
    \/ ClientStep
    \/ Coordinator
    \/ EventLoopStep
    \/ IdleExpires
    \/ \E r \in Requests : TaskStep(r)
    \/ \E e \in Engines : EngineStep(e)
    \/ ScheduleStep \/ WindowCloses \/ WindowOpens \/ CtrlC \/ Exit

Spec == Init /\ [][Next]_vars

(* The runtime polls every task that can run, threads are scheduled, a      *)
(* generation ends and an idle timer fires.                                 *)
FairSpec ==
    /\ Spec
    /\ WF_vars(ClientStep) /\ WF_vars(EventLoopStep) /\ WF_vars(IdleExpires) /\ WF_vars(ScheduleStep)
    /\ \A r \in Requests : WF_vars(TaskStep(r))
    /\ \A e \in Engines : WF_vars(EngineStep(e))

-----------------------------------------------------------------------------
Live(r) == task[r] \notin {"none", "gone"}

TypeOK ==
    /\ HostTypeOK /\ plan \in Plans
    /\ cpc \in {"connect", "deliver", "lost", "select", "stopped"}
    /\ cevent \in Event \cup {NoEvent} /\ session \in 0 .. plan.sessions
    /\ asked \in [Requests -> 0 .. Dropped] /\ cancelled \subseteq Requests
    /\ heard \in [Requests -> Seq(Kinds)]
    /\ eventQ \in Seq(Event) /\ Len(eventQ) <= EventCap
    /\ outQ \in Seq([req : Requests, kind : Kinds]) /\ Len(outQ) <= OutCap
    /\ doneQ \in Seq(Requests) /\ Len(doneQ) <= DoneCap
    /\ epc \in {"select", "accept", "refuse", "lookup", "isloaded", "load", "unload", "exited"}
    /\ ereq \in Requests \cup {NoReq} /\ emodel \in Models \cup {NoReq}
    /\ eengine \in Engines \cup {NoEngine}
    /\ inflight \subseteq Requests /\ active \in BOOLEAN /\ backend \in {"running", "idle"}
    /\ task \in [Requests -> {"none", "start", "relay", "abandon", "await", "last", "single",
                              "complete", "fail", "report", "gone"}]
    /\ engineOf \in [Requests -> Engines \cup {NoEngine}]
    /\ spc \in {"open", "unload", "closed"} /\ windows \in 0 .. plan.windows
    /\ toUnload \in [{"events", "schedule"} -> SUBSET Engines]
    /\ proc \in {"up", "stopping", "exited"}

(* A task that runs is tracked, so that a disconnect aborts it, unless the  *)
(* request was cancelled; what is tracked has a task that runs or whose     *)
(* report is on its way, so the tracker drains and idle shutdown can come.  *)
TrackedExactly ==
    \A r \in Requests :
        /\ Live(r) => r \in inflight \cup cancelled
        /\ r \in inflight => Live(r) \/ \E i \in DOMAIN doneQ : doneQ[i] = r

(* coordinator.rs: the heartbeat never reports an idle provider while a     *)
(* tracked request is running.                                              *)
BusyIsReported == inflight # {} => active

(* The tracker of requests in flight agrees with the tasks and with the    *)
(* heartbeat.                                                              *)
InFlightIsTracked == TrackedExactly /\ BusyIsReported

(* An answer that the coordinator hears completed is whole: every chunk the *)
(* engine produced was heard before it, whatever was dropped, cancelled,    *)
(* unloaded or reconnected meanwhile.                                       *)
CompleteIsWhole ==
    \A r \in Requests :
        (\E i \in DOMAIN heard[r] : heard[r][i] = "complete") =>
            Cardinality({i \in DOMAIN heard[r] : heard[r][i] = "chunk"}) = produced[r]

(* inference.rs: "Check if the engine is loaded and ready."  An engine that *)
(* the map hands out and that says it is loaded has its model object.       *)
LoadedIsReady ==
    \A m \in Models :
        engines[m] # NoEngine /\ loaded[engines[m]] => store[m] # NoEngine

(* The coordinator hears every request answered in the order AnswerStream   *)
(* promises: the detailed provider implements it.                           *)
Promise == INSTANCE AnswerStream WITH said <- heard
KeepsPromise == Promise!Spec

(* Every request that reached the event loop is answered to the end, or     *)
(* its connection is lost, or the provider is stopped.                      *)
Answered ==
    \A r \in Requests :
        (asked[r] \in 1 .. plan.sessions) ~>
            (\/ asked[r] # session \/ cpc \in {"lost", "connect", "stopped"}
             \/ proc # "up"
             \/ heard[r] # <<>> /\ heard[r][Len(heard[r])] \in Ends)

(* With an idle timeout, models do not stay in GPU memory for ever once no  *)
(* more work comes.                                                         *)
MemoryFreed ==
    plan.idle => []<>(proc # "up" \/ \A m \in Models : store[m] = NoEngine)

(* Everyone waits for everyone: the client for room in the event channel,   *)
(* the event loop for room in the outbound channel, which only the client   *)
(* empties, or for an engine whose thread waits, through its task, for the  *)
(* same room.                                                               *)
Circle ==
    /\ cpc = "deliver" /\ Len(eventQ) = EventCap
    /\ epc # "select" /\ Len(outQ) = OutCap

(* Requests are answered to the end and idle models leave the memory: the   *)
(* engine threads that wait in blocking_send, the tasks, the event loop and *)
(* the client hold each other up for good only in the circle that closes    *)
(* once the event channel and the outbound channel are both full.           *)
AgentProgress == <>[]Circle \/ (Answered /\ MemoryFreed)

(* The client comes back to its select!, where it pings the coordinator,    *)
(* notices a dead connection and sees a shutdown.                           *)
ClientAlive == []<>(cpc \in {"select", "connect", "stopped"})

=============================================================================
