------------------------------ MODULE Telemetry ------------------------------
(***************************************************************************)
(* The telemetry pipeline of the provider (telemetry/): threads that emit  *)
(* events, the bounded queue in memory, the worker that sends batches, and *)
(* the overflow file on the disk, which emitting threads and the worker    *)
(* open on their own, without a lock, and rewrite through one temporary    *)
(* file.                                                                   *)
(*                                                                         *)
(* Events are numbered in the order they are emitted.  A line of the file  *)
(* is one event, all of the same length.                                   *)
(***************************************************************************)
EXTENDS Integers, Sequences, FiniteSets, Functions

CONSTANTS
    Producers,    \* threads that emit
    MaxEvents,    \* bound: events emitted
    QueueCap,     \* mem_queue_cap, 1000
    MaxBatch,     \* 50
    MaxLines,     \* 5 MB, in lines
    MaxTelFaults  \* bound: failed sends and crashes

Crew == Producers \union {"worker"}

ASSUME TelemetryAssumption ==
    /\ {MaxEvents, QueueCap, MaxBatch, MaxLines, MaxTelFaults} \subseteq Nat
    /\ MaxBatch > 0 /\ "worker" \notin Producers /\ IsFiniteSet(Producers)

VARIABLES
    emitted,   \* number of events so far
    queue,     \* the channel
    buffer,    \* the worker's buffer
    batch,     \* the events being sent
    disk,      \* telemetry-queue.jsonl
    tmp,       \* telemetry-queue.jsonl.tmp, <<>> when absent or empty
    hasTmp,    \* whether it is there
    tlpc,      \* what each thread does next
    todo,      \* the events each thread still has to push to the disk
    hook,      \* the thread inside the panic hook (IN_HOOK), or "none"
    sent,      \* the events the coordinator has received
    gone,      \* the events lost: rotated out, overwritten, or in memory at a crash
    telFaults

telVars == <<emitted, queue, buffer, batch, disk, tmp, hasTmp, tlpc, todo, hook, sent, gone,
             telFaults>>
memory_ == <<queue, buffer, batch>>
onDisk == <<disk, tmp, hasTmp>>

TelInit ==
    /\ emitted = 0 /\ queue = <<>> /\ buffer = <<>> /\ batch = <<>>
    /\ disk = <<>> /\ tmp = <<>> /\ hasTmp = FALSE
    /\ tlpc = [t \in Crew |-> IF t = "worker" THEN "select" ELSE "free"]
    /\ todo = [t \in Crew |-> <<>>] /\ hook = "none"
    /\ sent = {} /\ gone = {} /\ telFaults = 0

Step(t, l) == tlpc' = [tlpc EXCEPT ![t] = l]
TelFault == telFaults < MaxTelFaults /\ telFaults' = telFaults + 1

-----------------------------------------------------------------------------
(* Emitting.                                                               *)

(* try_send, and when the queue is full a synchronous push to the disk.    *)
Send(p) ==
    /\ tlpc[p] = "free" /\ emitted < MaxEvents /\ emitted' = emitted + 1
    /\ \/ Len(queue) < QueueCap /\ queue' = Append(queue, emitted') /\ UNCHANGED <<tlpc, todo>>
       \/ /\ Len(queue) >= QueueCap /\ Step(p, "push")
          /\ todo' = [todo EXCEPT ![p] = <<emitted'>>] /\ UNCHANGED queue
    /\ UNCHANGED <<buffer, batch, onDisk, sent, gone, telFaults>>

Emit(p) == Send(p) /\ hook # p /\ UNCHANGED hook

(* The panic hook: emit_blocking, unless some thread is inside the hook.   *)
EnterHook(p) ==
    /\ tlpc[p] = "free" /\ hook = "none" /\ hook' = p
    /\ UNCHANGED <<emitted, memory_, onDisk, tlpc, todo, sent, gone, telFaults>>

PanicEmit(p) == hook = p /\ Send(p) /\ hook' = IF tlpc'[p] = "free" THEN "none" ELSE p

-----------------------------------------------------------------------------
(* DiskQueue::push, for the first event of todo.                           *)

(* rotate_if_needed keeps the lines behind the middle, without the one the *)
(* middle falls on.                                                        *)
NewestHalf(lines) == SubSeq(lines, (Len(lines) \div 2) + 2, Len(lines))

CheckSize(t) ==
    /\ tlpc[t] = "push" /\ todo[t] # <<>>
    /\ IF Len(disk) > MaxLines
       THEN tmp' = NewestHalf(disk) /\ hasTmp' = TRUE /\ Step(t, "rotate") /\ UNCHANGED disk
       ELSE Step(t, "append") /\ UNCHANGED onDisk
    /\ UNCHANGED <<emitted, memory_, todo, hook, sent, gone, telFaults>>

(* The rename; without the temporary file, which another thread has        *)
(* renamed, the push fails and its event is dropped.                       *)
Rotate(t) ==
    /\ tlpc[t] = "rotate"
    /\ IF hasTmp
       THEN /\ disk' = tmp /\ tmp' = <<>> /\ hasTmp' = FALSE /\ Step(t, "append")
            /\ gone' = gone \union (Range(disk) \ Range(tmp))
            /\ UNCHANGED todo
       ELSE /\ gone' = gone \union {Head(todo[t])} /\ Step(t, "push")
            /\ todo' = [todo EXCEPT ![t] = Tail(@)] /\ UNCHANGED onDisk
    /\ UNCHANGED <<emitted, memory_, hook, sent, telFaults>>

AppendLine(t) ==
    /\ tlpc[t] = "append" /\ Step(t, "push")
    /\ disk' = Append(disk, Head(todo[t])) /\ todo' = [todo EXCEPT ![t] = Tail(@)]
    /\ UNCHANGED <<emitted, memory_, tmp, hasTmp, hook, sent, gone, telFaults>>

Pushed(t) ==
    /\ tlpc[t] = "push" /\ todo[t] = <<>>
    /\ Step(t, IF t = "worker" THEN "select" ELSE "free")
    /\ hook' = IF hook = t THEN "none" ELSE hook
    /\ UNCHANGED <<emitted, memory_, onDisk, todo, sent, gone, telFaults>>

-----------------------------------------------------------------------------
(* run_worker.                                                             *)

Recv ==
    /\ tlpc["worker"] = "select" /\ queue # <<>> /\ queue' = Tail(queue)
    /\ LET b == Append(buffer, Head(queue))
       IN  IF Len(b) >= MaxBatch
           THEN batch' = b /\ buffer' = <<>> /\ Step("worker", "send")
           ELSE buffer' = b /\ UNCHANGED <<batch, tlpc>>
    /\ UNCHANGED <<emitted, onDisk, todo, hook, sent, gone, telFaults>>

(* A tick flushes the buffer, or drains the disk when it is empty: drain   *)
(* takes the first lines and writes the rest to the temporary file.        *)
Tick ==
    /\ tlpc["worker"] = "select"
    /\ \/ /\ buffer # <<>> /\ batch' = buffer /\ buffer' = <<>> /\ Step("worker", "send")
          /\ UNCHANGED onDisk
       \/ /\ buffer = <<>> /\ disk # <<>> /\ Step("worker", "rewrite")
          /\ LET n == IF Len(disk) < MaxBatch THEN Len(disk) ELSE MaxBatch
             IN  batch' = SubSeq(disk, 1, n) /\ tmp' = SubSeq(disk, n + 1, Len(disk))
          /\ hasTmp' = TRUE /\ UNCHANGED <<buffer, disk>>
    /\ UNCHANGED <<emitted, queue, todo, hook, sent, gone, telFaults>>

(* The rename of drain; a failure is ignored.                              *)
Rewrite ==
    /\ tlpc["worker"] = "rewrite" /\ Step("worker", "send")
    /\ IF hasTmp
       THEN /\ disk' = tmp /\ tmp' = <<>> /\ hasTmp' = FALSE
            /\ gone' = gone \union (Range(disk) \ (Range(tmp) \union Range(batch)))
       ELSE UNCHANGED <<onDisk, gone>>
    /\ UNCHANGED <<emitted, memory_, todo, hook, sent, telFaults>>

(* A plausible bug: a batch that was not accepted is dropped.              *)
SendOnce ==
    /\ tlpc["worker"] = "send" /\ batch' = <<>> /\ Step("worker", "select")
    /\ \/ sent' = sent \union Range(batch) /\ UNCHANGED telFaults
       \/ TelFault /\ UNCHANGED sent
    /\ UNCHANGED <<emitted, queue, buffer, onDisk, todo, hook, gone>>

(* send_batch; a batch that was not accepted, or whose answer is lost, is  *)
(* pushed (back) to the disk.                                              *)
SendBatch ==
    /\ tlpc["worker"] = "send" /\ batch' = <<>>
    /\ \/ /\ sent' = sent \union Range(batch) /\ Step("worker", "select")
          /\ UNCHANGED <<todo, telFaults>>
       \/ /\ TelFault /\ sent' \in {sent, sent \union Range(batch)} /\ Step("worker", "push")
          /\ todo' = [todo EXCEPT !["worker"] = batch]
    /\ UNCHANGED <<emitted, queue, buffer, onDisk, hook, gone>>

(* The process dies and is started again.                                  *)
CrashTel ==
    /\ TelFault
    /\ gone' = gone \union Range(queue) \union Range(buffer) \union Range(batch)
                    \union UNION {Range(todo[t]) : t \in Crew}
    /\ queue' = <<>> /\ buffer' = <<>> /\ batch' = <<>> /\ todo' = [t \in Crew |-> <<>>]
    /\ tlpc' = [t \in Crew |-> IF t = "worker" THEN "select" ELSE "free"] /\ hook' = "none"
    /\ UNCHANGED <<emitted, onDisk, sent>>

-----------------------------------------------------------------------------

PushStep(t) == CheckSize(t) \/ Rotate(t) \/ AppendLine(t) \/ Pushed(t)

TelNext ==
    \/ \E p \in Producers : Emit(p) \/ EnterHook(p) \/ PanicEmit(p)
    \/ \E t \in Crew : PushStep(t)
    \/ Recv \/ Tick \/ Rewrite \/ SendBatch \/ CrashTel

(* Threads run on; the select of the worker takes both branches.           *)
TelFairness ==
    /\ \A t \in Crew : WF_telVars(PushStep(t))
    /\ WF_telVars(Recv) /\ WF_telVars(Tick) /\ WF_telVars(Rewrite \/ SendBatch)

TelSpec == TelInit /\ [][TelNext]_telVars /\ TelFairness

-----------------------------------------------------------------------------

TelTypeOK ==
    /\ emitted \in 0..MaxEvents /\ telFaults \in 0..MaxTelFaults
    /\ {queue, buffer, batch, disk, tmp} \subseteq Seq(1..MaxEvents)
    /\ Len(queue) <= QueueCap /\ Len(buffer) < MaxBatch /\ Len(batch) <= MaxBatch
    /\ hasTmp \in BOOLEAN /\ hook \in Producers \union {"none"}
    /\ todo \in [Crew -> Seq(1..MaxEvents)]
    /\ tlpc \in [Crew -> {"free", "select", "push", "rotate", "append", "rewrite", "send"}]
    /\ sent \subseteq 1..MaxEvents /\ gone \subseteq 1..MaxEvents

(* An emitted event is received, on its way in memory or on the disk, or   *)
(* went by one of the known ways: rotated out of the full file, written    *)
(* there by a thread while another rewrote it, or in memory at a crash.    *)
NothingVanishes ==
    1..emitted \subseteq
        sent \union gone \union Range(queue) \union Range(buffer) \union Range(batch)
             \union Range(disk) \union UNION {Range(todo[t]) : t \in Crew}

(* "Size cap: 5 MB": the threads that check the size and append without a  *)
(* lock exceed the cap by at most one line each.                           *)
DiskBounded == Len(disk) <= MaxLines + Cardinality(Crew)

(* Every event is accounted for, those lost to an unlocked rewrite         *)
(* included, and the disk queue keeps within its bound.                    *)
EventsAreKept == NothingVanishes /\ DiskBounded

(* Once the coordinator can be reached, every event that is not lost is    *)
(* delivered, from the disk too.                                           *)
Delivered == \A e \in 1..MaxEvents : (emitted >= e) ~> (e \in sent \union gone)
=============================================================================
