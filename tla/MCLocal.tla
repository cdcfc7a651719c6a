------------------------------ MODULE MCLocal ------------------------------
EXTENDS Telemetry, Schedule, Setup, DeviceLink, Weights

Window(days, from, till) == [days |-> days, start |-> from, end |-> till]

(* No schedule, windows that do not parse, a window on one day, an         *)
(* overnight one across the end of the week, two that overlap, one that    *)
(* lasts a day, and evenings with whole weekend days.                      *)
MCSchedules ==
    {<<>>, <<Window({}, 9, 17)>>, <<Window({2}, 24, 3)>>, <<Window({0}, 9, 17)>>,
     <<Window({6}, 22, 8)>>, <<Window({4, 5}, 22, 8), Window({5, 6}, 0, 12)>>,
     <<Window({1}, 25, 3), Window({3}, 8, 8)>>,
     <<Window({0, 1, 2, 3, 4}, 18, 23), Window({5, 6}, 0, 0)>>}

Item(id, size, ram, retired) == [id |-> id, size |-> size, min_ram |-> ram, retired |-> retired]

MCFallback == <<Item("qwen27b", 27, 36, FALSE), Item("qwen122b", 122, 128, FALSE)>>

Offered ==
    <<Item("small", 5, 8, FALSE), Item("flux", 12, 16, TRUE), Item("qwen27b", 27, 36, FALSE),
      Item("qwen122b", 122, 128, FALSE)>>

(* No default, a default that fits with and without an optional, a default *)
(* the disk has no room for, a machine on which nothing fits, and one that *)
(* cannot reach the coordinator.                                           *)
MCMachines ==
    {[ram |-> 16, disk |-> 30, offer |-> Offered], [ram |-> 64, disk |-> 29, offer |-> Offered],
     [ram |-> 64, disk |-> 20, offer |-> Offered], [ram |-> 8, disk |-> 100, offer |-> Offered],
     [ram |-> 64, disk |-> 60, offer |-> <<>>]}

MCWPlans ==
    [served : {{"A"}, {"A", "B"}}, template : {"file", "inline", "nothing"}, updates : 0..1,
     hashed : {{"A", "B"}, {}}]

(* Each behaviour follows one of the components; the others rest in one    *)
(* initial state.                                                          *)
VARIABLE part

localVars == <<part, telVars, schedVars, setupVars, linkVars, weightVars>>

SchedRests == config = <<>> /\ day = 0 /\ time = 0
SetupRests == machine.ram = 16 /\ ~oldKeys /\ stored = {}
WeightRests == wplan = [served |-> {"A"}, template |-> "file", updates |-> 0, hashed |-> {}]

LocalInit ==
    /\ TelInit /\ SchedInit /\ SetupInit /\ LinkInit /\ WeightInit
    /\ \/ part \in {"telemetry", "link"} /\ SchedRests /\ SetupRests /\ WeightRests
       \/ part = "schedule" /\ SetupRests /\ WeightRests
       \/ part = "setup" /\ SchedRests /\ WeightRests
       \/ part = "weights" /\ SchedRests /\ SetupRests

LocalNext ==
    \/ /\ part = "telemetry" /\ TelNext
       /\ UNCHANGED <<part, schedVars, setupVars, linkVars, weightVars>>
    \/ /\ part = "schedule" /\ SchedNext
       /\ UNCHANGED <<part, telVars, setupVars, linkVars, weightVars>>
    \/ /\ part = "setup" /\ SetupNext
       /\ UNCHANGED <<part, telVars, schedVars, linkVars, weightVars>>
    \/ /\ part = "link" /\ LinkNext
       /\ UNCHANGED <<part, telVars, schedVars, setupVars, weightVars>>
    \/ /\ part = "weights" /\ WeightNext
       /\ UNCHANGED <<part, telVars, schedVars, setupVars, linkVars>>

(* The fairness of the components, each while it is the one that runs.     *)
LocalFairness ==
    /\ \A t \in Crew : WF_telVars(part = "telemetry" /\ PushStep(t))
    /\ WF_telVars(part = "telemetry" /\ Recv) /\ WF_telVars(part = "telemetry" /\ Tick)
    /\ WF_telVars(part = "telemetry" /\ (Rewrite \/ SendBatch))
    /\ WF_schedVars(part = "schedule" /\ LoopSteps)
    /\ WF_schedVars(part = "schedule" /\ (ClockTicks \/ TimerRuns))
    /\ \A h \in Hosts : /\ WF_linkVars(part = "link" /\ (Poll(h) \/ Hear(h) \/ DeviceToken(h)))
                        /\ SF_linkVars(part = "link" /\ GiveUp(h))
    /\ \A c \in 1..MaxCodes : WF_linkVars(part = "link" /\ c \in Known /\ CodeExpires(c))

LocalSpec == LocalInit /\ [][LocalNext]_localVars /\ LocalFairness

(* Events are delivered, windows are reached, and logins end.              *)
LocalProgress == Delivered /\ EveryWindowServed /\ LoginEnds

=============================================================================
