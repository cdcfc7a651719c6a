----------------------------- MODULE MCMachine -----------------------------
(***************************************************************************)
(* What the provider does to the machine it is installed on: the updater,  *)
(* the launchd service and the process, the start of the agent, the Python *)
(* runtime, the models, their templates and the choice of a model.         *)
(***************************************************************************)
EXTENDS Updater, Lifecycle, Startup, Runtime, Download, Templates, Picker

Release(v, swift, wrapped, top) ==
    [version |-> v, swift |-> swift, app |-> wrapped, meta |-> TRUE, atRoot |-> top]

MCInfo ==
    [r0 |-> Release(<<0, 4, 5>>, FALSE, FALSE, TRUE),
     r1 |-> Release(<<0, 3, 7>>, FALSE, FALSE, TRUE),  \* an older one offered again
     r2 |-> Release(<<0, 4, 6>>, FALSE, FALSE, TRUE),
     s1 |-> Release(<<0, 5, 0>>, TRUE, FALSE, TRUE),   \* an early Swift bundle
     s2 |-> Release(<<0, 5, 1>>, TRUE, TRUE, FALSE)]   \* a Swift bundle with the app

MCReleases == DOMAIN MCInfo

(* A bundle without the app wrapper never follows one with it.             *)
MCCatalogs == {{"r0", "r1", "r2", "s1"}, {"r0", "r1", "r2", "s2"}}

MCPlistArgs ==
    {<<>>,
     <<"bin", "serve", "--coordinator", "url", "--model", "m1", "--model", "m2">>,
     <<"bin", "serve", "--verbose", "--coordinator", "url", "--idle-timeout", "60">>}

MCMachines ==
    [onDisk : SUBSET Models, chosen : {{}, Models}, sip : BOOLEAN, rdma : BOOLEAN,
     vm : BOOLEAN, se : BOOLEAN, config : {"none", "good", "bad"},
     roots : {{}, {"home"}, {"bundle", "home"}}]

MCCDNs == [py : {"canon", "old"}, site : {"canon", "old", "bad", "bare"}]

MCLayouts == {<<"model">>, <<"shard1", "shard2">>}

MCSizeGB == [a |-> 9, b |-> 6, c |-> 4]
MCMinRam == [a |-> 16, b |-> 12, c |-> 8]
MCDiskGB == [a |-> 13, b |-> 8, c |-> 5]

(* Each behaviour follows one of the components; the others rest in one    *)
(* initial state.                                                          *)
VARIABLE part

machineVars == <<part, updVars, lifeVars, startVars, rtVars, dlVars, tplVars, pickVars>>

UpdRests == plist = <<>> /\ catalog = {"r0", "r1", "r2", "s1"}
LifeRests == mayFail = TRUE
StartRests == /\ disk = [python |-> "old", templates |-> "none"]
              /\ mac = [onDisk |-> {}, chosen |-> {}, sip |-> TRUE, rdma |-> FALSE, vm |-> FALSE,
                        se |-> TRUE, config |-> "none", roots |-> {"home"}]
RtRests == /\ cdn = [py |-> "canon", site |-> "canon"] /\ py = "canon" /\ site = "canon"
DlRests == layout = Single /\ name = "mlx" /\ tarball = FALSE
TplRests == family = "hub" /\ inline = FALSE /\ manifest = FALSE /\ jinja = "none"
PickRests == memory = 16 /\ present = {}

MachineInit ==
    /\ part \in {"update", "life", "start", "runtime", "download", "templates", "picker"}
    /\ UpdInit /\ (part = "update" \/ UpdRests)
    /\ LifeInit /\ (part = "life" \/ LifeRests)
    /\ StartInit /\ (part = "start" \/ StartRests)
    /\ RtInit /\ (part = "runtime" \/ RtRests)
    /\ DlInit /\ (part = "download" \/ DlRests)
    /\ TplInit /\ (part = "templates" \/ TplRests)
    /\ PickInit /\ (part = "picker" \/ PickRests)

MachineNext ==
    \/ /\ part = "update" /\ UpdNext
       /\ UNCHANGED <<part, lifeVars, startVars, rtVars, dlVars, tplVars, pickVars>>
    \/ /\ part = "life" /\ LifeNext
       /\ UNCHANGED <<part, updVars, startVars, rtVars, dlVars, tplVars, pickVars>>
    \/ /\ part = "start" /\ StartNext
       /\ UNCHANGED <<part, updVars, lifeVars, rtVars, dlVars, tplVars, pickVars>>
    \/ /\ part = "runtime" /\ RtNext
       /\ UNCHANGED <<part, updVars, lifeVars, startVars, dlVars, tplVars, pickVars>>
    \/ /\ part = "download" /\ DlNext
       /\ UNCHANGED <<part, updVars, lifeVars, startVars, rtVars, tplVars, pickVars>>
    \/ /\ part = "templates" /\ TplNext
       /\ UNCHANGED <<part, updVars, lifeVars, startVars, rtVars, dlVars, pickVars>>
    \/ /\ part = "picker" /\ PickNext
       /\ UNCHANGED <<part, updVars, lifeVars, startVars, rtVars, dlVars, tplVars>>

(* The fairness of the components, each while it is the one that runs.     *)
MachineFairness ==
    /\ \A p \in Pids : WF_lifeVars(part = "life" /\ Process(p))
    /\ \A c \in Cmds : WF_lifeVars(part = "life" /\ Command(c))
    /\ \A t \in Threads : WF_rtVars(part = "runtime" /\ Ensure(t))
    /\ WF_rtVars(part = "runtime" /\ StartupDone)
    /\ WF_rtVars(part = "runtime" /\ \E t \in Healers : RuntimeOutdated(t) \/ HealDone(t))
    /\ WF_dlVars(part = "download" /\ Transfer)

MachineSpec == MachineInit /\ [][MachineNext]_machineVars /\ MachineFairness

(* Commands, repairs and downloads come to their end: a started service    *)
(* serves, an outdated runtime heals, and a download returns.              *)
MachineProgress == StartLeadsToServing /\ OutdatedHeals /\ DownloadEnds

=============================================================================
