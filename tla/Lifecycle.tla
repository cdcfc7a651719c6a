----------------------------- MODULE Lifecycle -----------------------------
(***************************************************************************)
(* Which provider processes run on a machine: the pid file `serve` uses to *)
(* replace an older instance (main.rs, cmd_serve), the launchd user agent  *)
(* (service.rs), the commands start, stop, update, install and autoupdate  *)
(* that act on both, and the restart after an automatic update.            *)
(*                                                                         *)
(* A process is a pid of Pids, used once.  SIGTERM ends a provider at      *)
(* once: only Ctrl-C is handled.  launchd runs at most one process of the  *)
(* service, does not restart it when it ends (KeepAlive is false), and     *)
(* ends it when the service is booted out.                                 *)
(***************************************************************************)
EXTENDS Integers

CONSTANTS
    MaxPids,    \* bound: provider processes over a behaviour
    Cmds,       \* the shells in which commands are typed
    MaxCmds,    \* bound: commands over a behaviour
    Calm,       \* one command or startup at a time
    Faults      \* the values mayFail may take

Pids == 1..MaxPids
NoPid == 0

ASSUME LifecycleAssumption ==
    /\ MaxPids \in Nat \ {0} /\ MaxCmds \in Nat
    /\ Calm \in BOOLEAN /\ Faults \subseteq BOOLEAN

VARIABLES
    proc,      \* the stage of each process
    auto,      \* whether each process read auto_update = true
    pidFile,   \* ~/.darkbloom/provider.pid
    loaded,    \* the service is registered with launchd
    job,       \* the process launchd runs for it
    plistOn,   \* the plist exists
    cfgAuto,   \* auto_update in the configuration file
    cmd,       \* the command in each shell: its name and next step
    typed,     \* commands so far
    owed,      \* a provider installed an update, and since then none has come
               \* up and no command was typed
    mayFail    \* whether processes may crash or fail to start

lifeVars == <<proc, auto, pidFile, loaded, job, plistOn, cfgAuto, cmd, typed, owed,
              mayFail>>

Running == {"reading", "writing", "starting", "serving", "restarting", "stopping"}
Alive(p) == p # NoPid /\ proc[p] \in Running

Idle == [op |-> "none", pc |-> "done"]

LifeInit ==
    /\ proc = [p \in Pids |-> "unborn"] /\ auto = [p \in Pids |-> FALSE]
    /\ pidFile = NoPid /\ loaded = FALSE /\ job = NoPid /\ plistOn = FALSE
    /\ cfgAuto = TRUE /\ cmd = [c \in Cmds |-> Idle] /\ typed = 0 /\ owed = FALSE
    /\ mayFail \in Faults

(* What Calm allows: nothing else is starting, stopping or being commanded.*)
Quiet == /\ \A c \in Cmds : cmd[c].pc = "done"
         /\ \A p \in Pids : proc[p] \in {"unborn", "starting", "serving", "dead"}

Unborn == {p \in Pids : proc[p] = "unborn"}
Fresh == CHOOSE p \in Unborn : TRUE

Dead(p, f) == IF p = NoPid THEN f ELSE [f EXCEPT ![p] = "dead"]
Gone(p) == IF job = p THEN NoPid ELSE job

-----------------------------------------------------------------------------
(* The process.                                                            *)

(* `darkbloom serve` typed in a terminal.                                  *)
RunServe ==
    /\ Unborn # {} /\ (Calm => Quiet)
    /\ proc' = [proc EXCEPT ![Fresh] = "reading"]
    /\ UNCHANGED <<auto, pidFile, loaded, job, plistOn, cfgAuto, cmd, typed, owed, mayFail>>

(* A plausible bug: the pid file is not consulted.                         *)
IgnoresPidFile(p) ==
    /\ proc[p] = "reading"
    /\ proc' = [proc EXCEPT ![p] = "writing"]
    /\ UNCHANGED <<auto, pidFile, loaded, job, plistOn, cfgAuto, cmd, typed, owed, mayFail>>

(* An older instance named by the pid file is killed, SIGKILL if need be;  *)
(* a stale or own pid is ignored.                                          *)
ReplaceOld(p) ==
    /\ proc[p] = "reading"
    /\ LET old == IF pidFile # p /\ Alive(pidFile) THEN pidFile ELSE NoPid
       IN  /\ proc' = [Dead(old, proc) EXCEPT ![p] = "writing"]
           /\ job' = IF old = NoPid THEN job ELSE Gone(old)
    /\ UNCHANGED <<auto, pidFile, loaded, plistOn, cfgAuto, cmd, typed, owed, mayFail>>

WritePid(p) ==
    /\ proc[p] = "writing"
    /\ pidFile' = p /\ proc' = [proc EXCEPT ![p] = "starting"]
    /\ UNCHANGED <<auto, loaded, job, plistOn, cfgAuto, cmd, typed, owed, mayFail>>

(* The rest of the startup (module Startup) ends in the event loop; the    *)
(* configuration is read on the way, and written when there was none.      *)
ComeUp(p) ==
    /\ proc[p] = "starting"
    /\ proc' = [proc EXCEPT ![p] = "serving"]
    /\ auto' = [auto EXCEPT ![p] = cfgAuto]
    /\ owed' = FALSE
    /\ UNCHANGED <<pidFile, loaded, job, plistOn, cfgAuto, cmd, typed, mayFail>>

(* The startup bails out, or the process crashes.  The pid file stays.     *)
Dies(p) ==
    /\ mayFail /\ proc[p] \in {"starting", "serving"}
    /\ proc' = Dead(p, proc) /\ job' = Gone(p)
    /\ UNCHANGED <<auto, pidFile, loaded, plistOn, cfgAuto, cmd, typed, owed, mayFail>>

(* Ctrl-C in the terminal of a foreground provider; the loop drains, then  *)
(* the pid file is removed whatever it says.                               *)
CtrlC(p) ==
    /\ proc[p] = "serving" /\ job # p /\ (Calm => Quiet)
    /\ proc' = [proc EXCEPT ![p] = "stopping"]
    /\ UNCHANGED <<auto, pidFile, loaded, job, plistOn, cfgAuto, cmd, typed, owed, mayFail>>

Leave(p) ==
    /\ proc[p] = "stopping"
    /\ proc' = Dead(p, proc) /\ pidFile' = NoPid
    /\ UNCHANGED <<auto, loaded, job, plistOn, cfgAuto, cmd, typed, owed, mayFail>>

(* auto_update_restart, once the update is installed.  Outside launchd the *)
(* process executes the new binary in place (it exits if that fails).      *)
(* With the service loaded it boots the service out, and itself with it    *)
(* when launchd runs it.                                                   *)
AutoUpdateRestart(p) ==
    /\ proc[p] = "serving" /\ auto[p] /\ (Calm => Quiet)
    /\ owed' = TRUE
    /\ IF ~loaded
       THEN /\ \E s \in {"reading"} \union (IF mayFail THEN {"dead"} ELSE {}) :
                   proc' = [proc EXCEPT ![p] = s]
            /\ UNCHANGED <<loaded, job>>
       ELSE /\ loaded' = FALSE /\ job' = NoPid
            /\ proc' = IF job = p THEN Dead(p, proc)
                       ELSE [Dead(job, proc) EXCEPT ![p] = "restarting"]
    /\ UNCHANGED <<auto, pidFile, plistOn, cfgAuto, cmd, typed, mayFail>>

(* A process that survived its own boot-out (it is not the job) bootstraps *)
(* and kickstarts the service, then exits.                                 *)
KickstartAndExit(p) ==
    /\ proc[p] = "restarting" /\ Unborn # {}
    /\ loaded' = plistOn
    /\ job' = IF plistOn THEN Fresh ELSE NoPid
    /\ proc' = [q \in Pids |-> IF q = p THEN "dead"
                               ELSE IF plistOn /\ q = Fresh THEN "reading" ELSE proc[q]]
    /\ UNCHANGED <<auto, pidFile, plistOn, cfgAuto, cmd, typed, owed, mayFail>>

-----------------------------------------------------------------------------
(* The commands.                                                           *)

Type(c, op) ==
    /\ cmd[c].pc = "done" /\ typed < MaxCmds /\ (Calm => Quiet)
    /\ typed' = typed + 1 /\ owed' = FALSE
    /\ cmd' = [cmd EXCEPT ![c] =
                 [op |-> op,
                  pc |-> CASE op \in {"stop", "start"} -> "bootout"
                           [] op = "install" -> "install"
                           [] op = "update" -> "rebootout"
                           [] op = "autoupdate" -> "save"]]
    /\ UNCHANGED <<proc, auto, pidFile, loaded, job, plistOn, cfgAuto, mayFail>>

Goto(c, l) == cmd' = [cmd EXCEPT ![c].pc = l]

(* service::stop: the service and its process end.                         *)
BootOut == /\ loaded' = FALSE /\ job' = NoPid /\ proc' = Dead(job, proc)

(* launchctl bootstrap and kickstart: a process unless one is running.     *)
Kickstart ==
    /\ loaded' = TRUE
    /\ IF Alive(job) THEN UNCHANGED <<job, proc>>
       ELSE Unborn # {} /\ job' = Fresh /\ proc' = [proc EXCEPT ![Fresh] = "reading"]

(* cmd_stop, first half: the launchd service.                              *)
StopService(c) ==
    /\ cmd[c].pc = "bootout"
    /\ BootOut /\ Goto(c, "term")
    /\ UNCHANGED <<auto, pidFile, plistOn, cfgAuto, typed, owed, mayFail>>

(* ... then a provider the pid file names: SIGTERM, and wait for its end.  *)
StopLegacy(c) ==
    /\ cmd[c].pc = "term"
    /\ proc' = IF Alive(pidFile) THEN Dead(pidFile, proc) ELSE proc
    /\ job' = IF pidFile = NoPid THEN job ELSE Gone(pidFile)
    /\ Goto(c, IF pidFile = NoPid THEN "stopped" ELSE "remove")
    /\ UNCHANGED <<auto, pidFile, loaded, plistOn, cfgAuto, typed, owed, mayFail>>

RemovePidFile(c) ==
    /\ cmd[c].pc = "remove"
    /\ pidFile' = NoPid /\ Goto(c, "stopped")
    /\ UNCHANGED <<proc, auto, loaded, job, plistOn, cfgAuto, typed, owed, mayFail>>

(* `start` goes on to select and download models, which may fail.          *)
Stopped(c) ==
    /\ cmd[c].pc = "stopped"
    /\ \/ cmd[c].op = "start" /\ Goto(c, "install")
       \/ /\ cmd[c].op = "stop" \/ mayFail
          /\ cmd' = [cmd EXCEPT ![c] = Idle]
    /\ UNCHANGED <<proc, auto, pidFile, loaded, job, plistOn, cfgAuto, typed, owed, mayFail>>

(* service::install_and_start: unload, write the plist, load.              *)
InstallUnload(c) ==
    /\ cmd[c].pc = "install"
    /\ BootOut /\ plistOn' = TRUE /\ Goto(c, "kick")
    /\ UNCHANGED <<auto, pidFile, cfgAuto, typed, owed, mayFail>>

InstallLoad(c) ==
    /\ cmd[c].pc = "kick"
    /\ Kickstart /\ cmd' = [cmd EXCEPT ![c] = Idle]
    /\ UNCHANGED <<auto, pidFile, plistOn, cfgAuto, typed, owed, mayFail>>

(* The restart at the end of cmd_update, when the service is loaded.       *)
UpdateUnload(c) ==
    /\ cmd[c].pc = "rebootout"
    /\ IF loaded /\ plistOn THEN BootOut /\ Goto(c, "kick")
       ELSE cmd' = [cmd EXCEPT ![c] = Idle] /\ UNCHANGED <<loaded, job, proc>>
    /\ UNCHANGED <<auto, pidFile, plistOn, cfgAuto, typed, owed, mayFail>>

(* cmd_autoupdate: save the setting, then `kickstart -k` a loaded service. *)
SaveSetting(c) ==
    /\ cmd[c].pc = "save"
    /\ cfgAuto' \in BOOLEAN /\ Goto(c, "apply")
    /\ UNCHANGED <<proc, auto, pidFile, loaded, job, plistOn, typed, owed, mayFail>>

ApplySetting(c) ==
    /\ cmd[c].pc = "apply"
    /\ IF loaded
       THEN /\ Unborn # {} /\ job' = Fresh
            /\ proc' = [Dead(job, proc) EXCEPT ![Fresh] = "reading"]
       ELSE UNCHANGED <<job, proc>>
    /\ cmd' = [cmd EXCEPT ![c] = Idle]
    /\ UNCHANGED <<auto, pidFile, loaded, plistOn, cfgAuto, typed, owed, mayFail>>

Process(p) == ReplaceOld(p) \/ WritePid(p) \/ ComeUp(p) \/ Leave(p) \/ KickstartAndExit(p)

Command(c) == StopService(c) \/ StopLegacy(c) \/ RemovePidFile(c) \/ Stopped(c)
              \/ InstallUnload(c) \/ InstallLoad(c) \/ UpdateUnload(c)
              \/ SaveSetting(c) \/ ApplySetting(c)

LifeNext ==
    \/ RunServe
    \/ \E p \in Pids : Process(p) \/ Dies(p) \/ CtrlC(p) \/ AutoUpdateRestart(p)
    \/ \E c \in Cmds : Command(c)
    \/ \E c \in Cmds, op \in {"stop", "start", "install", "update", "autoupdate"} : Type(c, op)

(* Processes and commands run on; what a person types, crashes and new     *)
(* releases are not owed.                                                  *)
LifeFairness == /\ \A p \in Pids : WF_lifeVars(Process(p))
                /\ \A c \in Cmds : WF_lifeVars(Command(c))

LifeSpec == LifeInit /\ [][LifeNext]_lifeVars /\ LifeFairness

-----------------------------------------------------------------------------

LifeTypeOK ==
    /\ proc \in [Pids -> Running \union {"unborn", "dead"}]
    /\ auto \in [Pids -> BOOLEAN]
    /\ pidFile \in Pids \union {NoPid} /\ job \in Pids \union {NoPid}
    /\ loaded \in BOOLEAN /\ plistOn \in BOOLEAN /\ cfgAuto \in BOOLEAN
    /\ job # NoPid => loaded /\ Alive(job)
    /\ typed \in 0..MaxCmds

(* The provider processes past the pid file.                               *)
Instances == {p \in Pids : proc[p] \in {"starting", "serving"}}

(* "Ensure only one provider instance runs at a time": past the pid file,  *)
(* no two processes run, whether started by hand, by a command, by launchd *)
(* or after an update.                                                     *)
OneInstance == \A p, q \in Instances : p = q

(* A provider that serves under launchd follows the auto-update setting of *)
(* the configuration file once the command that changed it has returned.   *)
SettingApplied ==
    \A p \in Pids : proc[p] = "serving" /\ job = p /\ (\A c \in Cmds : cmd[c].pc = "done")
                    => auto[p] = cfgAuto

(* One provider runs, with the settings its user chose.                    *)
OneObedientInstance == OneInstance /\ SettingApplied

(* A command to start or restart the service, with nothing failing, leads  *)
(* to a provider that serves, unless another command comes first.          *)
StartLeadsToServing ==
    \A c \in Cmds, n \in 0..MaxCmds :
        (cmd[c].pc = "kick" /\ typed = n /\ ~mayFail) ~>
        ((\E p \in Pids : proc[p] = "serving") \/ typed > n \/ Unborn = {})

(* "Exit so launchd restarts us with the new binary": an automatic update, *)
(* with nothing failing, leads to a provider that serves again, unless the *)
(* user commands something else first.                                     *)
UpdateLeadsToServing == (owed /\ ~mayFail) ~> (~owed \/ Unborn = {})
=============================================================================
