------------------------------ MODULE Runtime ------------------------------
(***************************************************************************)
(* The Python runtime under ~/.darkbloom/python and how the provider keeps *)
(* it (main.rs): ensure_python_verified and ensure_runtime_updated, called *)
(* once at startup and again, in a background thread, whenever the         *)
(* coordinator reports the runtime as outdated.                            *)
(*                                                                         *)
(* The interpreter and site-packages are what they hold, "canon" being     *)
(* what the manifest of the coordinator lists.  Downloads, extractions,    *)
(* renames, removals and installs may fail, and the provider may be killed *)
(* between any two steps; MaxRtFaults bounds both.  The updater, which calls the   *)
(* same functions (module Updater), is not running.                        *)
(***************************************************************************)
EXTENDS Integers

CONSTANTS
    Healers,     \* threads available for self-healing
    CDNs,        \* what the CDN may hold for the latest release
    MaxRtFaults  \* bound: failures and kills

Threads == {"main"} \union Healers

Interpreters == {"canon", "old", "stuck", "torn", "pbs", "brew", "gone"}
Packages == {"canon", "old", "bad", "bare", "pip", "none"}

ASSUME RuntimeAssumption ==
    /\ MaxRtFaults \in Nat /\ "main" \notin Healers
    /\ CDNs \subseteq [py : {"canon", "old"}, site : {"canon", "old", "bad", "bare"}]

VARIABLES
    cdn,      \* the tarballs published with the latest release
    py,       \* python/bin/python3.12
    site,     \* lib/python3.12/site-packages
    staging,  \* site-packages-staging
    backup,   \* site-packages-backup
    rpc,      \* what each thread does next, "idle" when it does not run
    was,      \* site-packages as each thread found it
    healing,  \* self_heal_running
    up,       \* "starting" | "serving" | "down"
    rtFaults

rtVars == <<cdn, py, site, staging, backup, rpc, was, healing, up, rtFaults>>
files == <<cdn, py, site, staging, backup>>

RtInit ==
    /\ cdn \in CDNs
    /\ py \in {"canon", "old", "stuck", "gone"} /\ site \in {"canon", "old", "bad", "none"}
    /\ staging = "none" /\ backup = "none"
    /\ rpc = [t \in Threads |-> IF t = "main" THEN "python" ELSE "idle"]
    /\ was = [t \in Threads |-> "none"]
    /\ healing = FALSE /\ up = "starting" /\ rtFaults = 0

(* A fault, if one is left.                                                *)
RtFault == rtFaults < MaxRtFaults /\ rtFaults' = rtFaults + 1
Fine == UNCHANGED rtFaults

(* fetch_runtime_manifest: the hashes it lists, none when it cannot be     *)
(* fetched or read.                                                        *)
fetch_runtime_manifest(listed) ==
    \/ listed = {"canon"} /\ Fine
    \/ listed = {} /\ RtFault

(* "stuck" has the right hash and does not run (dyld).                     *)
PyHash(p) == IF p = "stuck" THEN "canon" ELSE p

(* `python -c print` succeeds.                                             *)
PyRuns(p) == p \in {"canon", "old", "pbs", "brew"}

(* runtime_smoke_test: vllm_mlx and mlx_lm import.                         *)
SmokeTest(p, s) == PyRuns(p) /\ s \in {"canon", "old", "pip"}

(* How the two functions end; the caller looks at that next.               *)
Ends == {"ok", "failed", "noPython"}

GoTo(t, l) == rpc' = [rpc EXCEPT ![t] = l]
Move(t, from, to) == rpc[t] = from /\ GoTo(t, to)

-----------------------------------------------------------------------------
(* ensure_python_verified.                                                 *)

(* Without a manifest nothing is checked.  A listed hash and a binary that *)
(* runs are enough; otherwise the recovery starts.                         *)
CheckPython(t) ==
    /\ rpc[t] = "python"
    /\ \E listed \in SUBSET {"canon"} :
          /\ fetch_runtime_manifest(listed)
          /\ GoTo(t, IF listed = {} \/ (PyHash(py) \in listed /\ PyRuns(py))
                     THEN "runtime" ELSE "fetchPython")
    /\ UNCHANGED <<files, was, healing, up>>

(* The Python tarball of the latest release.                               *)
FetchPython(t) ==
    /\ \/ Fine /\ Move(t, "fetchPython", "unpackPython")
       \/ RtFault /\ Move(t, "fetchPython", "fetchPBS")
    /\ UNCHANGED <<files, was, healing, up>>

(* It is unpacked over the directory, then hashed and run.                 *)
UnpackPython(t) ==
    /\ rpc[t] = "unpackPython"
    /\ \/ /\ Fine /\ py' = cdn.py
          /\ GoTo(t, IF cdn.py = "canon" THEN "runtime" ELSE "fetchPBS")
       \/ /\ RtFault /\ py' \in {"torn", "stuck"}
          /\ GoTo(t, "fetchPBS")
    /\ UNCHANGED <<cdn, site, staging, backup, was, healing, up>>

FetchPBS(t) ==
    /\ \/ Fine /\ Move(t, "fetchPBS", "removePython")
       \/ RtFault /\ Move(t, "fetchPBS", "brew")
    /\ UNCHANGED <<files, was, healing, up>>

(* python-build-standalone replaces the whole directory, site-packages     *)
(* included; its hash is not compared with the manifest.                   *)
RemovePython(t) ==
    /\ Move(t, "removePython", "unpackPBS") /\ Fine
    /\ py' = "gone" /\ site' = "none" /\ staging' = "none" /\ backup' = "none"
    /\ UNCHANGED <<cdn, was, healing, up>>

UnpackPBS(t) ==
    /\ rpc[t] = "unpackPBS"
    /\ \/ Fine /\ py' = "pbs" /\ site' = "bare" /\ GoTo(t, "runtime")
       \/ RtFault /\ py' = "torn" /\ UNCHANGED site /\ GoTo(t, "brew")
    /\ UNCHANGED <<cdn, staging, backup, was, healing, up>>

(* Homebrew's Python, where there is one: the directory becomes a venv.    *)
BrewPython(t) ==
    /\ rpc[t] = "brew" /\ Fine
    /\ \/ GoTo(t, "noPython") /\ UNCHANGED files
       \/ /\ GoTo(t, "noPython") /\ py' = "gone" /\ site' = "none"
          /\ staging' = "none" /\ backup' = "none" /\ UNCHANGED cdn
       \/ /\ GoTo(t, "runtime") /\ py' = "brew" /\ site' = "bare"
          /\ staging' = "none" /\ backup' = "none" /\ UNCHANGED cdn
    /\ UNCHANGED <<was, healing, up>>

-----------------------------------------------------------------------------
(* ensure_runtime_updated.                                                 *)

(* A hash of the manifest, or any hash when there is none, and a smoke     *)
(* test that passes: nothing to do.                                        *)
CheckRuntime(t) ==
    /\ rpc[t] = "runtime"
    /\ was' = [was EXCEPT ![t] = site]
    /\ \E listed \in SUBSET {"canon"} :
          /\ fetch_runtime_manifest(listed)
          /\ GoTo(t, IF (listed = {} \/ site \in listed) /\ SmokeTest(py, site)
                     THEN "ok" ELSE "fetchSite")
    /\ UNCHANGED <<files, healing, up>>

FetchSite(t) ==
    /\ \/ Fine /\ Move(t, "fetchSite", "clear")
       \/ RtFault /\ Move(t, "fetchSite", "zip")
    /\ UNCHANGED <<files, was, healing, up>>

(* What an earlier call left goes; that this may fail is ignored.          *)
ClearStaging(t) ==
    /\ Move(t, "clear", "stage")
    /\ \/ Fine /\ staging' = "none" /\ backup' = "none"
       \/ RtFault /\ UNCHANGED <<staging, backup>>
    /\ UNCHANGED <<cdn, py, site, was, healing, up>>

(* A tarball that does not unpack, or lacks vllm_mlx, is dropped.          *)
StageSite(t) ==
    /\ rpc[t] = "stage"
    /\ \/ /\ Fine /\ cdn.site # "bare"
          /\ staging' = cdn.site /\ GoTo(t, "setAside")
       \/ Fine /\ cdn.site = "bare" /\ GoTo(t, "zip") /\ UNCHANGED staging
       \/ RtFault /\ GoTo(t, "zip") /\ UNCHANGED staging
    /\ UNCHANGED <<cdn, py, site, backup, was, healing, up>>

(* current -> backup; a rename that fails, as it does when an old backup   *)
(* is in the way, keeps what is there.                                     *)
SetAside(t) ==
    /\ rpc[t] = "setAside"
    /\ \/ /\ site = "none" /\ Fine /\ GoTo(t, "putInPlace")
          /\ UNCHANGED <<site, staging, backup>>
       \/ /\ site # "none" /\ backup = "none" /\ Fine /\ GoTo(t, "putInPlace")
          /\ backup' = site /\ site' = "none" /\ UNCHANGED staging
       \/ /\ site # "none" /\ (RtFault \/ (backup # "none" /\ Fine)) /\ GoTo(t, "ok")
          /\ staging' = "none" /\ UNCHANGED <<site, backup>>
    /\ UNCHANGED <<cdn, py, was, healing, up>>

(* backup -> current, where it is not in the way; that this rename may     *)
(* fail as well is ignored.                                                *)
Return ==
    /\ site' = IF site = "none" THEN backup ELSE site
    /\ backup' = IF site = "none" THEN "none" ELSE backup

(* staging -> current, or back with the old one.                           *)
PutInPlace(t) ==
    /\ rpc[t] = "putInPlace"
    /\ \/ /\ Fine /\ site' = staging /\ staging' = "none" /\ GoTo(t, "tryIt")
          /\ UNCHANGED backup
       \/ RtFault /\ GoTo(t, "ok") /\ (Return \/ UNCHANGED <<site, backup>>) /\ UNCHANGED staging
    /\ UNCHANGED <<cdn, py, was, healing, up>>

(* A plausible bug: the backup is dropped before the smoke test.           *)
TryUnsafely(t) ==
    /\ rpc[t] = "tryIt" /\ Fine /\ backup' = "none"
    /\ IF SmokeTest(py, site) THEN GoTo(t, "ok") /\ UNCHANGED site
                              ELSE GoTo(t, "rollBack") /\ site' = "none"
    /\ UNCHANGED <<cdn, py, staging, was, healing, up>>

(* The smoke test decides; the hash is compared for the log only.  Either  *)
(* removal may fail unnoticed.                                             *)
TryIt(t) ==
    /\ rpc[t] = "tryIt"
    /\ \/ /\ SmokeTest(py, site) /\ GoTo(t, "ok") /\ UNCHANGED site
          /\ (Fine /\ backup' = "none") \/ (RtFault /\ UNCHANGED backup)
       \/ /\ ~SmokeTest(py, site) /\ GoTo(t, "rollBack") /\ UNCHANGED backup
          /\ (Fine /\ site' = "none") \/ (RtFault /\ site' \in {site, "bad"})
    /\ UNCHANGED <<cdn, py, staging, was, healing, up>>

RollBack(t) ==
    /\ Move(t, "rollBack", "zip")
    /\ (Fine /\ Return) \/ (RtFault /\ UNCHANGED <<site, backup>>)
    /\ UNCHANGED <<cdn, py, staging, was, healing, up>>

(* The source zip, from the CDN or from GitHub; then vllm_mlx goes.        *)
FetchZip(t) ==
    /\ rpc[t] = "zip"
    /\ \/ Fine /\ GoTo(t, "pip") /\ site' = IF site = "none" THEN "none" ELSE "bare"
       \/ RtFault /\ GoTo(t, "failed") /\ UNCHANGED site
    /\ UNCHANGED <<cdn, py, staging, backup, was, healing, up>>

(* pip install and upgrade with the interpreter at hand, and a last test.  *)
PipInstall(t) ==
    /\ rpc[t] = "pip"
    /\ \/ Fine /\ PyRuns(py) /\ site' = "pip" /\ GoTo(t, "ok")
       \/ Fine /\ ~PyRuns(py) /\ UNCHANGED site /\ GoTo(t, "failed")
       \/ RtFault /\ site' \in {site, "bad"} /\ GoTo(t, "failed")
    /\ UNCHANGED <<cdn, py, staging, backup, was, healing, up>>

-----------------------------------------------------------------------------
(* The callers.                                                            *)

(* cmd_serve: a Python that cannot be recovered ends the startup; what     *)
(* ensure_runtime_updated returns is ignored.                              *)
StartupDone ==
    /\ up = "starting" /\ rpc["main"] \in Ends /\ Fine
    /\ GoTo("main", "idle")
    /\ up' = IF rpc["main"] = "noPython" THEN "down" ELSE "serving"
    /\ was' = [was EXCEPT !["main"] = "none"]
    /\ UNCHANGED <<files, healing>>

(* The runtime_status message: the coordinator compares the hashes of a    *)
(* challenge response with its manifest.                                   *)
runtime_verified == PyHash(py) = "canon" /\ site = "canon"

(* RuntimeOutdated, after a status that is not verified: a thread, unless  *)
(* one is running.                                                         *)
RuntimeOutdated(t) ==
    /\ up = "serving" /\ ~runtime_verified /\ Fine
    /\ ~healing /\ Move(t, "idle", "python")
    /\ healing' = TRUE
    /\ UNCHANGED <<files, was, up>>

(* A plausible bug: only a thread that ends with the interpreter of the    *)
(* manifest clears the flag.                                               *)
HealSticks(t) ==
    /\ t # "main" /\ rpc[t] \in Ends /\ Fine
    /\ GoTo(t, "idle") /\ was' = [was EXCEPT ![t] = "none"]
    /\ healing' = (py # "canon")
    /\ UNCHANGED <<files, up>>

(* The thread clears the flag however it ends.                             *)
HealDone(t) ==
    /\ t # "main" /\ rpc[t] \in Ends /\ Fine
    /\ GoTo(t, "idle") /\ was' = [was EXCEPT ![t] = "none"]
    /\ healing' = FALSE
    /\ UNCHANGED <<files, up>>

Killed ==
    /\ up # "down" /\ RtFault /\ up' = "down"
    /\ rpc' = [t \in Threads |-> "idle"] /\ was' = [t \in Threads |-> "none"]
    /\ healing' = FALSE
    /\ UNCHANGED files

StartAgain ==
    /\ up = "down" /\ Fine /\ up' = "starting" /\ GoTo("main", "python")
    /\ UNCHANGED <<files, was, healing>>

Ensure(t) ==
    \/ CheckPython(t) \/ FetchPython(t) \/ UnpackPython(t) \/ FetchPBS(t)
    \/ RemovePython(t) \/ UnpackPBS(t) \/ BrewPython(t)
    \/ CheckRuntime(t) \/ FetchSite(t) \/ ClearStaging(t) \/ StageSite(t) \/ SetAside(t)
    \/ PutInPlace(t) \/ TryIt(t) \/ RollBack(t) \/ FetchZip(t) \/ PipInstall(t)

RtNext ==
    \/ \E t \in Threads : Ensure(t)
    \/ \E t \in Healers : RuntimeOutdated(t) \/ HealDone(t)
    \/ StartupDone \/ Killed \/ StartAgain

(* Threads run on, and the coordinator challenges every five minutes.      *)
RtFairness == /\ \A t \in Threads : WF_rtVars(Ensure(t))
              /\ WF_rtVars(StartupDone)
              /\ WF_rtVars(\E t \in Healers : RuntimeOutdated(t) \/ HealDone(t))

RtSpec == RtInit /\ [][RtNext]_rtVars /\ RtFairness

-----------------------------------------------------------------------------

RtTypeOK ==
    /\ cdn \in CDNs /\ py \in Interpreters /\ site \in Packages
    /\ staging \in Packages /\ backup \in Packages
    /\ was \in [Threads -> Packages] /\ healing \in BOOLEAN
    /\ up \in {"starting", "serving", "down"} /\ rtFaults \in 0..MaxRtFaults

(* The packages a call found, if any, are in place; or, where a rename or  *)
(* a removal failed, still in site-packages-backup.                        *)
StillThere(t) ==
    was[t] \in {"none", site} \/ (rtFaults > 0 /\ was[t] = backup)

(* New packages that fail their smoke test, or never get that far, leave   *)
(* those the call found: "never delete current before verifying new", and  *)
(* no second self-heal interferes.                                         *)
RolledBack == \A t \in Threads : rpc[t] = "zip" => StillThere(t)

(* When ensure_runtime_updated returns true the packages import with the   *)
(* interpreter at hand, or the ones it found are kept, because a rename    *)
(* failed.                                                                 *)
TrueMeansUsable ==
    \A t \in Threads : rpc[t] = "ok" => SmokeTest(py, site) \/ StillThere(t)

(* Replacing the Python packages by the tarball of the release never       *)
(* destroys the ones that were there before the new ones have passed their *)
(* test.  (The pip fallback, which follows when that fails, does: it       *)
(* removes vllm_mlx first, and a pip that then fails leaves packages that  *)
(* do not import.)                                                         *)
PackagesKept == RolledBack /\ TrueMeansUsable

(* "The coordinator will re-verify on the next attestation challenge": a   *)
(* serving provider whose release is sound on the CDN ends up with files   *)
(* the coordinator verifies, whatever failed before, unless it is killed.  *)
OutdatedHeals ==
    (up = "serving" /\ cdn = [py |-> "canon", site |-> "canon"])
        ~> (up = "down" \/ runtime_verified)
=============================================================================
