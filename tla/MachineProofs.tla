--------------------------- MODULE MachineProofs ----------------------------
(***************************************************************************)
(* The provider's machine across processes and commands, for any number of *)
(* processes, shells, healing threads, files and chunks, with kills,       *)
(* failures and lost transfers anywhere.                                   *)
(***************************************************************************)
EXTENDS Updater, Lifecycle, Startup, Runtime, Download, Templates, TLAPS

(* Startup: what the provider tells the coordinator of itself is true.     *)

Versions == {"none", "old", "new", "torn", Mixed}

(* A hash that may be reported when the versions in seen were on disk.     *)
Reported(v, seen) == v \in seen \/ (v = Mixed /\ \E x, y \in seen : x # y)

(* The order of the startup: each protection is in force from its stage    *)
(* on, the register message comes last, and challenges after it; all that  *)
(* was on disk since a challenge came is remembered.                       *)
StartInv ==
    /\ disk \in [python : {"old", "new", "torn"}, templates : {"none", "new"}]
    /\ stage \notin {"harden", "exited"} => Hardened \subseteq guards /\ PostureOK
    /\ stage \in {"connect", "serving"} => "debugger" \in guards
    /\ servable # {} => stage # "harden" /\ "python" \in guards
    /\ registered # NoClaims => stage = "serving" /\ registered.caps = Capabilities
    /\ challenge \in [at : {"none", "hash", "sign"}, from : Versions, python : Versions, seen : SUBSET Versions]
    /\ \/ challenge = NoChallenge
       \/ /\ stage = "serving" /\ disk.python \in challenge.seen /\ challenge.from \in challenge.seen
          /\ challenge.at = "sign" => Reported(challenge.python, challenge.seen)
    /\ \/ answer = NoAnswer
       \/ /\ stage = "serving" /\ Reported(answer.status.python, answer.seen)
          /\ answer.status.templates = "new" <=> disk.templates = "new"
    /\ answer.signed # <<>> => answer.signed = Canonical(answer.status)

LEMMA StartInitially == StartInit => StartInv
<1> SUFFICES ASSUME StartInit PROVE StartInv
  BY Zenon
<1>1. NoChallenge \in [at : {"none", "hash", "sign"}, from : Versions, python : Versions, seen : SUBSET Versions]
  BY DEF NoChallenge, Versions
<1> QED
  BY <1>1 DEF StartInit, StartInv, NoClaims, NoAnswer

(* The startup proper: nothing is registered or answered yet.              *)
LEMMA StartupSteps ==
    ASSUME StartInv,
           \/ Harden \/ ReadConfig \/ SelectModels \/ VerifyPython \/ Advertise \/ BuildClient
           \/ CacheTemplates \/ (\E m \in Models : LoadEngine(m)) \/ DenyDebugger
    PROVE  StartInv'
<1>0. UNCHANGED <<mac, registered, challenge, answer>> /\ stage # "serving"
  BY Zenon DEF Harden, ReadConfig, SelectModels, VerifyPython, Advertise, BuildClient, CacheTemplates,
         LoadEngine, DenyDebugger, Bail
<1>1. registered' = NoClaims /\ challenge' = NoChallenge /\ answer' = NoAnswer /\ (PostureOK' <=> PostureOK)
  BY <1>0, Zenon DEF StartInv, PostureOK
<1>2. /\ disk' \in [python : {"old", "new", "torn"}, templates : {"none", "new"}]
  BY Zenon DEF StartInv, Harden, ReadConfig, SelectModels, VerifyPython, Advertise, BuildClient,
         CacheTemplates, LoadEngine, DenyDebugger, Bail
<1>3. /\ stage' \notin {"harden", "exited"} => Hardened \subseteq guards' /\ PostureOK
      /\ stage' \in {"connect", "serving"} => "debugger" \in guards'
      /\ servable' # {} => stage' # "harden" /\ "python" \in guards'
  <2>1. CASE Harden
    BY <2>1, Zenon DEF StartInv, Harden, Bail, Reach, Hardened
  <2>2. CASE ReadConfig \/ SelectModels \/ VerifyPython \/ Advertise \/ BuildClient \/ CacheTemplates
    BY <2>2, Zenon DEF StartInv, ReadConfig, SelectModels, VerifyPython, Advertise, BuildClient,
                CacheTemplates, Bail, Reach
  <2>3. ASSUME NEW m \in Models, LoadEngine(m)
        PROVE  <1>3!1 /\ <1>3!2 /\ <1>3!3
    BY <2>3, Zenon DEF StartInv, LoadEngine, lock_python_path
  <2>4. CASE DenyDebugger
    BY <2>4, Zenon DEF StartInv, DenyDebugger, Bail, Reach
  <2> QED
    BY <2>1, <2>2, <2>3, <2>4, Zenon
<1>4. answer'.signed = <<>>
  BY <1>1, Zenon DEF NoAnswer
<1> QED
  BY <1>0, <1>1, <1>2, <1>3, <1>4, Zenon DEF StartInv

(* The register message.                                                   *)
LEMMA RegisterStep ==
    ASSUME StartInv, Register
    PROVE  StartInv'
<1>1. /\ (PostureOK' <=> PostureOK) /\ registered'.caps = Capabilities
      /\ UNCHANGED <<disk, guards, servable, challenge, answer>> /\ stage = "connect" /\ stage' = "serving"
  BY Zenon DEF Register, PostureOK, Claims
<1>2. challenge' = NoChallenge /\ answer' = NoAnswer
  BY <1>1, Zenon DEF StartInv
<1> QED
  BY <1>1, <1>2, ZenonT(40) DEF StartInv

(* Afterwards: self-healing and challenges.                                *)
LEMMA ServingSteps ==
    ASSUME StartInv, SelfHeal \/ TakeChallenge \/ HashRuntime \/ AnswerChallenge
    PROVE  StartInv'
<1>0. UNCHANGED <<stage, guards, servable, registered>> /\ (PostureOK' <=> PostureOK)
  BY Zenon DEF SelfHeal, TakeChallenge, HashRuntime, AnswerChallenge, Respond, PostureOK
<1>a. /\ disk.python \in {"old", "new", "torn"} /\ disk.python \in Versions /\ Mixed \in Versions
      /\ challenge \in [at : {"none", "hash", "sign"}, from : Versions, python : Versions, seen : SUBSET Versions]
      /\ challenge # NoChallenge =>
            /\ stage = "serving" /\ disk.python \in challenge.seen /\ challenge.from \in challenge.seen
            /\ challenge.at = "sign" => Reported(challenge.python, challenge.seen)
      /\ NoChallenge.at = "none"
  BY DEF StartInv, Versions, NoChallenge
<1>1. /\ stage \notin {"harden", "exited"} => Hardened \subseteq guards /\ PostureOK
      /\ stage \in {"connect", "serving"} => "debugger" \in guards
      /\ servable # {} => stage # "harden" /\ "python" \in guards
      /\ registered # NoClaims => stage = "serving" /\ registered.caps = Capabilities
  BY Zenon DEF StartInv
<1>2. CASE SelfHeal
  <2>1. /\ disk' \in [python : {"old", "new", "torn"}, templates : {"none", "new"}]
        /\ disk'.templates = disk.templates /\ answer' = answer
    BY <1>2 DEF SelfHeal, StartInv
  <2>2. disk'.python \in Versions
    BY <2>1 DEF Versions
  <2>3. \/ challenge' = NoChallenge
        \/ /\ challenge # NoChallenge
           /\ challenge' = [challenge EXCEPT !.seen = challenge.seen \cup {disk'.python}]
    BY <1>2, Zenon DEF SelfHeal
  <2>4. CASE challenge' = NoChallenge
    <3>1. challenge' \in [at : {"none", "hash", "sign"}, from : Versions, python : Versions, seen : SUBSET Versions]
      BY <2>4 DEF NoChallenge, Versions
    <3> QED
      BY <1>0, <1>1, <2>1, <2>4, <3>1, Zenon DEF StartInv
  <2>5. CASE /\ challenge # NoChallenge
             /\ challenge' = [challenge EXCEPT !.seen = challenge.seen \cup {disk'.python}]
    <3>1. /\ challenge' \in [at : {"none", "hash", "sign"}, from : Versions, python : Versions, seen : SUBSET Versions]
          /\ challenge'.at = challenge.at /\ challenge'.from = challenge.from /\ challenge'.python = challenge.python
          /\ challenge'.seen = challenge.seen \cup {disk'.python}
      BY <1>a, <2>2, <2>5
    <3>2. challenge'.at = "sign" => Reported(challenge'.python, challenge'.seen)
      BY <1>a, <2>5, <3>1, Zenon DEF Reported
    <3>3. stage' = "serving" /\ disk'.python \in challenge'.seen /\ challenge'.from \in challenge'.seen
      BY <1>0, <1>a, <2>5, <3>1, Zenon
    <3> QED
      BY <1>0, <1>1, <2>1, <3>1, <3>2, <3>3, Zenon DEF StartInv
  <2> QED
    BY <2>3, <2>4, <2>5, Zenon
<1>3. CASE TakeChallenge
  <2>1. /\ disk' = disk /\ answer' = answer /\ stage = "serving"
        /\ challenge' = [at |-> "hash", from |-> disk.python, python |-> "none", seen |-> {disk.python}]
    BY <1>3, Zenon DEF TakeChallenge
  <2>2. /\ challenge' \in [at : {"none", "hash", "sign"}, from : Versions, python : Versions, seen : SUBSET Versions]
        /\ disk.python \in challenge'.seen /\ challenge'.from \in challenge'.seen /\ challenge'.at # "sign"
    BY <1>a, <2>1 DEF Versions
  <2> QED
    BY <1>0, <1>1, <2>1, <2>2, Zenon DEF StartInv
<1>4. CASE HashRuntime
  <2>1. /\ disk' = disk /\ answer' = answer /\ challenge.at = "hash"
        /\ challenge' = [challenge EXCEPT !.at = "sign",
                           !.python = IF disk.python = challenge.from THEN disk.python ELSE Mixed]
    BY <1>4, Zenon DEF HashRuntime
  <2>2. challenge # NoChallenge
    BY <1>a, <2>1
  <2>3. /\ challenge' \in [at : {"none", "hash", "sign"}, from : Versions, python : Versions, seen : SUBSET Versions]
        /\ challenge'.from = challenge.from /\ challenge'.seen = challenge.seen
        /\ challenge'.python = IF disk.python = challenge.from THEN disk.python ELSE Mixed
    BY <1>a, <2>1
  <2>4. Reported(challenge'.python, challenge'.seen)
    <3>1. disk.python \in challenge.seen /\ challenge.from \in challenge.seen
      BY <1>a, <2>2, Zenon
    <3>2. CASE disk.python = challenge.from
      BY <2>3, <3>1, <3>2, Zenon DEF Reported
    <3>3. CASE disk.python # challenge.from
      <4>1. challenge'.python = Mixed
        BY <2>3, <3>3, Zenon
      <4> QED
        BY <2>3, <3>1, <3>3, <4>1, Zenon DEF Reported
    <3> QED
      BY <3>2, <3>3, Zenon
  <2> QED
    BY <1>0, <1>1, <1>a, <2>1, <2>2, <2>3, <2>4, Zenon DEF StartInv
<1>5. CASE AnswerChallenge
  <2> DEFINE st == StatusWith(challenge.python)
  <2>1. challenge.at = "sign" /\ disk' = disk /\ challenge' = NoChallenge
    BY <1>5, Zenon DEF AnswerChallenge, Respond
  <2>2. PICK sig \in {Canonical(st), <<>>} : answer' = [status |-> st, signed |-> sig, seen |-> challenge.seen]
    BY <1>5, Zenon DEF AnswerChallenge, Respond, se_sign
  <2>3. challenge # NoChallenge
    BY <1>a, <2>1
  <2>4. answer'.status = st /\ answer'.seen = challenge.seen
        /\ (answer'.signed # <<>> => answer'.signed = Canonical(answer'.status))
    BY <2>2, Zenon
  <2>5. st.python = challenge.python /\ (st.templates = "new" <=> disk.templates = "new")
    BY DEF StatusWith, Hashes, StartInv, Unknown
  <2>6. Reported(answer'.status.python, answer'.seen) /\ (answer'.status.templates = "new" <=> disk'.templates = "new")
        /\ stage' = "serving"
    BY <1>0, <1>a, <2>1, <2>3, <2>4, <2>5, Zenon
  <2>7. challenge' \in [at : {"none", "hash", "sign"}, from : Versions, python : Versions, seen : SUBSET Versions]
    BY <2>1 DEF NoChallenge, Versions
  <2> HIDE DEF st
  <2> QED
    BY <1>0, <1>1, <2>1, <2>4, <2>6, <2>7, Zenon DEF StartInv
<1> QED
  BY <1>2, <1>3, <1>4, <1>5, Zenon

(* build_status_canonical: leaving unknown fields out loses nothing.       *)
LEMMA CanonicalFixes ==
    ASSUME NEW s, NEW f \in DOMAIN s, NEW v,
           Canonical([s EXCEPT ![f] = v]) = Canonical(s)
    PROVE  s[f] = v
<1> DEFINE t == [s EXCEPT ![f] = v]
<1>1. DOMAIN t = DOMAIN s /\ t[f] = v
  BY Zenon
<1>2. \A x : /\ DOMAIN Canonical(x) = {g \in DOMAIN x : x[g] # Unknown}
             /\ \A g \in DOMAIN Canonical(x) : Canonical(x)[g] = x[g]
  BY Zenon DEF Canonical
<1>3. Canonical(t) = Canonical(s)
  BY Zenon
<1> HIDE DEF t
<1>4. CASE v = Unknown
  BY <1>1, <1>2, <1>3, <1>4, Zenon
<1>5. CASE v # Unknown
  BY <1>1, <1>2, <1>3, <1>5, ZenonT(40)
<1> QED
  BY <1>4, <1>5, Zenon

(* cmd_serve and the coordinator client: every protection the register     *)
(* message claims is in force, but for dangerous_modules_blocked; an       *)
(* attestation response reports a runtime that was on disk after its       *)
(* challenge came, or a mixture if it was being replaced meanwhile; and    *)
(* what is signed fixes every field of it.                                 *)
THEOREM ClaimsStayTrue == StartSpec => []ClaimsAreTrue
<1>1. StartInv /\ [StartNext]_startVars => StartInv'
  <2> SUFFICES ASSUME StartInv, [StartNext]_startVars PROVE StartInv'
    BY Zenon
  <2>1. CASE UNCHANGED startVars
    <3>1. (PostureOK' <=> PostureOK)
      BY <2>1, Zenon DEF startVars, PostureOK
    <3> QED
      BY <2>1, <3>1, Zenon DEF StartInv, startVars
  <2> QED
    BY <2>1, StartupSteps, RegisterStep, ServingSteps, Zenon DEF StartNext
<1>2. StartInv => ClaimsAreTrue
  <2> SUFFICES ASSUME StartInv PROVE ClaimsAreTrue
    BY Zenon
  <2>1. ClaimsHold
    BY Zenon DEF StartInv, ClaimsHold, Hardened, Capabilities, PostureOK
  <2>2. AnswerIsFresh
    BY Zenon DEF StartInv, AnswerIsFresh, Reported
  <2>3. SignatureFixesStatus
    BY CanonicalFixes DEF StartInv, SignatureFixesStatus
  <2> QED
    BY <2>1, <2>2, <2>3, Zenon DEF ClaimsAreTrue
<1> QED
  BY StartInitially, <1>1, <1>2, PTL DEF StartSpec

-----------------------------------------------------------------------------
(* Templates: what is served is the published template.                    *)

(* What each stage of a start knows of the cache and of the template of    *)
(* the model.                                                              *)
TplInv ==
    /\ tpc \in {"down", "cache", "fetch", "check", "ensure", "r2", "checkR2", "hf",
                "checkHF", "serve"}
    /\ fresh \in BOOLEAN /\ calm \in BOOLEAN
    /\ tpc = "fetch" => cached = "none"
    /\ tpc \in {"check", "ensure", "serve"} /\ manifest /\ calm => cached = "good"
    /\ tpc \in {"r2", "checkR2", "hf", "checkHF"} /\ manifest => ~calm
    /\ tpc \in {"cache", "fetch", "check", "ensure"} /\ fresh => jinja = "none"
    /\ tpc = "r2" => jinja = "none"
    /\ tpc = "hf" => jinja \in {"none", "torn"}
    /\ tpc = "serve" /\ manifest /\ fresh => jinja # "other"

LEMMA TplInitially == TplInit => TplInv
  BY Zenon DEF TplInit, TplInv

(* The first half of a start: the cache.                                   *)
LEMMA CacheKeepsTpl ==
    ASSUME TplInv, BootTpl \/ KillTemplates \/ CacheCheck \/ CacheFetch \/ CacheVerify
    PROVE  TplInv'
<1>1. CASE BootTpl
  BY <1>1, Zenon DEF TplInv, BootTpl
<1>2. CASE KillTemplates
  BY <1>2, Zenon DEF TplInv, KillTemplates
<1>3. CASE CacheCheck
  BY <1>3, Zenon DEF TplInv, CacheCheck, SameModel, Verified
<1>4. CASE CacheFetch
  BY <1>4, Zenon DEF TplInv, CacheFetch, SameModel, Fetched, Succeeded, Noted
<1>5. CASE CacheVerify
  BY <1>5, Zenon DEF TplInv, CacheVerify, SameModel, Verified
<1> QED
  BY <1>1, <1>2, <1>3, <1>4, <1>5, Zenon

(* The second half: the template of the model.                             *)
LEMMA EnsureKeepsTpl ==
    ASSUME TplInv,
           \/ EnsureSkips \/ InstallCached
           \/ FetchTemplate("r2", "checkR2", "hf") \/ VerifyTemplate("checkR2", "hf")
           \/ FetchTemplate("hf", "checkHF", "serve") \/ VerifyTemplate("checkHF", "serve")
    PROVE  TplInv'
<1>1. CASE EnsureSkips
  BY <1>1, Zenon DEF TplInv, EnsureSkips, SameModel
<1>2. CASE InstallCached
  <2>1. CASE cached # "none" /\ Verified(cached) /\ tpc' = "serve"
    BY <1>2, <2>1, Zenon DEF TplInv, InstallCached, SameModel, Verified
  <2>2. CASE (cached = "none" \/ ~Verified(cached)) /\ tpc' = "r2" /\ UNCHANGED <<jinja, calm>>
    BY <1>2, <2>2, Zenon DEF TplInv, InstallCached, SameModel, Verified
  <2> QED
    BY <1>2, <2>1, <2>2, Zenon DEF InstallCached
<1>3. CASE FetchTemplate("r2", "checkR2", "hf")
  BY <1>3, Zenon DEF TplInv, FetchTemplate, SameModel, Fetched, Succeeded, Noted
<1>4. CASE VerifyTemplate("checkR2", "hf")
  BY <1>4, Zenon DEF TplInv, VerifyTemplate, SameModel, Verified
<1>5. CASE FetchTemplate("hf", "checkHF", "serve")
  BY <1>5, Zenon DEF TplInv, FetchTemplate, SameModel, Fetched, Succeeded, Noted
<1>6. CASE VerifyTemplate("checkHF", "serve")
  BY <1>6, Zenon DEF TplInv, VerifyTemplate, SameModel, Verified
<1> QED
  BY <1>1, <1>2, <1>3, <1>4, <1>5, <1>6, Zenon

(* ensure_templates_cached and ensure_chat_template: a start that knows    *)
(* the manifest ends with its template in the cache when its transfers     *)
(* succeed, and never gives the model a complete template of another hash, *)
(* whatever earlier starts, broken transfers and kills left behind.        *)
THEOREM TemplatesEndRight == TplSpec => []TemplatesAreRight
<1>1. TplInv /\ [TplNext]_tplVars => TplInv'
  <2> SUFFICES ASSUME TplInv, [TplNext]_tplVars PROVE TplInv'
    BY Zenon
  <2>1. CASE UNCHANGED tplVars
    BY <2>1, Zenon DEF TplInv, tplVars
  <2>2. CASE TplNext
    BY <2>2, CacheKeepsTpl, EnsureKeepsTpl, Zenon DEF TplNext
  <2> QED
    BY <2>1, <2>2, Zenon
<1>2. TplInv => TemplatesAreRight
  BY Zenon DEF TplInv, TemplatesAreRight, CacheHeals, InstalledMatches
<1> QED
  BY TplInitially, <1>1, <1>2, PTL DEF TplSpec

-----------------------------------------------------------------------------
(* The runtime: an update does not destroy what works.                     *)

(* One thread at a time touches the files: the main thread while the       *)
(* provider starts, afterwards the one for which the flag was raised.      *)
OneThread ==
    /\ DOMAIN rpc = Threads /\ DOMAIN was = Threads /\ healing \in BOOLEAN /\ rtFaults \in Nat
    /\ up \in {"starting", "serving", "down"}
    /\ \A t, u \in Threads : rpc[t] # "idle" /\ rpc[u] # "idle" => t = u
    /\ up = "starting" => \A t \in Healers : rpc[t] = "idle"
    /\ up = "serving" => rpc["main"] = "idle"
    /\ up = "serving" /\ ~healing => \A t \in Threads : rpc[t] = "idle"
    /\ up # "serving" => ~healing
    /\ up = "down" => \A t \in Threads : rpc[t] = "idle"

(* Where the packages are that a call found, at each of its steps.         *)
FoundKept(t) ==
    /\ rpc[t] \in {"fetchSite", "clear", "stage", "setAside"} => site = was[t]
    /\ rpc[t] = "putInPlace" => site = "none"
    /\ rpc[t] = "rollBack" => site = "none" \/ rtFaults > 0
    /\ rpc[t] \in {"putInPlace", "rollBack", "tryIt"} => was[t] \in {"none", backup}
    /\ rpc[t] = "zip" => StillThere(t)
    /\ rpc[t] = "ok" => SmokeTest(py, site) \/ StillThere(t)

RtInv == OneThread /\ \A t \in Threads : FoundKept(t)

LEMMA RtInitially == RtInit => RtInv
<1> SUFFICES ASSUME RtInit PROVE RtInv
  BY Zenon
<1>0. rtFaults \in Nat
  BY SMT DEF RtInit
<1>1. OneThread
  BY <1>0, RuntimeAssumption, Zenon DEF RtInit, OneThread, Threads
<1>2. \A t \in Threads : FoundKept(t)
  BY Zenon DEF RtInit, FoundKept, Threads
<1> QED
  BY <1>1, <1>2, Zenon DEF RtInv

(* Faults are counted, never forgotten.                                    *)
LEMMA FaultsCount ==
    ASSUME rtFaults \in Nat
    PROVE  /\ RtFault => rtFaults' \in Nat /\ rtFaults' > 0
           /\ Fine => rtFaults' \in Nat /\ rtFaults' = rtFaults
BY SMT DEF RtFault, Fine

(* A step of a thread that is running and goes on running leaves the       *)
(* others idle.                                                            *)
LEMMA ThreadStep ==
    ASSUME RtInv, NEW t \in Threads, rpc[t] # "idle", NEW l, l # "idle", GoTo(t, l),
           UNCHANGED <<healing, up>>, DOMAIN was' = Threads, RtFault \/ Fine, FoundKept(t)'
    PROVE  RtInv'
<1>1. /\ DOMAIN rpc' = Threads /\ rpc'[t] = l
      /\ \A u \in Threads \ {t} : rpc'[u] = rpc[u] /\ rpc[u] = "idle"
  BY Zenon DEF RtInv, OneThread, GoTo
<1>2. OneThread'
  <2>1. "main" \in Threads /\ Healers \subseteq Threads
    BY Zenon DEF Threads
  <2> QED
    BY <1>1, <2>1, FaultsCount, Zenon DEF RtInv, OneThread
<1>3. \A u \in Threads : FoundKept(u)'
  <2> SUFFICES ASSUME NEW u \in Threads \ {t} PROVE FoundKept(u)'
    BY Zenon
  <2>1. rpc'[u] = "idle"
    BY <1>1, Zenon
  <2> QED
    BY <2>1, Zenon DEF FoundKept
<1> QED
  BY <1>2, <1>3, Zenon DEF RtInv

(* ensure_python_verified: nothing the call found matters yet.             *)
LEMMA PythonSteps ==
    ASSUME RtInv, NEW t \in Threads,
           \/ CheckPython(t) \/ FetchPython(t) \/ UnpackPython(t) \/ FetchPBS(t)
           \/ RemovePython(t) \/ UnpackPBS(t) \/ BrewPython(t)
    PROVE  RtInv'
<1> DEFINE Labels == {"runtime", "fetchPython", "unpackPython", "fetchPBS", "removePython",
                      "unpackPBS", "brew", "noPython"}
<1>1. PICK l \in Labels : GoTo(t, l)
  <2>1. CASE CheckPython(t)
    BY <2>1, Zenon DEF CheckPython
  <2>2. CASE FetchPython(t) \/ FetchPBS(t) \/ RemovePython(t)
    BY <2>2, Zenon DEF FetchPython, FetchPBS, RemovePython, Move
  <2>3. CASE UnpackPython(t)
    BY <2>3, Zenon DEF UnpackPython
  <2>4. CASE UnpackPBS(t) \/ BrewPython(t)
    BY <2>4, Zenon DEF UnpackPBS, BrewPython
  <2> QED
    BY <2>1, <2>2, <2>3, <2>4, Zenon
<1>2. rpc[t] # "idle" /\ UNCHANGED <<was, healing, up>> /\ (RtFault \/ Fine)
  BY Zenon DEF CheckPython, FetchPython, UnpackPython, FetchPBS, RemovePython, UnpackPBS, BrewPython,
               Move, fetch_runtime_manifest
<1>3. FoundKept(t)'
  <2>1. rpc'[t] = l
    BY <1>1, Zenon DEF RtInv, OneThread, GoTo
  <2> QED
    BY <2>1, Zenon DEF FoundKept
<1>4. l # "idle" /\ DOMAIN was' = Threads
  BY <1>2, Zenon DEF RtInv, OneThread
<1> QED
  BY <1>1, <1>2, <1>3, <1>4, ThreadStep, Zenon

(* ensure_runtime_updated.                                                 *)
LEMMA SiteSteps ==
    ASSUME RtInv, NEW t \in Threads,
           \/ CheckRuntime(t) \/ FetchSite(t) \/ ClearStaging(t) \/ StageSite(t) \/ SetAside(t)
           \/ PutInPlace(t) \/ TryIt(t) \/ RollBack(t) \/ FetchZip(t) \/ PipInstall(t)
    PROVE  RtInv'
<1> DEFINE Labels == {"ok", "failed", "fetchSite", "clear", "stage", "zip", "setAside",
                      "putInPlace", "tryIt", "rollBack", "pip"}
<1> DEFINE Good(l) == l \in Labels /\ GoTo(t, l) /\ FoundKept(t)'
<1>0. /\ FoundKept(t) /\ DOMAIN rpc = Threads /\ DOMAIN was = Threads
      /\ \A l : GoTo(t, l) => rpc'[t] = l
  BY Zenon DEF RtInv, OneThread, GoTo
<1>f. /\ RtFault => rtFaults' > 0
      /\ Fine => rtFaults' = rtFaults
  BY FaultsCount, Zenon DEF RtInv, OneThread
<1>1. CASE CheckRuntime(t)
  <2>1. was'[t] = site /\ site' = site /\ py' = py
    BY <1>0, <1>1, Zenon DEF CheckRuntime, files
  <2>2. PICK l \in {"ok", "fetchSite"} : GoTo(t, l) /\ (l = "ok" => SmokeTest(py, site))
    BY <1>1, Zenon DEF CheckRuntime
  <2>3. FoundKept(t)'
    BY <1>0, <2>1, <2>2, Zenon DEF FoundKept, SmokeTest
  <2>4. rpc[t] # "idle" /\ UNCHANGED <<healing, up>> /\ DOMAIN was' = Threads /\ (RtFault \/ Fine)
    BY <1>0, <1>1, Zenon DEF CheckRuntime, fetch_runtime_manifest
  <2> QED
    BY <2>2, <2>3, <2>4, ThreadStep, Zenon
<1>2. CASE FetchSite(t) \/ ClearStaging(t) \/ StageSite(t) \/ SetAside(t) \/ PutInPlace(t)
           \/ TryIt(t) \/ RollBack(t) \/ FetchZip(t) \/ PipInstall(t)
  <2>1. /\ rpc[t] # "idle" /\ UNCHANGED <<was, healing, up>>
        /\ DOMAIN was' = Threads /\ (RtFault \/ Fine)
    BY <1>0, <1>2, Zenon DEF FetchSite, ClearStaging, StageSite, SetAside, PutInPlace, TryIt, RollBack,
                      FetchZip, PipInstall, Move
  <2>2. \E l : Good(l)
    <3>1. CASE FetchSite(t)
      BY <1>0, <3>1, <2>1, Zenon DEF FetchSite, Move, FoundKept, StillThere, files
    <3>2. CASE ClearStaging(t)
      BY <1>0, <3>2, <2>1, Zenon DEF ClearStaging, Move, FoundKept
    <3>3. CASE StageSite(t)
      BY <1>0, <3>3, <2>1, Zenon DEF StageSite, FoundKept, StillThere
    <3>4. CASE SetAside(t)
      BY <1>0, <3>4, <2>1, Zenon DEF SetAside, FoundKept, StillThere
    <3>5. CASE PutInPlace(t)
      BY <1>0, <1>f, <3>5, <2>1, Zenon DEF PutInPlace, Return, FoundKept, StillThere
    <3>6. CASE TryIt(t)
      BY <1>0, <1>f, <3>6, <2>1, Zenon DEF TryIt, FoundKept, SmokeTest
    <3>7. CASE RollBack(t)
      BY <1>0, <1>f, <3>7, <2>1, Zenon DEF RollBack, Return, Move, FoundKept, StillThere
    <3>8. CASE FetchZip(t)
      BY <1>0, <3>8, <2>1, Zenon DEF FetchZip, FoundKept
    <3>9. CASE PipInstall(t)
      BY <1>0, <3>9, <2>1, Zenon DEF PipInstall, FoundKept, SmokeTest, PyRuns
    <3> QED
      BY <1>2, <3>1, <3>2, <3>3, <3>4, <3>5, <3>6, <3>7, <3>8, <3>9, Zenon
  <2>3. PICK l : Good(l)
    BY <2>2, Zenon
  <2> QED
    BY <2>1, <2>3, ThreadStep, Zenon
<1> QED
  BY <1>1, <1>2, Zenon

(* The callers start and end a thread; a kill ends all.                    *)
LEMMA CallerSteps ==
    ASSUME RtInv,
           \/ \E t \in Healers : RuntimeOutdated(t) \/ HealDone(t)
           \/ StartupDone \/ Killed \/ StartAgain
    PROVE  RtInv'
<1>0. /\ "main" \in Threads /\ Healers \subseteq Threads /\ "main" \notin Healers
      /\ RtFault \/ Fine => rtFaults' \in Nat
  BY RuntimeAssumption, FaultsCount, Zenon DEF Threads, RtInv, OneThread
<1>1. ASSUME NEW t \in Healers, RuntimeOutdated(t) PROVE RtInv'
  <2>1. OneThread'
    BY <1>0, <1>1, Zenon DEF RtInv, OneThread, RuntimeOutdated, Move, GoTo
  <2>2. \A u \in Threads : FoundKept(u)'
    <3>1. \A u \in Threads : rpc'[u] \in {"idle", "python"}
      BY <1>0, <1>1, Zenon DEF RtInv, OneThread, RuntimeOutdated, Move, GoTo
    <3> QED
      BY <3>1, Zenon DEF FoundKept
  <2> QED
    BY <2>1, <2>2, Zenon DEF RtInv
<1>2. ASSUME NEW t \in Healers, HealDone(t) PROVE RtInv'
  <2>0. rpc[t] # "idle" /\ up = "serving"
    BY <1>0, <1>2, Zenon DEF RtInv, OneThread, HealDone, Ends
  <2>1. OneThread'
    BY <1>0, <1>2, <2>0, Zenon DEF RtInv, OneThread, HealDone, GoTo
  <2>2. \A u \in Threads : rpc'[u] = "idle"
    BY <1>0, <1>2, <2>0, Zenon DEF RtInv, OneThread, HealDone, GoTo
  <2> QED
    BY <2>1, <2>2, Zenon DEF RtInv, FoundKept
<1>3. CASE StartupDone
  <2>1. \A u \in Threads : rpc'[u] = "idle"
    BY <1>0, <1>3, Zenon DEF RtInv, OneThread, StartupDone, GoTo, Threads
  <2>2. OneThread'
    BY <1>0, <1>3, <2>1, Zenon DEF RtInv, OneThread, StartupDone, GoTo
  <2> QED
    BY <2>1, <2>2, Zenon DEF RtInv, FoundKept
<1>4. CASE Killed
  BY <1>0, <1>4, Zenon DEF RtInv, OneThread, FoundKept, Killed
<1>5. CASE StartAgain
  <2>1. \A u \in Threads : rpc'[u] = IF u = "main" THEN "python" ELSE "idle"
    BY <1>0, <1>5, Zenon DEF RtInv, OneThread, StartAgain, GoTo
  <2>2. OneThread'
    BY <1>0, <1>5, <2>1, ZenonT(40) DEF RtInv, OneThread, StartAgain, GoTo
  <2> QED
    BY <2>1, <2>2, Zenon DEF RtInv, FoundKept
<1> QED
  BY <1>1, <1>2, <1>3, <1>4, <1>5, Zenon

(* ensure_runtime_updated and its callers: packages that fail their smoke  *)
(* test, or never get that far, leave those the call found, in place or,   *)
(* where putting them back failed, in the backup directory; success means  *)
(* packages that import, or the ones found.  This for any number of        *)
(* threads, faults and kills, and whatever the CDN holds.                  *)
THEOREM UpdatesKeepPackages == RtSpec => []PackagesKept
<1>1. RtInv /\ [RtNext]_rtVars => RtInv'
  <2> SUFFICES ASSUME RtInv, [RtNext]_rtVars PROVE RtInv'
    BY Zenon
  <2>1. CASE UNCHANGED rtVars
    BY <2>1, Zenon DEF RtInv, OneThread, FoundKept, StillThere, SmokeTest, rtVars
  <2>2. ASSUME NEW t \in Threads, Ensure(t) PROVE RtInv'
    BY <2>2, PythonSteps, SiteSteps, Zenon DEF Ensure
  <2> QED
    BY <2>1, <2>2, CallerSteps, Zenon DEF RtNext
<1>2. RtInv => PackagesKept
  BY Zenon DEF RtInv, FoundKept, PackagesKept, RolledBack, TrueMeansUsable
<1> QED
  BY RtInitially, <1>1, <1>2, PTL DEF RtSpec

-----------------------------------------------------------------------------
(* Downloads: what is offered is whole.                                    *)

(* A file that is the beginning of the published one.                      *)
Prefix(s) == s \in Seq(Nat) /\ Len(s) <= Size /\ \A i \in 1..Len(s) : s[i] = i

(* Why a resumed transfer is sound: what the server sends next is what the *)
(* file lacks next; the files before the current one are whole.            *)
DlInv ==
    /\ layout \in Layouts /\ at \in 1..Len(layout) /\ pos \in Nat \ {0}
    /\ DOMAIN wfile = Weights /\ \A f \in Weights : Prefix(wfile[f])
    /\ dpc \in {"head", "index", "ask", "stream", "true"} => cfgJson
    /\ dpc \in {"ask", "stream"} => \A j \in 1..(at - 1) : Whole(wfile[layout[j]])
    /\ dpc = "stream" => pos = Len(wfile[Current]) + 1
    /\ dpc = "true" => \A f \in ModelFiles : Whole(wfile[f])

(* The beginning of the published file of any length is one, and of full   *)
(* length it is the file.                                                  *)
LEMMA PrefixFacts ==
    /\ Size \in Nat /\ Prefix(<<>>)
    /\ \A n \in 0..Size : Prefix([i \in 1..n |-> i])
    /\ \A s : Prefix(s) /\ Len(s) = Size => Whole(s)
    /\ \A s : Prefix(s) /\ Len(s) < Size => /\ Prefix(Append(s, Len(s) + 1))
                                           /\ Len(Append(s, Len(s) + 1)) = Len(s) + 1
<1>1. Size \in Nat
  BY DownloadAssumption, Zenon
<1>2. Prefix(<<>>)
  <2>1. <<>> \in Seq(Nat) /\ Len(<<>>) = 0
    OBVIOUS
  <2> QED
    BY <1>1, <2>1 DEF Prefix
<1>3. ASSUME NEW n \in 0..Size PROVE Prefix([i \in 1..n |-> i])
  <2>1. n \in Nat /\ n <= Size
    BY <1>1
  <2>2. [i \in 1..n |-> i] \in Seq(Nat) /\ Len([i \in 1..n |-> i]) = n
    BY <2>1
  <2> QED
    BY <2>1, <2>2, Zenon DEF Prefix
<1>4. ASSUME NEW s, Prefix(s), Len(s) = Size PROVE Whole(s)
  <2>1. s \in Seq(Nat) /\ DOMAIN s = 1..Size
    BY <1>4 DEF Prefix
  <2>2. s = [i \in 1..Size |-> s[i]]
    BY <2>1
  <2> QED
    BY <1>4, <2>2, Zenon DEF Prefix, Whole
<1>5. ASSUME NEW s, Prefix(s), Len(s) < Size
      PROVE  Prefix(Append(s, Len(s) + 1)) /\ Len(Append(s, Len(s) + 1)) = Len(s) + 1
  <2>1. s \in Seq(Nat) /\ Len(s) \in Nat
    BY <1>5 DEF Prefix
  <2>2. /\ Append(s, Len(s) + 1) \in Seq(Nat) /\ Len(Append(s, Len(s) + 1)) = Len(s) + 1
        /\ \A i \in 1..(Len(s) + 1) : Append(s, Len(s) + 1)[i] = IF i = Len(s) + 1 THEN i ELSE s[i]
    BY <2>1
  <2> QED
    BY <1>1, <1>5, <2>1, <2>2 DEF Prefix
<1> QED
  BY <1>1, <1>2, <1>3, <1>4, <1>5, Zenon

(* The layout stays; its files are weight files, each named once.          *)
LEMMA LayoutFacts ==
    ASSUME DlInv
    PROVE  /\ Len(layout) \in Nat \ {0} /\ layout \in Seq(STRING)
           /\ ModelFiles \subseteq Weights /\ Current \in Weights
           /\ \A j \in 1..Len(layout) : layout[j] \in Weights
           /\ \A i, j \in 1..Len(layout) : layout[i] = layout[j] => i = j
           /\ layout = Single => at = 1
<1>1. /\ layout \in Seq(STRING) /\ layout # <<>>
      /\ \A i, j \in 1..Len(layout) : layout[i] = layout[j] => i = j
  BY DownloadAssumption, Zenon DEF DlInv
<1>2. Len(layout) \in Nat \ {0}
  BY <1>1
<1>3. \A j \in 1..Len(layout) : layout[j] \in Weights
  BY DEF DlInv, Weights
<1>4. layout = Single => at = 1
  <2>1. Len(Single) = 1
    BY Zenon DEF Single
  <2>2. ASSUME layout = Single PROVE at \in 1..1
    <3>1. Len(layout) = 1
      BY <2>1, <2>2, Zenon
    <3>2. at \in 1..Len(layout)
      BY Zenon DEF DlInv
    <3> QED
      BY <3>1, <3>2, Zenon
  <2>3. at \in 1..1 => at = 1
    OBVIOUS
  <2> QED
    BY <2>2, <2>3, Zenon
<1> QED
  BY <1>1, <1>2, <1>3, <1>4, ZenonT(40) DEF DlInv, ModelFiles, Current

LEMMA DlInitially == DlInit => DlInv
<1> SUFFICES ASSUME DlInit PROVE DlInv
  BY Zenon
<1>1. layout \in Seq(STRING) /\ layout # <<>>
  BY DownloadAssumption, Zenon DEF DlInit
<1>2. 1 \in 1..Len(layout)
  BY <1>1
<1> QED
  BY <1>2, PrefixFacts DEF DlInit, DlInv

(* The commands and the steps before a weight file is asked for.           *)
LEMMA TransferSteps ==
    ASSUME DlInv, CmdStart \/ CmdModelsDownload \/ CmdModelsRemove \/ KillDownload \/ FetchConfig
                  \/ HeadSingle \/ FetchIndex
    PROVE  DlInv'
<1>0. /\ layout' = layout /\ ModelFiles' = ModelFiles /\ at' \in 1..Len(layout) /\ pos' \in Nat \ {0}
  BY LayoutFacts DEF DlInv, ModelFiles, published, FromStart, Stay, CmdStart, CmdModelsDownload,
         CmdModelsRemove, KillDownload, FetchConfig, HeadSingle, FetchIndex
<1>1. CASE CmdStart \/ CmdModelsDownload \/ CmdModelsRemove \/ KillDownload
  <2>1. dpc' \in {"idle", "serve", "config", "already", "tarball"}
    BY <1>1, Zenon DEF CmdStart, CmdModelsDownload, CmdModelsRemove, KillDownload, DlGoto
  <2>2. DOMAIN wfile' = Weights /\ \A f \in Weights : Prefix(wfile'[f])
    BY <1>1, PrefixFacts, Zenon DEF DlInv, CmdStart, CmdModelsDownload, CmdModelsRemove, KillDownload
  <2> QED
    BY <1>0, <2>1, <2>2, Zenon DEF DlInv
<1>2. CASE FetchConfig
  BY <1>0, <1>2, Zenon DEF DlInv, FetchConfig, DlGoto
<1>3. CASE HeadSingle
  BY <1>0, <1>3, LayoutFacts DEF DlInv, HeadSingle, DlGoto, Stay
<1>4. CASE FetchIndex
  <2>1. wfile' = wfile /\ cfgJson' = cfgJson /\ cfgJson
    BY <1>4, Zenon DEF DlInv, FetchIndex
  <2>2. dpc' = "false" \/ (dpc' = "ask" /\ at' = 1)
    BY <1>4, Zenon DEF FetchIndex, DlGoto
  <2>3. \A j \in 1..(1 - 1) : FALSE
    OBVIOUS
  <2>4. dpc' = "ask" => \A j \in 1..(at' - 1) : Whole(wfile'[layout'[j]])
    BY <2>2, <2>3, Zenon
  <2> QED
    BY <1>0, <2>1, <2>2, <2>4, Zenon DEF DlInv
<1> QED
  BY <1>1, <1>2, <1>3, <1>4, ZenonT(40)

(* The tarball.                                                            *)
LEMMA TarballStep ==
    ASSUME DlInv, UnpackTarball
    PROVE  DlInv'
<1>0. /\ layout' = layout /\ ModelFiles' = ModelFiles /\ at' = at /\ pos' = pos
  BY Zenon DEF UnpackTarball, Stay, published, ModelFiles
<1>1. dpc' \in {"true", "config"} /\ (dpc' = "true" => cfgJson')
  BY Zenon DEF UnpackTarball, DlGoto
<1>2. DOMAIN wfile' = Weights /\ \A f \in Weights : Prefix(wfile'[f])
  <2>1. Size \in 0..Size
    BY PrefixFacts
  <2> QED
    BY <2>1, PrefixFacts, Zenon DEF DlInv, UnpackTarball
<1>3. dpc' = "true" => \A f \in ModelFiles : Whole(wfile'[f])
  BY LayoutFacts, Zenon DEF UnpackTarball, DlGoto, Whole
<1> QED
  BY <1>0, <1>1, <1>2, <1>3, Zenon DEF DlInv

(* A request or a stream that fails or starts changes no file but the      *)
(* current one.                                                            *)
LEMMA AskSteps ==
    ASSUME DlInv, Ask \/ AskBeyondEnd \/ AskFails \/ StreamFails
    PROVE  DlInv'
<1>0. /\ layout' = layout /\ ModelFiles' = ModelFiles /\ at' = at /\ cfgJson' = cfgJson /\ cfgJson
      /\ \A j \in 1..(at - 1) : Whole(wfile[layout[j]])
  BY Zenon DEF DlInv, Ask, AskBeyondEnd, AskFails, StreamFails, published, ModelFiles
<1>1. CASE AskBeyondEnd \/ AskFails \/ StreamFails
  <2>1. dpc' \in {"ask", "index", "false"} /\ wfile' = wfile /\ pos' = pos
    BY <1>1, Zenon DEF AskBeyondEnd, AskFails, StreamFails, Retry, FileFailed, DlGoto
  <2> QED
    BY <1>0, <2>1, Zenon DEF DlInv
<1>2. CASE Ask
  <2>1. dpc' = "stream" /\ Current' = Current
    BY <1>0, <1>2, Zenon DEF Ask, DlGoto, Current
  <2>2. CASE wfile' = wfile /\ pos' = Len(wfile[Current]) + 1
    <3>1. Len(wfile[Current]) \in Nat
      BY LayoutFacts DEF DlInv, Prefix
    <3> QED
      BY <1>0, <2>1, <2>2, <3>1 DEF DlInv
  <2>3. CASE pos' = 1 /\ wfile' = [wfile EXCEPT ![Current] = <<>>]
    <3>1. Current \in Weights /\ wfile'[Current] = <<>> /\ Len(<<>>) = 0
      BY <2>3, LayoutFacts, Zenon DEF DlInv
    <3>2. DOMAIN wfile' = Weights /\ \A f \in Weights : Prefix(wfile'[f])
      BY <2>3, <3>1, PrefixFacts, Zenon DEF DlInv
    <3>3. \A j \in 1..(at - 1) : wfile'[layout[j]] = wfile[layout[j]]
      <4> TAKE j \in 1..(at - 1)
      <4>1. j \in 1..Len(layout) /\ j # at /\ at \in 1..Len(layout)
        BY LayoutFacts DEF DlInv
      <4>2. layout[j] # Current /\ layout[j] \in Weights
        BY <4>1, LayoutFacts, Zenon DEF Current
      <4> QED
        BY <2>3, <4>2, Zenon DEF DlInv
    <3> QED
      BY <1>0, <2>1, <2>3, <3>1, <3>2, <3>3 DEF DlInv
  <2> QED
    BY <1>2, <2>2, <2>3, Zenon DEF Ask
<1> QED
  BY <1>1, <1>2, Zenon

(* A chunk arrives.                                                        *)
LEMMA ChunkStep ==
    ASSUME DlInv, WriteChunk
    PROVE  DlInv'
<1>0. /\ layout' = layout /\ ModelFiles' = ModelFiles /\ at' = at /\ cfgJson' = cfgJson /\ cfgJson
      /\ dpc = "stream" /\ dpc' = dpc /\ Current' = Current /\ pos <= Size /\ pos' = pos + 1
      /\ wfile' = [wfile EXCEPT ![Current] = Append(wfile[Current], pos)]
      /\ pos = Len(wfile[Current]) + 1
  BY Zenon DEF DlInv, WriteChunk, published, ModelFiles, Current
<1>1. Current \in Weights /\ Prefix(wfile[Current]) /\ Len(wfile[Current]) \in Nat
  BY LayoutFacts DEF DlInv, Prefix
<1>2. Prefix(wfile'[Current]) /\ pos' = Len(wfile'[Current]) + 1
  <2>1. wfile'[Current] = Append(wfile[Current], Len(wfile[Current]) + 1)
    BY <1>0, <1>1, Zenon DEF DlInv
  <2>2. Len(wfile[Current]) < Size
    BY <1>0, <1>1, PrefixFacts
  <2> QED
    BY <1>0, <1>1, <2>1, <2>2, PrefixFacts, Zenon
<1>3. DOMAIN wfile' = Weights /\ \A f \in Weights : Prefix(wfile'[f])
  BY <1>0, <1>1, <1>2, Zenon DEF DlInv
<1>4. \A j \in 1..(at - 1) : wfile'[layout[j]] = wfile[layout[j]]
  <2> TAKE j \in 1..(at - 1)
  <2>1. j \in 1..Len(layout) /\ j # at /\ at \in 1..Len(layout)
    BY LayoutFacts DEF DlInv
  <2>2. layout[j] # Current /\ layout[j] \in Weights
    BY <2>1, LayoutFacts, Zenon DEF Current
  <2> QED
    BY <1>0, <2>2, Zenon DEF DlInv
<1> QED
  BY <1>0, <1>2, <1>3, <1>4 DEF DlInv

(* The current file is whole when its stream ends.                         *)
LEMMA EndStep ==
    ASSUME DlInv, StreamEnds
    PROVE  DlInv'
<1>0. /\ layout' = layout /\ ModelFiles' = ModelFiles /\ cfgJson' = cfgJson /\ cfgJson
      /\ dpc = "stream" /\ pos > Size /\ pos' = pos /\ wfile' = wfile
      /\ pos = Len(wfile[Current]) + 1 /\ at \in 1..Len(layout)
      /\ \A j \in 1..(at - 1) : Whole(wfile[layout[j]])
  BY Zenon DEF DlInv, StreamEnds, published, ModelFiles
<1>1. Whole(wfile[Current])
  <2>1. Prefix(wfile[Current]) /\ Len(wfile[Current]) \in Nat /\ Len(wfile[Current]) <= Size
    BY LayoutFacts DEF DlInv, Prefix
  <2> QED
    BY <1>0, <2>1, PrefixFacts
<1>2. \A j \in 1..at : Whole(wfile[layout[j]])
  <2> TAKE j \in 1..at
  <2>1. CASE j = at
    BY <1>1, <2>1, Zenon DEF Current
  <2>2. CASE j # at
    <3>1. j \in 1..(at - 1)
      BY <1>0, <2>2, LayoutFacts
    <3> QED
      BY <1>0, <3>1, Zenon
  <2> QED
    BY <2>1, <2>2, Zenon
<1>3. CASE at < Len(layout)
  <2>1. at' = at + 1 /\ dpc' = "ask"
    BY <1>3, Zenon DEF StreamEnds, DlGoto
  <2>2. at' \in 1..Len(layout) /\ 1..(at' - 1) = 1..at
    BY <1>0, <1>3, <2>1, LayoutFacts
  <2> QED
    BY <1>0, <1>2, <2>1, <2>2, Zenon DEF DlInv
<1>4. CASE ~(at < Len(layout))
  <2>1. at' = at /\ dpc' = "true"
    BY <1>4, Zenon DEF StreamEnds, DlGoto
  <2>2. at = Len(layout)
    BY <1>0, <1>4, LayoutFacts
  <2>3. \A f \in ModelFiles : Whole(wfile[f])
    BY <1>2, <2>2, Zenon DEF ModelFiles
  <2> QED
    BY <1>0, <2>1, <2>3, Zenon DEF DlInv
<1> QED
  BY <1>3, <1>4, Zenon

(* download_file_async and its callers: however often transfers break off, *)
(* are retried, resumed or killed, each weight file is a beginning of the  *)
(* published one, and all are whole when the download reports success.     *)
(* This for every size, number of retries and layout.                      *)
THEOREM DownloadsStayWhole == DlSpec => []DownloadsAreWhole
<1>1. DlInv /\ [DlNext]_dlVars => DlInv'
  <2> SUFFICES ASSUME DlInv, [DlNext]_dlVars PROVE DlInv'
    BY Zenon
  <2>1. CASE UNCHANGED dlVars
    BY <2>1, Zenon DEF DlInv, dlVars, ModelFiles, Current
  <2> QED
    BY <2>1, TransferSteps, TarballStep, AskSteps, ChunkStep, EndStep, Zenon DEF DlNext, Transfer
<1>2. DlInv => DownloadsAreWhole
  BY Zenon DEF DlInv, Prefix, DownloadsAreWhole, PrefixKept, TrueMeansWhole
<1> QED
  BY DlInitially, <1>1, <1>2, PTL DEF DlSpec

-----------------------------------------------------------------------------
(* The updater: a rollback brings back what was there.                     *)

(* What a path in bin/ leads to.                                           *)
At(g) == IF bin[g] = ToApp THEN app[g] ELSE bin[g]
Main == "darkbloom"

Stages == {"idle", "backup", "extract", "placeRust", "verifyRust", "placeSwift", "verifySwift",
           "link", "plist", "installed", "restore", "rolledBack", "down", "gone"}
Placing == {"placeSwift", "verifySwift", "link", "plist"}

FilesOK ==
    /\ bin \in [Files -> Contents \union {ToHelper, ToApp}]
    /\ root \in [Files -> Contents] /\ app \in [Files -> Contents]
    /\ bak \in [Files -> Contents] /\ saved \in [Files -> BOOLEAN]
    /\ before \in [Files -> Contents]
    /\ \A f \in Files : bin[f] = ToHelper => f = "eigeninference-enclave"

AttemptOK ==
    /\ upc \in Stages /\ step \in 1 .. 4 /\ catalog \in Catalogs /\ rel \in Releases
    /\ upc \notin {"idle", "down", "gone"} => rel \in catalog
    /\ upc \notin {"backup", "restore"} => step = 1
    /\ upc \in {"backup", "restore"} => who = "auto"
    /\ upc \in Placing => Info[rel].swift
    /\ upc \in {"placeRust", "verifyRust"} => ~Info[rel].swift

(* Only a bundle with the wrapper brings the app, and a link into it.      *)
Wrapped == \E r \in catalog : Info[r].app
AppOK ==
    /\ ~Wrapped => \A f \in Files : app[f] = None /\ bin[f] # ToApp
    /\ upc \in Placing /\ app[Main] # None => \A f \in SwiftFiles : app[f] = rel

(* The copy of the main binary is what the attempt found, until it is put  *)
(* back.                                                                   *)
SafeCopy == IF saved[Main] THEN bak[Main] = before[Main] ELSE before[Main] = None
BackupOK ==
    /\ upc = "backup" => Resolve(Main) = before[Main] /\ (step = 1 => ~saved[Main])
    /\ who = "auto" /\ (\/ upc = "backup" /\ step > 1
                        \/ upc \in {"extract", "placeRust", "verifyRust"} \cup Placing
                        \/ upc = "restore" /\ step = 1) => SafeCopy
    /\ upc = "restore" /\ step > 1 => Resolve(Main) = before[Main]
    /\ upc = "rolledBack" => Resolve(Main) = before[Main]

AsPublished ==
    Resolve(Main) = rel /\ Resolve("mlx.metallib") = rel
BundleOK ==
    /\ upc = "link" => AsPublished /\ Exists("darkbloom-enclave")
    /\ upc = "plist" \/ (upc = "installed" /\ Info[rel].swift) =>
           AsPublished /\ Exists("eigeninference-enclave")
    /\ IsSwiftPlist => /\ upc \in {"installed", "down", "gone"}
                       /\ Info[rel].swift /\ Resolve(Main) = rel

UpdInv == FilesOK /\ AttemptOK /\ AppOK /\ BackupOK /\ BundleOK

LEMMA Names ==
    /\ {"darkbloom", "eigeninference-enclave", "darkbloom-enclave", "mlx.metallib"} = Files
    /\ SwiftFiles \subseteq Files /\ Main \in SwiftFiles /\ "mlx.metallib" \in SwiftFiles
    /\ "darkbloom-enclave" \in SwiftFiles
    /\ Len(FileOrder) = 4 /\ FileOrder[1] = Main
    /\ \A i \in 1 .. 4 : FileOrder[i] \in Files /\ (i > 1 => FileOrder[i] # Main)
  BY DEF Files, SwiftFiles, RustFiles, FileOrder, Main

LEMMA ContentsAreNoLinks == ToHelper \notin Contents /\ ToApp \notin Contents
                            /\ None \in Contents /\ Torn \in Contents /\ Releases \subseteq Contents
                            /\ None \notin Releases
  BY UpdaterAssumption, ZenonT(40) DEF Contents, None, Torn, ToHelper, ToApp

LEMMA Resolves ==
    ASSUME FilesOK
    PROVE  /\ Resolve(Main) = At(Main) /\ Resolve("mlx.metallib") = At("mlx.metallib")
           /\ Resolve("darkbloom-enclave") = At("darkbloom-enclave")
           /\ \A f \in Files : Resolve(f) \in Contents /\ At("darkbloom-enclave") \in Contents
           /\ bin["eigeninference-enclave"] = ToHelper =>
                  Resolve("eigeninference-enclave") = At("darkbloom-enclave")
<1>1. \A f \in SwiftFiles : bin[f] # ToHelper
  BY Names, Zenon DEF FilesOK, SwiftFiles
<1>2. \A f \in SwiftFiles : At(f) \in Contents
  BY <1>1, Names, ContentsAreNoLinks DEF FilesOK, At
<1> QED
  BY <1>1, <1>2, Names, ContentsAreNoLinks DEF FilesOK, At, Resolve

LEMMA UpdInitInv == UpdInit => UpdInv
<1> SUFFICES ASSUME UpdInit PROVE UpdInv
  BY Zenon
<1>1. FilesOK
  BY UpdaterAssumption, ContentsAreNoLinks, Zenon DEF UpdInit, FilesOK, NoFiles
<1>2. AttemptOK
  BY UpdaterAssumption DEF UpdInit, AttemptOK, Stages, Placing
<1>3. AppOK
  BY UpdaterAssumption, ContentsAreNoLinks, Names, Zenon DEF UpdInit, AppOK, Placing, NoFiles
<1>4. BackupOK
  BY Zenon DEF UpdInit, BackupOK, Placing
<1>5. BundleOK
  <2>1. ~IsSwiftPlist
    BY UpdaterAssumption DEF UpdInit, IsSwiftPlist
  <2> QED
    BY <2>1, Zenon DEF UpdInit, BundleOK
<1> QED
  BY <1>1, <1>2, <1>3, <1>4, <1>5, Zenon DEF UpdInv

(* Steps that leave every path as it is.                                   *)
LEMMA PathsStay ==
    ASSUME UNCHANGED <<bin, app>>
    PROVE  \A f : Resolve(f)' = Resolve(f) /\ (Exists(f)' <=> Exists(f))
  BY Zenon DEF Resolve, Exists

LEMMA BeginKeeps ==
    ASSUME UpdInv, NEW r \in catalog, AutoUpdateCheck(r) \/ CmdUpdate(r)
    PROVE  UpdInv'
<1>1. /\ upc = "idle" /\ step' = 1 /\ rel' = r /\ before' = [f \in Files |-> Resolve(f)]
      /\ saved' = [f \in Files |-> FALSE] /\ UNCHANGED <<catalog, bin, root, app, bak, plist>>
      /\ (upc' = "backup" /\ who' = "auto") \/ (upc' = "extract" /\ who' = "manual")
  BY Zenon DEF AutoUpdateCheck, CmdUpdate, Begin
<1>2. r \in Releases
  BY UpdaterAssumption, Zenon DEF UpdInv, AttemptOK
<1>3. FilesOK'
  BY <1>1, Resolves, Zenon DEF UpdInv, FilesOK
<1>4. AttemptOK'
  BY <1>1, <1>2, Zenon DEF UpdInv, AttemptOK, Stages, Placing
<1>5. AppOK'
  BY <1>1, Zenon DEF UpdInv, AppOK, Wrapped, Placing
<1>6. BackupOK'
  <2>1. Resolve(Main)' = before'[Main] /\ ~saved'[Main]
    BY <1>1, PathsStay, Names, Zenon
  <2> QED
    BY <1>1, <2>1 DEF BackupOK, Placing
<1>7. BundleOK'
  BY <1>1, Zenon DEF UpdInv, BundleOK, IsSwiftPlist
<1> QED
  BY <1>3, <1>4, <1>5, <1>6, <1>7, Zenon DEF UpdInv

LEMMA BackUpKeeps ==
    ASSUME UpdInv, BackUp
    PROVE  UpdInv'
<1> DEFINE f == FileOrder[step]
<1>1. /\ upc = "backup" /\ UNCHANGED <<catalog, who, rel, before, bin, root, app, plist>>
      /\ IF Exists(f) THEN /\ bak' = [bak EXCEPT ![f] = Resolve(f)]
                           /\ saved' = [saved EXCEPT ![f] = TRUE]
                      ELSE UNCHANGED <<bak, saved>>
      /\ \/ step < 4 /\ step' = step + 1 /\ upc' = upc
         \/ step' = 1 /\ upc' = "extract"
  BY Names, ZenonT(40) DEF BackUp, attempt
<1>2. f \in Files /\ step \in 1 .. 4 /\ (f = Main <=> step = 1)
  BY Names DEF UpdInv, AttemptOK
<1> HIDE DEF f
<1>3. FilesOK'
  <2>1. Resolve(f) \in Contents
    BY <1>2, Resolves, Zenon DEF UpdInv
  <2>2. bak' \in [Files -> Contents] /\ saved' \in [Files -> BOOLEAN]
    BY <1>1, <1>2, <2>1, ZenonT(40) DEF UpdInv, FilesOK
  <2> QED
    BY <1>1, <2>2, Zenon DEF UpdInv, FilesOK
<1>4. AttemptOK'
  BY <1>1, <1>2 DEF UpdInv, AttemptOK, Stages, Placing
<1>5. AppOK'
  BY <1>1, Zenon DEF UpdInv, AppOK, Wrapped, Placing
<1>6. Resolve(Main)' = Resolve(Main) /\ Resolve(Main) = before[Main]
  BY <1>1, PathsStay, Zenon DEF UpdInv, BackupOK
<1>7. SafeCopy'
  <2>1. CASE f = Main
    <3>1. CASE Exists(Main)
      <4>1. saved'[Main] /\ bak'[Main] = Resolve(Main)
        BY <1>1, <1>2, <2>1, <3>1, Zenon DEF UpdInv, FilesOK
      <4> QED
        BY <1>1, <1>6, <4>1, Zenon DEF SafeCopy
    <3>2. CASE ~Exists(Main)
      <4>1. ~saved'[Main] /\ before[Main] = None
        BY <1>1, <1>2, <1>6, <2>1, <3>2, Zenon DEF UpdInv, BackupOK, Exists
      <4> QED
        BY <1>1, <4>1, Zenon DEF SafeCopy
    <3> QED
      BY <3>1, <3>2, Zenon
  <2>2. CASE f # Main
    <3>1. saved'[Main] = saved[Main] /\ bak'[Main] = bak[Main]
      BY <1>1, <1>2, <2>2, Names, SMTT(30) DEF UpdInv, FilesOK
    <3>2. SafeCopy
      BY <1>1, <1>2, <2>2, SMTT(30) DEF UpdInv, BackupOK, AttemptOK
    <3> QED
      BY <1>1, <3>1, <3>2, ZenonT(40) DEF SafeCopy
  <2> QED
    BY <2>1, <2>2, Zenon
<1>8. BackupOK'
  BY <1>1, <1>2, <1>6, <1>7 DEF BackupOK
<1>9. BundleOK'
  BY <1>1, Zenon DEF UpdInv, BundleOK, IsSwiftPlist
<1> QED
  BY <1>3, <1>4, <1>5, <1>8, <1>9, Zenon DEF UpdInv

(* Steps between the changes of files: verdicts, ends and crashes.         *)
LEMMA QuietKeeps ==
    ASSUME UpdInv, UNCHANGED <<catalog, who, rel, before, bin, root, app, saved, plist>>,
           bak' \in [Files -> Contents], upc' \in Stages,
           \/ upc' \in {"idle", "down", "gone"} /\ step' = 1 /\ (IsSwiftPlist => upc' # "idle")
           \/ /\ upc' = "restore" /\ step' = 1 /\ bak' = bak /\ who = "auto"
              /\ upc \in {"verifyRust"} \cup Placing
           \/ upc' = "installed" /\ upc = "verifyRust" /\ step' = 1
           \/ upc' = "link" /\ upc = "verifySwift" /\ SwiftBundleOK /\ step' = 1 /\ bak' = bak
    PROVE  UpdInv'
<1>1. \A f : Resolve(f)' = Resolve(f) /\ (Exists(f)' <=> Exists(f))
  BY PathsStay, Zenon
<1>2. FilesOK'
  BY Zenon DEF UpdInv, FilesOK
<1>3. AttemptOK'
  BY DEF UpdInv, AttemptOK, Stages, Placing
<1>4. AppOK'
  BY ZenonT(40) DEF UpdInv, AppOK, Wrapped, Placing
<1>5. BackupOK'
  <2>1. (upc' = "restore" \/ upc' = "link") => (SafeCopy' <=> SafeCopy)
    BY Zenon DEF SafeCopy
  <2> QED
    BY <2>1 DEF UpdInv, BackupOK, Placing
<1>6. BundleOK'
  <2>1. IsSwiftPlist' <=> IsSwiftPlist
    BY Zenon DEF IsSwiftPlist
  <2>2. upc' = "link" => AsPublished' /\ Exists("darkbloom-enclave")'
    BY <1>1, Names, Zenon DEF AsPublished, SwiftBundleOK, Main
  <2>3. upc' = "installed" => ~Info[rel].swift
    BY Zenon DEF UpdInv, AttemptOK
  <2> QED
    BY <1>1, <2>1, <2>2, <2>3, Zenon DEF UpdInv, BundleOK, Placing
<1> QED
  BY <1>2, <1>3, <1>4, <1>5, <1>6, Zenon DEF UpdInv

LEMMA VerdictsKeep ==
    ASSUME UpdInv, BackUpFails \/ VerifyRust \/ VerifySwift \/ PlistFails \/ RestoreFails \/ Resume
                   \/ Finish \/ CrashUpdate \/ Boot
    PROVE  UpdInv'
<1>0. /\ upc \notin {"backup", "restore"} => step = 1
      /\ bak \in [Files -> Contents]
      /\ IsSwiftPlist => upc \in {"installed", "down", "gone"}
  BY Zenon DEF UpdInv, AttemptOK, FilesOK, BundleOK
<1>1. CASE BackUpFails \/ RestoreFails \/ CrashUpdate
  <2>1. /\ UNCHANGED <<catalog, who, rel, before, bin, root, app, bak, saved, plist>>
        /\ upc' \in {"idle", "down"} /\ step' = 1 /\ (upc' = "idle" => upc \in {"backup", "restore"})
    BY <1>1, Zenon DEF BackUpFails, RestoreFails, CrashUpdate, attempt
  <2> QED
    BY <1>0, <2>1, QuietKeeps, Zenon DEF Stages
<1>2. CASE VerifyRust \/ VerifySwift \/ PlistFails
  <2>1. /\ UNCHANGED <<catalog, who, rel, before, bin, root, app, bak, saved, plist, step>>
        /\ upc \in {"verifyRust", "verifySwift", "plist"}
        /\ \/ upc' = "installed" /\ upc = "verifyRust"
           \/ upc' = "link" /\ upc = "verifySwift" /\ SwiftBundleOK
           \/ upc' = "restore" /\ who = "auto"
           \/ upc' = "idle"
    BY <1>2, Zenon DEF VerifyRust, VerifySwift, PlistFails, Failed, attempt
  <2> QED
    BY <1>0, <2>1, QuietKeeps, Zenon DEF Stages, Placing
<1>3. CASE Resume \/ Boot
  <2>1. /\ UNCHANGED <<catalog, who, rel, before, bin, root, app, bak, saved, plist, step>>
        /\ upc \in {"rolledBack", "down"} /\ upc' \in {"idle", "gone"}
        /\ (IsSwiftPlist /\ upc = "down" => upc' = "gone")
    BY <1>3, Zenon DEF Resume, Boot, attempt
  <2> QED
    BY <1>0, <2>1, QuietKeeps, Zenon DEF Stages
<1>4. CASE Finish
  <2>1. /\ UNCHANGED <<catalog, who, rel, before, bin, root, app, saved, plist, step>>
        /\ upc = "installed" /\ upc' = "down"
        /\ bak' = [f \in Files |-> IF saved[f] THEN None ELSE bak[f]] \/ bak' = bak
    BY <1>4, Zenon DEF Finish, attempt
  <2>2. bak' \in [Files -> Contents]
    BY <1>0, <2>1, ContentsAreNoLinks, Zenon
  <2> QED
    BY <1>0, <2>1, <2>2, QuietKeeps, Zenon DEF Stages
<1> QED
  BY <1>1, <1>2, <1>3, <1>4, Zenon

(* The bundle is unpacked and its files move into bin/.                    *)
LEMMA MovesKeep ==
    ASSUME UpdInv, AppOK', UNCHANGED <<catalog, who, rel, before, bak, saved, plist, step>>,
           bin' \in [Files -> Contents \union {ToHelper, ToApp}],
           \A f \in Files : bin'[f] = bin[f] \/ bin'[f] \in Contents,
           root' \in [Files -> Contents], app' \in [Files -> Contents],
           \/ upc \in {"extract", "placeRust"} /\ upc' = "idle"
           \/ upc = "extract" /\ upc' = IF Info[rel].swift THEN "placeSwift" ELSE "placeRust"
           \/ upc = "placeRust" /\ upc' = "verifyRust"
           \/ upc = "placeSwift" /\ upc' = "verifySwift"
    PROVE  UpdInv'
<1>1. FilesOK'
  BY ContentsAreNoLinks, Zenon DEF UpdInv, FilesOK
<1>2. AttemptOK'
  BY Zenon DEF UpdInv, AttemptOK, Stages, Placing
<1>3. BackupOK'
  <2>1. SafeCopy' <=> SafeCopy
    BY Zenon DEF SafeCopy
  <2> QED
    BY <2>1, Zenon DEF UpdInv, BackupOK, Placing
<1>4. BundleOK'
  <2>1. ~IsSwiftPlist'
    BY Zenon DEF UpdInv, BundleOK, IsSwiftPlist
  <2> QED
    BY <2>1, Zenon DEF BundleOK
<1> QED
  BY <1>1, <1>2, <1>3, <1>4, Zenon DEF UpdInv

LEMMA ExtractKeeps ==
    ASSUME WrapperStays, UpdInv, Extract \/ ExtractFails
    PROVE  UpdInv'
<1>1. PICK done \in SUBSET Files, torn \in SUBSET Files :
          Unpack(done, torn) /\ (Extract => torn = {}) /\ (ExtractFails => torn # {})
  <2>1. BundleFiles(rel) \in SUBSET Files
    BY Names, Zenon DEF BundleFiles, Files
  <2>2. CASE Extract
    BY <2>1, <2>2, Zenon DEF Extract, ExtractFails
  <2>3. CASE ExtractFails
    <3>1. PICK f \in BundleFiles(rel) : \E done \in SUBSET (BundleFiles(rel) \ {f}) : Unpack(done, {f})
      BY <2>3, Zenon DEF ExtractFails
    <3>2. PICK done \in SUBSET (BundleFiles(rel) \ {f}) : Unpack(done, {f})
      BY <3>1, Zenon
    <3>3. done \in SUBSET Files /\ {f} \in SUBSET Files /\ {f} # {}
      BY <2>1, <3>2, Zenon
    <3>4. ~Extract
      BY <2>3, Zenon DEF Extract, ExtractFails, Failed
    <3> QED
      BY <3>2, <3>3, <3>4, Zenon
  <2> QED
    BY <2>2, <2>3, Zenon
<1>2. /\ UNCHANGED <<catalog, who, rel, before, bak, saved, plist, step>> /\ upc = "extract"
      /\ \/ ExtractFails /\ upc' = "idle"
         \/ Extract /\ upc' = IF Info[rel].swift THEN "placeSwift" ELSE "placeRust"
  BY Zenon DEF Extract, ExtractFails, attempt
<1>3. rel \in Contents /\ Torn \in Contents /\ None \in Contents /\ rel \in catalog
  BY <1>2, ContentsAreNoLinks, Zenon DEF UpdInv, AttemptOK
<1>4. /\ bin' \in [Files -> Contents \union {ToHelper, ToApp}]
      /\ \A f \in Files : bin'[f] = bin[f] \/ bin'[f] \in Contents
      /\ root' \in [Files -> Contents]
  BY <1>1, <1>3, Zenon DEF UpdInv, FilesOK, Unpack
<1>5. app' = app \/ (Info[rel].app /\ app' = [f \in Files |-> IF f \in SwiftFiles THEN rel ELSE None])
  BY <1>1, Zenon DEF Unpack
<1>6. app' \in [Files -> Contents]
  BY <1>3, <1>5, Zenon DEF UpdInv, FilesOK
<1>7. AppOK'
  <2>1. ASSUME ~Wrapped' PROVE \A f \in Files : app'[f] = None /\ bin'[f] # ToApp
    <3>1. ~Wrapped /\ ~Info[rel].app
      BY <1>2, <1>3, <2>1, Zenon DEF Wrapped
    <3> QED
      BY <1>4, <1>5, <3>1, ContentsAreNoLinks, Zenon DEF UpdInv, AppOK
  <2>2. ASSUME upc' \in Placing, app'[Main] # None PROVE \A f \in SwiftFiles : app'[f] = rel'
    <3>1. Extract /\ Info[rel].swift
      BY <1>2, <2>2, Zenon DEF Placing
    <3>2. Info[rel].app
      <4> SUFFICES ASSUME ~Info[rel].app PROVE FALSE
        BY Zenon
      <4>1. app[Main] # None
        BY <1>5, <2>2, Zenon
      <4>2. Wrapped
        BY <4>1, Names, Zenon DEF UpdInv, AppOK
      <4> QED
        BY <1>3, <3>1, <4>2, Zenon DEF WrapperStays, Wrapped, UpdInv, AttemptOK
    <3>3. app' = [f \in Files |-> IF f \in SwiftFiles THEN rel ELSE None]
      BY <1>1, <3>1, <3>2, Zenon DEF Unpack
    <3> QED
      BY <1>2, <3>3, Names, Zenon
  <2> QED
    BY <2>1, <2>2, Zenon DEF AppOK
<1> QED
  BY <1>2, <1>4, <1>6, <1>7, MovesKeep, Zenon

LEMMA PlaceKeeps ==
    ASSUME UpdInv, PlaceRust \/ PlaceSwift
    PROVE  UpdInv'
<1>1. /\ UNCHANGED <<catalog, who, rel, before, app, bak, saved, plist, step>>
      /\ \/ upc = "placeRust" /\ upc' \in {"verifyRust", "idle"}
         \/ upc = "placeSwift" /\ upc' = "verifySwift"
  BY Zenon DEF PlaceRust, PlaceSwift, attempt
<1>2. /\ bin' \in [Files -> Contents \union {ToHelper, ToApp}]
      /\ \A f \in Files : bin'[f] = bin[f] \/ bin'[f] \in Contents
      /\ root' \in [Files -> Contents]
  <2>1. CASE PlaceRust
    <3>1. PICK fs : MoveIntoBin(fs)
      BY <2>1, Zenon DEF PlaceRust
    <3>2. bin \in [Files -> Contents \union {ToHelper, ToApp}] /\ root \in [Files -> Contents]
      BY Zenon DEF UpdInv, FilesOK
    <3>3. root' \in [Files -> Contents]
      BY <3>1, <3>2, ContentsAreNoLinks, Zenon DEF MoveIntoBin
    <3>4. \A f \in Files : bin'[f] = bin[f] \/ bin'[f] \in Contents
      BY <3>1, <3>2, Zenon DEF MoveIntoBin
    <3>5. bin' \in [Files -> Contents \union {ToHelper, ToApp}]
      BY <3>1, <3>2, Zenon DEF MoveIntoBin
    <3> QED
      BY <3>3, <3>4, <3>5, Zenon
  <2>2. CASE PlaceSwift
    <3>1. PICK stuck \in {{}} \union {{f} : f \in SwiftFiles} :
             LET moves == {f \in SwiftFiles \ stuck : root[f] # None}
                 moved == [f \in Files |-> IF f \in moves THEN root[f] ELSE bin[f]]
                 legacy == root["eigeninference-enclave"]
                 useLegacy == legacy # None /\ moved["darkbloom-enclave"] = None
             IN  /\ bin' = IF useLegacy THEN [moved EXCEPT !["darkbloom-enclave"] = legacy]
                                        ELSE moved
                 /\ root' = [f \in Files |->
                                IF f \in moves \/ (useLegacy /\ f = "eigeninference-enclave")
                                THEN None ELSE root[f]]
      BY <2>2, Zenon DEF PlaceSwift
    <3> QED
      BY <3>1, Names, ContentsAreNoLinks DEF UpdInv, FilesOK
  <2> QED
    BY <2>1, <2>2, ZenonT(40)
<1>3. AppOK'
  BY <1>1, <1>2, ContentsAreNoLinks, Zenon DEF UpdInv, AppOK, Wrapped, Placing
<1>4. app' \in [Files -> Contents]
  BY <1>1, Zenon DEF UpdInv, FilesOK
<1> QED
  BY <1>1, <1>2, <1>3, <1>4, MovesKeep, Zenon

LEMMA LinkedType ==
    ASSUME UpdInv
    PROVE  \A f \in Files : /\ Linked(f) \in Contents \union {ToHelper, ToApp}
                            /\ Linked(f) = ToHelper => f = "eigeninference-enclave"
                            /\ Linked(f) = ToApp => Wrapped
  BY Names, ContentsAreNoLinks, ZenonT(40) DEF UpdInv, FilesOK, AppOK, Linked, ToHelper, ToApp

(* What a link leads to is what was verified.                              *)
LEMMA LinkKeeps ==
    ASSUME UpdInv, Link
    PROVE  UpdInv'
<1>1. /\ upc = "link" /\ upc' = "plist" /\ bin' = [f \in Files |-> Linked(f)]
      /\ UNCHANGED <<catalog, who, rel, before, app, root, bak, saved, plist, step>>
  BY Zenon DEF Link, attempt
<1>2. FilesOK'
  BY <1>1, LinkedType, Zenon DEF UpdInv, FilesOK
<1>3. AttemptOK'
  BY <1>1, Zenon DEF UpdInv, AttemptOK, Stages, Placing
<1>4. AppOK'
  <2>1. Wrapped' <=> Wrapped
    BY <1>1, Zenon DEF Wrapped
  <2>2. ~Wrapped => \A f \in Files : bin'[f] # ToApp
    BY <1>1, LinkedType, Zenon
  <2> QED
    BY <1>1, <2>1, <2>2, Zenon DEF UpdInv, AppOK, Placing
<1>5. BackupOK'
  BY <1>1, Zenon DEF UpdInv, BackupOK, Placing, SafeCopy
<1>6. /\ At(Main) = rel /\ At("mlx.metallib") = rel /\ At("darkbloom-enclave") # None
      /\ app[Main] # None => \A f \in SwiftFiles : app[f] = rel
      /\ rel # None
  BY <1>1, Resolves, ContentsAreNoLinks, Zenon DEF UpdInv, BundleOK, AsPublished, Exists, AppOK, Placing, AttemptOK
<1>7. /\ At(Main)' = rel /\ At("mlx.metallib")' = rel /\ At("darkbloom-enclave")' # None
      /\ bin'["eigeninference-enclave"] = ToHelper
  BY <1>1, <1>6, Names, Zenon DEF At, Linked, Main
<1>8. BundleOK'
  <2>1. ~IsSwiftPlist'
    BY <1>1, Zenon DEF UpdInv, BundleOK, IsSwiftPlist
  <2>2. AsPublished' /\ Exists("eigeninference-enclave")'
    <3>1. bin'[Main] # ToHelper /\ bin'["mlx.metallib"] # ToHelper
      BY <1>2, Names, Zenon DEF FilesOK, Main
    <3> QED
      BY <1>1, <1>7, <3>1, Zenon DEF AsPublished, Exists, Resolve, At
  <2> QED
    BY <1>1, <2>1, <2>2, Zenon DEF BundleOK
<1> QED
  BY <1>2, <1>3, <1>4, <1>5, <1>8, Zenon DEF UpdInv

(* Some links are made, and one place is left empty.                       *)
LEMMA LinkFailsKeeps ==
    ASSUME UpdInv, LinkFails
    PROVE  UpdInv'
<1>1. /\ upc = "link" /\ step = 1
      /\ (who = "auto" /\ upc' = "restore") \/ upc' = "idle"
      /\ UNCHANGED <<catalog, who, rel, before, app, root, bak, saved, plist, step>>
  BY Zenon DEF LinkFails, Failed, attempt, UpdInv, AttemptOK
<1>3. /\ DOMAIN bin' = Files /\ bin' = [f \in Files |-> bin'[f]]
      /\ \A f \in Files : bin'[f] \in {bin[f], None, Linked(f)}
  BY ZenonT(40) DEF LinkFails, UpdInv, FilesOK
<1>4. FilesOK'
  BY <1>1, <1>3, LinkedType, ContentsAreNoLinks DEF UpdInv, FilesOK
<1>5. AttemptOK'
  BY <1>1, Zenon DEF UpdInv, AttemptOK, Stages, Placing
<1>6. AppOK'
  <2>1. Wrapped' <=> Wrapped
    BY <1>1, Zenon DEF Wrapped
  <2>2. ~Wrapped => \A f \in Files : bin'[f] # ToApp
    BY <1>3, LinkedType, ContentsAreNoLinks, ZenonT(40) DEF UpdInv, AppOK
  <2> QED
    BY <1>1, <2>1, <2>2, Zenon DEF UpdInv, AppOK, Placing
<1>7. BackupOK'
  BY <1>1 DEF UpdInv, BackupOK, Placing, SafeCopy
<1>8. BundleOK'
  BY <1>1, Zenon DEF UpdInv, BundleOK, IsSwiftPlist
<1> QED
  BY <1>4, <1>5, <1>6, <1>7, <1>8, Zenon DEF UpdInv

(* The plist is migrated last, when everything else is in place.           *)
LEMMA MigrateKeeps ==
    ASSUME UpdInv, MigratePlist
    PROVE  UpdInv'
<1>1. /\ upc = "plist" /\ upc' = "installed"
      /\ UNCHANGED <<catalog, who, rel, before, bin, app, root, bak, saved, step>>
  BY Zenon DEF MigratePlist, attempt
<1>2. FilesOK' /\ AttemptOK'
  BY <1>1, Zenon DEF UpdInv, FilesOK, AttemptOK, Stages, Placing
<1>3. AppOK' /\ BackupOK'
  BY <1>1, Zenon DEF UpdInv, AppOK, BackupOK, Wrapped, Placing
<1>4. AsPublished' /\ Exists("eigeninference-enclave")' /\ Info[rel].swift
  BY <1>1, PathsStay, Zenon DEF UpdInv, BundleOK, AsPublished, AttemptOK, Placing
<1>5. BundleOK'
  BY <1>1, <1>4, Zenon DEF BundleOK, AsPublished
<1> QED
  BY <1>2, <1>3, <1>5, Zenon DEF UpdInv

(* A copy writes through the links; none of them leads from another file   *)
(* to the main binary.                                                     *)
LEMMA RestoreKeeps ==
    ASSUME UpdInv, Restore
    PROVE  UpdInv'
<1> DEFINE f == FileOrder[step]
           g == IF bin[f] = ToHelper THEN "darkbloom-enclave" ELSE f
<1>1. /\ upc = "restore" /\ UNCHANGED <<catalog, who, rel, before, root, saved, plist>>
      /\ \/ step < 4 /\ step' = step + 1 /\ upc' = upc
         \/ step = 4 /\ step' = 1 /\ upc' = "rolledBack"
  BY Names DEF Restore, attempt, UpdInv, AttemptOK
<1>2. f \in Files /\ step \in 1 .. 4 /\ (f = Main <=> step = 1)
  BY Names DEF UpdInv, AttemptOK
<1>3. g \in Files /\ (g = Main <=> f = Main) /\ (g = f \/ g = "darkbloom-enclave") /\ bin[g] # ToHelper
  BY <1>2, Names, Zenon DEF UpdInv, FilesOK, Main
<1>4. \/ /\ saved[f] /\ bak' = [bak EXCEPT ![f] = None]
         /\ \/ bin[g] = ToApp /\ app' = [app EXCEPT ![g] = bak[f]] /\ bin' = bin
            \/ bin[g] # ToApp /\ bin' = [bin EXCEPT ![g] = bak[f]] /\ app' = app
      \/ ~saved[f] /\ bin' = [bin EXCEPT ![f] = None] /\ app' = app /\ bak' = bak
  BY ZenonT(40) DEF Restore, CopyInto
<1> HIDE DEF f, g
<1>5. FilesOK'
  BY <1>1, <1>2, <1>3, <1>4, ContentsAreNoLinks, SMTT(30) DEF UpdInv, FilesOK
<1>6. AttemptOK'
  BY <1>1, <1>2 DEF UpdInv, AttemptOK, Stages, Placing
<1>7. AppOK'
  <2>1. Wrapped' <=> Wrapped
    BY <1>1, ZenonT(40) DEF Wrapped
  <2>2. ~Wrapped => \A h \in Files : app'[h] = None /\ bin'[h] # ToApp
    BY <1>2, <1>3, <1>4, ContentsAreNoLinks DEF UpdInv, AppOK, FilesOK
  <2> QED
    BY <1>1, <2>1, <2>2, Zenon DEF AppOK, Placing
<1>8. Resolve(Main)' = before[Main]
  <2>0. Main \in Files /\ bin[Main] # ToHelper /\ bin'[Main] # ToHelper
    BY <1>5, Names, Zenon DEF UpdInv, FilesOK, Main
  <2>1. Resolve(Main) = At(Main) /\ Resolve(Main)' = At(Main)'
    BY <2>0, Zenon DEF Resolve, At
  <2>2. CASE f = Main
    <3>1. SafeCopy
      BY <1>1, <1>2, <2>2, ZenonT(40) DEF UpdInv, BackupOK, AttemptOK
    <3>2. At(Main)' = IF saved[Main] THEN bak[Main] ELSE None
      BY <1>3, <1>4, <2>0, <2>2, ContentsAreNoLinks DEF At, UpdInv, FilesOK
    <3> QED
      BY <2>1, <3>1, <3>2, Zenon DEF SafeCopy
  <2>3. CASE f # Main
    <3>1. Resolve(Main) = before[Main]
      BY <1>1, <1>2, <2>3 DEF UpdInv, BackupOK
    <3>2. bin'[Main] = bin[Main] /\ app'[Main] = app[Main]
      BY <1>2, <1>3, <1>4, <2>0, <2>3, ZenonT(40) DEF UpdInv, FilesOK
    <3> QED
      BY <2>1, <3>1, <3>2, ZenonT(40) DEF At
  <2> QED
    BY <2>2, <2>3, Zenon
<1>9. BackupOK'
  BY <1>1, <1>2, <1>8 DEF BackupOK, Placing
<1>10. BundleOK'
  BY <1>1, Zenon DEF UpdInv, BundleOK, IsSwiftPlist
<1> QED
  BY <1>5, <1>6, <1>7, <1>9, <1>10, ZenonT(40) DEF UpdInv

(* auto_update_check_with_install_dir and cmd_update: a rollback that      *)
(* completes leaves the main binary that the attempt found, launchd calls  *)
(* a binary the Swift way only when it is a Swift one, and what a Swift    *)
(* update reports as installed has the published hashes.  This for any     *)
(* releases, attempts, failures and crashes, as long as no bundle without  *)
(* the app wrapper follows one with it.                                    *)
THEOREM RollbackRestores ==
    WrapperStays => (UpdSpec => [](MainBinaryRestored /\ SwiftPlistRunsSwift /\ InstalledIsVerified))
<1> SUFFICES ASSUME WrapperStays PROVE UpdSpec => [](MainBinaryRestored /\ SwiftPlistRunsSwift /\ InstalledIsVerified)
  BY Zenon
<1>1. UpdInv /\ [UpdNext]_updVars => UpdInv'
  <2> SUFFICES ASSUME UpdInv, [UpdNext]_updVars PROVE UpdInv'
    BY Zenon
  <2>1. CASE UNCHANGED updVars
    <3>1. \A h : Resolve(h)' = Resolve(h) /\ (Exists(h)' <=> Exists(h))
      BY <2>1, PathsStay, Zenon DEF updVars
    <3>2. FilesOK' /\ AttemptOK' /\ AppOK'
      BY <2>1, Zenon DEF updVars, UpdInv, FilesOK, AttemptOK, AppOK, Wrapped
    <3>3. BackupOK' /\ BundleOK'
      BY <2>1, <3>1, Zenon DEF updVars, UpdInv, BackupOK, SafeCopy, BundleOK, AsPublished, IsSwiftPlist
    <3> QED
      BY <3>2, <3>3, Zenon DEF UpdInv
  <2> QED
    BY <2>1, BeginKeeps, BackUpKeeps, VerdictsKeep, ExtractKeeps, PlaceKeeps, LinkKeeps, LinkFailsKeeps,
       MigrateKeeps, RestoreKeeps, ZenonT(40) DEF UpdNext
<1>2. UpdInv => MainBinaryRestored /\ SwiftPlistRunsSwift /\ InstalledIsVerified
  BY Zenon DEF UpdInv, BackupOK, BundleOK, AttemptOK, AsPublished, Main, MainBinaryRestored,
         SwiftPlistRunsSwift, InstalledIsVerified
<1> QED
  BY <1>1, <1>2, UpdInitInv, PTL DEF UpdSpec

-----------------------------------------------------------------------------
(* Processes: one instance, which obeys the last command.                  *)

(* Processes between two stable stages, and shells with a command.         *)
Busy == {p \in Pids : proc[p] \in {"reading", "writing", "restarting", "stopping"}}
Typing == {c \in Cmds : cmd[c].pc # "done"}

CmdStages == {"done", "bootout", "term", "remove", "stopped", "install", "kick", "rebootout",
           "save", "apply"}
Ops == {"none", "stop", "start", "install", "update", "autoupdate"}

LifeTypes ==
    /\ proc \in [Pids -> Running \union {"unborn", "dead"}] /\ auto \in [Pids -> BOOLEAN]
    /\ pidFile \in Pids \union {NoPid} /\ job \in Pids \union {NoPid}
    /\ cmd \in [Cmds -> [op : Ops, pc : CmdStages]]
    /\ loaded \in BOOLEAN /\ plistOn \in BOOLEAN /\ cfgAuto \in BOOLEAN

(* One thing happens at a time.                                            *)
OneAtATime ==
    /\ \A p, q \in Busy : p = q
    /\ \A c, d \in Typing : c = d
    /\ Busy = {} \/ Typing = {}

(* The pid file names the instance, and when it is removed or about to be  *)
(* written there is none.                                                  *)
InstanceNamed ==
    /\ \A p \in Instances : pidFile = p
    /\ \A p \in Pids : proc[p] = "writing" => Instances = {}
    /\ \A p \in Pids : proc[p] = "stopping" => pidFile = p
    /\ \A c \in Cmds : cmd[c].pc = "remove" => Instances = {}

(* launchd's process runs, with the setting of the configuration or about  *)
(* to be restarted for it.                                                 *)
JobOK ==
    /\ job # NoPid => loaded /\ Alive(job) /\ proc[job] # "stopping"
    /\ \A p \in Pids : proc[p] = "serving" /\ job = p
                       => auto[p] = cfgAuto \/ \E c \in Cmds : cmd[c].pc = "apply"

LifeInv == LifeTypes /\ OneAtATime /\ InstanceNamed /\ JobOK

LEMMA PidFacts == NoPid \notin Pids
  BY LifecycleAssumption DEF Pids, NoPid

LEMMA FreshIsUnborn == Unborn # {} => Fresh \in Pids /\ proc[Fresh] = "unborn"
  BY Zenon DEF Unborn, Fresh

LEMMA LifeInitially == LifeInit => LifeInv
<1> SUFFICES ASSUME LifeInit PROVE LifeInv
  BY Zenon
<1>1. LifeTypes
  BY Zenon DEF LifeInit, LifeTypes, Idle, Ops, CmdStages
<1>2. OneAtATime /\ InstanceNamed /\ JobOK
  BY Zenon DEF LifeInit, OneAtATime, InstanceNamed, JobOK, Busy, Typing, Instances, Idle
<1> QED
  BY <1>1, <1>2, Zenon DEF LifeInv

LEMMA ServeStarts ==
    ASSUME Calm, LifeInv, RunServe
    PROVE  LifeInv'
<1>1. /\ Fresh \in Pids /\ proc[Fresh] = "unborn" /\ proc' = [proc EXCEPT ![Fresh] = "reading"]
      /\ Busy = {} /\ Typing = {}
  BY FreshIsUnborn, Zenon DEF RunServe, Quiet, Busy, Typing
<1>2. LifeTypes'
  BY <1>1, ZenonT(40) DEF LifeInv, LifeTypes, RunServe, Running
<1>3. OneAtATime'
  BY <1>1 DEF LifeInv, LifeTypes, RunServe, OneAtATime, Busy, Typing
<1>4. InstanceNamed'
  BY <1>1, Zenon DEF LifeInv, LifeTypes, RunServe, InstanceNamed, Instances
<1>5. JobOK'
  BY <1>1, PidFacts, Zenon DEF LifeInv, LifeTypes, RunServe, JobOK, Alive, Running
<1> QED
  BY <1>2, <1>3, <1>4, <1>5, Zenon DEF LifeInv

(* The stages of a startup.                                                *)
LEMMA OldReplaced ==
    ASSUME LifeInv, NEW p \in Pids, ReplaceOld(p)
    PROVE  LifeInv'
<1>0. Busy = {p} /\ Typing = {} /\ UNCHANGED <<auto, pidFile, loaded, plistOn, cfgAuto, cmd>>
  BY Zenon DEF LifeInv, OneAtATime, Busy, ReplaceOld
<1>1. /\ \A q \in Pids : proc'[q] = IF q = p THEN "writing"
                                    ELSE IF q = pidFile /\ Alive(q) THEN "dead" ELSE proc[q]
      /\ proc' \in [Pids -> Running \union {"unborn", "dead"}]
      /\ job' \in {job, NoPid} /\ (job' # NoPid => proc'[job] \in Running /\ proc'[job] # "stopping")
  BY PidFacts, Zenon DEF LifeInv, LifeTypes, JobOK, ReplaceOld, Dead, Gone, Alive, Running
<1>2. LifeTypes'
  BY <1>0, <1>1, Zenon DEF LifeInv, LifeTypes
<1>3. OneAtATime'
  BY <1>0, <1>1, ZenonT(40) DEF LifeInv, OneAtATime, Busy, Typing
<1>4. InstanceNamed'
  <2>1. Instances' = {}
    BY <1>1, PidFacts, Zenon DEF LifeInv, InstanceNamed, Instances, Alive, Running
  <2>2. \A q \in Pids : proc'[q] # "stopping"
    BY <1>0, <1>1, Zenon DEF Busy
  <2> QED
    BY <2>1, <2>2, Zenon DEF InstanceNamed
<1>5. JobOK'
  <2>1. job' # NoPid => loaded' /\ Alive(job)' /\ proc'[job'] # "stopping"
    BY <1>0, <1>1, Zenon DEF LifeInv, JobOK, Alive
  <2>2. \A q \in Pids : proc'[q] = "serving" /\ job' = q
                       => auto'[q] = cfgAuto' \/ \E c \in Cmds : cmd'[c].pc = "apply"
    BY <1>0, <1>1, PidFacts, Zenon DEF LifeInv, JobOK
  <2> QED
    BY <2>1, <2>2, Zenon DEF JobOK
<1> QED
  BY <1>2, <1>3, <1>4, <1>5, Zenon DEF LifeInv

LEMMA PidWritten ==
    ASSUME LifeInv, NEW p \in Pids, WritePid(p)
    PROVE  LifeInv'
<1>0. /\ Busy = {p} /\ Typing = {} /\ Instances = {} /\ pidFile' = p
      /\ UNCHANGED <<auto, loaded, job, plistOn, cfgAuto, cmd>>
      /\ proc' = [proc EXCEPT ![p] = "starting"] /\ proc[p] = "writing"
  BY Zenon DEF LifeInv, OneAtATime, InstanceNamed, Busy, WritePid
<1>2. LifeTypes'
  BY <1>0, Zenon DEF LifeInv, LifeTypes, Running
<1>3. OneAtATime'
  BY <1>0, Zenon DEF LifeInv, LifeTypes, OneAtATime, Busy, Typing
<1>4. InstanceNamed'
  BY <1>0, Zenon DEF LifeInv, LifeTypes, InstanceNamed, Instances, Busy, Typing
<1>5. JobOK'
  BY <1>0, Zenon DEF LifeInv, LifeTypes, JobOK, Alive, Running
<1> QED
  BY <1>2, <1>3, <1>4, <1>5, Zenon DEF LifeInv

LEMMA CameUp ==
    ASSUME LifeInv, NEW p \in Pids, ComeUp(p)
    PROVE  LifeInv'
<1>0. /\ UNCHANGED <<pidFile, loaded, job, plistOn, cfgAuto, cmd>>
      /\ proc' = [proc EXCEPT ![p] = "serving"] /\ proc[p] = "starting"
      /\ auto' = [auto EXCEPT ![p] = cfgAuto]
  BY Zenon DEF ComeUp
<1>2. LifeTypes'
  BY <1>0, ZenonT(40) DEF LifeInv, LifeTypes, Running
<1>3. OneAtATime'
  BY <1>0 DEF LifeInv, LifeTypes, OneAtATime, Busy, Typing
<1>4. InstanceNamed'
  <2>1. Instances' = Instances
    BY <1>0, Zenon DEF LifeInv, LifeTypes, Instances
  <2> QED
    BY <1>0, <2>1, Zenon DEF LifeInv, LifeTypes, InstanceNamed
<1>5. JobOK'
  BY <1>0, Zenon DEF LifeInv, LifeTypes, JobOK, Alive, Running
<1> QED
  BY <1>2, <1>3, <1>4, <1>5, Zenon DEF LifeInv

(* A process that dies, but for the pid file, is no more; so when a        *)
(* boot-out ends the service.                                              *)
LEMMA Ended ==
    ASSUME LifeInv, NEW p \in Pids \union {NoPid}, p # NoPid => Alive(p), proc' = Dead(p, proc),
           job' = Gone(p) \/ (job' = NoPid /\ p = job),
           job' # NoPid => loaded', 
           pidFile' = pidFile \/ (pidFile' = NoPid /\ Instances \subseteq {p} /\ Busy \subseteq {p}),
           UNCHANGED <<auto, cfgAuto>>, plistOn' \in BOOLEAN, loaded' \in BOOLEAN,
           cmd' = cmd \/ (Typing # {} /\ cmd' \in [Cmds -> [op : Ops, pc : CmdStages]]
                          /\ Typing' \subseteq Typing
                          /\ \A c \in Cmds : /\ cmd'[c].pc = "remove" => Instances \subseteq {p}
                                             /\ cmd[c].pc = "apply" => cmd'[c].pc = "apply")
    PROVE  LifeInv'
<1>1. /\ \A q \in Pids : proc'[q] = IF q = p THEN "dead" ELSE proc[q]
      /\ proc' \in [Pids -> Running \union {"unborn", "dead"}]
      /\ job' \in {job, NoPid} /\ (job' # NoPid => job # p)
  BY PidFacts, Zenon DEF LifeInv, LifeTypes, Dead, Gone, Running
<1>2. LifeTypes'
  BY <1>1, Zenon DEF LifeInv, LifeTypes
<1>3. Busy' \subseteq Busy /\ Typing' \subseteq Typing
  BY <1>1, Zenon DEF Busy, Typing
<1>4. OneAtATime'
  BY <1>3, Zenon DEF LifeInv, OneAtATime
<1>5. Instances' = Instances \ {p}
  BY <1>1, Zenon DEF Instances
<1>6. InstanceNamed'
  <2>1. \A q \in Instances' : pidFile' = q
    BY <1>5, Zenon DEF LifeInv, InstanceNamed
  <2>2. \A q \in Pids : proc'[q] = "writing" => Instances' = {}
    BY <1>1, <1>5, Zenon DEF LifeInv, InstanceNamed
  <2>3. \A q \in Pids : proc'[q] = "stopping" => pidFile' = q
    BY <1>1, Zenon DEF LifeInv, InstanceNamed, Busy
  <2>4. \A c \in Cmds : cmd'[c].pc = "remove" => Instances' = {}
    BY <1>5, Zenon DEF LifeInv, InstanceNamed
  <2> QED
    BY <2>1, <2>2, <2>3, <2>4, Zenon DEF InstanceNamed
<1>7. JobOK'
  <2>1. job' # NoPid => loaded' /\ Alive(job)' /\ proc'[job'] # "stopping"
    BY <1>1, ZenonT(40) DEF LifeInv, LifeTypes, JobOK, Alive
  <2>2. \A q \in Pids : proc'[q] = "serving" /\ job' = q
                       => auto'[q] = cfgAuto' \/ \E c \in Cmds : cmd'[c].pc = "apply"
    BY <1>1, PidFacts DEF LifeInv, JobOK
  <2> QED
    BY <2>1, <2>2, Zenon DEF JobOK
<1> QED
  BY <1>2, <1>4, <1>6, <1>7, Zenon DEF LifeInv

LEMMA ProcessEnds ==
    ASSUME LifeInv, NEW p \in Pids, Dies(p) \/ Leave(p)
    PROVE  LifeInv'
<1>1. CASE Dies(p)
  <2>1. Alive(p) /\ (job' # NoPid => loaded')
    BY <1>1, PidFacts, Zenon DEF LifeInv, JobOK, Dies, Gone, Alive, Running
  <2>2. plistOn' \in BOOLEAN /\ loaded' \in BOOLEAN
    BY <1>1, Zenon DEF LifeInv, LifeTypes, Dies
  <2> QED
    BY <1>1, <2>1, <2>2, Ended, Zenon DEF Dies
<1>2. CASE Leave(p)
  <2>1. Alive(p) /\ pidFile = p /\ Busy = {p} /\ p # NoPid
    BY <1>2, PidFacts, Zenon DEF LifeInv, OneAtATime, InstanceNamed, Busy, Leave, Alive, Running
  <2>2. Instances \subseteq {p}
    BY <2>1, Zenon DEF LifeInv, InstanceNamed
  <2>3. plistOn' \in BOOLEAN /\ loaded' \in BOOLEAN /\ (job' # NoPid => loaded')
    BY <1>2, Zenon DEF LifeInv, LifeTypes, JobOK, Leave
  <2>4. job' = job
    BY <1>2, Zenon DEF Leave
  <2>6. job # p
    BY <1>2, <2>1, Zenon DEF LifeInv, JobOK, Leave
  <2> QED
    BY <1>2, <2>1, <2>2, <2>3, <2>4, <2>6, Ended, ZenonT(40) DEF Leave, Gone
<1> QED
  BY <1>1, <1>2, Zenon

(* Ctrl-C begins the end of a foreground provider.                         *)
LEMMA Interrupted ==
    ASSUME Calm, LifeInv, NEW p \in Pids, CtrlC(p)
    PROVE  LifeInv'
<1>1. /\ proc[p] = "serving" /\ proc' = [proc EXCEPT ![p] = "stopping"] /\ job # p
      /\ Busy = {} /\ Typing = {} /\ pidFile = p
      /\ UNCHANGED <<auto, pidFile, loaded, job, plistOn, cfgAuto, cmd>>
  BY Zenon DEF CtrlC, Quiet, Busy, Typing, LifeInv, InstanceNamed, Instances
<1>2. LifeTypes'
  BY <1>1, Zenon DEF LifeInv, LifeTypes, Running
<1>3. OneAtATime'
  BY <1>1, Zenon DEF LifeInv, LifeTypes, OneAtATime, Busy, Typing
<1>4. InstanceNamed'
  BY <1>1, Zenon DEF LifeInv, LifeTypes, InstanceNamed, Instances
<1>5. JobOK'
  BY <1>1, Zenon DEF LifeInv, LifeTypes, JobOK, Alive, Running
<1> QED
  BY <1>2, <1>3, <1>4, <1>5, Zenon DEF LifeInv

(* The restart after an automatic update.                                  *)
LEMMA UpdateRestarts ==
    ASSUME Calm, LifeInv, NEW p \in Pids, AutoUpdateRestart(p)
    PROVE  LifeInv'
<1>0. /\ proc[p] = "serving" /\ Busy = {} /\ Typing = {} /\ p # NoPid
      /\ UNCHANGED <<auto, pidFile, plistOn, cfgAuto, cmd>>
  BY PidFacts, Zenon DEF AutoUpdateRestart, Quiet, Busy, Typing
<1>1. job' = NoPid /\ loaded' \in BOOLEAN
  BY Zenon DEF LifeInv, LifeTypes, JobOK, AutoUpdateRestart
<1>2. PICK s \in {"reading", "dead", "restarting"} :
          /\ proc' \in [Pids -> Running \union {"unborn", "dead"}]
          /\ \A q \in Pids : proc'[q] = IF q = p THEN s ELSE IF loaded /\ q = job THEN "dead" ELSE proc[q]
  <2>1. CASE ~loaded
    BY <1>0, <2>1, Zenon DEF LifeInv, LifeTypes, AutoUpdateRestart, Running
  <2>2. CASE loaded /\ job = p
    BY <1>0, <2>2, Zenon DEF LifeInv, LifeTypes, AutoUpdateRestart, Running, Dead
  <2>3. CASE loaded /\ job # p
    <3>1. Dead(job, proc) \in [Pids -> Running \union {"unborn", "dead"}]
      BY Zenon DEF LifeInv, LifeTypes, Running, Dead
    <3>2. \A q \in Pids : Dead(job, proc)[q] = IF q = job THEN "dead" ELSE proc[q]
      BY PidFacts, Zenon DEF LifeInv, LifeTypes, Dead
    <3>3. proc' = [Dead(job, proc) EXCEPT ![p] = "restarting"]
      BY <2>3, Zenon DEF AutoUpdateRestart
    <3> QED
      BY <2>3, <3>1, <3>2, <3>3, Zenon DEF Running
  <2> QED
    BY <2>1, <2>2, <2>3, Zenon DEF LifeInv, LifeTypes
<1>3. LifeTypes'
  BY <1>0, <1>1, <1>2, ZenonT(40) DEF LifeInv, LifeTypes
<1>4. OneAtATime'
  BY <1>0, <1>2, ZenonT(40) DEF LifeInv, OneAtATime, Busy, Typing
<1>5. InstanceNamed'
  BY <1>0, <1>2, Zenon DEF LifeInv, InstanceNamed, Instances, Busy
<1>6. JobOK'
  BY <1>1, PidFacts, Zenon DEF JobOK
<1> QED
  BY <1>3, <1>4, <1>5, <1>6, Zenon DEF LifeInv

LEMMA ServiceKicked ==
    ASSUME LifeInv, NEW p \in Pids, KickstartAndExit(p)
    PROVE  LifeInv'
<1>0. /\ proc[p] = "restarting" /\ Busy = {p} /\ Typing = {} /\ p # NoPid
      /\ UNCHANGED <<auto, pidFile, plistOn, cfgAuto, cmd>> /\ plistOn \in BOOLEAN
      /\ Fresh \in Pids /\ proc[Fresh] = "unborn"
  BY PidFacts, FreshIsUnborn DEF KickstartAndExit, LifeInv, LifeTypes, OneAtATime, Busy
<1>1. /\ loaded' = plistOn /\ job' = IF plistOn THEN Fresh ELSE NoPid
      /\ proc' \in [Pids -> Running \union {"unborn", "dead"}]
      /\ \A q \in Pids : proc'[q] = IF q = p THEN "dead"
                                     ELSE IF plistOn /\ q = Fresh THEN "reading" ELSE proc[q]
  BY <1>0, Zenon DEF KickstartAndExit, LifeInv, LifeTypes, Running
<1>3. LifeTypes'
  BY <1>0, <1>1, ZenonT(40) DEF LifeInv, LifeTypes
<1>4. OneAtATime'
  BY <1>0, <1>1, ZenonT(40) DEF LifeInv, OneAtATime, Busy, Typing
<1>5. InstanceNamed'
  BY <1>0, <1>1 DEF LifeInv, InstanceNamed, Instances, Busy
<1>6. JobOK'
  BY <1>0, <1>1, PidFacts, ZenonT(40) DEF JobOK, Alive, Running
<1> QED
  BY <1>3, <1>4, <1>5, <1>6, Zenon DEF LifeInv

(* A command that only moves on: the processes and the pid file stay.      *)
LEMMA CommandMoves ==
    ASSUME LifeInv, UNCHANGED <<proc, auto, pidFile, loaded, job, plistOn>>, cfgAuto' \in BOOLEAN,
           NEW c \in Cmds, NEW r \in [op : Ops, pc : CmdStages], cmd' = [cmd EXCEPT ![c] = r],
           r.pc # "remove", Busy = {} /\ Typing \subseteq {c},
           cfgAuto' = cfgAuto \/ r.pc = "apply", cmd[c].pc # "apply" \/ job = NoPid
    PROVE  LifeInv'
<1>1. \A d \in Cmds : cmd'[d] = IF d = c THEN r ELSE cmd[d]
  BY Zenon DEF LifeInv, LifeTypes
<1>2. LifeTypes'
  BY Zenon DEF LifeInv, LifeTypes
<1>3. Busy' = {} /\ Typing' \subseteq {c} /\ Instances' = Instances
  BY <1>1, Zenon DEF Busy, Typing, Instances
<1>4. OneAtATime'
  BY <1>3, Zenon DEF OneAtATime
<1>5. InstanceNamed'
  BY <1>1, <1>3, ZenonT(40) DEF LifeInv, InstanceNamed
<1>6. JobOK'
  BY <1>1, <1>3, PidFacts, ZenonT(40) DEF LifeInv, JobOK, Alive
<1> QED
  BY <1>2, <1>4, <1>5, <1>6, Zenon DEF LifeInv

(* launchd starts a process in place of the one it ran.                    *)
LEMMA JobStarts ==
    ASSUME LifeInv, NEW c \in Cmds, Busy = {}, Typing \subseteq {c}, Unborn # {}, loaded', job' = Fresh,
           loaded' \in BOOLEAN, proc' = [Dead(job, proc) EXCEPT ![Fresh] = "reading"],
           cmd' = [cmd EXCEPT ![c] = Idle], UNCHANGED <<auto, pidFile, plistOn, cfgAuto>>
    PROVE  LifeInv'
<1>0. Fresh \in Pids /\ proc[Fresh] = "unborn" /\ Fresh # NoPid
  BY FreshIsUnborn, PidFacts, Zenon
<1>1. /\ Dead(job, proc) \in [Pids -> Running \union {"unborn", "dead"}]
      /\ \A q \in Pids : Dead(job, proc)[q] = IF q = job THEN "dead" ELSE proc[q]
  BY PidFacts, Zenon DEF LifeInv, LifeTypes, Running, Dead
<1>2. /\ proc' \in [Pids -> Running \union {"unborn", "dead"}]
      /\ \A q \in Pids : proc'[q] = IF q = Fresh THEN "reading" ELSE IF q = job THEN "dead" ELSE proc[q]
  BY <1>0, <1>1, Zenon DEF Running
<1>3. Idle \in [op : Ops, pc : CmdStages]
  BY Zenon DEF Idle, Ops, CmdStages
<1>4. LifeTypes'
  BY <1>0, <1>2, <1>3, Zenon DEF LifeInv, LifeTypes
<1>5. Busy' = {Fresh} /\ Typing' = {} /\ Instances' \subseteq Instances
  <2>1. \A d \in Cmds : cmd'[d].pc = "done"
    BY Zenon DEF LifeInv, LifeTypes, Typing, Idle
  <2> QED
    BY <1>0, <1>2, <2>1, Zenon DEF Busy, Typing, Instances
<1>6. OneAtATime'
  BY <1>5, Zenon DEF OneAtATime
<1>7. InstanceNamed'
  <2>1. \A d \in Cmds : cmd'[d].pc # "remove"
    BY <1>5, Zenon DEF Typing
  <2>2. \A q \in Pids : proc'[q] \notin {"writing", "stopping"}
    BY <1>2, Zenon DEF Busy
  <2> QED
    BY <1>5, <2>1, <2>2, Zenon DEF LifeInv, InstanceNamed
<1>8. JobOK'
  BY <1>0, <1>2, Zenon DEF JobOK, Alive, Running
<1> QED
  BY <1>4, <1>6, <1>7, <1>8, Zenon DEF LifeInv

(* A command that has begun is the only one, and no process is busy.       *)
LEMMA Alone ==
    ASSUME LifeInv, NEW c \in Cmds, cmd[c].pc # "done"
    PROVE  Busy = {} /\ Typing = {c}
  BY Zenon DEF LifeInv, OneAtATime, Typing

LEMMA GotoFacts ==
    ASSUME LifeInv, NEW c \in Cmds, NEW l \in CmdStages, Goto(c, l)
    PROVE  \E r \in [op : Ops, pc : CmdStages] : r.pc = l /\ cmd' = [cmd EXCEPT ![c] = r]
<1>1. cmd[c] \in [op : Ops, pc : CmdStages] /\ cmd \in [Cmds -> [op : Ops, pc : CmdStages]]
  BY Zenon DEF LifeInv, LifeTypes
<1>2. /\ [cmd[c] EXCEPT !.pc = l] \in [op : Ops, pc : CmdStages] /\ [cmd[c] EXCEPT !.pc = l].pc = l
      /\ cmd' = [cmd EXCEPT ![c] = [cmd[c] EXCEPT !.pc = l]]
  BY <1>1, Zenon DEF Goto
<1> QED
  BY <1>2, Zenon

(* What Ended asks of the commands when one of them goes to a label.       *)
LEMMA StepOn ==
    ASSUME LifeInv, NEW c \in Cmds, cmd[c].pc \notin {"done", "apply"}, NEW p,
           NEW r \in [op : Ops, pc : CmdStages], cmd' = [cmd EXCEPT ![c] = r],
           r.pc = "remove" => Instances \subseteq {p}
    PROVE  /\ Typing # {} /\ cmd' \in [Cmds -> [op : Ops, pc : CmdStages]] /\ Typing' \subseteq Typing
           /\ \A d \in Cmds : /\ cmd'[d].pc = "remove" => Instances \subseteq {p}
                              /\ cmd[d].pc = "apply" => cmd'[d].pc = "apply"
<1>1. cmd' \in [Cmds -> [op : Ops, pc : CmdStages]] /\ \A d \in Cmds : cmd'[d] = IF d = c THEN r ELSE cmd[d]
  BY Zenon DEF LifeInv, LifeTypes
<1>2. Busy = {} /\ Typing = {c}
  BY Alone, Zenon
<1>3. \A d \in Cmds : d # c => cmd[d].pc = "done"
  BY <1>2, Zenon DEF Typing
<1> QED
  BY <1>1, <1>2, <1>3, Zenon DEF Typing

(* The service ends: service::stop, and the first halves of install and of *)
(* the restart after an update.                                            *)
LEMMA ServiceEnds ==
    ASSUME LifeInv, NEW c \in Cmds, cmd[c].pc \notin {"done", "apply"}, BootOut,
           NEW l \in CmdStages \ {"remove"}, Goto(c, l), plistOn' \in BOOLEAN,
           UNCHANGED <<auto, pidFile, cfgAuto>>
    PROVE  LifeInv'
<1>1. PICK r \in [op : Ops, pc : CmdStages] : r.pc = l /\ cmd' = [cmd EXCEPT ![c] = r]
  BY GotoFacts, Zenon
<1>2. /\ Typing # {} /\ cmd' \in [Cmds -> [op : Ops, pc : CmdStages]] /\ Typing' \subseteq Typing
      /\ \A d \in Cmds : /\ cmd'[d].pc = "remove" => Instances \subseteq {job}
                         /\ cmd[d].pc = "apply" => cmd'[d].pc = "apply"
  BY <1>1, StepOn, Zenon
<1>3. job \in Pids \union {NoPid} /\ (job # NoPid => Alive(job))
  BY Zenon DEF LifeInv, LifeTypes, JobOK
<1>4. loaded' \in BOOLEAN /\ job' = NoPid /\ proc' = Dead(job, proc)
  BY Zenon DEF BootOut
<1> QED
  BY <1>2, <1>3, <1>4, Ended, Zenon

(* cmd_stop, after the service: the process the pid file names, then the   *)
(* pid file.                                                               *)
LEMMA LegacyStops ==
    ASSUME LifeInv, NEW c \in Cmds, StopLegacy(c) \/ RemovePidFile(c)
    PROVE  LifeInv'
<1>1. CASE StopLegacy(c)
  <2>0. /\ cmd[c].pc \notin {"done", "apply"} /\ pidFile \in Pids \union {NoPid}
        /\ UNCHANGED <<auto, pidFile, loaded, plistOn, cfgAuto>>
        /\ plistOn' \in BOOLEAN /\ loaded' \in BOOLEAN
    BY <1>1, Zenon DEF StopLegacy, LifeInv, LifeTypes
  <2> DEFINE p == IF Alive(pidFile) THEN pidFile ELSE NoPid
  <2>1. p \in Pids \union {NoPid} /\ (p # NoPid => Alive(p))
    BY <2>0, Zenon DEF Alive
  <2>2. proc' = Dead(p, proc)
    BY <1>1, Zenon DEF StopLegacy, Dead, Alive
  <2>3. job' = Gone(p) /\ (job' # NoPid => loaded')
    BY <1>1, Zenon DEF StopLegacy, Gone, Alive, LifeInv, JobOK
  <2>4. PICK l \in CmdStages : Goto(c, l)
    BY <1>1, Zenon DEF StopLegacy, CmdStages
  <2>5. PICK r \in [op : Ops, pc : CmdStages] : r.pc = l /\ cmd' = [cmd EXCEPT ![c] = r]
    BY <2>4, GotoFacts, Zenon
  <2>6. Instances \subseteq {p}
    BY PidFacts, Zenon DEF LifeInv, InstanceNamed, Instances, Alive, Running
  <2>7. /\ Typing # {} /\ cmd' \in [Cmds -> [op : Ops, pc : CmdStages]] /\ Typing' \subseteq Typing
        /\ \A d \in Cmds : /\ cmd'[d].pc = "remove" => Instances \subseteq {p}
                           /\ cmd[d].pc = "apply" => cmd'[d].pc = "apply"
    <3> HIDE DEF p
    <3> QED
      BY <2>0, <2>5, <2>6, StepOn, Zenon
  <2> HIDE DEF p
  <2> QED
    BY <2>0, <2>1, <2>2, <2>3, <2>7, Ended, Zenon
<1>2. CASE RemovePidFile(c)
  <2>0. /\ cmd[c].pc \notin {"done", "apply"} /\ pidFile' = NoPid
        /\ UNCHANGED <<proc, auto, loaded, job, plistOn, cfgAuto>>
        /\ plistOn' \in BOOLEAN /\ loaded' \in BOOLEAN /\ (job' # NoPid => loaded')
        /\ Instances = {}
    BY <1>2, Zenon DEF RemovePidFile, LifeInv, LifeTypes, JobOK, InstanceNamed
  <2>1. Busy = {}
    BY <2>0, Alone, Zenon
  <2>2. "stopped" \in CmdStages /\ Goto(c, "stopped")
    BY <1>2, Zenon DEF RemovePidFile, CmdStages
  <2>3. PICK r \in [op : Ops, pc : CmdStages] : r.pc = "stopped" /\ cmd' = [cmd EXCEPT ![c] = r]
    BY <2>2, GotoFacts, Zenon
  <2>4. /\ Typing # {} /\ cmd' \in [Cmds -> [op : Ops, pc : CmdStages]] /\ Typing' \subseteq Typing
        /\ \A d \in Cmds : /\ cmd'[d].pc = "remove" => Instances \subseteq {NoPid}
                           /\ cmd[d].pc = "apply" => cmd'[d].pc = "apply"
    BY <2>0, <2>3, StepOn, Zenon
  <2>5. proc' = Dead(NoPid, proc) /\ job' = Gone(NoPid)
    BY <2>0, Zenon DEF Dead, Gone
  <2> QED
    BY <2>0, <2>1, <2>4, <2>5, Ended, ZenonT(40)
<1> QED
  BY <1>1, <1>2, Zenon

LEMMA IdleFacts == Idle \in [op : Ops, pc : CmdStages] /\ Idle.pc = "done"
  BY Zenon DEF Idle, Ops, CmdStages

LEMMA Typed ==
    ASSUME Calm, LifeInv, NEW c \in Cmds,
           NEW op \in {"stop", "start", "install", "update", "autoupdate"}, Type(c, op)
    PROVE  LifeInv'
<1>1. /\ UNCHANGED <<proc, auto, pidFile, loaded, job, plistOn, cfgAuto>> /\ cmd[c].pc = "done"
      /\ Busy = {} /\ Typing = {}
  BY Zenon DEF Type, Quiet, Busy, Typing
<1>2. PICK r \in [op : Ops, pc : CmdStages] : cmd' = [cmd EXCEPT ![c] = r] /\ r.pc # "remove"
  <2>1. PICK l \in {"bootout", "install", "rebootout", "save"} :
            cmd' = [cmd EXCEPT ![c] = [op |-> op, pc |-> l]]
    BY Zenon DEF Type
  <2>2. [op |-> op, pc |-> l] \in [op : Ops, pc : CmdStages]
    BY Zenon DEF Ops, CmdStages
  <2> QED
    BY <2>1, <2>2, Zenon
<1>3. cfgAuto' \in BOOLEAN
  BY <1>1, Zenon DEF LifeInv, LifeTypes
<1> QED
  BY <1>1, <1>2, <1>3, CommandMoves, Zenon

LEMMA CommandSteps ==
    ASSUME LifeInv, NEW c \in Cmds, Command(c)
    PROVE  LifeInv'
<1>0. cfgAuto \in BOOLEAN /\ plistOn \in BOOLEAN /\ loaded \in BOOLEAN /\ (job # NoPid => loaded)
  BY Zenon DEF LifeInv, LifeTypes, JobOK
<1>1. CASE StopService(c)
  <2>1. "term" \in CmdStages \ {"remove"}
    BY Zenon DEF CmdStages
  <2> QED
    BY <1>0, <1>1, <2>1, ServiceEnds, Zenon DEF StopService
<1>2. CASE StopLegacy(c) \/ RemovePidFile(c)
  BY <1>2, LegacyStops, Zenon
<1>3. CASE Stopped(c)
  <2>1. /\ cmd[c].pc = "stopped" /\ Busy = {} /\ Typing = {c}
        /\ UNCHANGED <<proc, auto, pidFile, loaded, job, plistOn, cfgAuto>>
    BY <1>3, Alone, ZenonT(40) DEF Stopped
  <2>2. CASE Goto(c, "install")
    <3>1. "install" \in CmdStages
      BY Zenon DEF CmdStages
    <3> QED
      BY <1>0, <2>1, <2>2, <3>1, GotoFacts, CommandMoves
  <2>3. CASE cmd' = [cmd EXCEPT ![c] = Idle]
    BY <1>0, <2>1, <2>3, IdleFacts, CommandMoves, Zenon
  <2> QED
    BY <1>3, <2>2, <2>3, Zenon DEF Stopped
<1>4. CASE InstallUnload(c)
  <2>1. "kick" \in CmdStages \ {"remove"}
    BY Zenon DEF CmdStages
  <2> QED
    BY <1>4, <2>1, ServiceEnds, Zenon DEF InstallUnload
<1>5. CASE InstallLoad(c)
  <2>1. /\ cmd[c].pc = "kick" /\ Busy = {} /\ Typing = {c} /\ loaded' = TRUE
        /\ cmd' = [cmd EXCEPT ![c] = Idle] /\ UNCHANGED <<auto, pidFile, plistOn, cfgAuto>>
    BY <1>5, Alone, Zenon DEF InstallLoad, Kickstart
  <2>2. CASE Alive(job)
    <3>1. loaded' = loaded /\ UNCHANGED <<job, proc>>
      BY <1>0, <1>5, <2>1, <2>2, Zenon DEF InstallLoad, Kickstart, Alive
    <3> QED
      BY <1>0, <2>1, <3>1, IdleFacts, CommandMoves, Zenon
  <2>3. CASE ~Alive(job)
    <3>1. job = NoPid
      BY <2>3, Zenon DEF LifeInv, JobOK
    <3>2. Unborn # {} /\ job' = Fresh /\ proc' = [Dead(job, proc) EXCEPT ![Fresh] = "reading"]
      BY <1>5, <2>3, <3>1, Zenon DEF InstallLoad, Kickstart, Dead
    <3> QED
      BY <2>1, <3>2, JobStarts, Zenon
  <2> QED
    BY <2>2, <2>3, Zenon
<1>6. CASE UpdateUnload(c)
  <2>1. cmd[c].pc = "rebootout" /\ Busy = {} /\ Typing = {c} /\ UNCHANGED <<auto, pidFile, plistOn, cfgAuto>>
    BY <1>6, Alone, Zenon DEF UpdateUnload
  <2>2. CASE loaded /\ plistOn
    <3>1. "kick" \in CmdStages \ {"remove"} /\ BootOut /\ Goto(c, "kick")
      BY <1>6, <2>2, Zenon DEF CmdStages, UpdateUnload
    <3> QED
      BY <1>0, <2>1, <3>1, ServiceEnds, Zenon
  <2>3. CASE ~(loaded /\ plistOn)
    <3>1. cmd' = [cmd EXCEPT ![c] = Idle] /\ UNCHANGED <<loaded, job, proc>>
      BY <1>6, <2>3, Zenon DEF UpdateUnload
    <3> QED
      BY <1>0, <2>1, <3>1, IdleFacts, CommandMoves, Zenon
  <2> QED
    BY <2>2, <2>3, Zenon
<1>7. CASE SaveSetting(c)
  <2>1. /\ cmd[c].pc = "save" /\ Busy = {} /\ Typing = {c} /\ cfgAuto' \in BOOLEAN
        /\ UNCHANGED <<proc, auto, pidFile, loaded, job, plistOn>> /\ Goto(c, "apply")
    BY <1>7, Alone, Zenon DEF SaveSetting
  <2>2. "apply" \in CmdStages
    BY Zenon DEF CmdStages
  <2> QED
    BY <2>1, <2>2, GotoFacts, CommandMoves
<1>8. CASE ApplySetting(c)
  <2>1. /\ Busy = {} /\ Typing = {c} /\ cmd' = [cmd EXCEPT ![c] = Idle]
        /\ UNCHANGED <<auto, pidFile, loaded, plistOn, cfgAuto>>
    BY <1>8, Alone, Zenon DEF ApplySetting
  <2>2. CASE loaded
    <3>1. Unborn # {} /\ job' = Fresh /\ proc' = [Dead(job, proc) EXCEPT ![Fresh] = "reading"]
      BY <1>8, <2>2, Zenon DEF ApplySetting
    <3> QED
      BY <1>0, <2>1, <2>2, <3>1, JobStarts, Zenon
  <2>3. CASE ~loaded
    <3>1. job = NoPid /\ UNCHANGED <<job, proc>>
      BY <1>0, <1>8, <2>3, Zenon DEF ApplySetting
    <3> QED
      BY <1>0, <2>1, <3>1, IdleFacts, CommandMoves, Zenon
  <2> QED
    BY <2>2, <2>3, Zenon
<1> QED
  BY <1>1, <1>2, <1>3, <1>4, <1>5, <1>6, <1>7, <1>8, ZenonT(40) DEF Command

(* The pid file, the launchd service and the commands: as long as one      *)
(* command or startup happens at a time, at most one provider is past the  *)
(* pid file, and one that launchd runs follows the auto-update setting.    *)
(* This for any number of processes, shells and commands, with crashes and *)
(* failed starts at any point.                                             *)
THEOREM OneInstanceObeys == Calm => (LifeSpec => []OneObedientInstance)
<1> SUFFICES ASSUME Calm PROVE LifeSpec => []OneObedientInstance
  BY Zenon
<1>1. LifeInv /\ [LifeNext]_lifeVars => LifeInv'
  <2> SUFFICES ASSUME LifeInv, [LifeNext]_lifeVars PROVE LifeInv'
    BY ZenonT(40)
  <2>1. CASE UNCHANGED lifeVars
    BY <2>1 DEF LifeInv, LifeTypes, OneAtATime, InstanceNamed, JobOK, Busy, Typing, Instances, Alive, lifeVars
  <2>2. ASSUME NEW p \in Pids, Process(p) PROVE LifeInv'
    BY <2>2, OldReplaced, PidWritten, CameUp, ProcessEnds, ServiceKicked, Zenon DEF Process
  <2>3. ASSUME NEW p \in Pids, Dies(p) \/ CtrlC(p) \/ AutoUpdateRestart(p) PROVE LifeInv'
    BY <2>3, ProcessEnds, Interrupted, UpdateRestarts, Zenon
  <2> QED
    BY <2>1, <2>2, <2>3, ServeStarts, CommandSteps, Typed, Zenon DEF LifeNext
<1>2. LifeInv => OneObedientInstance
  <2> SUFFICES ASSUME LifeInv PROVE OneObedientInstance
    BY Zenon
  <2>1. OneInstance
    BY Zenon DEF LifeInv, InstanceNamed, OneInstance
  <2>2. SettingApplied
    BY Zenon DEF LifeInv, JobOK, SettingApplied
  <2> QED
    BY <2>1, <2>2, Zenon DEF OneObedientInstance
<1> QED
  BY LifeInitially, <1>1, <1>2, PTL DEF LifeSpec

=============================================================================
