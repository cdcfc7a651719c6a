------------------------------ MODULE Startup ------------------------------
(***************************************************************************)
(* One provider process from the pid file to the coordinator: the startup  *)
(* of cmd_serve (main.rs), the register message it leads to, and the       *)
(* attestation challenges answered afterwards (coordinator.rs).            *)
(*                                                                         *)
(* What the properties are about is the order of the startup and what the  *)
(* messages claim: which protections are on, which models can be served,   *)
(* and which files the reported hashes were computed from.  A hash is the  *)
(* version of what it was computed from; "new" is what the manifest of the *)
(* coordinator lists.                                                      *)
(***************************************************************************)
EXTENDS Integers

CONSTANTS
    Models,       \* models known to the machine
    Machines      \* the machines the provider may be started on

ASSUME StartupAssumption ==
    Machines \subseteq [onDisk : SUBSET Models,    \* cached, complete and small enough
                        chosen : SUBSET Models,    \* --model, or the configured model
                        sip : BOOLEAN, rdma : BOOLEAN, vm : BOOLEAN, se : BOOLEAN,
                        config : {"none", "good", "bad"},
                        roots : SUBSET {"bundle", "home"}]  \* Python runtimes found

VARIABLES
    mac,        \* the machine: what the checks of the startup find
    stage,      \* where the startup is; "exited" when it bailed out
    guards,     \* the protections in force
    config,     \* the configuration file
    disk,       \* the Python runtime and the templates on disk
    left,       \* selected models whose engine is still to be loaded
    advertised, \* models of the register message
    servable,   \* models with a loaded engine
    client,     \* the CoordinatorClient, once it is built
    registered, \* what the coordinator was told at registration, or NoClaims
    challenge,  \* the attestation challenge being answered
    answer      \* the last attestation response, or NoAnswer

startVars == <<mac, stage, guards, config, disk, left, advertised, servable, client,
               registered, challenge, answer>>

(* CoordinatorClient::new: what is not given stays empty.                  *)
NewClient(models) == [models |-> models, se |-> FALSE, attested |-> FALSE, hashes |-> <<>>]

(* The with_ methods of the client.                                        *)
WithAll(c, se, attested, hashes) ==
    [c EXCEPT !.se = se, !.attested = attested, !.hashes = hashes]

NoClaims == [models |-> {}, caps |-> {}, hashes |-> <<>>, attested |-> FALSE]
NoAnswer == [status |-> <<>>, signed |-> <<>>, seen |-> {}]
NoChallenge == [at |-> "none", from |-> "none", python |-> "none", seen |-> {}]

StartInit ==
    /\ mac \in Machines
    /\ stage = "harden" /\ guards = {} /\ config = mac.config
    /\ disk \in [python : {"old", "new"}, templates : {"none", "new"}]
    /\ left = {} /\ advertised = {} /\ servable = {}
    /\ client = NewClient({}) /\ registered = NoClaims
    /\ challenge = NoChallenge /\ answer = NoAnswer

Reach(s) == stage' = s
Bail == stage' = "exited" /\ UNCHANGED <<guards, config, disk, left, advertised, servable,
                                         client>>

-----------------------------------------------------------------------------

(* verify_security_posture: SIP on; RDMA off, or the hypervisor active.    *)
(* (The signature check of an app bundle is one more reason to refuse.)    *)
PostureOK == mac.sip /\ (mac.rdma => mac.vm)

(* What the hardening functions put in force: no core dumps, a scrubbed    *)
(* environment, an isolated Python.                                        *)
Hardened == {"posture", "core dumps", "env"}

(* The VM (its absence is only logged), the posture, core dumps off, the   *)
(* environment scrubbed and Python isolated.                               *)
Harden ==
    /\ stage = "harden"
    /\ \/ /\ PostureOK
          /\ guards' = Hardened /\ Reach("config")
          /\ UNCHANGED <<config, disk, left, advertised, servable, client>>
       \/ Bail     \* the posture is wrong, or RLIMIT_CORE cannot be set
    /\ UNCHANGED <<mac, registered, challenge, answer>>

(* The configuration is loaded, or a default one is written; a file that   *)
(* does not parse ends the startup.  Then the ephemeral keys.              *)
ReadConfig ==
    /\ stage = "config"
    /\ IF config = "bad" THEN Bail
       ELSE /\ config' = "good" /\ Reach("select")
            /\ UNCHANGED <<guards, disk, left, advertised, servable, client>>
    /\ UNCHANGED <<mac, registered, challenge, answer>>

(* The approved Python runtimes: that of the app bundle, that of the CLI.  *)
python_runtime_roots == mac.roots

(* ensure_approved_runtime_available.  (Asking for --local or for another  *)
(* backend is one more reason to refuse.)                                  *)
validate_private_text_runtime == python_runtime_roots # {}

(* With models to serve there must be an approved Python runtime.          *)
SelectModels ==
    /\ stage = "select"
    /\ IF mac.chosen # {} /\ ~validate_private_text_runtime THEN Bail
       ELSE /\ left' = mac.chosen /\ Reach("python")
            /\ UNCHANGED <<guards, config, disk, advertised, servable, client>>
    /\ UNCHANGED <<mac, registered, challenge, answer>>

(* ensure_python_verified must succeed; what ensure_runtime_updated says   *)
(* is ignored (module Runtime has both).                                   *)
VerifyPython ==
    /\ stage = "python"
    /\ \/ /\ \E v \in {disk.python, "new"} : disk' = [disk EXCEPT !.python = v]
          /\ Reach("advertise")
          /\ UNCHANGED <<guards, config, left, advertised, servable, client>>
       \/ Bail
    /\ UNCHANGED <<mac, registered, challenge, answer>>

(* The models of the register message: the selected ones found by a scan.  *)
Advertise ==
    /\ stage = "advertise"
    /\ advertised' = mac.chosen \intersect mac.onDisk /\ Reach("client")
    /\ UNCHANGED <<mac, guards, config, disk, left, servable, client, registered, challenge, answer>>

(* compute_runtime_hashes.                                                 *)
Hashes(d) == [python |-> d.python, templates |-> d.templates]

(* create_attestation needs the handle of the Secure Enclave and may fail. *)
CreateAttestation == IF mac.se THEN BOOLEAN ELSE {FALSE}

(* The client is built, not connected: keys, token, wallet, telemetry, the *)
(* attestation and the runtime hashes are fixed here.                      *)
BuildClient ==
    /\ stage = "client" /\ Reach("templates")
    /\ \E att \in CreateAttestation :
          client' = WithAll(NewClient(advertised), mac.se, att, Hashes(disk))
    /\ UNCHANGED <<mac, guards, config, disk, left, advertised, servable, registered, challenge, answer>>

(* ensure_templates_cached: the templates of the manifest, where they can  *)
(* be fetched.                                                             *)
CacheTemplates ==
    /\ stage = "templates"
    /\ \E t \in {disk.templates, "new"} : disk' = [disk EXCEPT !.templates = t]
    /\ Reach("engines")
    /\ UNCHANGED <<mac, guards, config, left, advertised, servable, client, registered, challenge, answer>>

(* lock_python_path: the import path becomes the approved runtimes.        *)
lock_python_path == guards \union IF python_runtime_roots = {} THEN {} ELSE {"python"}

(* One engine after the other; the path is locked before anything is       *)
(* imported.  A failure is logged and the slot marked unhealthy.           *)
LoadEngine(m) ==
    /\ stage = "engines" /\ m \in left
    /\ left' = left \ {m}
    /\ \/ /\ m \in mac.onDisk /\ guards' = lock_python_path /\ "python" \in guards'
          /\ servable' = servable \union {m}
       \/ guards' \in {guards, lock_python_path} /\ UNCHANGED servable
    /\ UNCHANGED <<mac, stage, config, disk, advertised, client, registered, challenge, answer>>

DenyDebugger ==
    /\ stage = "engines" /\ left = {}
    /\ \/ /\ guards' = guards \union {"debugger"} /\ Reach("connect")
          /\ UNCHANGED <<config, disk, left, advertised, servable, client>>
       \/ Bail
    /\ UNCHANGED <<mac, registered, challenge, answer>>

(* What the register message says of the process, constants of the code;   *)
(* "modules" is dangerous_modules_blocked.                                 *)
Capabilities == {"core dumps", "env", "python", "debugger", "modules"}

Claims == [models |-> client.models, caps |-> Capabilities, hashes |-> client.hashes,
           attested |-> client.attested]

(* The connection is spawned and registers.                                *)
Register ==
    /\ stage = "connect"
    /\ registered' = Claims
    /\ stage' = "serving"
    /\ UNCHANGED <<mac, guards, config, disk, left, advertised, servable, client, challenge, answer>>

-----------------------------------------------------------------------------

(* A runtime that the coordinator rejected is replaced while serving       *)
(* (module Runtime); its files pass through a state of their own.          *)
SelfHeal ==
    /\ stage = "serving" /\ disk.python # "new"
    /\ disk' = [disk EXCEPT !.python = IF @ = "old" THEN "torn" ELSE "new"]
    /\ challenge' = IF challenge = NoChallenge THEN challenge
                    ELSE [challenge EXCEPT !.seen = @ \cup {disk'.python}]
    /\ UNCHANGED <<mac, stage, guards, config, left, advertised, servable, client,
                   registered, answer>>

(* se_sign: nothing without a handle, or when the enclave refuses.         *)
se_sign(bytes) == IF client.se THEN {bytes, <<>>} ELSE {<<>>}

Unknown == "unknown"  \* an Option that is None, an empty string or an empty map

Said(b) == IF b THEN "true" ELSE "false"

Mixed == "mixed"      \* the hash of files that were replaced while being read

(* The status of a response: posture and templates as they are now, and    *)
(* the Python runtime as it was hashed.                                    *)
StatusWith(python) ==
    [sip |-> Said(mac.sip), rdmaOff |-> Said(~mac.rdma), vm |-> Said(mac.vm),
     python |-> python,
     templates |-> IF disk.templates = "none" THEN Unknown ELSE Hashes(disk).templates]

(* build_status_canonical: a sorted map of what is known; unknown fields   *)
(* are left out.                                                           *)
Canonical(status) ==
    [k \in {f \in DOMAIN status : status[f] # Unknown} |-> status[k]]

(* A challenge comes, and the hashing of the runtime begins.               *)
TakeChallenge ==
    /\ stage = "serving" /\ challenge = NoChallenge
    /\ challenge' = [at |-> "hash", from |-> disk.python, python |-> "none", seen |-> {disk.python}]
    /\ UNCHANGED <<mac, stage, guards, config, disk, left, advertised, servable, client,
                   registered, answer>>

(* compute_runtime_hashes reads one file after the other, while another    *)
(* task may be replacing them.                                             *)
HashRuntime ==
    /\ challenge.at = "hash"
    /\ challenge' = [challenge EXCEPT !.at = "sign",
                        !.python = IF disk.python = challenge.from THEN disk.python ELSE Mixed]
    /\ UNCHANGED <<mac, stage, guards, config, disk, left, advertised, servable, client,
                   registered, answer>>

Respond(status) ==
    /\ \E sig \in se_sign(Canonical(status)) :
          answer' = [status |-> status, signed |-> sig, seen |-> challenge.seen]
    /\ challenge' = NoChallenge
    /\ UNCHANGED <<mac, stage, guards, config, disk, left, advertised, servable, client,
                   registered>>

(* A plausible bug: answer with the hashes of the register message.        *)
AnswerFromSnapshot ==
    /\ challenge.at = "sign"
    /\ Respond(StatusWith(client.hashes.python))

(* handle_attestation_challenge: the posture is checked again, and the     *)
(* status signed.                                                          *)
AnswerChallenge ==
    /\ challenge.at = "sign"
    /\ Respond(StatusWith(challenge.python))

StartNext ==
    \/ Harden \/ ReadConfig \/ SelectModels \/ VerifyPython \/ Advertise \/ BuildClient
    \/ CacheTemplates \/ (\E m \in Models : LoadEngine(m)) \/ DenyDebugger \/ Register
    \/ SelfHeal \/ TakeChallenge \/ HashRuntime \/ AnswerChallenge

StartSpec == StartInit /\ [][StartNext]_startVars

-----------------------------------------------------------------------------

StartTypeOK ==
    /\ mac \in Machines
    /\ stage \in {"harden", "config", "select", "python", "advertise", "client",
                  "templates", "engines", "connect", "serving", "exited"}
    /\ guards \subseteq {"posture", "core dumps", "env", "python", "debugger"}
    /\ config \in {"none", "good", "bad"}
    /\ disk \in [python : {"old", "new", "torn"}, templates : {"none", "new"}]
    /\ challenge.at \in {"none", "hash", "sign"}
    /\ left \subseteq Models /\ advertised \subseteq Models /\ servable \subseteq Models

(* The protections the register message claims are in force when it is     *)
(* sent, that of the Python path as soon as an engine is loaded, and the   *)
(* posture was accepted: no path through the startup skips one.  The one   *)
(* exception is dangerous_modules_blocked, which is claimed always and     *)
(* which no code of the provider turns on.                                 *)
ClaimsHold ==
    registered # NoClaims =>
        /\ registered.caps \ {"python", "modules"} \subseteq guards /\ "posture" \in guards
        /\ servable # {} => "python" \in guards
        /\ mac.sip /\ (mac.rdma => mac.vm)

(* An attestation response reports a runtime that was on disk after the    *)
(* challenge came, also while a rejected one is being replaced, and never  *)
(* one that was there only before, at registration say.  A hash that       *)
(* belongs to no version is reported only if the files changed while they  *)
(* were being hashed.                                                      *)
AnswerIsFresh ==
    answer # NoAnswer =>
        /\ \/ answer.status.python \in answer.seen
           \/ answer.status.python = Mixed /\ \E v, w \in answer.seen : v # w
        /\ answer.status.templates = "new" <=> disk.templates = "new"

(* "unknown must serialize differently than false": the signed bytes fix   *)
(* the status, so no other status could be presented with the signature.   *)
SignatureFixesStatus ==
    answer.signed # <<>> =>
        \A f \in DOMAIN answer.status :
            \A v \in {"true", "false", "old", "torn", "new", Mixed, Unknown} :
                Canonical([answer.status EXCEPT ![f] = v]) = answer.signed
                    => answer.status[f] = v

(* What the provider claims of itself at registration is so, but for the   *)
(* modules, what it answers to a challenge is fresh, and the signature     *)
(* covers all of it.                                                       *)
ClaimsAreTrue == ClaimsHold /\ AnswerIsFresh /\ SignatureFixesStatus

(* "This ensures we never advertise models we can't actually serve yet."   *)
AdvertisedServable == registered.models \subseteq servable
=============================================================================
