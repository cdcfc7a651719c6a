-------------------------------- MODULE Setup -------------------------------
(***************************************************************************)
(* The commands that set a machine up and tear it down (main.rs: init,     *)
(* install, autoupdate, enroll, unenroll and the start of serve) and the   *)
(* files they share: the configuration (config.rs), the payout wallet      *)
(* (wallet.rs), the legacy keys (secure_enclave_key.rs) and the models.    *)
(*                                                                         *)
(* One command runs at a time and may be killed between any two of its     *)
(* steps; a file that is being written is then torn.  The platform is      *)
(* macOS, where dirs::config_dir() is not ~/.config.                       *)
(***************************************************************************)
EXTENDS Integers, Sequences

CONSTANTS
    Fallback,   \* the catalog compiled in: a sequence of [id, size, min_ram, retired]
    Machines,   \* [ram, disk, offer]: GB, and the catalog the coordinator answers
    MaxSetups   \* bound: commands run

Torn == 0 - 1     \* a file whose write was interrupted
Absent == 0
Enabled == 1      \* a configuration with auto_update, the default
Disabled == 2     \* one without

VARIABLES
    machine, diskLeft,
    cfgFile,    \* Absent, Torn, Enabled or Disabled
    wallet,     \* Absent, Torn or the number of the key
    keys,       \* wallet keys generated so far
    paid,       \* addresses registered with the coordinator since the wallet was deleted
    oldKeys,    \* legacy key files are present
    mdm,        \* the MDM profile is installed
    stored,     \* models on disk
    asked,      \* models the last install was asked to download
    todos,      \* those it has yet to download
    service,    \* the model the launchd service was last started with, or "none"
    step,       \* where the running command is
    running,    \* the running command
    setups      \* commands started

fileVars == <<cfgFile, wallet, keys, oldKeys>>
shopVars == <<diskLeft, stored, asked, todos>>
setupVars == <<machine, shopVars, fileVars, paid, mdm, service, step, running, setups>>

(* Models that providers no longer serve are left out.                     *)
filter_provider_catalog(models) == SelectSeq(models, LAMBDA m : ~m.retired)

fallback_catalog == filter_provider_catalog(Fallback)

(* fetch_catalog: no answer and nothing left in it come to the same.       *)
Catalog ==
    LET models == filter_provider_catalog(machine.offer)
    IN  IF models = <<>> THEN fallback_catalog ELSE models

(* hardware::detect keeps 4 GB for the system, or all there is.            *)
memory_available_gb == IF machine.ram > 4 THEN machine.ram - 4 ELSE 0

Ids == {Catalog[i].id : i \in DOMAIN Catalog}
SizeOf(m) == LET i == CHOOSE j \in DOMAIN Catalog : Catalog[j].id = m IN Catalog[i].size

SetupInit ==
    /\ machine \in Machines /\ diskLeft = machine.disk
    /\ cfgFile = Absent /\ wallet = Absent /\ keys = 0 /\ paid = {}
    /\ oldKeys \in BOOLEAN /\ mdm = FALSE /\ stored \in {{}, {Catalog[1].id}}
    /\ asked = {} /\ todos = <<>> /\ service = "none" /\ step = "idle" /\ running = "none"
    /\ setups = 0

-----------------------------------------------------------------------------

Go(s) == step' = s /\ UNCHANGED running
End == step' = "idle" /\ running' = "none"

RunCommand ==
    /\ step = "idle" /\ setups < MaxSetups /\ setups' = setups + 1
    /\ \E c \in {"init", "install", "serve", "autoupdate", "enroll", "unenroll"} :
          /\ running' = c
          /\ step' = IF c \in {"init", "install", "serve"} THEN "config" ELSE c
    /\ UNCHANGED <<machine, shopVars, fileVars, paid, mdm, service>>

(* The process dies; what it was writing is torn.                          *)
Killed ==
    /\ step # "idle" /\ End
    /\ cfgFile' = IF step = "saving_config" THEN Torn ELSE cfgFile
    /\ wallet' = IF step = "writing_wallet" THEN Torn ELSE wallet
    /\ todos' = <<>>
    /\ UNCHANGED <<machine, diskLeft, stored, asked, keys, oldKeys, paid, mdm, service, setups>>

default_for_hardware == Enabled

(* load: what does not parse is an error.                                  *)
Loads(file) == file # Torn

AfterConfig ==
    CASE running = "install" -> Go("mdm") [] running = "serve" -> Go("wallet") [] OTHER -> End

(* A configuration that exists is kept: init and install do not read it,   *)
(* serve fails when it does not parse.                                     *)
CheckConfig ==
    /\ step = "config"
    /\ CASE cfgFile = Absent -> Go("saving_config")
         [] ~Loads(cfgFile) /\ running = "serve" -> End
         [] OTHER -> AfterConfig
    /\ UNCHANGED <<machine, shopVars, fileVars, paid, mdm, service, setups>>

(* autoupdate edits what it loads, or the defaults when there is no file;  *)
(* its status action writes nothing.                                       *)
AutoUpdate ==
    /\ step = "autoupdate"
    /\ End \/ (Loads(cfgFile) /\ Go("saving_config"))
    /\ UNCHANGED <<machine, shopVars, fileVars, paid, mdm, service, setups>>

SaveConfig ==
    /\ step = "saving_config" /\ AfterConfig
    /\ cfgFile' \in IF running = "autoupdate" THEN {Enabled, Disabled}
                    ELSE {default_for_hardware}
    /\ UNCHANGED <<machine, shopVars, wallet, keys, oldKeys, paid, mdm, service, setups>>

-----------------------------------------------------------------------------
(* The wallet at the start of serve.                                       *)

(* A key that cannot be removed is logged and left.                        *)
cleanup_legacy_key_files == oldKeys' \in {FALSE, oldKeys}

(* The address of a key depends on the key alone; a torn one has none.     *)
address_from_private_key(key) == IF key = Torn THEN {} ELSE {key}

(* 32 random bytes: never a key that was there before.                     *)
generate_private_key == keys + 1

(* Legacy keys are removed; an existing wallet is loaded, and one that     *)
(* does not load leaves the registration without an address.               *)
LoadWallet ==
    /\ step = "wallet" /\ cleanup_legacy_key_files
    /\ IF wallet = Absent
       THEN Go("writing_wallet") /\ UNCHANGED paid
       ELSE End /\ paid' = paid \union address_from_private_key(wallet)
    /\ UNCHANGED <<machine, shopVars, cfgFile, wallet, keys, mdm, service, setups>>

(* A plausible bug: the address is that of a key that was not written.     *)
CreateWalletTwice ==
    /\ step = "writing_wallet" /\ End
    /\ keys' = keys + 2 /\ wallet' = keys'
    /\ paid' = paid \union address_from_private_key(generate_private_key)
    /\ UNCHANGED <<machine, shopVars, cfgFile, oldKeys, mdm, service, setups>>

CreateWallet ==
    /\ step = "writing_wallet" /\ End
    /\ keys' = generate_private_key /\ wallet' = keys'
    /\ paid' = paid \union address_from_private_key(wallet')
    /\ UNCHANGED <<machine, shopVars, cfgFile, oldKeys, mdm, service, setups>>

-----------------------------------------------------------------------------
(* enroll, unenroll, and step 3 of install.                                *)

check_mdm_enrolled == mdm

(* The profile, once the serial number is read and the request answered,   *)
(* is opened; the operator installs it or does not.                        *)
OpenProfile == IF check_mdm_enrolled THEN UNCHANGED mdm ELSE mdm' \in BOOLEAN

(* An unreadable serial number and a refused request end enroll.           *)
Enroll ==
    /\ step = "enroll" /\ End /\ OpenProfile
    /\ UNCHANGED <<machine, shopVars, fileVars, paid, service, setups>>

(* Install goes on without a profile, except when the coordinator cannot   *)
(* be reached.                                                             *)
InstallProfile ==
    /\ step = "mdm" /\ OpenProfile
    /\ Go("models") \/ (~check_mdm_enrolled /\ ~mdm' /\ End)
    /\ UNCHANGED <<machine, shopVars, fileVars, paid, service, setups>>

(* Confirmed, unenroll removes the legacy keys and the wallet; the paths   *)
(* it names for the configuration and the token are not those in use.      *)
Unenroll ==
    /\ step = "unenroll" /\ End
    /\ \/ UNCHANGED <<wallet, paid, oldKeys>>
       \/ wallet' = Absent /\ paid' = {} /\ cleanup_legacy_key_files
    /\ UNCHANGED <<machine, shopVars, cfgFile, keys, mdm, service, setups>>

-----------------------------------------------------------------------------
(* Steps 4 to 6 of install.                                                *)

DefaultId(ram) ==
    CASE ram >= 256 -> "minimax" [] ram >= 128 /\ ram < 256 -> "qwen122b"
      [] ram >= 36 /\ ram < 128 -> "qwen27b" [] OTHER -> "none"

Defaults == {DefaultId(machine.ram)} \intersect Ids
Optionals == {Catalog[i].id : i \in {j \in DOMAIN Catalog : Catalog[j].min_ram <= machine.ram}} \ Defaults

(* The first default, or the last model of the catalog that fits in the    *)
(* memory, or no name at all.                                              *)
PrimaryModel ==
    LET fits == {i \in DOMAIN Catalog : memory_available_gb >= Catalog[i].size}
    IN  IF Defaults # {} THEN CHOOSE m \in Defaults : TRUE
        ELSE IF fits = {} THEN "" ELSE Catalog[CHOOSE i \in fits : \A j \in fits : j <= i].id

(* The defaults that are missing, when the disk has room for them and the  *)
(* operator agrees, and the missing ones among the optionals the operator  *)
(* names (possibly twice); nothing when the model was given.               *)
SelectDownloads ==
    /\ step = "models" /\ Go("download")
    /\ \E yes \in BOOLEAN, picks \in {<<>>} \union [1..1 -> Optionals \ stored] \union [1..2 -> Optionals \ stored] :
          LET missing == {m \in Defaults : m \notin stored}
              offered == yes /\ missing # {} /\ \A m \in missing : SizeOf(m) <= diskLeft
              first == IF offered THEN <<CHOOSE m \in missing : TRUE>> ELSE <<>>
          IN  /\ todos' = first \o picks
              /\ asked' = {todos'[i] : i \in DOMAIN todos'}
    /\ UNCHANGED <<machine, diskLeft, stored, fileVars, paid, mdm, service, setups>>

(* A download fails, or finds no room: the command ends.                   *)
DownloadFails ==
    /\ step = "download" /\ todos # <<>> /\ End
    /\ todos' = <<>>
    /\ UNCHANGED <<machine, diskLeft, stored, asked, fileVars, paid, mdm, service, setups>>

DownloadModel ==
    /\ step = "download" /\ todos # <<>> /\ Go("download")
    /\ LET m == Head(todos)
           need == IF m \in stored THEN 0 ELSE SizeOf(m)
       IN  /\ need <= diskLeft /\ diskLeft' = diskLeft - need
           /\ stored' = stored \union {m} /\ todos' = Tail(todos)
    /\ UNCHANGED <<machine, asked, fileVars, paid, mdm, service, setups>>

(* The security posture is checked last; the service is started with the   *)
(* primary model, or the one that was given.                               *)
StartService ==
    /\ step = "download" /\ todos = <<>> /\ End
    /\ service' \in {service, PrimaryModel} \union (IF asked = {} THEN Ids ELSE {})
    /\ UNCHANGED <<machine, shopVars, fileVars, paid, mdm, setups>>

SetupNext ==
    \/ RunCommand \/ Killed \/ CheckConfig \/ SaveConfig \/ AutoUpdate \/ LoadWallet \/ CreateWallet
    \/ Enroll \/ InstallProfile \/ Unenroll
    \/ SelectDownloads \/ DownloadFails \/ DownloadModel \/ StartService

SetupSpec == SetupInit /\ [][SetupNext]_setupVars

-----------------------------------------------------------------------------

SetupTypeOK ==
    /\ machine \in Machines /\ diskLeft \in Nat /\ cfgFile \in {Absent, Torn, Enabled, Disabled}
    /\ wallet \in {Torn} \union 0..keys /\ keys \in 0..MaxSetups /\ paid \subseteq 1..keys
    /\ oldKeys \in BOOLEAN /\ mdm \in BOOLEAN /\ stored \subseteq Ids /\ asked \subseteq Ids
    /\ service \in Ids \union {"none", ""} /\ setups \in 0..MaxSetups

(* Every start registers the same payout address until the operator        *)
(* deletes the wallet, whatever was killed in between; a torn wallet means *)
(* no address, never another one.                                          *)
AddressStable ==
    /\ \A a, b \in paid : a = b
    /\ paid # {} => wallet \in paid

(* An operator who has switched automatic updates off stays so: no other   *)
(* command, killed or not, replaces the configuration it finds.            *)
OptOutKept ==
    [][cfgFile = Disabled => (cfgFile' = Disabled \/ running = "autoupdate")]_setupVars

(* The service is started only after every model the operator asked for is *)
(* on disk: a download that fails ends the installation.                   *)
StartsAfterDownloads ==
    [][service' # service => asked' \subseteq stored']_setupVars

(* The space check of install holds until the download it was made for:    *)
(* the defaults come first, so none of them runs out of space.             *)
DefaultsFit ==
    (step = "download" /\ todos # <<>> /\ Head(todos) \in Defaults \ stored)
        => SizeOf(Head(todos)) <= diskLeft

(* The setup commands keep the payout address and the user's choice, and   *)
(* wait for the downloads the operator asked for.  A default the operator  *)
(* declined is started all the same.                                       *)
SetupKeepsChoices == [](AddressStable /\ DefaultsFit) /\ StartsAfterDownloads /\ OptOutKept
=============================================================================
