------------------------------ MODULE Updater ------------------------------
(***************************************************************************)
(* Installing a release over the running provider, as the Rust provider    *)
(* does it (provider/src/main.rs): `auto_update_check_with_install_dir`,   *)
(* run by the background task of `serve`, and `cmd_update`, run by hand.   *)
(* Both unpack a bundle over ~/.darkbloom, move or verify the binaries of  *)
(* bin/ and, for a Swift release, migrate the launchd plist; only the      *)
(* first keeps backups and rolls back.                                     *)
(*                                                                         *)
(* A file is what it holds: a release, Torn (an interrupted write), None,  *)
(* or a symbolic link.  One update runs at a time, and `darkbloom update`  *)
(* is run while the provider is stopped or runs as the launchd service     *)
(* that it restarts.  A crash is a loss of power or a kill between steps.  *)
(***************************************************************************)
EXTENDS Integers, Sequences

CONSTANTS
    Releases,    \* the bundles the coordinator may offer, the installed one included
    Info,        \* what /api/version and the bundle say of each release
    Installed,   \* the release the machine starts with
    Catalogs,    \* the sets of releases that may be published over a behaviour
    PlistArgs,   \* the ProgramArguments `darkbloom start` may have written (no
                 \* value has a character that XML escapes)
    MaxAttempts, \* bound: update attempts
    MaxUpdFaults \* bound: I/O failures and crashes

None == "none"
Torn == "torn"
ToHelper == "-> darkbloom-enclave"  \* the link made for eigeninference-enclave
ToApp == "-> Darkbloom.app"         \* a link into the app wrapper of the bundle

SwiftFiles == {"darkbloom", "darkbloom-enclave", "mlx.metallib"}
RustFiles == {"darkbloom", "eigeninference-enclave"}
Files == SwiftFiles \union RustFiles

(* The order in which the four files are backed up and restored.           *)
FileOrder == <<"darkbloom", "eigeninference-enclave", "darkbloom-enclave", "mlx.metallib">>

ASSUME UpdaterAssumption ==
    /\ Installed \in Releases /\ Catalogs \subseteq SUBSET Releases
    /\ MaxAttempts \in Nat /\ MaxUpdFaults \in Nat
    /\ {None, Torn, ToHelper, ToApp} \intersect Releases = {}
    /\ \A a \in PlistArgs : a = <<>> \/ a[2] = "serve"
    /\ Info \in [Releases -> [version : Nat \X Nat \X Nat, swift : BOOLEAN,
                             app : BOOLEAN, meta : BOOLEAN, atRoot : BOOLEAN]]

VARIABLES
    catalog,  \* the releases published
    upc,      \* where the update is
    who,      \* "auto" | "manual"
    self,     \* the release whose binary runs the updater (CARGO_PKG_VERSION)
    rel,      \* the release being installed
    step,     \* index into FileOrder of the next backup or restore
    bin,      \* ~/.darkbloom/bin
    root,     \* the files tar left at the top of ~/.darkbloom
    app,      \* Darkbloom.app/Contents/MacOS
    bak,      \* the *.auto-update-backup files on disk
    saved,    \* the Option<PathBuf> results of backup_installed_binary
    plist,    \* the ProgramArguments of the launchd plist, <<>> when there is none
    attempts, \* how many updates have begun
    ufaults,  \* faults so far
    before,   \* what bin/ resolved to when the attempt began
    forced    \* the releases --force has asked for that are not newer

updVars == <<catalog, upc, who, self, rel, step, bin, root, app, bak, saved, plist,
             attempts, ufaults, before, forced>>
attempt == <<catalog, who, rel, attempts, before, forced>>  \* fixed during an attempt

(* Opening a path follows links: eigeninference-enclave may lead to        *)
(* darkbloom-enclave, and the Swift files may lead into the app.           *)
Resolve(f) ==
    LET at(g) == IF bin[g] = ToApp THEN app[g] ELSE bin[g]
    IN  IF bin[f] = ToHelper THEN at("darkbloom-enclave") ELSE at(f)

(* Path::exists, false for a link that leads nowhere.                      *)
Exists(f) == Resolve(f) # None

(* Where a write to bin/f lands: fs::copy opens the path, so it writes     *)
(* through links.                                                          *)
CopyInto(f, c) ==
    LET g == IF bin[f] = ToHelper THEN "darkbloom-enclave" ELSE f
    IN  IF bin[g] = ToApp THEN /\ app' = [app EXCEPT ![g] = c]
                               /\ UNCHANGED bin
                          ELSE /\ bin' = [bin EXCEPT ![g] = c]
                               /\ UNCHANGED app

NoFiles == [f \in Files |-> None]

(* The machine as the installer of a Rust release leaves it.               *)
UpdInit ==
    /\ catalog \in Catalogs
    /\ upc = "idle" /\ who = "auto" /\ self = Installed /\ rel = Installed /\ step = 1
    /\ bin = [f \in Files |-> IF f \in RustFiles THEN Installed ELSE None]
    /\ root = NoFiles /\ app = NoFiles /\ bak = NoFiles
    /\ saved = [f \in Files |-> FALSE]
    /\ plist \in PlistArgs
    /\ attempts = 0 /\ ufaults = 0 /\ before = NoFiles /\ forced = {}

UpdFault == ufaults < MaxUpdFaults /\ ufaults' = ufaults + 1

-----------------------------------------------------------------------------

(* Tuples of (major, minor, patch) are compared in that order; a part that *)
(* does not parse counts as 0, so an "unknown" version is never newer.     *)
IsNewerVersion(current, latest) ==
    \/ latest[1] > current[1]
    \/ latest[1] = current[1] /\ latest[2] > current[2]
    \/ latest[1] = current[1] /\ latest[2] = current[2] /\ latest[3] > current[3]

(* Both updaters first ask for the version, then download the bundle and   *)
(* compare its hash when one is published.  Everything that can go wrong   *)
(* so far changes nothing.                                                 *)
Begin(w, r, c) ==
    /\ upc = "idle" /\ attempts < MaxAttempts
    /\ who' = w /\ rel' = r /\ upc' = c /\ step' = 1
    /\ attempts' = attempts + 1
    /\ saved' = [f \in Files |-> FALSE]
    /\ before' = [f \in Files |-> Resolve(f)]
    /\ UNCHANGED <<catalog, self, bin, root, app, bak, plist, ufaults>>

AutoUpdateCheck(r) ==
    /\ IsNewerVersion(Info[self].version, Info[r].version)
    /\ Begin("auto", r, "backup") /\ UNCHANGED forced

(* `darkbloom update`; --force skips the comparison of versions.           *)
CmdUpdate(r) ==
    /\ Begin("manual", r, "extract")
    /\ forced' = IF IsNewerVersion(Info[self].version, Info[r].version)
                 THEN forced ELSE forced \union {r}

(* backup_installed_binary, four times: a missing file is skipped, an      *)
(* older backup is replaced.                                               *)
BackUp ==
    /\ upc = "backup"
    /\ LET f == FileOrder[step]
       IN  IF Exists(f) THEN /\ bak' = [bak EXCEPT ![f] = Resolve(f)]
                             /\ saved' = [saved EXCEPT ![f] = TRUE]
                        ELSE UNCHANGED <<bak, saved>>
    /\ IF step < Len(FileOrder) THEN step' = step + 1 /\ UNCHANGED upc
                                ELSE step' = 1 /\ upc' = "extract"
    /\ UNCHANGED <<attempt, self, bin, root, app, plist, ufaults>>

(* A copy fails: the attempt ends before anything was replaced.            *)
BackUpFails ==
    /\ upc = "backup" /\ UpdFault /\ upc' = "idle" /\ step' = 1
    /\ UNCHANGED <<attempt, self, bin, root, app, bak, saved, plist>>

(* What the bundle of r holds beside the app wrapper.                      *)
BundleFiles(r) == IF Info[r].swift THEN SwiftFiles ELSE RustFiles

(* tar xzf: every member replaces what is at its path, links included.     *)
Unpack(done, torn) ==
    LET put(dir) == [f \in Files |-> IF f \in torn THEN Torn
                                     ELSE IF f \in done THEN rel ELSE dir[f]]
    IN  /\ IF Info[rel].atRoot THEN root' = put(root) /\ UNCHANGED bin
                         ELSE bin' = put(bin) /\ UNCHANGED root
        /\ app' = IF Info[rel].app /\ torn = {}
                  THEN [f \in Files |-> IF f \in SwiftFiles THEN rel ELSE None]
                  ELSE app

Extract ==
    /\ upc = "extract"
    /\ Unpack(BundleFiles(rel), {})
    /\ upc' = IF Info[rel].swift THEN "placeSwift" ELSE "placeRust"
    /\ UNCHANGED <<attempt, self, step, bak, saved, plist, ufaults>>

(* tar fails half-way.  Both updaters bail out here and restore nothing.   *)
ExtractFails ==
    /\ upc = "extract" /\ UpdFault
    /\ \E f \in BundleFiles(rel) : \E done \in SUBSET (BundleFiles(rel) \ {f}) :
           Unpack(done, {f})
    /\ upc' = "idle"
    /\ UNCHANGED <<attempt, self, step, bak, saved, plist>>

(* The files at the top move into bin/ where they exist.                   *)
MoveIntoBin(fs) ==
    /\ bin' = [f \in Files |-> IF f \in fs /\ root[f] # None THEN root[f] ELSE bin[f]]
    /\ root' = [f \in Files |-> IF f \in fs THEN None ELSE root[f]]

(* A Rust release: the renames (their errors are ignored) and the          *)
(* permissions (an error there ends the attempt, with no rollback).        *)
PlaceRust ==
    /\ upc = "placeRust"
    /\ \/ MoveIntoBin(RustFiles) /\ upc' = "verifyRust" /\ UNCHANGED ufaults
       \/ MoveIntoBin({}) /\ upc' = "verifyRust" /\ UpdFault
       \/ MoveIntoBin(RustFiles) /\ upc' = "idle" /\ UpdFault
    /\ UNCHANGED <<attempt, self, step, app, bak, saved, plist>>

(* An error reaches the rollback only from the automatic updater.          *)
Failed == upc' = IF who = "auto" THEN "restore" ELSE "idle"

VerifyRust ==
    /\ upc = "verifyRust"
    /\ \/ Exists("darkbloom") /\ upc' = "installed" /\ UNCHANGED ufaults
       \/ ~Exists("darkbloom") /\ Failed /\ UNCHANGED ufaults
       \/ UpdFault /\ Failed
    /\ UNCHANGED <<attempt, self, step, bin, root, app, bak, saved, plist>>

(* A Swift release: root-level files move into bin/ (a rename that fails   *)
(* is ignored); a legacy helper at the top stands in for a missing         *)
(* darkbloom-enclave.                                                      *)
PlaceSwift ==
    /\ upc = "placeSwift"
    /\ \E stuck \in {{}} \union {{f} : f \in SwiftFiles} :
          LET moves == {f \in SwiftFiles \ stuck : root[f] # None}
              moved == [f \in Files |-> IF f \in moves THEN root[f] ELSE bin[f]]
              legacy == root["eigeninference-enclave"]
              useLegacy == legacy # None /\ moved["darkbloom-enclave"] = None
          IN  /\ IF stuck = {} THEN UNCHANGED ufaults ELSE UpdFault
              /\ bin' = IF useLegacy THEN [moved EXCEPT !["darkbloom-enclave"] = legacy]
                                     ELSE moved
              /\ root' = [f \in Files |->
                             IF f \in moves \/ (useLegacy /\ f = "eigeninference-enclave")
                             THEN None ELSE root[f]]
    /\ upc' = "verifySwift"
    /\ UNCHANGED <<attempt, self, step, app, bak, saved, plist>>

(* The three files exist, the release publishes both hashes, and the       *)
(* binary and the metal library have them; the helper is not hashed.       *)
SwiftBundleOK ==
    /\ \A f \in SwiftFiles : Exists(f)
    /\ Info[rel].meta
    /\ Resolve("darkbloom") = rel /\ Resolve("mlx.metallib") = rel

VerifySwift ==
    /\ upc = "verifySwift"
    /\ IF SwiftBundleOK THEN upc' = "link" ELSE Failed
    /\ UNCHANGED <<attempt, self, step, bin, root, app, bak, saved, plist, ufaults>>

(* The links in the order they are made: eigeninference-enclave to the new *)
(* helper, then the Swift files into the app when there is one.            *)
LinkOrder == <<"eigeninference-enclave", "darkbloom", "darkbloom-enclave", "mlx.metallib">>

Linked(f) ==
    IF f = "eigeninference-enclave" THEN ToHelper
    ELSE IF app["darkbloom"] # None /\ app[f] # None THEN ToApp ELSE bin[f]

Link ==
    /\ upc = "link"
    /\ bin' = [f \in Files |-> Linked(f)]
    /\ upc' = "plist"
    /\ UNCHANGED <<attempt, self, step, root, app, bak, saved, plist, ufaults>>

(* The permissions cannot be set, or a link cannot be made in the place of *)
(* the file that was just removed.                                         *)
LinkFails ==
    /\ upc = "link" /\ UpdFault /\ Failed
    /\ \/ UNCHANGED bin
       \/ \E n \in 1..Len(LinkOrder) :
             /\ Linked(LinkOrder[n]) # bin[LinkOrder[n]]
             /\ bin' = [f \in Files |-> IF f = LinkOrder[n] THEN None
                                       ELSE IF \E i \in 1..(n - 1) : LinkOrder[i] = f
                                            THEN Linked(f) ELSE bin[f]]
    /\ UNCHANGED <<attempt, self, step, root, app, bak, saved, plist>>

-----------------------------------------------------------------------------

Kept == {"--coordinator", "--coordinator-url", "--model", "--idle-timeout"}
SwiftFlag(a) == IF a = "--coordinator" THEN "--coordinator-url" ELSE a

(* The Rust arguments as the Swift CLI takes them: the binary and the verb *)
(* are replaced, a known flag keeps its value, anything else is dropped    *)
(* one word at a time.                                                     *)
ConvertRustArgsToSwift(args) ==
    LET conv[i \in Nat] ==
            IF i > Len(args) THEN <<>>
            ELSE IF args[i] \in Kept /\ i < Len(args)
                 THEN <<SwiftFlag(args[i]), args[i + 1]>> \o conv[i + 2]
                 ELSE conv[i + 1]
    IN  <<"swift-bin", "start", "--foreground">> \o conv[3]

IsSwiftPlist == Len(plist) > 1 /\ plist[2] = "start"

(* rewrite_launchd_plist_for_swift: the new text is written beside the old *)
(* and renamed over it, so it is either one or the other.                  *)
MigratePlist ==
    /\ upc = "plist"
    /\ IF plist = <<>> THEN UNCHANGED plist ELSE plist' = ConvertRustArgsToSwift(plist)
    /\ upc' = "installed"
    /\ UNCHANGED <<attempt, self, step, bin, root, app, bak, saved, ufaults>>

(* It cannot be read or parsed, or the new text cannot be written.         *)
PlistFails ==
    /\ upc = "plist" /\ plist # <<>> /\ UpdFault
    /\ Failed
    /\ UNCHANGED <<attempt, self, step, bin, root, app, bak, saved, plist>>

-----------------------------------------------------------------------------

(* A plausible bug: the backup of the main binary is not put back.         *)
RestoreSkipsMain ==
    /\ upc = "restore"
    /\ LET f == FileOrder[step]
       IN  IF saved[f] /\ step > 1
           THEN CopyInto(f, bak[f]) /\ bak' = [bak EXCEPT ![f] = None]
           ELSE IF saved[f] THEN UNCHANGED <<bin, app, bak>>
           ELSE bin' = [bin EXCEPT ![f] = None] /\ UNCHANGED <<app, bak>>
    /\ IF step < Len(FileOrder) THEN step' = step + 1 /\ UNCHANGED upc
                                ELSE step' = 1 /\ upc' = "rolledBack"
    /\ UNCHANGED <<attempt, self, root, saved, plist, ufaults>>

(* restore_or_remove_installed_path, file after file: copy the backup over *)
(* the path and delete it, or remove a file that was not there before.     *)
Restore ==
    /\ upc = "restore"
    /\ LET f == FileOrder[step]
       IN  IF saved[f]
           THEN CopyInto(f, bak[f]) /\ bak' = [bak EXCEPT ![f] = None]
           ELSE bin' = [bin EXCEPT ![f] = None] /\ UNCHANGED <<app, bak>>
    /\ IF step < Len(FileOrder) THEN step' = step + 1 /\ UNCHANGED upc
                                ELSE step' = 1 /\ upc' = "rolledBack"
    /\ UNCHANGED <<attempt, self, root, saved, plist, ufaults>>

(* A copy fails: the rest is left as it is.                                *)
RestoreFails ==
    /\ upc = "restore" /\ saved[FileOrder[step]] /\ UpdFault
    /\ upc' = "idle" /\ step' = 1
    /\ UNCHANGED <<attempt, self, bin, root, app, bak, saved, plist>>

(* The error is logged and the old binary keeps running.                   *)
Resume ==
    /\ upc = "rolledBack" /\ upc' = "idle"
    /\ UNCHANGED <<attempt, self, step, bin, root, app, bak, saved, plist, ufaults>>

(* Ok(true): the backups go and the provider is restarted from bin/.       *)
Finish ==
    /\ upc = "installed"
    /\ bak' = IF who = "auto" THEN [f \in Files |-> IF saved[f] THEN None ELSE bak[f]] ELSE bak
    /\ upc' = "down"
    /\ UNCHANGED <<attempt, self, step, bin, root, app, saved, plist, ufaults>>

CrashUpdate ==
    /\ upc \notin {"idle", "down", "gone"} /\ UpdFault
    /\ upc' = "down" /\ step' = 1
    /\ UNCHANGED <<attempt, self, bin, root, app, bak, saved, plist>>

(* launchd or the user starts bin/darkbloom again.  A Rust release goes on *)
(* updating itself with this code; with a Swift one, or a binary that does *)
(* not run, this code is gone.                                             *)
Boot ==
    /\ upc = "down"
    /\ LET b == Resolve("darkbloom")
       IN  IF b \in {None, Torn} \/ IsSwiftPlist
           THEN upc' = "gone" /\ UNCHANGED self
           ELSE self' = b /\ upc' = IF Info[b].swift THEN "gone" ELSE "idle"
    /\ UNCHANGED <<attempt, step, bin, root, app, bak, saved, plist, ufaults>>

UpdNext ==
    \/ \E r \in catalog : AutoUpdateCheck(r) \/ CmdUpdate(r)
    \/ BackUp \/ BackUpFails \/ Extract \/ ExtractFails \/ PlaceRust \/ VerifyRust
    \/ PlaceSwift \/ VerifySwift \/ Link \/ LinkFails \/ MigratePlist \/ PlistFails
    \/ Restore \/ RestoreFails \/ Resume \/ Finish \/ CrashUpdate \/ Boot

UpdSpec == UpdInit /\ [][UpdNext]_updVars

(* The app wrapper came with one of the Swift releases and stayed.         *)
WrapperStays ==
    \A c \in Catalogs : \A r, s \in c : Info[r].app /\ Info[s].swift => Info[s].app

-----------------------------------------------------------------------------

Contents == Releases \union {None, Torn}

UpdTypeOK ==
    /\ upc \in {"idle", "backup", "extract", "placeRust", "verifyRust", "placeSwift",
                "verifySwift", "link", "plist", "installed", "restore", "rolledBack",
                "down", "gone"}
    /\ catalog \in Catalogs /\ who \in {"auto", "manual"} /\ self \in Releases /\ rel \in Releases
    /\ step \in 1..Len(FileOrder)
    /\ bin \in [Files -> Contents \union {ToHelper, ToApp}]
    /\ root \in [Files -> Contents] /\ app \in [Files -> Contents]
    /\ bak \in [Files -> Contents] /\ saved \in [Files -> BOOLEAN]
    /\ attempts \in 0..MaxAttempts /\ ufaults \in 0..MaxUpdFaults /\ forced \subseteq Releases

(* A completed rollback leaves bin/darkbloom as it was when the attempt    *)
(* began, whichever links the failed Swift install had already made and    *)
(* whatever earlier attempts left behind ("Restoring previous binaries").  *)
MainBinaryRestored ==
    upc = "rolledBack" => Resolve("darkbloom") = before["darkbloom"]

(* The same for the helper the Rust provider signs with.                   *)
HelperRestored ==
    upc = "rolledBack" =>
        Resolve("eigeninference-enclave") = before["eigeninference-enclave"]

(* launchd is never told to call a Rust binary the Swift way, crashes and  *)
(* rollbacks included: the plist is migrated last.                         *)
SwiftPlistRunsSwift ==
    IsSwiftPlist => Resolve("darkbloom") \in {r \in Releases : Info[r].swift}

(* What a Swift update reports as installed is the verified release: the   *)
(* binary, the metal library, and a legacy helper name that leads to a     *)
(* helper.                                                                 *)
InstalledIsVerified ==
    upc = "installed" /\ Info[rel].swift =>
        /\ Resolve("darkbloom") = rel /\ Resolve("mlx.metallib") = rel
        /\ Exists("eigeninference-enclave")

(* Migration keeps the coordinator, every model and the idle timeout the   *)
(* user started the service with, in order.                                *)
ArgsKept ==
    [][plist' # plist =>
         LET values(s) == {<<SwiftFlag(s[i]), s[i + 1]>> :
                              i \in {j \in 3..(Len(s) - 1) : s[j] \in Kept}}
         IN  values(plist') = values(plist)]_updVars

(* A restart runs an older release than the one before it only if the user *)
(* forced that one: the leftovers of interrupted attempts and the backups  *)
(* never bring one back.                                                   *)
NeverOlder ==
    [][LET rank(v) == 10000 * v[1] + 100 * v[2] + v[3]
       IN  self' \in forced \/ rank(Info[self'].version) >= rank(Info[self].version)]_updVars

(* Whatever fails or is interrupted, a rollback that completes puts the    *)
(* main binary back, a Swift release reported as installed is the verified *)
(* one, launchd calls it the way it wants to be called and with the user's *)
(* arguments, and nothing older comes back unasked.  (A binary that runs   *)
(* is not promised: tar writes over the files it finds, and neither        *)
(* updater repairs what an extraction that fails or is cut off leaves.)    *)
UpdatesAreSafe ==
    /\ [](MainBinaryRestored /\ SwiftPlistRunsSwift /\ InstalledIsVerified)
    /\ ArgsKept /\ NeverOlder
=============================================================================
