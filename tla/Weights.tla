------------------------------- MODULE Weights ------------------------------
(***************************************************************************)
(* Which weights a provider reports and what the coordinator makes of it:  *)
(* the hash of the model files (models.rs, security.rs), the snapshot each *)
(* backend slot loads (main.rs), the model named in heartbeats and the     *)
(* hash in challenge responses (coordinator.rs), and the coordinator's     *)
(* comparison with its catalog (api/provider.go).                          *)
(*                                                                         *)
(* A snapshot is a revision of a model with or without a stand-alone       *)
(* chat template, which is one of the hashed files; hashing is injective,  *)
(* so a hash is the record of what was hashed.                             *)
(***************************************************************************)
EXTENDS Integers, Sequences

CONSTANTS
    Models,     \* catalog models
    Primary,    \* the first of the models selected
    WPlans      \* [served, template, updates, hashed]: models selected, what the
                \* published snapshot brings ("file", "inline", "nothing"), revisions
                \* to come, models for which the catalog has a hash

ASSUME WeightAssumption == Primary \in Models

VARIABLES
    wplan,
    snapshots,  \* the revisions of each model on disk, the last modified one last
    jinja,      \* the snapshots that hold chat_template.jinja: <<model, revision>>
    slotPath,   \* the revision each slot loads; 0 until it is resolved
    inMemory,   \* the revision each engine was loaded from; 0 when not loaded
    reported,   \* current_model_hash, or NoHash
    active_model, \* the coordinator's CurrentModel, or "none"
    trusted,
    wpc, fresh  \* where cmd_serve is; the model just loaded

weightVars == <<wplan, snapshots, jinja, slotPath, inMemory, reported, active_model, trusted, wpc, fresh>>

NoHash == [model |-> "none", rev |-> 0, jinja |-> FALSE]

(* collect_weight_files: the weights, and the template where there is one. *)
collect_weight_files(m, r) == [model |-> m, rev |-> r, jinja |-> <<m, r>> \in jinja]

(* hash_files_sorted.                                                      *)
HashOf(m, r) == collect_weight_files(m, r)

(* By modification time, whatever revision a slot has loaded.              *)
find_latest_snapshot(m) == snapshots[m][Len(snapshots[m])]

(* The directory of the cache that is named after the model.               *)
resolve_local_path(m) == find_latest_snapshot(m)

compute_weight_hash(m) == HashOf(m, resolve_local_path(m))

(* The catalog may hold the hash of the snapshot that was published.       *)
CatalogWeightHash(m) ==
    IF m \in wplan.hashed THEN [model |-> m, rev |-> 1, jinja |-> wplan.template = "file"]
                          ELSE NoHash

WeightInit ==
    /\ wplan \in WPlans /\ snapshots = [m \in Models |-> <<1>>]
    /\ jinja = IF wplan.template = "file" THEN Models \X {1} ELSE {}
    /\ slotPath = [m \in Models |-> 0] /\ inMemory = [m \in Models |-> 0]
    /\ reported = NoHash /\ active_model = "none" /\ trusted = TRUE
    /\ wpc = "hash" /\ fresh = Primary

-----------------------------------------------------------------------------
(* The start of cmd_serve.                                                 *)

HashPrimary ==
    /\ wpc = "hash" /\ wpc' = "slots" /\ reported' = compute_weight_hash(Primary)
    /\ UNCHANGED <<wplan, snapshots, jinja, slotPath, inMemory, active_model, trusted, fresh>>

(* A slot resolves its snapshot, is given a chat template if it has none   *)
(* (and one can be had), and loads (or fails to).                          *)
StartSlot(m) ==
    /\ wpc = "slots" /\ m \in wplan.served /\ slotPath[m] = 0
    /\ slotPath' = [slotPath EXCEPT ![m] = resolve_local_path(m)]
    /\ \/ wplan.template = "nothing" /\ jinja' = jinja \union {<<m, slotPath'[m]>>}
       \/ UNCHANGED jinja
    /\ inMemory' \in {[inMemory EXCEPT ![m] = slotPath'[m]], inMemory}
    /\ UNCHANGED <<wplan, snapshots, reported, active_model, trusted, wpc, fresh>>

ConnectCoordinator ==
    /\ wpc = "slots" /\ \A m \in wplan.served : slotPath[m] # 0
    /\ wpc' = "serve"
    /\ UNCHANGED <<wplan, snapshots, jinja, slotPath, inMemory, reported, active_model, trusted, fresh>>

-----------------------------------------------------------------------------
(* The event loop.                                                         *)

UnloadAll ==
    /\ wpc = "serve" /\ inMemory' = [m \in Models |-> 0]
    /\ UNCHANGED <<wplan, snapshots, jinja, slotPath, reported, active_model, trusted, wpc, fresh>>

(* A request for a model that is not loaded loads the path of its slot.    *)
LoadForRequest(m) ==
    /\ wpc = "serve" /\ m \in wplan.served /\ inMemory[m] = 0
    /\ inMemory' = [inMemory EXCEPT ![m] = slotPath[m]]
    /\ wpc' = "rehash" /\ fresh' = m
    /\ UNCHANGED <<wplan, snapshots, jinja, slotPath, reported, active_model, trusted>>

(* The hash is refreshed after every load, of whichever model was loaded.  *)
Rehash ==
    /\ wpc = "rehash" /\ wpc' = "serve" /\ reported' = compute_weight_hash(fresh)
    /\ UNCHANGED <<wplan, snapshots, jinja, slotPath, inMemory, active_model, trusted, fresh>>

-----------------------------------------------------------------------------
(* The connection, and the coordinator.                                    *)

(* Heartbeats name current_model, which is set once, to the primary model. *)
SendHeartbeat ==
    /\ wpc \in {"serve", "rehash"} /\ active_model' = Primary
    /\ UNCHANGED <<wplan, snapshots, jinja, slotPath, inMemory, reported, trusted, wpc, fresh>>

(* A hash that is reported is compared with the catalog's hash, if there   *)
(* is one, of the model the last heartbeat named, if there was one.        *)
HashMismatch ==
    /\ reported # NoHash /\ active_model # "none" /\ CatalogWeightHash(active_model) # NoHash
    /\ reported # CatalogWeightHash(active_model)

(* A mismatch in a challenge response is final.                            *)
AnswerChallenge ==
    /\ wpc \in {"serve", "rehash"} /\ trusted' = (trusted /\ ~HashMismatch)
    /\ UNCHANGED <<wplan, snapshots, jinja, slotPath, inMemory, reported, active_model, wpc, fresh>>

(* Another program downloads a newer revision of a model.                  *)
NewRevision(m) ==
    /\ Len(snapshots[m]) <= wplan.updates
    /\ snapshots' = [snapshots EXCEPT ![m] = Append(@, Len(@) + 1)]
    /\ UNCHANGED <<wplan, jinja, slotPath, inMemory, reported, active_model, trusted, wpc, fresh>>

WeightNext ==
    \/ HashPrimary \/ ConnectCoordinator \/ UnloadAll \/ Rehash \/ SendHeartbeat \/ AnswerChallenge
    \/ \E m \in Models : StartSlot(m) \/ LoadForRequest(m) \/ NewRevision(m)

WeightSpec == WeightInit /\ [][WeightNext]_weightVars

-----------------------------------------------------------------------------

WeightTypeOK ==
    /\ wplan \in WPlans /\ snapshots \in [Models -> Seq(Nat \ {0})]
    /\ slotPath \in [Models -> Nat] /\ inMemory \in [Models -> Nat]
    /\ active_model \in Models \union {"none"} /\ trusted \in BOOLEAN
    /\ wpc \in {"hash", "slots", "serve", "rehash"} /\ fresh \in Models

-----------------------------------------------------------------------------
(* What comments promise and the code does not keep.                       *)

(* current_model is "The model currently loaded / being served" and        *)
(* current_model_hash the fingerprint "of the currently loaded model": the *)
(* hash in a challenge response is that of the model which heartbeats call *)
(* active, and with which the coordinator compares it.                     *)
HashOfActiveModel == active_model # "none" => reported.model = active_model
=============================================================================
