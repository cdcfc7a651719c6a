--------------------------- MODULE ProviderStore ---------------------------
(***************************************************************************)
(* The providers table (registry.go, api/provider.go): connections of one  *)
(* machine whose state is written by a goroutine per change, each with a   *)
(* snapshot of its own, and the coordinator that reads the rows once, when *)
(* it starts, and restores one of them onto every later connection.        *)
(***************************************************************************)
EXTENDS Trust, FiniteSets

CONSTANTS
    MaxConnections, \* bound: connections of the machine
    MaxSnapshots,   \* bound: snapshots under way to the table
    MaxBoots        \* bound: restarts of the coordinator

VARIABLES
    stage,      \* how far the read loop of each connection is
    live,       \* the Provider of each connection
    check,      \* where the MDM goroutine of each connection stands
    snaps,      \* snapshots taken and not yet written
    table,      \* the row of each connection
    stored,     \* the record LoadStoredProviders keeps for the machine
    confirmed,  \* MDM or ACME has confirmed the machine as genuine hardware
    boots

storeVars == <<stage, live, check, snaps, table, stored, confirmed, boots>>

Ids == 1..MaxConnections

StoreInit ==
    /\ stage = [c \in Ids |-> "unborn"] /\ live = [c \in Ids |-> NewProvider]
    /\ check = [c \in Ids |-> "none"]
    /\ snaps = {} /\ table = [c \in Ids |-> NoRecord] /\ stored = NoRecord
    /\ confirmed = FALSE /\ boots = 0

-----------------------------------------------------------------------------
(* The connections                                                         *)

(* Of what is written only the trust counts here; times and failures, and  *)
(* with them the verdicts on challenges, are left out.                     *)
TrustOf(p) == [p EXCEPT !.last = "never", !.failed = 0]

(* Register, under a new id.                                               *)
Joins(c) ==
    /\ stage[c] = "unborn" /\ \A d \in 1..(c - 1) : stage[d] # "unborn"
    /\ stage' = [stage EXCEPT ![c] = "new"]
    /\ UNCHANGED <<live, check, snaps, table, stored, confirmed, boots>>

(* verifyProviderAttestation up to, and from, RestoreProviderState; other  *)
(* connections of the machine are disconnected, but one that is just being *)
(* attested goes through with it.                                          *)
IsAttested(c, result) ==
    /\ stage[c] = "new"
    /\ live' = [live EXCEPT ![c] = TrustOf(Attested(@, result, FALSE, TRUE))]
    /\ stage' = [stage EXCEPT ![c] = IF result = "valid" THEN "attested" ELSE "up"]
    /\ UNCHANGED <<check, snaps, table, stored, confirmed, boots>>

RestoreProviderState(c) ==
    /\ stage[c] = "attested"
    /\ \/ stored = NoRecord /\ UNCHANGED live
       \/ stored # NoRecord /\ live' = [live EXCEPT ![c] = TrustOf(Restored(@, stored, "recent"))]
    /\ stage' = [d \in Ids |->
          IF d = c THEN "up"
          ELSE IF stage[d] = "up" /\ live[d].attestation # "none" THEN "gone"
          ELSE stage[d]]
    /\ check' = [check EXCEPT ![c] = "asking"]
    /\ UNCHANGED <<snaps, table, stored, confirmed, boots>>

Leaves(c) ==
    /\ stage[c] = "up"
    /\ stage' = [stage EXCEPT ![c] = "gone"]
    /\ UNCHANGED <<live, check, snaps, table, stored, confirmed, boots>>

(* applyACMETrust.                                                         *)
AcmeVerified(c) ==
    /\ stage[c] = "up" /\ live[c].attestation = "valid"
    /\ live' = [live EXCEPT ![c].trust = TrustHardware]
    /\ confirmed' = TRUE
    /\ UNCHANGED <<stage, check, snaps, table, stored, boots>>

(* A check that takes a device MDM does not know for an enrolled one.      *)
UpgradeAnyway(c) ==
    /\ check[c] = "asking" /\ check' = [check EXCEPT ![c] = "done"]
    /\ live' = [live EXCEPT ![c].trust = TrustHardware]
    /\ UNCHANGED <<stage, snaps, table, stored, confirmed, boots>>

(* verifyProviderViaMDM: the upgrade is made and written even if the       *)
(* connection is closed by then.                                           *)
MDMVerified(c) ==
    /\ check[c] = "asking" /\ check' = [check EXCEPT ![c] = "done"]
    /\ \/ /\ live' = [live EXCEPT ![c].trust = TrustHardware]
          /\ confirmed' = TRUE
       \/ UNCHANGED <<live, confirmed>>
    /\ UNCHANGED <<stage, snaps, table, stored, boots>>

-----------------------------------------------------------------------------
(* The table                                                               *)

(* The goroutine of persistProvider looks at the provider.  There is one   *)
(* for every heartbeat, verdict and upgrade, so it may look at any time,   *)
(* and late ones do so after the connection is closed.                     *)
TakeSnapshot(c) ==
    /\ stage[c] # "unborn" /\ Cardinality(snaps) < MaxSnapshots
    /\ snaps' = snaps \cup {[id |-> c, rec |-> Snapshot(live[c])]}
    /\ UNCHANGED <<stage, live, check, table, stored, confirmed, boots>>

(* UpsertProvider: the row is overwritten, whatever is in it, or the call  *)
(* fails.                                                                  *)
UpsertProvider(s) ==
    /\ snaps' = snaps \ {s}
    /\ table' \in {table, [table EXCEPT ![s.id] = s.rec]}
    /\ UNCHANGED <<stage, live, check, stored, confirmed, boots>>

(* Of several rows with the serial number the lookup keeps the last one    *)
(* listed; which one that is depends on last_seen, and a scan that fails   *)
(* leaves a row out.                                                       *)
LoadStoredProviders ==
    LET rows == {table[c] : c \in {d \in Ids : table[d].serial}}
    IN rows \cup {NoRecord}

(* The coordinator stops, with every goroutine, and starts again.          *)
Restart ==
    /\ boots < MaxBoots /\ boots' = boots + 1
    /\ stage' = [c \in Ids |-> IF stage[c] = "unborn" THEN "unborn" ELSE "lost"]
    /\ live' = [c \in Ids |-> NewProvider]
    /\ check' = [c \in Ids |-> "none"]
    /\ snaps' = {}
    /\ stored' \in LoadStoredProviders
    /\ UNCHANGED <<table, confirmed>>

StoreNext ==
    \/ \E c \in Ids :
          \/ Joins(c) \/ RestoreProviderState(c) \/ Leaves(c)
          \/ \E result \in {"none", "invalid", "valid"} : IsAttested(c, result)
          \/ AcmeVerified(c) \/ MDMVerified(c) \/ TakeSnapshot(c)
    \/ \E s \in snaps : UpsertProvider(s)
    \/ Restart

TableSpec == StoreInit /\ [][StoreNext]_storeVars

-----------------------------------------------------------------------------
StoreTypeOK ==
    /\ stage \in [Ids -> {"unborn", "new", "attested", "up", "gone", "lost"}]
    /\ live \in [Ids -> Provider]
    /\ check \in [Ids -> {"none", "asking", "done"}]
    /\ \A s \in snaps : s.id \in Ids /\ s.rec \in ProviderRecord
    /\ table \in [Ids -> ProviderRecord]
    /\ confirmed \in BOOLEAN /\ boots \in 0..MaxBoots

(* Whatever a restart reads and RestoreProviderState brings back is a      *)
(* record Challenge allows for: hardware trust goes back to a confirmation *)
(* by MDM or ACME, in whatever order late snapshots of persistProvider     *)
(* (registry/registry.go:507) overwrote the rows.                          *)
TrustIsEarned ==
    /\ stored \in Restorable(confirmed) \cup {NoRecord}
    /\ \A c \in Ids : live[c].trust = TrustHardware => confirmed

=============================================================================
