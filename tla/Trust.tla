------------------------------- MODULE Trust -------------------------------
(***************************************************************************)
(* What the coordinator believes of a provider: the fields of              *)
(* registry.Provider that decide whether it is given work, and the calls   *)
(* that change them.  Every operator maps a provider p to what the call    *)
(* makes of it, in one critical section of its mutex.                      *)
(***************************************************************************)
EXTENDS Naturals

CONSTANT MaxFailedChallenges    \* failures in a row before MarkUntrusted

ASSUME MaxFailedAssumption == MaxFailedChallenges \in Nat \ {0}

TrustNone == "none"
TrustSelfSigned == "self_signed"
TrustHardware == "hardware"
TrustLevels == {TrustNone, TrustSelfSigned, TrustHardware}

(* Of LastChallengeVerified it counts whether it is set, and whether it    *)
(* lies within challengeFreshnessMaxAge.                                   *)
TimeStamps == {"never", "old", "recent"}

Provider ==
    [untrusted : BOOLEAN, attestation : {"none", "invalid", "valid"}, trust : TrustLevels,
     last : TimeStamps, sip : BOOLEAN, failed : Nat, runtime : BOOLEAN]

(* The columns of the providers table that are restored; serial tells that *)
(* the row can be found by the machine's serial number.                    *)
ProviderRecord == [trust : TrustLevels, last : TimeStamps, failed : Nat, serial : BOOLEAN]

(* Records that may be restored: hardware trust only once MDM or ACME has  *)
(* confirmed the machine.  A count above MaxFailedChallenges is as good as *)
(* that number.                                                            *)
Restorable(confirmed) ==
    {rec \in [trust : TrustLevels, last : TimeStamps, failed : 0..MaxFailedChallenges, serial : {TRUE}] :
        rec.trust = TrustHardware => confirmed}

NoRecord == [trust |-> TrustNone, last |-> "never", failed |-> 0, serial |-> FALSE]

(* Register.                                                               *)
NewProvider ==
    [untrusted |-> FALSE, attestation |-> "none", trust |-> TrustNone, last |-> "never",
     sip |-> FALSE, failed |-> 0, runtime |-> FALSE]

(* snapshotProviderLocked and providerSupportsPrivateTextLocked, with the  *)
(* default MinTrustLevel and a runtime manifest: without one, no provider  *)
(* is given work.                                                          *)
GetsWork(p) ==
    /\ ~p.untrusted
    /\ p.trust = TrustHardware
    /\ p.runtime /\ p.sip
    /\ p.last = "recent"

Distrusted(p) == [p EXCEPT !.untrusted = TRUE]

(* verifyProviderAttestation, up to SetLastChallengeVerified.  Without a   *)
(* valid attestation the provider is in Open Mode, or distrusted if there  *)
(* is a policy for binaries.                                               *)
Attested(p, result, policy, registered) ==
    IF result = "valid"
    THEN [p EXCEPT !.attestation = result, !.trust = TrustSelfSigned, !.last = "recent"]
    ELSE [p EXCEPT !.attestation = IF policy THEN "invalid" ELSE result,
                   !.untrusted = policy /\ registered]

(* RestoreProviderState, after the fresh attestation: trust and failures   *)
(* of the record replace those of the attestation, and so does the time of *)
(* the last challenge if there was one; last is how old it is by now.      *)
Restored(p, rec, last) ==
    [p EXCEPT !.trust = rec.trust, !.failed = rec.failed, !.last = last]

RestoredTimes(rec) ==
    CASE rec.last = "never" -> {"recent"} [] rec.last = "old" -> {"old"}
      [] rec.last = "recent" -> {"old", "recent"}

(* The end of verifyChallengeResponse, and RecordChallengeSuccess.         *)
PostureProved(p) == [p EXCEPT !.runtime = TRUE, !.sip = TRUE]
ChallengePassed(p) == [p EXCEPT !.last = "recent", !.failed = 0, !.sip = TRUE]

(* A failure that is counted and leaves the last verified posture alone.   *)
FailedOnly(p) == [p EXCEPT !.failed = @ + 1]

(* RecordChallengeFailure takes back what the last pass had proved.        *)
ChallengeFailed(p) == [p EXCEPT !.failed = @ + 1, !.last = "never", !.sip = FALSE]

(* What persistProvider keeps.                                             *)
Snapshot(p) ==
    [trust |-> p.trust, last |-> p.last, failed |-> p.failed, serial |-> p.attestation # "none"]

=============================================================================
