----------------------------- MODULE Challenge -----------------------------
(***************************************************************************)
(* One connection of a provider from its registration on: the read loop    *)
(* that attests it and takes its answers, the challenge loop, and the      *)
(* check with the device management server (api/provider.go).  When the    *)
(* connection is closed the next one starts from nothing but the stored    *)
(* record.  A step is one critical section or one call of the registry.    *)
(***************************************************************************)
EXTENDS Trust, Sequences

CONSTANT MaxHiccups     \* bound: slow or bad answers of a sound machine in a connection

ASSUME MaxHiccupsAssumption == MaxHiccups \in Nat

(* One nonce more than there may be late answers.                          *)
Nonces == 1..(MaxHiccups + 1)

VARIABLES
    sound,      \* the machine's System Integrity Protection is on since its last boot
    linked,     \* the machine is at the other end of the connection
    hung,       \* and does not answer any more
    hiccups,    \* slow or bad answers it gave though sound
    enrolled,   \* MDM or ACME once confirmed it as genuine hardware
    known,      \* the connection is in the registry
    prov,       \* its Provider
    reading,    \* where the read loop stands
    mdm,        \* where the MDM goroutine stands
    loop,       \* where the challenge loop stands
    nonce,      \* nonce of the challenge at hand, 0 when there is none
    waiting,    \* nonces the challengeTracker holds
    asked,      \* nonces the machine has yet to answer
    wire,       \* answers under way to the coordinator
    box,        \* answer in the responseCh of the challenge
    passed      \* the last challenge to be decided was passed

machineVars == <<sound, linked, hung, hiccups>>
talkVars == <<nonce, waiting, asked, wire, box>>
challengeVars == <<machineVars, enrolled, known, prov, reading, mdm, loop, talkVars, passed>>

NoAnswer == [nonce |-> 0, kind |-> "none"]

NoConnection ==
    /\ linked = FALSE /\ hung = FALSE /\ hiccups = 0
    /\ known = FALSE /\ prov = NewProvider
    /\ reading = "away" /\ mdm = "none" /\ loop = "none"
    /\ nonce = 0 /\ waiting = {} /\ asked = {} /\ wire = <<>> /\ box = NoAnswer
    /\ passed = FALSE

ChallengeInit == NoConnection /\ sound = FALSE /\ enrolled = FALSE

(* A registry call about a provider finds it only while it is registered.  *)
InRegistry(q) == IF known THEN q ELSE prov

-----------------------------------------------------------------------------
(* The machine                                                             *)

(* It connects, perhaps after a boot, and Register enters it.              *)
Connects ==
    /\ reading = "away" /\ reading' = "verify"
    /\ sound' \in BOOLEAN /\ linked' = TRUE /\ known' = TRUE
    /\ UNCHANGED <<hung, hiccups, enrolled, prov, mdm, loop, talkVars, passed>>

(* It goes, or stops answering: challenges it has not answered are lost.   *)
Goes ==
    /\ linked /\ asked' = {}
    /\ \/ linked' = FALSE /\ hung' = FALSE
       \/ ~hung /\ hung' = TRUE /\ UNCHANGED linked
    /\ UNCHANGED <<sound, hiccups, enrolled, known, prov, reading, mdm, loop, nonce, waiting, wire,
                   box, passed>>

Hiccup == hiccups < MaxHiccups /\ hiccups' = hiccups + 1

(* An answer: "good"; "bad", which lacks a field or a signature; "off",    *)
(* which reports a lowered posture or another binary or model; "runtime",  *)
(* whose runtime hashes are not in the manifest.                           *)
Answers(n, kind) ==
    /\ linked /\ ~hung /\ n \in asked
    /\ sound \/ kind \in {"bad", "off"}
    /\ IF sound /\ kind # "good" THEN Hiccup ELSE UNCHANGED hiccups
    /\ asked' = asked \ {n}
    /\ wire' = Append(wire, [nonce |-> n, kind |-> kind])
    /\ UNCHANGED <<sound, linked, hung, enrolled, known, prov, reading, mdm, loop, nonce, waiting,
                   box, passed>>

-----------------------------------------------------------------------------
(* The read loop                                                           *)

VerifyAttestation(result, policy) ==
    /\ reading = "verify"
    /\ result = "valid" => sound
    /\ prov' = Attested(prov, result, policy, known)
    /\ reading' = IF result = "valid" THEN "restore" ELSE "start"
    /\ UNCHANGED <<machineVars, enrolled, known, mdm, loop, talkVars, passed>>

(* The rest of verifyProviderAttestation, with whatever the coordinator    *)
(* read at its start (ProviderStore).                                      *)
RestoreState ==
    /\ reading = "restore"
    /\ \/ UNCHANGED prov
       \/ \E rec \in Restorable(enrolled) : \E last \in RestoredTimes(rec) : prov' = Restored(prov, rec, last)
    /\ mdm' = "asking"
    /\ reading' = "start"
    /\ UNCHANGED <<machineVars, enrolled, known, loop, talkVars, passed>>

(* The runtime hashes are compared, applyACMETrust runs, and the challenge *)
(* loop starts.                                                            *)
StartChallenges(runtimeOK, acme) ==
    /\ reading = "start"
    /\ acme => prov.attestation = "valid"
    /\ prov' = [prov EXCEPT !.runtime = runtimeOK,
                            !.trust = IF acme THEN TrustHardware ELSE @]
    /\ enrolled' = (enrolled \/ acme)
    /\ reading' = "serve" /\ loop' = "send"
    /\ UNCHANGED <<machineVars, known, mdm, talkVars, passed>>

(* handleAttestationResponse: the answer goes to the challenge it is for,  *)
(* if that still waits.                                                    *)
handleAttestationResponse ==
    /\ reading = "serve" /\ wire # <<>>
    /\ wire' = Tail(wire)
    /\ waiting' = waiting \ {Head(wire).nonce}
    /\ box' = IF Head(wire).nonce \in waiting THEN Head(wire) ELSE box
    /\ UNCHANGED <<machineVars, enrolled, known, prov, reading, mdm, loop, nonce, asked, passed>>

(* The registry drops a connection that is silent or a duplicate.          *)
Evicted ==
    /\ known /\ known' = FALSE
    /\ UNCHANGED <<machineVars, enrolled, prov, reading, mdm, loop, talkVars, passed>>

(* The read loop ends: Disconnect, and the challenge loop is cancelled.    *)
Closes ==
    /\ reading = "serve" /\ (~linked \/ ~known)
    /\ linked' = FALSE /\ hung' = FALSE /\ hiccups' = 0
    /\ known' = FALSE /\ prov' = NewProvider
    /\ reading' = "away" /\ mdm' = "none" /\ loop' = "none"
    /\ nonce' = 0 /\ waiting' = {} /\ asked' = {} /\ wire' = <<>> /\ box' = NoAnswer
    /\ passed' = FALSE
    /\ UNCHANGED <<sound, enrolled>>

-----------------------------------------------------------------------------
(* The check with device management                                        *)

(* verifyProviderViaMDM: an error or a device that is not enrolled changes *)
(* nothing; a mismatch, or no report in time, distrusts; a match is        *)
(* hardware trust.                                                         *)
VerifyViaMDM ==
    /\ mdm = "asking"
    /\ \/ /\ mdm' = "done" /\ UNCHANGED enrolled
          /\ prov' \in {prov, InRegistry(Distrusted(prov))}
       \/ /\ sound /\ mdm' = "upgraded" /\ enrolled' = TRUE
          /\ prov' = [prov EXCEPT !.trust = TrustHardware]
    /\ UNCHANGED <<machineVars, known, reading, loop, talkVars, passed>>

(* verifyAppleDeviceAttestation: only another serial number distrusts.     *)
VerifyAppleDevice ==
    /\ mdm = "upgraded" /\ mdm' = "done"
    /\ prov' \in {prov, InRegistry(Distrusted(prov))}
    /\ UNCHANGED <<machineVars, enrolled, known, reading, loop, talkVars, passed>>

-----------------------------------------------------------------------------
(* The challenge loop                                                      *)

LoopGoes(from, to) == loop = from /\ loop' = to

NoncesInUse == waiting \cup asked \cup {wire[i].nonce : i \in 1..Len(wire)}

(* sendChallenge up to its select, with a nonce not in use (the first one, *)
(* as all are alike).  The question reaches the machine, or is lost with   *)
(* it; a failed write gives the challenge up.                              *)
SendChallenge(n) ==
    /\ n \notin NoncesInUse /\ 1..(n - 1) \subseteq NoncesInUse
    /\ \/ /\ LoopGoes("send", "await")
          /\ nonce' = n /\ waiting' = waiting \cup {n} /\ box' = NoAnswer
          /\ asked' = IF linked /\ ~hung THEN asked \cup {n} ELSE asked
       \/ ~linked /\ LoopGoes("send", "tick") /\ UNCHANGED <<nonce, waiting, asked, box>>
    /\ UNCHANGED <<machineVars, enrolled, known, prov, reading, mdm, wire, passed>>

TakeAnswer ==
    /\ box # NoAnswer
    /\ LoopGoes("await", "verify")
    /\ UNCHANGED <<machineVars, enrolled, known, prov, reading, mdm, talkVars, passed>>

(* A timeout that only gives the challenge up.                             *)
TimeoutUncounted ==
    /\ LoopGoes("await", "tick")
    /\ waiting' = waiting \ {nonce} /\ nonce' = 0 /\ box' = NoAnswer
    /\ IF linked /\ ~hung THEN Hiccup ELSE UNCHANGED hiccups
    /\ UNCHANGED <<sound, linked, hung, enrolled, known, prov, reading, mdm, asked, wire, passed>>

(* 30 seconds without an answer; one that is on its way is too late.       *)
ChallengeTimeout ==
    /\ LoopGoes("await", "fail")
    /\ waiting' = waiting \ {nonce} /\ nonce' = 0 /\ box' = NoAnswer
    /\ IF linked /\ ~hung THEN Hiccup ELSE UNCHANGED hiccups
    /\ passed' = FALSE
    /\ UNCHANGED <<sound, linked, hung, enrolled, known, prov, reading, mdm, asked, wire>>

(* verifyChallengeResponse up to its verdict: a lowered posture, or a      *)
(* policy for binaries without a valid attestation, distrusts at once;     *)
(* runtime hashes that do not match, or an old version, are neither a pass *)
(* nor a failure.                                                          *)
VerifyResponse(policy) ==
    LET off == box.kind = "off" \/ (policy /\ prov.attestation # "valid")
    IN /\ \/ /\ box.kind = "bad" \/ box.nonce # nonce
             /\ LoopGoes("verify", "fail")
             /\ passed' = FALSE /\ UNCHANGED prov
          \/ /\ box.nonce = nonce /\ box.kind # "bad" /\ off
             /\ LoopGoes("verify", "fail")
             /\ passed' = FALSE /\ prov' = InRegistry(Distrusted(prov))
          \/ /\ box.nonce = nonce /\ box.kind = "runtime" /\ ~off
             /\ LoopGoes("verify", "tick")
             /\ prov' = [prov EXCEPT !.runtime = FALSE] /\ UNCHANGED passed
          \/ /\ box.nonce = nonce /\ box.kind = "good" /\ ~off
             /\ LoopGoes("verify", "pass")
             /\ passed' = TRUE /\ prov' = PostureProved(prov)
       /\ nonce' = 0 /\ box' = NoAnswer
       /\ UNCHANGED <<machineVars, enrolled, known, reading, mdm, waiting, asked, wire>>

RecordChallengeSuccess ==
    /\ LoopGoes("pass", "tick")
    /\ prov' = InRegistry(ChallengePassed(prov))
    /\ UNCHANGED <<machineVars, enrolled, known, reading, mdm, talkVars, passed>>

(* handleChallengeFailure: the count RecordChallengeFailure returns, 0 for *)
(* a provider that is not registered, decides.                             *)
RecordChallengeFailure ==
    /\ prov' = InRegistry(ChallengeFailed(prov))
    /\ LoopGoes("fail", IF known /\ prov'.failed >= MaxFailedChallenges THEN "strike" ELSE "tick")
    /\ UNCHANGED <<machineVars, enrolled, known, reading, mdm, talkVars, passed>>

StrikeOut ==
    /\ LoopGoes("strike", "tick")
    /\ prov' = InRegistry(Distrusted(prov))
    /\ UNCHANGED <<machineVars, enrolled, known, reading, mdm, talkVars, passed>>

(* The ticker, five minutes later.                                         *)
ChallengeTick ==
    /\ LoopGoes("tick", IF prov.untrusted THEN "ended" ELSE "send")
    /\ UNCHANGED <<machineVars, enrolled, known, prov, reading, mdm, talkVars, passed>>

(* challengeFreshnessMaxAge goes by without a challenge that is passed.    *)
Ages ==
    /\ loop = "tick" /\ prov.last = "recent"
    /\ prov' = [prov EXCEPT !.last = "old"]
    /\ UNCHANGED <<machineVars, enrolled, known, reading, mdm, loop, talkVars, passed>>

-----------------------------------------------------------------------------
ReadStep ==
    \/ \E result \in {"none", "invalid", "valid"}, policy \in BOOLEAN : VerifyAttestation(result, policy)
    \/ RestoreState
    \/ \E runtimeOK, acme \in BOOLEAN : StartChallenges(runtimeOK, acme)
    \/ handleAttestationResponse

LoopStep ==
    \/ \E n \in Nonces : SendChallenge(n)
    \/ TakeAnswer
    \/ \E policy \in BOOLEAN : VerifyResponse(policy)
    \/ RecordChallengeSuccess \/ RecordChallengeFailure \/ StrikeOut
    \/ ChallengeTick

ChallengeNext ==
    \/ Connects \/ Goes \/ Evicted \/ Closes
    \/ \E n \in Nonces, kind \in {"good", "bad", "off", "runtime"} : Answers(n, kind)
    \/ ReadStep \/ LoopStep \/ ChallengeTimeout \/ VerifyViaMDM \/ VerifyAppleDevice \/ Ages

(* The loop does not wait for ever for a machine that is gone or hangs.    *)
ChallengeLoop == LoopStep \/ (ChallengeTimeout /\ (~linked \/ hung))

(* Goroutines run, and timers fire.  Of the machine it is assumed that it  *)
(* answers while it is sound and does not hang.                            *)
ChallengeFairness ==
    /\ WF_challengeVars(ReadStep) /\ WF_challengeVars(ChallengeLoop)
    /\ WF_challengeVars(\E n \in Nonces : Answers(n, "good"))

ChallengeSpec == ChallengeInit /\ [][ChallengeNext]_challengeVars /\ ChallengeFairness

-----------------------------------------------------------------------------
ChallengeTypeOK ==
    /\ {sound, linked, hung, enrolled, known, passed} \subseteq BOOLEAN
    /\ hiccups \in 0..MaxHiccups
    /\ prov \in Provider
    /\ reading \in {"away", "verify", "restore", "start", "serve"}
    /\ mdm \in {"none", "asking", "upgraded", "done"}
    /\ loop \in {"none", "send", "await", "verify", "pass", "fail", "strike", "tick", "ended"}
    /\ nonce \in Nonces \cup {0} /\ waiting \subseteq Nonces /\ asked \subseteq Nonces

(* A connection is given work only if the last challenge that was decided  *)
(* was passed in this very connection, once a failure that is just being   *)
(* counted is set apart: neither the time stamp of the attestation         *)
(* (api/provider.go:1310) nor anything RestoreProviderState brings back    *)
(* stands in for a challenge, and a failure takes the posture away.        *)
RoutedIsVerified == known /\ GetsWork(prov) /\ loop # "fail" => passed

(* What a challenge is judged by is the answer to it: one that comes after *)
(* its timer (api/provider.go:498) is never taken for the next one's.      *)
AnswersTheChallenge == loop = "verify" => box.nonce = nonce

(* Work goes to connections that passed a challenge, and passed it by      *)
(* their answer to it.                                                     *)
ChallengesAreSound == RoutedIsVerified /\ AnswersTheChallenge

(* Challenges come to a decision.  A machine that stops answering while    *)
(* its connection stays up is distrusted after MaxFailedChallenges         *)
(* timeouts.  A sound one with hardware trust is given work in the end,    *)
(* after slow answers, a restored old time stamp or runtime hashes that    *)
(* did not match, unless it is distrusted, hangs or goes.                  *)
Undecided == linked /\ reading = "serve" /\ (hung \/ (sound /\ prov.trust = TrustHardware))
Decided == prov.untrusted \/ ~linked \/ ~known \/ (GetsWork(prov) /\ ~hung)

=============================================================================
