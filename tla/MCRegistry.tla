----------------------------- MODULE MCRegistry -----------------------------
(***************************************************************************)
(* The provider map with two connections of one machine, which offer       *)
(* overlapping sets of models; the challenges of a connection; and the     *)
(* providers table: each behaviour follows one of the three.               *)
(***************************************************************************)
EXTENDS Registry, Challenge, ProviderStore, TLC

CONSTANTS c1, c2, mac, m1, m2

OneMachine == (c1 :> mac) @@ (c2 :> mac)

Offers == (c1 :> {m1}) @@ (c2 :> {m1, m2})

(* One of the two connections may send a second register message.          *)
MaySend == (c1 :> 2) @@ (c2 :> 1)

VARIABLE part

registryVars == <<part, vars, challengeVars, storeVars>>

RegistryInit == part \in {"map", "challenge", "table"} /\ Init /\ ChallengeInit /\ StoreInit

RegistryNext ==
    /\ UNCHANGED part
    /\ \/ part = "map" /\ Next /\ UNCHANGED <<challengeVars, storeVars>>
       \/ part = "challenge" /\ ChallengeNext /\ UNCHANGED <<vars, storeVars>>
       \/ part = "table" /\ StoreNext /\ UNCHANGED <<vars, challengeVars>>
       \/ part = "table" /\ (\A c \in Ids : stage[c] \in {"gone", "lost"}) /\ UNCHANGED registryVars

(* Fairness and ChallengeFairness, each while its part runs.               *)
MapFairness ==
    /\ WF_vars(part = "map" /\ EvictionLoop)
    /\ \A c \in Conns : WF_vars(part = "map" /\ ReadLoop(c))

TalkFairness ==
    /\ WF_challengeVars(part = "challenge" /\ ReadStep)
    /\ WF_challengeVars(part = "challenge" /\ ChallengeLoop)
    /\ WF_challengeVars(part = "challenge" /\ \E n \in Nonces : Answers(n, "good"))

RegistrySpec == RegistryInit /\ [][RegistryNext]_registryVars /\ MapFairness /\ TalkFairness

(* A dead or silent provider leaves the map or is heard of again, and the  *)
(* challenges of a connection are decided.  The provider followed is c1:   *)
(* it does all that c2 does, and may register again.                       *)
RegistryProgress ==
    \/ part = "map" /\ Dead(c1)
    \/ part = "challenge" /\ Undecided
  ~>
    \/ part = "map" /\ ~Dead(c1)
    \/ part = "challenge" /\ Decided

=============================================================================
