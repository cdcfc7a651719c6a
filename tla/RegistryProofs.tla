--------------------------- MODULE RegistryProofs ---------------------------
(***************************************************************************)
(* The invariants of the provider registry, for every finite set of        *)
(* connections and every assignment of machines and models to them; then   *)
(* challenges and restored trust, for any number of late answers, failed   *)
(* challenges, connections, snapshots and restarts; and the telemetry      *)
(* client of the provider, whose bound also rests on counting a set.       *)
(***************************************************************************)
EXTENDS Telemetry, Registry, Challenge, ProviderStore, FiniteSetTheorems, TLAPS

(* A connection that has not registered is not in the map.                  *)
NewIsAbsent == \A c \in Conns : pc[c] = "new" => c \notin reg

(* Entries that were overwritten are older than the one in the map.         *)
ReplacedAreOld ==
    /\ IsFiniteSet(replaced)
    /\ \A c \in Conns : \A n \in Nat : <<c, n>> \in replaced => n < entries[c]

(* toEvict is a local variable of DisconnectDuplicatesBySerial.             *)
ListsAreLocal == \A c \in Conns : pc[c] # "evict" => dups[c] = {}

PastListing(c) == result[c] = "valid" /\ pc[c] \in {"evict", "run"}

(* Of two registered connections of a machine that have both listed their   *)
(* duplicates, the later one has found the earlier one and not dropped it   *)
(* yet.                                                                     *)
OneWillGo ==
    \A c, d \in reg :
        SameMachine(c, d) /\ PastListing(c) /\ PastListing(d) => d \in dups[c] \/ c \in dups[d]

Inv == TypeOK /\ CountsExact /\ NewIsAbsent /\ ListsAreLocal /\ OneWillGo /\ ReplacedAreOld

Offering(m) == {c \in Conns : Present(c) /\ m \in ModelsOf[c]}
Offered(m) == {e \in replaced : m \in ModelsOf[e[1]]}

-----------------------------------------------------------------------------
(* The counters of a finite map.                                            *)

(* The sets that are counted are finite.                                    *)
LEMMA CountedFinite ==
    /\ IsFiniteSet({c \in Conns : Present(c)})
    /\ \A m \in Models : IsFiniteSet(Offering(m))
<1>1. {c \in Conns : Present(c)} \in SUBSET Conns
  BY Zenon
<1>2. \A m \in Models : Offering(m) \in SUBSET Conns
  BY Zenon DEF Offering
<1>. QED  BY <1>1, <1>2, FS_Subset, RegistryAssumption, Zenon

LEMMA CountedNumbers ==
    ASSUME ReplacedAreOld
    PROVE  /\ Cardinality({c \in Conns : Present(c)}) \in Nat /\ Cardinality(replaced) \in Nat
           /\ \A m \in Models : /\ Cardinality(Offering(m)) \in Nat
                                /\ IsFiniteSet(Offered(m)) /\ Cardinality(Offered(m)) \in Nat
<1>1. IsFiniteSet(replaced) /\ \A m : Offered(m) \subseteq replaced
  BY Zenon DEF ReplacedAreOld, Offered
<1>2. \A m : IsFiniteSet(Offered(m))
  BY <1>1, FS_Subset, Zenon
<1>. QED  BY <1>1, <1>2, CountedFinite, FS_CardinalityType, Zenon

(* The counters as sums of two cardinalities.                               *)
LEMMA CountsAreSums ==
    CountsExact <=>
      /\ onlineCount = Cardinality({c \in Conns : Present(c)}) + Cardinality(replaced)
      /\ \A m \in Models : modelProviders[m] = Cardinality(Offering(m)) + Cardinality(Offered(m))
BY Zenon DEF CountsExact, Offering, Offered

(* CountIn keeps the counters exact when it accompanies the arrival of one  *)
(* provider (Register).                                                     *)
LEMMA CountInExact ==
    ASSUME TypeOK, CountsExact, ReplacedAreOld, NEW c \in Conns, ~Present(c), CountIn(c), UNCHANGED replaced,
           \A d \in Conns : Present(d)' <=> (Present(d) \/ d = c)
    PROVE  CountsExact' /\ onlineCount' \in Int /\ modelProviders' \in [Models -> Nat]
<1>1. {d \in Conns : Present(d)'} = {d \in Conns : Present(d)} \cup {c}
  BY Zenon
<1>2. \A m \in Models : Offering(m)' = IF m \in ModelsOf[c] THEN Offering(m) \cup {c} ELSE Offering(m)
  BY Zenon DEF Offering
<1>3. Cardinality({d \in Conns : Present(d)'}) = Cardinality({d \in Conns : Present(d)}) + 1
  BY <1>1, CountedFinite, FS_AddElement, Zenon
<1>4. \A m \in Models : Cardinality(Offering(m) \cup {c}) = Cardinality(Offering(m)) + 1
  BY CountedFinite, FS_AddElement, Zenon DEF Offering
<1>5. ASSUME NEW m \in Models
      PROVE  modelProviders'[m] = Cardinality(Offering(m)') + Cardinality(Offered(m)')
  <2>1. modelProviders[m] = Cardinality(Offering(m)) + Cardinality(Offered(m)) /\ Offered(m)' = Offered(m)
    BY CountsAreSums, Zenon DEF Offered
  <2>2. modelProviders'[m] = IF m \in ModelsOf[c] THEN modelProviders[m] + 1 ELSE modelProviders[m]
    BY Zenon DEF CountIn
  <2>3. Cardinality(Offering(m)) \in Nat /\ Cardinality(Offered(m)) \in Nat
    BY CountedNumbers, Zenon
  <2>4. Cardinality(Offering(m)') = IF m \in ModelsOf[c] THEN Cardinality(Offering(m)) + 1 ELSE Cardinality(Offering(m))
    BY <1>2, <1>4, Zenon
  <2>. QED  BY <2>1, <2>2, <2>3, <2>4
<1>6. onlineCount' \in Int /\ modelProviders' \in [Models -> Nat]
  BY DEF CountIn, TypeOK
<1>7. onlineCount' = Cardinality({d \in Conns : Present(d)'}) + Cardinality(replaced')
  <2>1. onlineCount = Cardinality({d \in Conns : Present(d)}) + Cardinality(replaced)
    BY CountsAreSums, Zenon
  <2>2. Cardinality({d \in Conns : Present(d)}) \in Nat /\ Cardinality(replaced) \in Nat
    BY CountedNumbers, Zenon
  <2>3. onlineCount' = onlineCount + 1
    BY Zenon DEF CountIn
  <2>. QED  BY <1>3, <2>1, <2>2, <2>3
<1>. QED  BY <1>5, <1>6, <1>7, CountsAreSums, Zenon DEF CountsExact, Offering, Offered

(* A further register message counts a present provider again, and leaves   *)
(* one entry overwritten.                                                   *)
LEMMA CountAgainExact ==
    ASSUME TypeOK, CountsExact, ReplacedAreOld, NEW c \in Conns, NEW e, e \notin replaced, e[1] = c, CountIn(c),
           replaced' = replaced \cup {e}, \A d \in Conns : Present(d)' <=> Present(d)
    PROVE  CountsExact' /\ onlineCount' \in Int /\ modelProviders' \in [Models -> Nat]
<1>1. {d \in Conns : Present(d)'} = {d \in Conns : Present(d)}
  BY Zenon
<1>2. \A m \in Models : Offering(m)' = Offering(m)
  BY Zenon DEF Offering
<1>3. \A m \in Models : Offered(m)' = IF m \in ModelsOf[c] THEN Offered(m) \cup {e} ELSE Offered(m)
  BY Zenon DEF Offered
<1>4. \A m \in Models : Cardinality(Offered(m) \cup {e}) = Cardinality(Offered(m)) + 1
  BY CountedNumbers, FS_AddElement, Zenon DEF Offered
<1>5. Cardinality(replaced') = Cardinality(replaced) + 1
  BY FS_AddElement, Zenon DEF ReplacedAreOld
<1>6. ASSUME NEW m \in Models
      PROVE  modelProviders'[m] = Cardinality(Offering(m)') + Cardinality(Offered(m)')
  <2>1. modelProviders[m] = Cardinality(Offering(m)) + Cardinality(Offered(m))
    BY CountsAreSums, Zenon
  <2>2. modelProviders'[m] = IF m \in ModelsOf[c] THEN modelProviders[m] + 1 ELSE modelProviders[m]
    BY Zenon DEF CountIn
  <2>3. Cardinality(Offering(m)) \in Nat /\ Cardinality(Offered(m)) \in Nat
    BY CountedNumbers, Zenon
  <2>4. /\ Cardinality(Offering(m)') = Cardinality(Offering(m))
        /\ Cardinality(Offered(m)') = IF m \in ModelsOf[c] THEN Cardinality(Offered(m)) + 1 ELSE Cardinality(Offered(m))
    BY <1>2, <1>3, <1>4, Zenon
  <2>. QED  BY <2>1, <2>2, <2>3, <2>4
<1>7. onlineCount' \in Int /\ modelProviders' \in [Models -> Nat]
  BY DEF CountIn, TypeOK
<1>8. onlineCount' = Cardinality({d \in Conns : Present(d)'}) + Cardinality(replaced')
  <2>1. onlineCount = Cardinality({d \in Conns : Present(d)}) + Cardinality(replaced)
    BY CountsAreSums, Zenon
  <2>2. Cardinality({d \in Conns : Present(d)}) \in Nat /\ Cardinality(replaced) \in Nat
    BY CountedNumbers, Zenon
  <2>3. onlineCount' = onlineCount + 1
    BY Zenon DEF CountIn
  <2>4. Cardinality({d \in Conns : Present(d)'}) = Cardinality({d \in Conns : Present(d)})
    BY <1>1, Zenon
  <2>. QED  BY <1>5, <2>1, <2>2, <2>3, <2>4
<1>. QED  BY <1>6, <1>7, <1>8, Zenon DEF CountsExact, Offering, Offered

(* CountOut keeps them exact when it accompanies the departure of one that  *)
(* was counted (Disconnect, MarkUntrusted); no counter is then at 0.        *)
LEMMA CountOutExact ==
    ASSUME TypeOK, CountsExact, ReplacedAreOld, NEW c \in Conns, Present(c), CountOut(c), UNCHANGED replaced,
           \A d \in Conns : Present(d)' <=> (Present(d) /\ d # c)
    PROVE  CountsExact' /\ onlineCount' \in Int /\ modelProviders' \in [Models -> Nat]
<1>1. {d \in Conns : Present(d)'} = {d \in Conns : Present(d)} \ {c}
  BY Zenon
<1>2. \A m \in Models : Offering(m)' = IF m \in ModelsOf[c] THEN Offering(m) \ {c} ELSE Offering(m)
  BY Zenon DEF Offering
<1>3. Cardinality({d \in Conns : Present(d)'}) = Cardinality({d \in Conns : Present(d)}) - 1
  BY <1>1, CountedFinite, FS_RemoveElement, Zenon
<1>4. \A m \in Models : m \in ModelsOf[c] =>
          Cardinality(Offering(m) \ {c}) = Cardinality(Offering(m)) - 1
  BY CountedFinite, FS_RemoveElement, Zenon DEF Offering
<1>5. ASSUME NEW m \in Models
      PROVE  modelProviders'[m] = Cardinality(Offering(m)') + Cardinality(Offered(m)')
  <2>1. modelProviders[m] = Cardinality(Offering(m)) + Cardinality(Offered(m)) /\ Offered(m)' = Offered(m)
    BY CountsAreSums, Zenon DEF Offered
  <2>2. Cardinality(Offering(m)) \in Nat /\ Cardinality(Offered(m)) \in Nat
    BY CountedNumbers, Zenon
  <2>3. m \in ModelsOf[c] => Cardinality(Offering(m)) # 0
    <3>1. m \in ModelsOf[c] => Offering(m) # {}
      BY Zenon DEF Offering
    <3>. QED  BY <3>1, CountedFinite, FS_EmptySet, Zenon
  <2>4. modelProviders'[m] = IF m \in ModelsOf[c] /\ modelProviders[m] > 0
                             THEN modelProviders[m] - 1 ELSE modelProviders[m]
    BY Zenon DEF CountOut
  <2>5. Cardinality(Offering(m)') = IF m \in ModelsOf[c] THEN Cardinality(Offering(m)) - 1 ELSE Cardinality(Offering(m))
    BY <1>2, <1>4, Zenon
  <2>. QED  BY <2>1, <2>2, <2>3, <2>4, <2>5
<1>6. onlineCount' \in Int /\ modelProviders' \in [Models -> Nat]
  BY DEF CountOut, TypeOK
<1>7. onlineCount' = Cardinality({d \in Conns : Present(d)'}) + Cardinality(replaced')
  <2>1. onlineCount = Cardinality({d \in Conns : Present(d)}) + Cardinality(replaced)
    BY CountsAreSums, Zenon
  <2>2. Cardinality({d \in Conns : Present(d)}) \in Nat /\ Cardinality(replaced) \in Nat
    BY CountedNumbers, Zenon
  <2>3. onlineCount' = onlineCount - 1
    BY Zenon DEF CountOut
  <2>. QED  BY <1>3, <2>1, <2>2, <2>3
<1>. QED  BY <1>5, <1>6, <1>7, Zenon DEF CountsExact, Offering, Offered

(* A step that leaves the counters alone and the same providers present.    *)
LEMMA CountsKept ==
    ASSUME TypeOK, CountsExact, UNCHANGED <<counts, replaced>>, \A d \in Conns : Present(d)' <=> Present(d)
    PROVE  CountsExact' /\ onlineCount' \in Int /\ modelProviders' \in [Models -> Nat]
<1>1. {d \in Conns : Present(d)'} = {d \in Conns : Present(d)}
  BY Zenon
<1>2. \A m \in Models : {d \in Conns : Present(d)' /\ m \in ModelsOf[d]}
                        = {d \in Conns : Present(d) /\ m \in ModelsOf[d]}
  BY Zenon
<1>. QED  BY <1>1, <1>2, Zenon DEF CountsExact, TypeOK, counts

(* A step that registers nobody.                                            *)
LEMMA HistoryKept ==
    ASSUME Inv, UNCHANGED history
    PROVE  /\ entries' = entries /\ replaced' = replaced
           /\ entries' \in [Conns -> Nat] /\ replaced' \subseteq Conns \X Nat /\ ReplacedAreOld'
BY Zenon DEF Inv, TypeOK, ReplacedAreOld, history

(* Disconnect counts a provider out only if it was still counted.           *)
LEMMA DropCounts ==
    ASSUME TypeOK, CountsExact, ReplacedAreOld, NEW c \in Conns, Drop(c), UNCHANGED <<status, replaced>>
    PROVE  CountsExact' /\ onlineCount' \in Int /\ modelProviders' \in [Models -> Nat]
<1>1. CASE Present(c)
  <2>1. CountOut(c)
    BY <1>1, Zenon DEF Drop, Present
  <2>2. \A d \in Conns : Present(d)' <=> (Present(d) /\ d # c)
    BY Zenon DEF Drop, Present
  <2>. QED  BY <1>1, <2>1, <2>2, CountOutExact, Zenon
<1>2. CASE ~Present(c)
  <2>1. UNCHANGED counts
    BY <1>2, Zenon DEF Drop, Present
  <2>2. \A d \in Conns : Present(d)' <=> Present(d)
    BY <1>2, Zenon DEF Drop, Present
  <2>. QED  BY <2>1, <2>2, CountsKept, Zenon
<1>. QED  BY <1>1, <1>2, Zenon

(* So does MarkUntrusted, however often it is called.                       *)
LEMMA DistrustCounts ==
    ASSUME TypeOK, CountsExact, ReplacedAreOld, NEW c \in Conns, Distrust(c), UNCHANGED <<reg, replaced>>
    PROVE  CountsExact' /\ onlineCount' \in Int /\ modelProviders' \in [Models -> Nat]
<1>1. CASE Present(c)
  <2>1. CountOut(c)
    BY <1>1, Zenon DEF Distrust, Present
  <2>2. \A d \in Conns : Present(d)' <=> (Present(d) /\ d # c)
    BY <1>1, Zenon DEF Distrust, Present, TypeOK
  <2>. QED  BY <1>1, <2>1, <2>2, CountOutExact, Zenon
<1>2. CASE ~Present(c)
  <2>1. UNCHANGED <<status, counts>>
    BY <1>2, Zenon DEF Distrust, Present
  <2>2. \A d \in Conns : Present(d)' <=> Present(d)
    BY <2>1, Zenon DEF Present
  <2>. QED  BY <2>1, <2>2, CountsKept, Zenon
<1>. QED  BY <1>1, <1>2, Zenon

-----------------------------------------------------------------------------
(* One lemma per group of actions: each preserves the inductive invariant.  *)

(* An empty registry satisfies it (New).                                    *)
LEMMA InitInv == Init => Inv
<1>. SUFFICES ASSUME Init PROVE Inv
  BY Zenon
<1>1. TypeOK
  BY RegistryAssumption DEF Init, TypeOK
<1>2. {c \in Conns : Present(c)} = {} /\ \A m \in Models : {c \in Conns : Present(c) /\ m \in ModelsOf[c]} = {}
  BY Zenon DEF Init, Present
<1>3. CountsExact
  <2>1. replaced = {} /\ \A m \in Models : {e \in replaced : m \in ModelsOf[e[1]]} = {}
    BY Zenon DEF Init
  <2>2. Cardinality({}) = 0 /\ 0 + 0 = 0
    BY FS_EmptySet
  <2>. QED  BY <1>2, <2>1, <2>2, Zenon DEF Init, CountsExact
<1>4. ReplacedAreOld
  BY FS_EmptySet, Zenon DEF Init, ReplacedAreOld
<1>. QED  BY <1>1, <1>3, <1>4, Zenon DEF Init, Inv, NewIsAbsent, ListsAreLocal, OneWillGo

(* Register adds a provider, or counts one again and replaces its entry.    *)
LEMMA RegisterInv ==
    ASSUME Inv, NEW c \in Conns, Register(c)
    PROVE  Inv'
<1>0. /\ reg' = reg \cup {c} /\ status' = [status EXCEPT ![c] = "online"] /\ result' = [result EXCEPT ![c] = "none"]
      /\ pc' = [pc EXCEPT ![c] = "verify"] /\ pc[c] \in {"new", "run"} /\ dups' = dups
      /\ entries' = [entries EXCEPT ![c] = @ + 1] /\ CountIn(c)
      /\ replaced' = IF Present(c) THEN replaced \cup {<<c, entries[c]>>} ELSE replaced
  BY Zenon DEF Register, Goto
<1>a. TypeOK /\ CountsExact /\ NewIsAbsent /\ ListsAreLocal /\ OneWillGo /\ ReplacedAreOld
  BY Zenon DEF Inv
<1>b. entries \in [Conns -> Nat] /\ entries[c] \in Nat /\ replaced \subseteq Conns \X Nat
  BY <1>a, Zenon DEF TypeOK
<1>c. \A d \in Conns : Present(d)' <=> (Present(d) \/ d = c)
  BY <1>0, <1>a, Zenon DEF TypeOK, Present
<1>d. <<c, entries[c]>> \notin replaced
  BY <1>a, <1>b DEF ReplacedAreOld
<1>1. CountsExact' /\ onlineCount' \in Int /\ modelProviders' \in [Models -> Nat]
  <2>1. CASE Present(c)
    <3>1. \A d \in Conns : Present(d)' <=> Present(d)
      BY <1>c, <2>1, Zenon
    <3>2. <<c, entries[c]>>[1] = c /\ replaced' = replaced \cup {<<c, entries[c]>>}
      BY <1>0, <2>1
    <3>. QED  BY <1>0, <1>a, <1>d, <3>1, <3>2, CountAgainExact, Zenon
  <2>2. CASE ~Present(c)
    BY <1>0, <1>a, <1>c, <2>2, CountInExact, Zenon
  <2>. QED  BY <2>1, <2>2, Zenon
<1>2. entries' \in [Conns -> Nat] /\ \A d \in Conns : entries[d] \in Nat /\ entries'[d] = IF d = c THEN entries[c] + 1 ELSE entries[d]
  BY <1>0, <1>b
<1>3. replaced' \subseteq Conns \X Nat
  <2>1. <<c, entries[c]>> \in Conns \X Nat
    BY <1>b
  <2>. QED  BY <1>0, <1>b, <2>1, Zenon
<1>4. ReplacedAreOld'
  <2>1. IsFiniteSet(replaced')
    BY <1>0, <1>a, FS_AddElement, Zenon DEF ReplacedAreOld
  <2>2. ASSUME NEW d \in Conns, NEW n \in Nat, <<d, n>> \in replaced' PROVE n < entries'[d]
    <3>1. CASE <<d, n>> \in replaced
      <4>1. n < entries[d]
        BY <1>a, <3>1, Zenon DEF ReplacedAreOld
      <4>. QED  BY <1>2, <4>1
    <3>2. CASE <<d, n>> = <<c, entries[c]>>
      <4>1. d = c /\ n = entries[c]
        BY <3>2, Zenon
      <4>. QED  BY <1>2, <4>1
    <3>. QED  BY <1>0, <2>2, <3>1, <3>2, Zenon
  <2>. QED  BY <2>1, <2>2, Zenon DEF ReplacedAreOld
<1>5. TypeOK'
  <2>1. open' \subseteq Conns /\ stale' \subseteq Conns /\ sweep' = sweep /\ pending' = [pending EXCEPT ![c] = 0]
    BY <1>a, Zenon DEF TypeOK, Register
  <2>2. pending' \in [Conns -> 0..MaxPending]
    BY <1>a, <2>1, RegistryAssumption DEF TypeOK
  <2>3. reg' \subseteq Conns
    BY <1>0, <1>a, Zenon DEF TypeOK
  <2>4. status' \in [Conns -> {"online", "serving", "untrusted"}] /\ result' \in [Conns -> {"none", "invalid", "valid"}]
    <3>1. status \in [Conns -> {"online", "serving", "untrusted"}] /\ result \in [Conns -> {"none", "invalid", "valid"}]
      BY <1>a, Zenon DEF TypeOK
    <3>. QED  BY <1>0, <3>1
  <2>5. pc' \in [Conns -> {"new", "verify", "list", "evict", "run", "closed"}] /\ dups' \in [Conns -> SUBSET Conns]
        /\ sweep' \subseteq Conns
    BY <1>0, <1>a, <2>1, Zenon DEF TypeOK
  <2>. QED  BY <1>1, <1>2, <1>3, <2>1, <2>2, <2>3, <2>4, <2>5, ZenonT(40) DEF TypeOK
<1>6. NewIsAbsent' /\ ListsAreLocal'
  BY <1>0, <1>a, Zenon DEF TypeOK, NewIsAbsent, ListsAreLocal
<1>7. \A d \in Conns : PastListing(d)' => PastListing(d) /\ d # c
  BY <1>0, <1>a, Zenon DEF TypeOK, PastListing
<1>8. OneWillGo'
  <2>. SUFFICES ASSUME NEW d \in reg', NEW e \in reg', SameMachine(d, e), PastListing(d)', PastListing(e)'
                PROVE  e \in dups'[d] \/ d \in dups'[e]
    BY Zenon DEF OneWillGo, SameMachine
  <2>1. d \in Conns /\ e \in Conns
    BY <1>0, <1>a, Zenon DEF TypeOK
  <2>2. d \in reg /\ e \in reg /\ PastListing(d) /\ PastListing(e)
    BY <1>0, <1>7, <2>1, Zenon
  <2>. QED  BY <1>0, <1>a, <2>2, Zenon DEF OneWillGo
<1>. QED  BY <1>1, <1>4, <1>5, <1>6, <1>8, Zenon DEF Inv

(* verifyProviderAttestation up to the duplicate check: no connection gets  *)
(* past its listing here.                                                   *)
LEMMA VerifyInv ==
    ASSUME Inv, NEW c \in Conns, Verify(c)
    PROVE  Inv'
<1>h. /\ entries' = entries /\ replaced' = replaced
      /\ entries' \in [Conns -> Nat] /\ replaced' \subseteq Conns \X Nat /\ ReplacedAreOld'
  BY HistoryKept, Zenon DEF Verify
<1>1. CountsExact' /\ onlineCount' \in Int /\ modelProviders' \in [Models -> Nat]
  <2>1. CASE Distrust(c)
    BY <1>h, <2>1, DistrustCounts, Zenon DEF Inv, Verify
  <2>2. CASE UNCHANGED <<status, counts>>
    <3>1. \A d \in Conns : Present(d)' <=> Present(d)
      BY <2>2, Zenon DEF Verify, Present
    <3>. QED  BY <1>h, <2>2, <3>1, CountsKept, Zenon DEF Inv
  <2>. QED  BY <1>h, <2>1, <2>2, Zenon DEF Verify
<1>2. TypeOK'
  BY <1>h, <1>1 DEF Inv, TypeOK, Verify, Goto, Distrust
<1>3. NewIsAbsent' /\ ListsAreLocal'
  BY <1>h DEF Inv, TypeOK, NewIsAbsent, ListsAreLocal, Verify, Goto, Distrust
<1>4. \A d \in Conns : PastListing(d)' => PastListing(d) /\ d # c
  BY <1>h DEF Inv, TypeOK, PastListing, Verify, Goto
<1>5. OneWillGo'
  BY <1>h, <1>4, Zenon DEF Inv, TypeOK, OneWillGo, SameMachine, Verify
<1>. QED  BY <1>h, <1>1, <1>2, <1>3, <1>5, Zenon DEF Inv

(* The first pass of DisconnectDuplicatesBySerial: every other connection   *)
(* of the machine that is past its own listing has an attestation result    *)
(* and is found.                                                            *)
LEMMA ListDuplicatesInv ==
    ASSUME Inv, NEW c \in Conns, ListDuplicates(c)
    PROVE  Inv'
<1>h. /\ entries' = entries /\ replaced' = replaced
      /\ entries' \in [Conns -> Nat] /\ replaced' \subseteq Conns \X Nat /\ ReplacedAreOld'
  BY HistoryKept, Zenon DEF ListDuplicates
<1>1. \A d \in Conns : Present(d)' <=> Present(d)
  BY Zenon DEF ListDuplicates, Present
<1>2. CountsExact' /\ onlineCount' \in Int /\ modelProviders' \in [Models -> Nat]
  BY <1>h, <1>1, CountsKept, Zenon DEF Inv, ListDuplicates
<1>3. TypeOK'
  BY <1>h, <1>2, Zenon DEF Inv, TypeOK, ListDuplicates, Goto
<1>4. NewIsAbsent' /\ ListsAreLocal'
  BY <1>h, Zenon DEF Inv, TypeOK, NewIsAbsent, ListsAreLocal, ListDuplicates, Goto
<1>5. \A d \in reg : SameMachine(c, d) /\ PastListing(d) => d \in dups'[c]
  BY <1>h, Zenon DEF Inv, TypeOK, PastListing, ListDuplicates
<1>6. \A d \in Conns : d # c => (PastListing(d)' <=> PastListing(d)) /\ dups'[d] = dups[d]
  BY <1>h, Zenon DEF Inv, TypeOK, PastListing, ListDuplicates, Goto
<1>7. OneWillGo'
  BY <1>h, <1>5, <1>6 DEF Inv, TypeOK, OneWillGo, SameMachine, ListDuplicates
<1>. QED  BY <1>h, <1>2, <1>3, <1>4, <1>7, Zenon DEF Inv

(* Its second pass: an entry leaves the list together with its provider.    *)
LEMMA EvictDuplicateInv ==
    ASSUME Inv, NEW c \in Conns, NEW d \in Conns, EvictDuplicate(c, d)
    PROVE  Inv'
<1>h. /\ entries' = entries /\ replaced' = replaced
      /\ entries' \in [Conns -> Nat] /\ replaced' \subseteq Conns \X Nat /\ ReplacedAreOld'
  BY HistoryKept, Zenon DEF EvictDuplicate
<1>1. CountsExact' /\ onlineCount' \in Int /\ modelProviders' \in [Models -> Nat]
  BY <1>h, DropCounts, Zenon DEF Inv, EvictDuplicate
<1>2. TypeOK'
  BY <1>h, <1>1, RegistryAssumption DEF Inv, TypeOK, EvictDuplicate, Drop
<1>3. NewIsAbsent' /\ ListsAreLocal'
  BY <1>h, Zenon DEF Inv, TypeOK, NewIsAbsent, ListsAreLocal, EvictDuplicate, Drop
<1>4. \A e \in Conns : (PastListing(e)' <=> PastListing(e)) /\ dups[e] \ {d} \subseteq dups'[e]
  BY <1>h, Zenon DEF Inv, TypeOK, PastListing, EvictDuplicate
<1>5. reg' = reg \ {d}
  BY <1>h, Zenon DEF EvictDuplicate, Drop
<1>6. OneWillGo'
  BY <1>h, <1>4, <1>5, Zenon DEF Inv, TypeOK, OneWillGo, SameMachine
<1>. QED  BY <1>h, <1>1, <1>2, <1>3, <1>6, Zenon DEF Inv

(* The end of the registration and of the read loop.                        *)
LEMMA RegisteredInv ==
    ASSUME Inv, NEW c \in Conns, Registered(c)
    PROVE  Inv'
<1>h. /\ entries' = entries /\ replaced' = replaced
      /\ entries' \in [Conns -> Nat] /\ replaced' \subseteq Conns \X Nat /\ ReplacedAreOld'
  BY HistoryKept, Zenon DEF Registered
<1>1. \A d \in Conns : Present(d)' <=> Present(d)
  BY Zenon DEF Registered, Present
<1>2. CountsExact' /\ onlineCount' \in Int /\ modelProviders' \in [Models -> Nat]
  BY <1>h, <1>1, CountsKept, Zenon DEF Inv, Registered
<1>3. TypeOK' /\ NewIsAbsent' /\ ListsAreLocal'
  BY <1>h, <1>2, Zenon DEF Inv, TypeOK, NewIsAbsent, ListsAreLocal, Registered, Goto
<1>4. OneWillGo'
  BY <1>h DEF Inv, TypeOK, OneWillGo, PastListing, SameMachine, Registered, Goto
<1>. QED  BY <1>h, <1>2, <1>3, <1>4, Zenon DEF Inv

(* Disconnect from the deferred call of the read loop.                      *)
LEMMA LeaveInv ==
    ASSUME Inv, NEW c \in Conns, Leave(c)
    PROVE  Inv'
<1>h. /\ entries' = entries /\ replaced' = replaced
      /\ entries' \in [Conns -> Nat] /\ replaced' \subseteq Conns \X Nat /\ ReplacedAreOld'
  BY HistoryKept, Zenon DEF Leave
<1>1. CountsExact' /\ onlineCount' \in Int /\ modelProviders' \in [Models -> Nat]
  BY <1>h, DropCounts, Zenon DEF Inv, Leave
<1>2. TypeOK'
  BY <1>h, <1>1, RegistryAssumption DEF Inv, TypeOK, Leave, Drop, Goto
<1>3. NewIsAbsent' /\ ListsAreLocal'
  BY <1>h, Zenon DEF Inv, TypeOK, NewIsAbsent, ListsAreLocal, Leave, Drop, Goto
<1>4. OneWillGo'
  BY <1>h DEF Inv, TypeOK, OneWillGo, PastListing, SameMachine, Leave, Drop, Goto
<1>. QED  BY <1>h, <1>1, <1>2, <1>3, <1>4, Zenon DEF Inv

(* Disconnect from the eviction loop, at any point of a registration.       *)
LEMMA EvictInv ==
    ASSUME Inv, NEW c \in Conns, Evict(c)
    PROVE  Inv'
<1>h. /\ entries' = entries /\ replaced' = replaced
      /\ entries' \in [Conns -> Nat] /\ replaced' \subseteq Conns \X Nat /\ ReplacedAreOld'
  BY HistoryKept, Zenon DEF Evict
<1>1. CountsExact' /\ onlineCount' \in Int /\ modelProviders' \in [Models -> Nat]
  BY <1>h, DropCounts, Zenon DEF Inv, Evict
<1>2. TypeOK'
  BY <1>h, <1>1, RegistryAssumption DEF Inv, TypeOK, Evict, Drop, conns
<1>3. NewIsAbsent' /\ ListsAreLocal'
  BY <1>h, Zenon DEF Inv, TypeOK, NewIsAbsent, ListsAreLocal, Evict, Drop, conns
<1>4. OneWillGo'
  BY <1>h, Zenon DEF Inv, OneWillGo, PastListing, SameMachine, Evict, Drop, conns
<1>. QED  BY <1>h, <1>1, <1>2, <1>3, <1>4, Zenon DEF Inv

(* MarkUntrusted, at any point after Register.                              *)
LEMMA MarkUntrustedInv ==
    ASSUME Inv, NEW c \in Conns, MarkUntrusted(c)
    PROVE  Inv'
<1>h. /\ entries' = entries /\ replaced' = replaced
      /\ entries' \in [Conns -> Nat] /\ replaced' \subseteq Conns \X Nat /\ ReplacedAreOld'
  BY HistoryKept, Zenon DEF MarkUntrusted
<1>1. CountsExact' /\ onlineCount' \in Int /\ modelProviders' \in [Models -> Nat]
  BY <1>h, DistrustCounts, Zenon DEF Inv, MarkUntrusted
<1>2. TypeOK'
  BY <1>h, <1>1, Zenon DEF Inv, TypeOK, MarkUntrusted, Distrust, conns
<1>3. NewIsAbsent' /\ ListsAreLocal'
  BY <1>h, Zenon DEF Inv, TypeOK, NewIsAbsent, ListsAreLocal, MarkUntrusted, Distrust, conns
<1>4. OneWillGo'
  BY <1>h, Zenon DEF Inv, OneWillGo, PastListing, SameMachine, MarkUntrusted, conns
<1>. QED  BY <1>h, <1>1, <1>2, <1>3, <1>4, Zenon DEF Inv

(* The steps that only touch heartbeats, requests, sockets or the clock:    *)
(* they change no counter, and no provider appears, leaves or regains trust.*)
LEMMA OtherInv ==
    ASSUME Inv, UNCHANGED <<reg, result, pc, dups, counts, history>>, TypeOK',
           \A c \in Conns : status[c] = "untrusted" <=> status'[c] = "untrusted",
           \A c \in Conns : c \notin reg => status'[c] = status[c]
    PROVE  Inv'
<1>1. \A d \in Conns : Present(d)' <=> Present(d)
  BY Zenon DEF Present
<1>2. CountsExact' /\ ReplacedAreOld'
  BY <1>1, CountsKept, HistoryKept, Zenon DEF Inv
<1>3. NewIsAbsent' /\ ListsAreLocal'
  BY Zenon DEF Inv, NewIsAbsent, ListsAreLocal
<1>4. OneWillGo'
  BY ZenonT(40) DEF Inv, OneWillGo, PastListing, SameMachine
<1>. QED  BY <1>2, <1>3, <1>4, Zenon DEF Inv

(* Every step of the registry preserves the invariant.                      *)
LEMMA NextInv == Inv /\ [Next]_vars => Inv'
<1>. SUFFICES ASSUME Inv, [Next]_vars PROVE Inv'
  BY Zenon
<1>. DEFINE Quiet == /\ UNCHANGED <<reg, result, pc, dups, counts, history>>
                     /\ \A c \in Conns : status[c] = "untrusted" <=> status'[c] = "untrusted"
                     /\ \A c \in Conns : c \notin reg => status'[c] = status[c]
<1>1. CASE EvictionScan
  <2>1. TypeOK'
    BY <1>1, Zenon DEF Inv, TypeOK, EvictionScan, conns, counts, history
  <2>2. Quiet
    BY <1>1, Zenon DEF EvictionScan, conns
  <2>. QED  BY <2>1, <2>2, OtherInv, Zenon
<1>2. ASSUME NEW c \in Conns, NEW s \in {"idle", "serving"}, Heartbeat(c, s)
      PROVE  Inv'
  <2>1. TypeOK'
    BY <1>2, Zenon DEF Inv, TypeOK, Heartbeat, conns, counts, history
  <2>2. Quiet
    BY <1>2, Zenon DEF Inv, TypeOK, Heartbeat, conns
  <2>. QED  BY <2>1, <2>2, OtherInv, Zenon
<1>3. ASSUME NEW c \in Conns, ReserveProvider(c)
      PROVE  Inv'
  <2>1. TypeOK'
    BY <1>3, RegistryAssumption DEF Inv, TypeOK, ReserveProvider, conns, counts, history
  <2>2. Quiet
    BY <1>3, Zenon DEF Inv, TypeOK, ReserveProvider, conns
  <2>. QED  BY <2>1, <2>2, OtherInv, Zenon
<1>4. ASSUME NEW c \in Conns, RemovePending(c)
      PROVE  Inv'
  <2>1. TypeOK'
    BY <1>4, RegistryAssumption DEF Inv, TypeOK, RemovePending, conns, counts, history
  <2>2. Quiet
    BY <1>4, Zenon DEF RemovePending, conns
  <2>. QED  BY <2>1, <2>2, OtherInv, Zenon
<1>5. ASSUME NEW c \in Conns, SetProviderIdle(c)
      PROVE  Inv'
  <2>1. TypeOK'
    BY <1>5, Zenon DEF Inv, TypeOK, SetProviderIdle, conns, counts, history
  <2>2. Quiet
    BY <1>5, Zenon DEF Inv, TypeOK, SetProviderIdle, conns
  <2>. QED  BY <2>1, <2>2, OtherInv, Zenon
<1>6. ASSUME NEW c \in Conns, LoseConnection(c) \/ TimePasses(c)
      PROVE  Inv'
  <2>1. TypeOK'
    BY <1>6, Zenon DEF Inv, TypeOK, LoseConnection, TimePasses, conns, counts, history
  <2>2. Quiet
    BY <1>6, Zenon DEF LoseConnection, TimePasses, conns
  <2>. QED  BY <2>1, <2>2, OtherInv, Zenon
<1>7. CASE UNCHANGED vars
  <2>1. TypeOK'
    BY <1>7, Zenon DEF Inv, TypeOK, vars, conns, counts, history
  <2>2. Quiet
    BY <1>7, Zenon DEF vars, conns
  <2>. QED  BY <2>1, <2>2, OtherInv, Zenon
<1>8. ASSUME NEW c \in Conns, ReadLoop(c)
      PROVE  Inv'
  BY <1>8, VerifyInv, ListDuplicatesInv, RegisteredInv, LeaveInv, EvictDuplicateInv, Zenon DEF ReadLoop
<1>. QED  BY <1>1, <1>2, <1>3, <1>4, <1>5, <1>6, <1>7, <1>8,
             RegisterInv, MarkUntrustedInv, EvictInv, Zenon DEF Next

-----------------------------------------------------------------------------

(* The invariant rules out two finished registrations of one machine: a     *)
(* connection in its read loop has no list left.                            *)
LEMMA InvImpliesOne == Inv => OnePerMachine
BY Zenon DEF Inv, TypeOK, OneWillGo, PastListing, ListsAreLocal, OnePerMachine

(* For any number of connections, machines and models: the counters agree   *)
(* with the provider map and the entries that repeated register messages    *)
(* overwrote, and two connections of a machine are never both registered    *)
(* for good.                                                                *)
THEOREM RegistryCorrect == Spec => [](TypeOK /\ CountsExact /\ OnePerMachine)
<1>1. Inv => TypeOK /\ CountsExact /\ OnePerMachine
  BY InvImpliesOne, Zenon DEF Inv
<1>. QED  BY <1>1, InitInv, NextInv, PTL DEF Spec

(* MarkUntrusted is final for an entry: no heartbeat, finished request or   *)
(* later verdict makes the connection trusted again before it sends another *)
(* register message.                                                        *)
THEOREM UntrustedStays == Spec => UntrustedIsFinal
<1>1. ASSUME Inv, [Next]_vars
      PROVE  [\A c \in Conns :
                 status[c] = "untrusted" /\ entries'[c] = entries[c] => status'[c] = "untrusted"]_vars
  <2>. SUFFICES ASSUME NEW d \in Conns, status[d] = "untrusted", entries'[d] = entries[d], Next
                PROVE  status'[d] = "untrusted"
    BY <1>1, Zenon
  <2>1. CASE UNCHANGED status
    BY <2>1, Zenon
  <2>2. ASSUME NEW c \in Conns, Distrust(c)
        PROVE  status'[d] = "untrusted"
    BY <1>1, <2>2, Zenon DEF Inv, TypeOK, Distrust
  <2>3. ASSUME NEW c \in Conns, NEW s \in {"idle", "serving"}, Heartbeat(c, s)
        PROVE  status'[d] = "untrusted"
    BY <1>1, <2>3, Zenon DEF Inv, TypeOK, Heartbeat
  <2>4. ASSUME NEW c \in Conns, ReserveProvider(c) \/ SetProviderIdle(c)
        PROVE  status'[d] = "untrusted"
    BY <1>1, <2>4, Zenon DEF Inv, TypeOK, ReserveProvider, SetProviderIdle
  <2>5. ASSUME NEW c \in Conns, Register(c)
        PROVE  status'[d] = "untrusted"
    <3>1. status' = [status EXCEPT ![c] = "online"] /\ entries' = [entries EXCEPT ![c] = @ + 1]
      BY <2>5, Zenon DEF Register
    <3>2. entries \in [Conns -> Nat] /\ entries[c] + 1 # entries[c]
      BY <1>1 DEF Inv, TypeOK
    <3>3. d # c
      BY <3>1, <3>2, Zenon
    <3>. QED  BY <1>1, <3>1, <3>3, Zenon DEF Inv, TypeOK
  <2>. QED  BY <2>1, <2>2, <2>3, <2>4, <2>5, Zenon DEF Next, ReadLoop, EvictionScan, Verify,
            ListDuplicates, EvictDuplicate, Registered, Leave, RemovePending, MarkUntrusted,
            Evict, LoseConnection, TimePasses
<1>. QED  BY <1>1, InitInv, NextInv, PTL DEF Spec, UntrustedIsFinal

(* However their registrations overlap, two attested connections of a        *)
(* machine are never both registered for good: the one whose eviction of     *)
(* duplicates ends last has removed the other.                               *)
COROLLARY OneProviderPerMachine == Spec => []OnePerMachine
BY RegistryCorrect, PTL

-----------------------------------------------------------------------------
(* Challenges and restored trust.                                          *)


(* Neither half of ChallengesAreSound is inductive.  The posture a pass    *)
(* proved (sip) may stand only while the last verdict was a pass, and a    *)
(* connection starts without it; the channel of a challenge holds an       *)
(* answer to that challenge only, because the tracker knows no other       *)
(* nonce, and none once the answer was handed over.                        *)
PostureInv ==
    /\ reading # "serve" => loop = "none"
    /\ reading = "away" => mdm = "none" /\ ~prov.sip
    /\ loop = "pass" => passed
    /\ known /\ prov.sip /\ loop # "fail" => passed

TrackerInv ==
    /\ waiting \subseteq (IF loop = "await" THEN {nonce} ELSE {})
    /\ loop \in {"await", "verify"} => box = NoAnswer \/ (box.nonce = nonce /\ waiting = {})
    /\ loop = "verify" => box # NoAnswer

ChallengeInv == prov \in Provider /\ PostureInv /\ TrackerInv

LEMMA InitChallengeInv == ChallengeInit => ChallengeInv
<1> SUFFICES ASSUME ChallengeInit PROVE ChallengeInv
  BY Zenon
<1>1. prov \in Provider /\ ~prov.sip
  BY Zenon DEF ChallengeInit, NoConnection, NewProvider, Provider, TrustLevels, TrustNone, TimeStamps
<1> QED
  BY <1>1, Zenon DEF ChallengeInit, NoConnection, ChallengeInv, PostureInv, TrackerInv

(* What each call makes of a Provider is a Provider again.                  *)
LEMMA CallsKeepProvider ==
    ASSUME NEW p \in Provider
    PROVE  /\ Distrusted(p) \in Provider /\ Distrusted(p).sip = p.sip
           /\ PostureProved(p) \in Provider
           /\ ChallengePassed(p) \in Provider
           /\ ChallengeFailed(p) \in Provider /\ ~ChallengeFailed(p).sip
<1>1. Distrusted(p) \in Provider /\ Distrusted(p).sip = p.sip
  BY Zenon DEF Distrusted, Provider
<1>2. PostureProved(p) \in Provider
  BY Zenon DEF PostureProved, Provider
<1>3. ChallengePassed(p) \in Provider
  BY Zenon DEF ChallengePassed, Provider, TimeStamps
<1>4. ChallengeFailed(p) \in Provider /\ ~ChallengeFailed(p).sip
  <2>1. p.failed + 1 \in Nat
    BY DEF Provider
  <2>2. ChallengeFailed(p) \in Provider
    BY <2>1, Zenon DEF ChallengeFailed, Provider, TimeStamps
  <2>3. ~ChallengeFailed(p).sip
    BY Zenon DEF ChallengeFailed, Provider
  <2> QED
    BY <2>2, <2>3, Zenon
<1> QED
  BY <1>1, <1>2, <1>3, <1>4, Zenon

(* The machine's steps leave prov, loop and the tracker alone.             *)
LEMMA MachineKeepsInv ==
    ASSUME ChallengeInv, NEW n, NEW kind, Connects \/ Goes \/ Evicted \/ Answers(n, kind)
    PROVE  ChallengeInv'
  BY DEF ChallengeInv, PostureInv, TrackerInv, Connects, Goes, Evicted, Answers, talkVars

LEMMA ReadStepKeepsInv == ChallengeInv /\ ReadStep => ChallengeInv'
<1> SUFFICES ASSUME ChallengeInv, ReadStep PROVE ChallengeInv'
  BY Zenon
<1>1. CASE \E res \in {"none", "invalid", "valid"}, policy \in BOOLEAN : VerifyAttestation(res, policy)
  <2> PICK res \in {"none", "invalid", "valid"}, policy \in BOOLEAN : VerifyAttestation(res, policy)
    BY <1>1, Zenon
  <2>1. prov' \in Provider /\ prov'.sip = prov.sip
    BY Zenon DEF VerifyAttestation, Attested, ChallengeInv, Provider, TrustLevels, TrustSelfSigned, TimeStamps
  <2> QED
    BY <2>1, Zenon DEF VerifyAttestation, ChallengeInv, PostureInv, TrackerInv, talkVars
<1>2. CASE RestoreState
  <2>1. ASSUME NEW rec \in Restorable(enrolled), NEW last \in RestoredTimes(rec)
        PROVE  Restored(prov, rec, last) \in Provider /\ Restored(prov, rec, last).sip = prov.sip
    <3>1. last \in TimeStamps
      BY Zenon DEF RestoredTimes, Restorable, TimeStamps
    <3>2. rec.trust \in TrustLevels /\ rec.failed \in Nat
      BY MaxFailedAssumption DEF Restorable
    <3> QED
      BY <3>1, <3>2, Zenon DEF Restored, ChallengeInv, Provider
  <2>2. prov' \in Provider /\ prov'.sip = prov.sip
    BY <1>2, <2>1 DEF RestoreState, ChallengeInv
  <2> QED
    BY <1>2, <2>2, Zenon DEF RestoreState, ChallengeInv, PostureInv, TrackerInv, talkVars
<1>3. CASE \E runtimeOK, acme \in BOOLEAN : StartChallenges(runtimeOK, acme)
  <2> PICK runtimeOK \in BOOLEAN, acme \in BOOLEAN : StartChallenges(runtimeOK, acme)
    BY <1>3, Zenon
  <2>1. prov' \in Provider /\ prov'.sip = prov.sip
    <3>1. (IF acme THEN TrustHardware ELSE prov.trust) \in TrustLevels
      BY Zenon DEF ChallengeInv, Provider, TrustLevels, TrustHardware
    <3> QED
      BY <3>1, Zenon DEF StartChallenges, ChallengeInv, Provider
  <2> QED
    BY <2>1, Zenon DEF StartChallenges, ChallengeInv, PostureInv, TrackerInv, talkVars
<1>4. CASE handleAttestationResponse
  BY <1>4, Zenon DEF handleAttestationResponse, ChallengeInv, PostureInv, TrackerInv
<1> QED
  BY <1>1, <1>2, <1>3, <1>4, Zenon DEF ReadStep

LEMMA LoopStepKeepsInv == ChallengeInv /\ (LoopStep \/ ChallengeTimeout) => ChallengeInv'
<1> SUFFICES ASSUME ChallengeInv, LoopStep \/ ChallengeTimeout PROVE ChallengeInv'
  BY Zenon
<1>0. prov \in Provider
  BY Zenon DEF ChallengeInv
<1>1. CASE \E n \in Nonces : SendChallenge(n)
  <2> PICK n \in Nonces : SendChallenge(n)
    BY <1>1, Zenon
  <2> QED
    BY Zenon DEF SendChallenge, LoopGoes, ChallengeInv, PostureInv, TrackerInv
<1>2. CASE TakeAnswer
  BY <1>2, Zenon DEF TakeAnswer, LoopGoes, ChallengeInv, PostureInv, TrackerInv, talkVars
<1>3. CASE \E policy \in BOOLEAN : VerifyResponse(policy)
  <2> PICK policy \in BOOLEAN : VerifyResponse(policy)
    BY <1>3, Zenon
  <2>1. /\ loop = "verify" /\ loop' \in {"fail", "tick", "pass"}
        /\ waiting' = waiting /\ reading' = reading /\ known' = known
        /\ loop' = "tick" => passed' = passed
        /\ loop' = "pass" => passed'
    BY Zenon DEF VerifyResponse, LoopGoes
  <2>2. prov' \in Provider /\ (loop' = "tick" => prov'.sip = prov.sip)
    <3>1. [prov EXCEPT !.runtime = FALSE] \in Provider /\ [prov EXCEPT !.runtime = FALSE].sip = prov.sip
      BY <1>0, Zenon DEF Provider
    <3> QED
      BY <1>0, <3>1, CallsKeepProvider, Zenon DEF VerifyResponse, InRegistry, LoopGoes
  <2> QED
    BY <2>1, <2>2 DEF ChallengeInv, PostureInv, TrackerInv
<1>4. CASE RecordChallengeSuccess
  <2>1. prov' \in Provider
    BY <1>0, <1>4, CallsKeepProvider, Zenon DEF RecordChallengeSuccess, InRegistry
  <2> QED
    BY <2>1, <1>4, Zenon DEF RecordChallengeSuccess, LoopGoes, ChallengeInv, PostureInv, TrackerInv, talkVars
<1>5. CASE RecordChallengeFailure
  <2>1. prov' \in Provider /\ (known => ~prov'.sip) /\ loop' \in {"strike", "tick"}
    BY <1>0, <1>5, CallsKeepProvider, Zenon DEF RecordChallengeFailure, InRegistry, LoopGoes
  <2> QED
    BY <2>1, <1>5, Zenon DEF RecordChallengeFailure, LoopGoes, ChallengeInv, PostureInv, TrackerInv, talkVars
<1>6. CASE StrikeOut
  <2>1. prov' \in Provider /\ prov'.sip = prov.sip
    BY <1>0, <1>6, CallsKeepProvider, Zenon DEF StrikeOut, InRegistry
  <2> QED
    BY <2>1, <1>6, Zenon DEF StrikeOut, LoopGoes, ChallengeInv, PostureInv, TrackerInv, talkVars
<1>7. CASE ChallengeTick
  BY <1>7, Zenon DEF ChallengeTick, LoopGoes, ChallengeInv, PostureInv, TrackerInv, talkVars
<1>8. CASE ChallengeTimeout
  BY <1>8, Zenon DEF ChallengeTimeout, LoopGoes, ChallengeInv, PostureInv, TrackerInv
<1> QED
  BY <1>1, <1>2, <1>3, <1>4, <1>5, <1>6, <1>7, <1>8, Zenon DEF LoopStep

(* Disconnect starts from nothing, and the checks with device management   *)
(* and the passing of time leave the posture alone.                        *)
LEMMA OthersKeepInv ==
    ASSUME ChallengeInv, Closes \/ VerifyViaMDM \/ VerifyAppleDevice \/ Ages
    PROVE  ChallengeInv'
<1>0. prov \in Provider
  BY Zenon DEF ChallengeInv
<1>1. CASE Closes
  <2>1. NewProvider \in Provider /\ ~NewProvider.sip
    BY Zenon DEF NewProvider, Provider, TrustLevels, TrustNone, TimeStamps
  <2> QED
    BY <1>1, <2>1, Zenon DEF Closes, ChallengeInv, PostureInv, TrackerInv
<1>2. CASE VerifyViaMDM \/ VerifyAppleDevice \/ Ages
  <2>1. prov' \in Provider /\ prov'.sip = prov.sip
    <3>1. /\ [prov EXCEPT !.trust = TrustHardware] \in Provider
          /\ [prov EXCEPT !.trust = TrustHardware].sip = prov.sip
          /\ [prov EXCEPT !.last = "old"] \in Provider
          /\ [prov EXCEPT !.last = "old"].sip = prov.sip
      BY <1>0, Zenon DEF Provider, TrustLevels, TrustHardware, TimeStamps
    <3>2. \A q \in {prov, InRegistry(Distrusted(prov))} : q \in Provider /\ q.sip = prov.sip
      BY <1>0, CallsKeepProvider, Zenon DEF InRegistry
    <3> QED
      BY <1>0, <1>2, <3>1, <3>2, Zenon DEF VerifyViaMDM, VerifyAppleDevice, Ages
  <2>2. /\ UNCHANGED <<reading, loop, known, passed, waiting, nonce, box>>
        /\ reading = "away" => mdm' = mdm
    BY <1>2, Zenon DEF VerifyViaMDM, VerifyAppleDevice, Ages, talkVars, ChallengeInv, PostureInv
  <2> QED
    BY <2>1, <2>2, Zenon DEF ChallengeInv, PostureInv, TrackerInv
<1> QED
  BY <1>1, <1>2, Zenon

(* Whatever the machine answers, however late, and whatever the stored     *)
(* record says: work goes only to a connection whose last decided          *)
(* challenge was passed, judged by the answer to that challenge            *)
(* (api/provider.go, sendChallenge and verifyChallengeResponse).           *)
THEOREM ChallengesHold == ChallengeSpec => []ChallengesAreSound
<1>1. ChallengeInv /\ [ChallengeNext]_challengeVars => ChallengeInv'
  <2> SUFFICES ASSUME ChallengeInv, [ChallengeNext]_challengeVars PROVE ChallengeInv'
    BY Zenon
  <2>1. CASE UNCHANGED challengeVars
    BY <2>1, Zenon DEF challengeVars, talkVars, ChallengeInv, PostureInv, TrackerInv
  <2> QED
    BY <2>1, MachineKeepsInv, ReadStepKeepsInv, LoopStepKeepsInv, OthersKeepInv, Zenon DEF ChallengeNext
<1>2. ChallengeInv => ChallengesAreSound
  BY Zenon DEF ChallengeInv, PostureInv, TrackerInv, ChallengesAreSound, RoutedIsVerified,
         AnswersTheChallenge, GetsWork
<1> QED
  BY InitChallengeInv, <1>1, <1>2, PTL DEF ChallengeSpec

-----------------------------------------------------------------------------
(* Hardware trust is vouched for wherever it is kept: on a connection, in  *)
(* a snapshot under way, in a row of the table.                            *)
Vouched(rec) == rec \in ProviderRecord /\ rec.failed = 0 /\ (rec.trust = TrustHardware => confirmed)

Believed(p) == p \in Provider /\ p.failed = 0 /\ (p.trust = TrustHardware => confirmed)

TableInv ==
    /\ DOMAIN live = Ids /\ \A c \in Ids : Believed(live[c])
    /\ \A s \in snaps : s.id \in Ids /\ Vouched(s.rec)
    /\ DOMAIN table = Ids /\ \A c \in Ids : Vouched(table[c])
    /\ stored \in Restorable(confirmed) \cup {NoRecord}

LEMMA NothingIsVouched == Vouched(NoRecord) /\ Believed(NewProvider)
  BY Zenon DEF Vouched, NoRecord, ProviderRecord, TrustLevels, TrustNone, TrustHardware, TimeStamps,
         Believed, NewProvider, Provider

(* A confirmation takes nothing back.                                      *)
LEMMA ConfirmationKeepsInv ==
    ASSUME TableInv, confirmed => confirmed'
    PROVE  /\ \A rec : Vouched(rec) => Vouched(rec)'
           /\ \A p : Believed(p) => Believed(p)'
           /\ stored \in (Restorable(confirmed) \cup {NoRecord})'
<1>1. \A rec : Vouched(rec) => Vouched(rec)'
  BY Zenon DEF Vouched
<1>2. \A p : Believed(p) => Believed(p)'
  BY Zenon DEF Believed
<1>3. stored \in (Restorable(confirmed) \cup {NoRecord})'
  BY Zenon DEF TableInv, Restorable
<1> QED
  BY <1>1, <1>2, <1>3, Zenon

LEMMA ConnectionKeepsInv ==
    ASSUME TableInv, NEW c \in Ids, NEW p, Believed(p)',
           live' = [live EXCEPT ![c] = p], confirmed => confirmed',
           UNCHANGED <<snaps, table, stored>>
    PROVE  TableInv'
  BY ConfirmationKeepsInv, Zenon DEF TableInv

LEMMA StoreStepKeepsInv == TableInv /\ [StoreNext]_storeVars => TableInv'
<1> SUFFICES ASSUME TableInv, [StoreNext]_storeVars PROVE TableInv'
  BY Zenon
<1>0. \A c \in Ids : live[c] \in Provider /\ Believed(live[c])
  BY Zenon DEF TableInv, Believed
<1>1. ASSUME NEW c \in Ids, Joins(c) \/ Leaves(c) PROVE TableInv'
  BY <1>1 DEF Joins, Leaves, TableInv, Believed, Vouched
<1>2. ASSUME NEW c \in Ids, NEW res \in {"none", "invalid", "valid"}, IsAttested(c, res)
      PROVE  TableInv'
  <2> DEFINE p == TrustOf(Attested(live[c], res, FALSE, TRUE))
  <2>1. p \in Provider /\ p.failed = 0 /\ p.trust \in {live[c].trust, TrustSelfSigned}
    BY <1>0, ZenonT(40) DEF TrustOf, Attested, Provider, TrustLevels, TrustSelfSigned, TimeStamps
  <2>2. Believed(p)
    BY <1>0, <2>1, Zenon DEF Believed, TrustSelfSigned, TrustHardware
  <2>3. /\ live' = [live EXCEPT ![c] = p] /\ confirmed' = confirmed
        /\ UNCHANGED <<snaps, table, stored>>
    BY <1>2, Zenon DEF IsAttested
  <2> HIDE DEF p
  <2> QED
    BY <2>2, <2>3, ConfirmationKeepsInv, ConnectionKeepsInv, Zenon
<1>3. ASSUME NEW c \in Ids, RestoreProviderState(c) PROVE TableInv'
  <2>1. CASE UNCHANGED live
    BY <1>3, <2>1, Zenon DEF RestoreProviderState, TableInv, Believed, Vouched
  <2>2. CASE stored # NoRecord /\ live' = [live EXCEPT ![c] = TrustOf(Restored(live[c], stored, "recent"))]
    <3> DEFINE p == TrustOf(Restored(live[c], stored, "recent"))
    <3>1. stored.trust \in TrustLevels /\ (stored.trust = TrustHardware => confirmed)
      BY <2>2, Zenon DEF TableInv, Restorable
    <3>2. p \in Provider /\ p.failed = 0 /\ p.trust = stored.trust
      <4>1. stored.failed \in Nat
        <5>1. stored.failed \in 0..MaxFailedChallenges
          BY <2>2, Zenon DEF TableInv, Restorable
        <5> QED
          BY <5>1, MaxFailedAssumption
      <4>2. PICK q : q = Restored(live[c], stored, "recent")
        BY Zenon
      <4>3. q \in Provider /\ q.trust = stored.trust
        BY <1>0, <3>1, <4>1, <4>2, Zenon DEF Restored, Provider, TimeStamps
      <4>4. TrustOf(q) \in Provider /\ TrustOf(q).failed = 0 /\ TrustOf(q).trust = q.trust
        BY <4>3, Zenon DEF TrustOf, Provider, TimeStamps
      <4> QED
        BY <4>2, <4>3, <4>4, Zenon
    <3>3. Believed(p)
      BY <3>1, <3>2, Zenon DEF Believed
    <3>4. /\ live' = [live EXCEPT ![c] = p] /\ confirmed' = confirmed
          /\ UNCHANGED <<snaps, table, stored>>
      BY <1>3, <2>2, Zenon DEF RestoreProviderState
    <3> HIDE DEF p
    <3> QED
      BY <3>3, <3>4, ConfirmationKeepsInv, ConnectionKeepsInv, Zenon
  <2> QED
    BY <1>3, <2>1, <2>2, Zenon DEF RestoreProviderState
<1>4. ASSUME NEW c \in Ids, AcmeVerified(c) \/ MDMVerified(c) PROVE TableInv'
  <2>1. CASE UNCHANGED <<live, confirmed>>
    BY <1>4, <2>1, Zenon DEF AcmeVerified, MDMVerified, TableInv, Believed, Vouched
  <2>2. CASE live' = [live EXCEPT ![c].trust = TrustHardware] /\ confirmed' = TRUE
    <3>0. PICK p : p = [live[c] EXCEPT !.trust = TrustHardware]
      BY Zenon
    <3>1. p \in Provider /\ p.failed = 0
      BY <1>0, <3>0, Zenon DEF Believed, Provider, TrustLevels, TrustHardware
    <3>2. Believed(p)' /\ live' = [live EXCEPT ![c] = p]
      BY <2>2, <3>0, <3>1, Zenon DEF Believed, TableInv
    <3>3. UNCHANGED <<snaps, table, stored>>
      BY <1>4, Zenon DEF AcmeVerified, MDMVerified
    <3> QED
      BY <2>2, <3>2, <3>3, ConnectionKeepsInv, Zenon
  <2> QED
    BY <1>4, <2>1, <2>2, Zenon DEF AcmeVerified, MDMVerified
<1>5. ASSUME NEW c \in Ids, TakeSnapshot(c) PROVE TableInv'
  <2>1. Vouched(Snapshot(live[c]))
    BY <1>0, Zenon DEF Snapshot, Vouched, Believed, Provider, ProviderRecord
  <2>2. /\ snaps' = snaps \cup {[id |-> c, rec |-> Snapshot(live[c])]}
        /\ live' = live /\ table' = table /\ stored' = stored /\ confirmed' = confirmed
    BY <1>5, Zenon DEF TakeSnapshot
  <2>3. ASSUME NEW s \in snaps' PROVE s.id \in Ids /\ Vouched(s.rec)
    BY <1>0, <2>1, <2>2 DEF TableInv
  <2> QED
    BY <1>0, <2>2, <2>3, Zenon DEF TableInv, Believed, Vouched
<1>6. ASSUME NEW s \in snaps, UpsertProvider(s) PROVE TableInv'
  BY <1>6, Zenon DEF UpsertProvider, TableInv, Believed, Vouched
<1>7. CASE Restart
  <2>1. stored' \in Restorable(confirmed) \cup {NoRecord}
    <3>1. ASSUME NEW c \in Ids, table[c].serial PROVE table[c] \in Restorable(confirmed)
      <4>1. Vouched(table[c])
        BY Zenon DEF TableInv
      <4>2. PICK rec : rec = table[c]
        BY Zenon
      <4>3. rec \in ProviderRecord /\ rec.serial \in {TRUE}
        BY <3>1, <4>1, <4>2, Zenon DEF Vouched, ProviderRecord
      <4>4. rec.failed \in 0..MaxFailedChallenges
        BY <4>1, <4>2, MaxFailedAssumption DEF Vouched
      <4>5. rec \in [trust : TrustLevels, last : TimeStamps, failed : 0..MaxFailedChallenges, serial : {TRUE}]
        BY <4>3, <4>4, Zenon DEF ProviderRecord
      <4> QED
        BY <4>1, <4>2, <4>5, Zenon DEF Vouched, Restorable
    <3> QED
      BY <1>7, <3>1, Zenon DEF Restart, LoadStoredProviders
  <2> QED
    BY <1>7, <2>1, NothingIsVouched, Zenon DEF Restart, TableInv, Believed, Vouched
<1>8. CASE UNCHANGED storeVars
  BY <1>8, Zenon DEF storeVars, TableInv, Believed, Vouched
<1> QED
  BY <1>1, <1>2, <1>3, <1>4, <1>5, <1>6, <1>7, <1>8, Zenon DEF StoreNext

(* For any number of connections, late snapshots and restarts, hardware    *)
(* trust on a connection, and in the record a restart restores, goes back  *)
(* to a confirmation by MDM or ACME, and the record is one of those the    *)
(* model of a connection allows for (registry.go, persistProvider and      *)
(* LoadStoredProviders).                                                   *)
THEOREM TrustHolds == TableSpec => []TrustIsEarned
<1>1. StoreInit => TableInv
  BY NothingIsVouched, ZenonT(40) DEF StoreInit, TableInv
<1>2. TableInv => TrustIsEarned
  BY Zenon DEF TableInv, TrustIsEarned, Believed
<1> QED
  BY <1>1, <1>2, StoreStepKeepsInv, PTL DEF TableSpec

-----------------------------------------------------------------------------
(* Telemetry, for any number of threads, events and kills: an event is     *)
(* sent, on disk, in a buffer, or was dropped where the code says so, and  *)
(* the file stays within its bound, by a count of the threads.             *)

Labels == {"free", "select", "push", "rotate", "append", "rewrite", "send"}

TelTyped ==
    /\ emitted \in Nat /\ queue \in Seq(Nat) /\ buffer \in Seq(Nat) /\ batch \in Seq(Nat)
    /\ disk \in Seq(Nat) /\ tmp \in Seq(Nat) /\ hasTmp \in BOOLEAN
    /\ todo \in [Crew -> Seq(Nat)] /\ tlpc \in [Crew -> Labels]

(* A thread that is not pushing has nothing left to push, and one past its *)
(* check has; the worker's batch is empty while it waits or pushes.        *)
HandsEmpty ==
    /\ \A t \in Crew : tlpc[t] \in {"free", "select", "send", "rewrite"} => todo[t] = <<>>
    /\ \A t \in Crew : tlpc[t] \in {"rotate", "append"} => todo[t] # <<>>
    /\ tlpc["worker"] \in {"select", "push", "rotate", "append"} => batch = <<>>

(* The threads that are past their check of the size.                      *)
Appending == {t \in Crew : tlpc[t] = "append"}

(* The file, or what is about to replace it, leaves room for a line of     *)
(* every thread that is past its check.                                    *)
RoomLeft ==
    /\ Len(disk) + Cardinality(Appending) <= MaxLines + Cardinality(Crew)
    /\ hasTmp => \/ Len(tmp) <= MaxLines
                 \/ /\ Len(disk) > MaxLines
                    /\ Len(tmp) + Cardinality(Appending) < MaxLines + Cardinality(Crew)

(* Where an event is.                                                      *)
Held(e) ==
    \/ e \in sent \/ e \in gone \/ e \in Range(queue) \/ e \in Range(buffer) \/ e \in Range(batch)
    \/ e \in Range(disk) \/ \E t \in Crew : e \in Range(todo[t])

(* Why the disk queue keeps its promise.                                   *)
TelInv == TelTyped /\ HandsEmpty /\ RoomLeft /\ \A e \in 1..emitted : Held(e)

-----------------------------------------------------------------------------
(* Sequences and their elements.                                           *)

LEMMA EmptyRange == Range(<<>>) = {}
BY DEF Range

LEMMA AppendRange ==
    ASSUME NEW s \in Seq(Nat), NEW x \in Nat
    PROVE  /\ Append(s, x) \in Seq(Nat) /\ Len(Append(s, x)) = Len(s) + 1
           /\ \A e : e \in Range(s) \/ e = x => e \in Range(Append(s, x))
<1>1. /\ Append(s, x) \in Seq(Nat) /\ Len(Append(s, x)) = Len(s) + 1
      /\ \A i \in DOMAIN s : i \in DOMAIN Append(s, x) /\ Append(s, x)[i] = s[i]
      /\ Len(s) + 1 \in DOMAIN Append(s, x) /\ Append(s, x)[Len(s) + 1] = x
  OBVIOUS
<1> QED
  BY <1>1, ZenonT(40) DEF Range

LEMMA TailRange ==
    ASSUME NEW s \in Seq(Nat), s # <<>>
    PROVE  /\ Tail(s) \in Seq(Nat) /\ Head(s) \in Nat /\ Len(s) > 0
           /\ \A e \in Range(s) : e = Head(s) \/ e \in Range(Tail(s))
<1>1. Tail(s) \in Seq(Nat) /\ Head(s) \in Nat /\ Head(s) = s[1] /\ Len(s) > 0
  OBVIOUS
<1>2. ASSUME NEW i \in DOMAIN s, i # 1 PROVE \E j \in DOMAIN Tail(s) : Tail(s)[j] = s[i]
  <2>1. i \in 2..Len(s)
    BY <1>2
  <2>2. PICK j \in Nat : j = i - 1
    BY <2>1
  <2>3. j \in DOMAIN Tail(s) /\ Tail(s)[j] = s[i]
    BY <2>1, <2>2
  <2> QED
    BY <2>3, Zenon
<1> QED
  BY <1>1, <1>2, ZenonT(40) DEF Range

LEMMA SubSeqLen ==
    ASSUME NEW s \in Seq(Nat), NEW m \in Nat, m >= 1
    PROVE  /\ SubSeq(s, m, Len(s)) \in Seq(Nat)
           /\ Len(SubSeq(s, m, Len(s))) = IF m <= Len(s) THEN Len(s) - m + 1 ELSE 0
OBVIOUS

-----------------------------------------------------------------------------

(* The threads and their number.                                           *)

LEMMA CrewFinite == IsFiniteSet(Crew) /\ Cardinality(Crew) \in Nat /\ "worker" \in Crew
BY TelemetryAssumption, FS_AddElement, FS_CardinalityType, Zenon DEF Crew

LEMMA AppendingType ==
    /\ IsFiniteSet(Appending) /\ Cardinality(Appending) \in Nat /\ Cardinality(Appending) <= Cardinality(Crew)
BY CrewFinite, FS_Subset, FS_CardinalityType, Zenon DEF Appending

(* A thread that moves comes to the threads past their check, or leaves    *)
(* them.                                                                   *)
LEMMA AppendingMoves ==
    ASSUME TelTyped, NEW t \in Crew, NEW l \in Labels, tlpc' = [tlpc EXCEPT ![t] = l]
    PROVE  /\ Cardinality(Appending)' \in Nat /\ Cardinality(Appending)' <= Cardinality(Crew)
           /\ Cardinality(Appending)' = Cardinality(Appending)
                + (IF l = "append" THEN 1 ELSE 0) - (IF tlpc[t] = "append" THEN 1 ELSE 0)
<1>1. /\ tlpc'[t] = l /\ \A u \in Crew : u # t => tlpc'[u] = tlpc[u]
  BY Zenon DEF TelTyped
<1>2. Appending' = IF l = "append" THEN Appending \cup {t} ELSE Appending \ {t}
  BY <1>1, Zenon DEF Appending
<1>3. t \in Appending <=> tlpc[t] = "append"
  BY Zenon DEF Appending
<1> DEFINE A == Appending
           B == Appending'
<1>4. IsFiniteSet(A) /\ Cardinality(A) \in Nat
  BY AppendingType, Zenon
<1>5. B \in SUBSET Crew
  BY Zenon DEF Appending
<1>6. Cardinality(B) \in Nat /\ Cardinality(B) <= Cardinality(Crew)
  <2> HIDE DEF B
  <2> QED
    BY <1>5, CrewFinite, FS_Subset, FS_CardinalityType, Zenon
<1>7. B = (IF l = "append" THEN A \cup {t} ELSE A \ {t}) /\ (t \in A <=> tlpc[t] = "append")
  BY <1>2, <1>3, Zenon
<1> HIDE DEF A, B
<1>8. Cardinality(B) = Cardinality(A) + (IF l = "append" THEN 1 ELSE 0) - (IF tlpc[t] = "append" THEN 1 ELSE 0)
  <2>1. Cardinality(A \cup {t}) = IF t \in A THEN Cardinality(A) ELSE Cardinality(A) + 1
    BY <1>4, FS_AddElement, Zenon
  <2>2. Cardinality(A \ {t}) = IF t \in A THEN Cardinality(A) - 1 ELSE Cardinality(A)
    BY <1>4, FS_RemoveElement, Zenon
  <2> QED
    BY <1>4, <1>7, <2>1, <2>2
<1> QED
  BY <1>6, <1>8, Zenon DEF A, B

LEMMA StaysOut ==
    ASSUME TelTyped, NEW t \in Crew, NEW l \in Labels, tlpc' = [tlpc EXCEPT ![t] = l],
           l # "append", tlpc[t] # "append"
    PROVE  Cardinality(Appending)' \in Nat /\ Cardinality(Appending)' = Cardinality(Appending)
<1>1. Cardinality(Appending) \in Nat
  BY AppendingType, Zenon
<1>2. Cardinality(Appending)' = Cardinality(Appending) + 0 - 0
  BY AppendingMoves, Zenon
<1> QED
  BY <1>1, <1>2

-----------------------------------------------------------------------------
(* The steps.                                                              *)

LEMMA TelInitInv == TelInit => TelInv
<1> SUFFICES ASSUME TelInit PROVE TelInv
  BY Zenon
<1>1. TelTyped
  <2>1. tlpc \in [Crew -> Labels]
    BY Zenon DEF TelInit, Labels
  <2>2. <<>> \in Seq(Nat)
    OBVIOUS
  <2> QED
    BY <2>1, <2>2, Zenon DEF TelInit, TelTyped
<1>2. HandsEmpty
  BY CrewFinite, Zenon DEF TelInit, HandsEmpty
<1>3. RoomLeft
  <2>1. Appending = {}
    BY Zenon DEF TelInit, Appending
  <2>2. Cardinality(Appending) = 0 /\ MaxLines \in Nat
    BY <2>1, FS_EmptySet, TelemetryAssumption, ZenonT(40)
  <2> QED
    BY <2>2, CrewFinite DEF TelInit, RoomLeft
<1> QED
  BY <1>1, <1>2, <1>3 DEF TelInit, TelInv

(* Room stays while the files do and no thread passes its check.           *)
LEMMA RoomStays ==
    ASSUME TelTyped, RoomLeft, UNCHANGED onDisk,
           Cardinality(Appending)' \in Nat, Cardinality(Appending)' <= Cardinality(Appending)
    PROVE  RoomLeft'
<1>1. Len(disk) \in Nat /\ Len(tmp) \in Nat /\ disk' = disk /\ tmp' = tmp /\ hasTmp' = hasTmp
  BY DEF TelTyped, onDisk
<1>2. MaxLines \in Nat /\ Cardinality(Crew) \in Nat /\ Cardinality(Appending) \in Nat
  BY CrewFinite, AppendingType, TelemetryAssumption, Zenon
<1> QED
  BY <1>1, <1>2 DEF RoomLeft

LEMMA SendKeeps ==
    ASSUME TelInv, NEW p \in Producers, Send(p) PROVE TelInv'
<1>1. TelTyped /\ HandsEmpty /\ RoomLeft /\ (\A e \in 1..emitted : Held(e)) /\ p \in Crew /\ p # "worker"
  BY TelemetryAssumption, ZenonT(40) DEF TelInv, Crew
<1>2. /\ tlpc[p] = "free" /\ emitted' = emitted + 1 /\ emitted' \in Nat
      /\ UNCHANGED <<buffer, batch, onDisk, sent, gone>>
  BY <1>1 DEF Send, TelTyped
<1>3. \A e \in 1..emitted' : e = emitted' \/ e \in 1..emitted
  BY <1>1, <1>2 DEF TelTyped
<1>4. CASE queue' = Append(queue, emitted') /\ UNCHANGED <<tlpc, todo>>
  <2>1. queue' \in Seq(Nat) /\ \A e : e \in Range(queue) \/ e = emitted' => e \in Range(queue')
    BY <1>1, <1>2, <1>4, AppendRange, Zenon DEF TelTyped
  <2>2. TelTyped'
    BY <1>1, <1>2, <1>4, <2>1, ZenonT(40) DEF TelTyped, onDisk
  <2>3. HandsEmpty'
    BY <1>1, <1>2, <1>4, ZenonT(40) DEF HandsEmpty
  <2>4. RoomLeft'
    BY <1>1, <1>2, <1>4, AppendingType, ZenonT(40) DEF RoomLeft, onDisk, Appending
  <2>5. \A e \in 1..emitted' : Held(e)'
    BY <1>1, <1>2, <1>3, <1>4, <2>1, ZenonT(40) DEF Held, onDisk
  <2> QED
    BY <2>2, <2>3, <2>4, <2>5, Zenon DEF TelInv
<1>5. CASE tlpc' = [tlpc EXCEPT ![p] = "push"] /\ todo' = [todo EXCEPT ![p] = <<emitted'>>] /\ queue' = queue
  <2>1. <<emitted'>> \in Seq(Nat) /\ emitted' \in Range(<<emitted'>>) /\ <<emitted'>> # <<>>
    BY <1>2 DEF Range
  <2>2. TelTyped'
    BY <1>1, <1>2, <1>5, <2>1, ZenonT(40) DEF TelTyped, onDisk, Labels
  <2>3. /\ tlpc'[p] = "push" /\ todo'[p] = <<emitted'>> /\ todo[p] = <<>>
        /\ \A t \in Crew : t # p => tlpc'[t] = tlpc[t] /\ todo'[t] = todo[t]
    BY <1>1, <1>2, <1>5, Zenon DEF TelTyped, HandsEmpty
  <2>4. HandsEmpty'
    BY <1>1, <1>2, <2>3, CrewFinite, ZenonT(40) DEF HandsEmpty
  <2>5. RoomLeft'
    <3>1. Cardinality(Appending)' \in Nat /\ Cardinality(Appending)' = Cardinality(Appending)
      BY <1>1, <1>2, <1>5, StaysOut, ZenonT(40) DEF Labels
    <3> QED
      BY <1>1, <1>2, <3>1, RoomStays
  <2>6. \A e \in 1..emitted' : Held(e)'
    BY <1>1, <1>2, <1>3, <1>5, <2>1, <2>3, EmptyRange, ZenonT(40) DEF Held, onDisk
  <2> QED
    BY <2>2, <2>4, <2>5, <2>6, ZenonT(40) DEF TelInv
<1> QED
  BY <1>4, <1>5, Zenon DEF Send, Step

(* What rotation and drain write to the temporary file is shorter.         *)
LEMMA ShorterFits ==
    ASSUME TelTyped, RoomLeft, disk' = disk, hasTmp' = TRUE, Len(tmp') \in Nat, Len(tmp') < Len(disk) \/ Len(tmp') <= MaxLines,
           Cardinality(Appending)' = Cardinality(Appending)
    PROVE  RoomLeft'
<1>1. Len(disk) \in Nat /\ MaxLines \in Nat /\ Cardinality(Crew) \in Nat /\ Cardinality(Appending) \in Nat
  BY CrewFinite, AppendingType, TelemetryAssumption DEF TelTyped
<1> QED
  BY <1>1 DEF RoomLeft

(* The temporary file takes the place of the file: there is room for one   *)
(* thread more.                                                            *)
LEMMA RenamedFits ==
    ASSUME TelTyped, RoomLeft, hasTmp, disk' = tmp, hasTmp' = FALSE, Cardinality(Appending)' \in Nat,
           Cardinality(Appending)' <= Cardinality(Appending) + 1, Cardinality(Appending)' <= Cardinality(Crew)
    PROVE  RoomLeft'
<1>1. /\ Len(disk) \in Nat /\ Len(tmp) \in Nat
      /\ MaxLines \in Nat /\ Cardinality(Crew) \in Nat /\ Cardinality(Appending) \in Nat
  BY CrewFinite, AppendingType, TelemetryAssumption DEF TelTyped
<1> QED
  BY <1>1 DEF RoomLeft

LEMMA CheckSizeKeeps ==
    ASSUME TelInv, NEW t \in Crew, CheckSize(t) PROVE TelInv'
<1>1. TelTyped /\ HandsEmpty /\ RoomLeft /\ (\A e \in 1..emitted : Held(e))
  BY Zenon DEF TelInv
<1>2. /\ tlpc[t] = "push" /\ todo[t] # <<>> /\ disk' = disk
      /\ UNCHANGED <<emitted, queue, buffer, batch, todo, sent, gone>>
  BY Zenon DEF CheckSize, memory_, onDisk
<1>3. \A e \in 1..emitted' : Held(e)'
  BY <1>1, <1>2, Zenon DEF Held
<1>4. PICK l \in {"rotate", "append"} : tlpc' = [tlpc EXCEPT ![t] = l]
  BY Zenon DEF CheckSize, Step
<1>5. tlpc'[t] = l /\ \A u \in Crew : u # t => tlpc'[u] = tlpc[u]
  BY <1>1, <1>4, Zenon DEF TelTyped
<1>6. HandsEmpty'
  BY <1>1, <1>2, <1>5, CrewFinite, ZenonT(40) DEF HandsEmpty
<1>7. CASE Len(disk) > MaxLines
  <2>1. /\ tmp' = NewestHalf(disk) /\ hasTmp' = TRUE /\ tlpc' = [tlpc EXCEPT ![t] = "rotate"]
    BY <1>7, ZenonT(40) DEF CheckSize, Step
  <2>2. Len(disk) \in Nat /\ Len(disk) > 0 /\ disk \in Seq(Nat)
    BY <1>1, <1>7, TelemetryAssumption DEF TelTyped
  <2>3. PICK m \in Nat : m = (Len(disk) \div 2) + 2 /\ m >= 2
    BY <2>2
  <2>4. tmp' = SubSeq(disk, m, Len(disk))
    BY <2>1, <2>3, Zenon DEF NewestHalf
  <2>5. tmp' \in Seq(Nat) /\ Len(tmp') \in Nat /\ Len(tmp') < Len(disk)
    <3>1. /\ tmp' \in Seq(Nat)
          /\ Len(tmp') = IF m <= Len(disk) THEN Len(disk) - m + 1 ELSE 0
      <4>1. m >= 1
        BY <2>3
      <4> QED
        BY <2>2, <2>4, <4>1, SubSeqLen, Zenon
    <3> QED
      BY <2>2, <2>3, <3>1
  <2>6. TelTyped'
    BY <1>1, <1>2, <2>1, <2>5, ZenonT(40) DEF TelTyped, Labels
  <2>7. Cardinality(Appending)' = Cardinality(Appending)
    BY <1>1, <1>2, <2>1, StaysOut, ZenonT(40) DEF Labels
  <2>8. RoomLeft'
    BY <1>1, <1>2, <2>1, <2>5, <2>7, ShorterFits, ZenonT(40)
  <2> QED
    BY <1>3, <1>6, <2>6, <2>8, ZenonT(40) DEF TelInv
<1>8. CASE ~(Len(disk) > MaxLines)
  <2>1. tlpc' = [tlpc EXCEPT ![t] = "append"] /\ tmp' = tmp /\ hasTmp' = hasTmp
    BY <1>8, Zenon DEF CheckSize, Step, onDisk
  <2>2. TelTyped'
    BY <1>1, <1>2, <2>1, Zenon DEF TelTyped, Labels
  <2>3. /\ Cardinality(Appending)' \in Nat /\ Cardinality(Appending)' <= Cardinality(Crew)
    BY <1>1, <2>1, AppendingMoves, ZenonT(40) DEF Labels
  <2>4. Len(disk) \in Nat /\ MaxLines \in Nat /\ Cardinality(Crew) \in Nat
    BY <1>1, CrewFinite, TelemetryAssumption DEF TelTyped
  <2>5. RoomLeft'
    BY <1>1, <1>2, <1>8, <2>1, <2>3, <2>4 DEF RoomLeft
  <2> QED
    BY <1>3, <1>6, <2>2, <2>5, Zenon DEF TelInv
<1> QED
  BY <1>7, <1>8, Zenon

LEMMA RotateKeeps ==
    ASSUME TelInv, NEW t \in Crew, Rotate(t) PROVE TelInv'
<1>1. TelTyped /\ HandsEmpty /\ RoomLeft /\ (\A e \in 1..emitted : Held(e))
  BY Zenon DEF TelInv
<1>2. tlpc[t] = "rotate" /\ todo[t] # <<>> /\ UNCHANGED <<emitted, queue, buffer, batch, sent>>
  BY <1>1, Zenon DEF Rotate, memory_, HandsEmpty
<1>3. CASE hasTmp
  <2>1. /\ disk' = tmp /\ tmp' = <<>> /\ hasTmp' = FALSE /\ tlpc' = [tlpc EXCEPT ![t] = "append"]
        /\ gone' = gone \union (Range(disk) \ Range(tmp)) /\ todo' = todo
    BY <1>3, Zenon DEF Rotate, Step
  <2>2. TelTyped'
    <3>1. <<>> \in Seq(Nat) /\ "append" \in Labels
      BY DEF Labels
    <3> QED
      BY <1>1, <1>2, <2>1, <3>1, ZenonT(40) DEF TelTyped
  <2>3. tlpc'[t] = "append" /\ \A u \in Crew : u # t => tlpc'[u] = tlpc[u]
    BY <1>1, <2>1, Zenon DEF TelTyped
  <2>4. HandsEmpty'
    BY <1>1, <1>2, <2>1, <2>3, CrewFinite, ZenonT(40) DEF HandsEmpty
  <2>5. /\ Cardinality(Appending)' \in Nat /\ Cardinality(Appending)' <= Cardinality(Crew)
        /\ Cardinality(Appending)' = Cardinality(Appending) + 1 - 0
    BY <1>1, <1>2, <2>1, AppendingMoves, Zenon DEF Labels
  <2>6. RoomLeft'
    <3>1. Cardinality(Appending)' <= Cardinality(Appending) + 1
      BY <2>5, AppendingType
    <3> QED
      BY <1>1, <1>3, <2>1, <2>5, <3>1, RenamedFits, ZenonT(40)
  <2>7. \A e \in 1..emitted' : Held(e)'
    BY <1>1, <1>2, <2>1, Zenon DEF Held
  <2> QED
    BY <2>2, <2>4, <2>6, <2>7, Zenon DEF TelInv
<1>4. CASE ~hasTmp
  <2>1. /\ gone' = gone \union {Head(todo[t])} /\ tlpc' = [tlpc EXCEPT ![t] = "push"]
        /\ todo' = [todo EXCEPT ![t] = Tail(todo[t])] /\ UNCHANGED <<disk, tmp, hasTmp>>
    BY <1>4, Zenon DEF Rotate, Step, onDisk
  <2>2. /\ Tail(todo[t]) \in Seq(Nat)
        /\ \A e \in Range(todo[t]) : e = Head(todo[t]) \/ e \in Range(Tail(todo[t]))
    BY <1>1, <1>2, TailRange, Zenon DEF TelTyped
  <2>3. TelTyped'
    BY <1>1, <1>2, <2>1, <2>2, ZenonT(40) DEF TelTyped, Labels
  <2>4. /\ tlpc'[t] = "push" /\ todo'[t] = Tail(todo[t])
        /\ \A u \in Crew : u # t => tlpc'[u] = tlpc[u] /\ todo'[u] = todo[u]
    BY <1>1, <2>1, Zenon DEF TelTyped
  <2>5. HandsEmpty'
    BY <1>1, <1>2, <2>4, CrewFinite, ZenonT(40) DEF HandsEmpty
  <2>6. RoomLeft'
    <3>1. Cardinality(Appending)' \in Nat /\ Cardinality(Appending)' = Cardinality(Appending)
      BY <1>1, <1>2, <2>1, StaysOut, ZenonT(40) DEF Labels
    <3> QED
      BY <1>1, <2>1, <3>1, RoomStays DEF onDisk
  <2>7. \A e \in 1..emitted' : Held(e)'
    BY <1>1, <1>2, <2>1, <2>2, <2>4, ZenonT(40) DEF Held
  <2> QED
    BY <2>3, <2>5, <2>6, <2>7, ZenonT(40) DEF TelInv
<1> QED
  BY <1>3, <1>4, Zenon

LEMMA AppendLineKeeps ==
    ASSUME TelInv, NEW t \in Crew, AppendLine(t) PROVE TelInv'
<1>1. TelTyped /\ HandsEmpty /\ RoomLeft /\ (\A e \in 1..emitted : Held(e))
  BY Zenon DEF TelInv
<1>2. /\ tlpc[t] = "append" /\ todo[t] # <<>> /\ tlpc' = [tlpc EXCEPT ![t] = "push"]
      /\ disk' = Append(disk, Head(todo[t])) /\ todo' = [todo EXCEPT ![t] = Tail(todo[t])]
      /\ UNCHANGED <<emitted, queue, buffer, batch, tmp, hasTmp, sent, gone>>
  BY <1>1, Zenon DEF AppendLine, memory_, HandsEmpty, Step
<1>3. /\ Tail(todo[t]) \in Seq(Nat) /\ Head(todo[t]) \in Nat
      /\ \A e \in Range(todo[t]) : e = Head(todo[t]) \/ e \in Range(Tail(todo[t]))
  BY <1>1, <1>2, TailRange, ZenonT(40) DEF TelTyped
<1>4. /\ disk' \in Seq(Nat) /\ Len(disk') = Len(disk) + 1 /\ Len(disk) \in Nat
      /\ \A e : e \in Range(disk) \/ e = Head(todo[t]) => e \in Range(disk')
  BY <1>1, <1>2, <1>3, AppendRange DEF TelTyped
<1>5. TelTyped'
  BY <1>1, <1>2, <1>3, <1>4, ZenonT(40) DEF TelTyped, Labels
<1>6. /\ tlpc'[t] = "push" /\ todo'[t] = Tail(todo[t])
      /\ \A u \in Crew : u # t => tlpc'[u] = tlpc[u] /\ todo'[u] = todo[u]
  BY <1>1, <1>2, Zenon DEF TelTyped
<1>7. HandsEmpty'
  BY <1>1, <1>2, <1>6, CrewFinite, ZenonT(40) DEF HandsEmpty
<1>8. RoomLeft'
  <2>1. Cardinality(Appending)' \in Nat /\ Cardinality(Appending)' = Cardinality(Appending) + 0 - 1
    BY <1>1, <1>2, AppendingMoves, ZenonT(40) DEF Labels
  <2>2. MaxLines \in Nat /\ Cardinality(Crew) \in Nat /\ Cardinality(Appending) \in Nat /\ Len(tmp) \in Nat
    BY <1>1, CrewFinite, AppendingType, TelemetryAssumption DEF TelTyped
  <2>3. /\ Len(disk) + Cardinality(Appending) <= MaxLines + Cardinality(Crew)
        /\ hasTmp => \/ Len(tmp) <= MaxLines
                     \/ /\ Len(disk) > MaxLines
                        /\ Len(tmp) + Cardinality(Appending) < MaxLines + Cardinality(Crew)
    BY <1>1, Zenon DEF RoomLeft
  <2>4. Len(disk') + Cardinality(Appending)' <= MaxLines + Cardinality(Crew)
    BY <1>4, <2>1, <2>2, <2>3
  <2>5. hasTmp' => \/ Len(tmp') <= MaxLines
                   \/ /\ Len(disk') > MaxLines
                      /\ Len(tmp') + Cardinality(Appending)' < MaxLines + Cardinality(Crew)
    <3>1. tmp' = tmp /\ hasTmp' = hasTmp
      BY <1>2, Zenon
    <3>2. Len(disk') = Len(disk) + 1 /\ Len(disk) \in Nat
      BY <1>4, ZenonT(40)
    <3> QED
      BY <2>1, <2>2, <2>3, <3>1, <3>2
  <2> QED
    BY <2>4, <2>5, Zenon DEF RoomLeft
<1>9. \A e \in 1..emitted' : Held(e)'
  BY <1>1, <1>2, <1>3, <1>4, <1>6, ZenonT(40) DEF Held
<1> QED
  BY <1>5, <1>7, <1>8, <1>9, ZenonT(40) DEF TelInv

LEMMA PushedKeeps ==
    ASSUME TelInv, NEW t \in Crew, Pushed(t) PROVE TelInv'
<1>1. TelTyped /\ HandsEmpty /\ RoomLeft /\ (\A e \in 1..emitted : Held(e))
  BY Zenon DEF TelInv
<1>2. PICK l \in {"select", "free"} : tlpc' = [tlpc EXCEPT ![t] = l]
  BY Zenon DEF Pushed, Step
<1>3. tlpc[t] = "push" /\ todo[t] = <<>> /\ UNCHANGED <<emitted, queue, buffer, batch, onDisk, todo, sent, gone>>
  BY Zenon DEF Pushed, memory_
<1>4. tlpc'[t] = l /\ \A u \in Crew : u # t => tlpc'[u] = tlpc[u]
  BY <1>1, <1>2, Zenon DEF TelTyped
<1>5. l \in Labels /\ l # "append"
  BY <1>2, Zenon DEF Labels
<1>6. TelTyped'
  BY <1>1, <1>2, <1>3, <1>5, ZenonT(40) DEF TelTyped, onDisk
<1>7. HandsEmpty'
  BY <1>1, <1>3, <1>4, CrewFinite, ZenonT(40) DEF HandsEmpty
<1>8. Cardinality(Appending)' \in Nat /\ Cardinality(Appending)' = Cardinality(Appending)
  BY <1>1, <1>2, <1>3, <1>5, StaysOut, ZenonT(40)
<1>9. RoomLeft'
  BY <1>1, <1>3, <1>8, AppendingType, RoomStays
<1>10. \A e \in 1..emitted' : Held(e)'
  BY <1>1, <1>3, Zenon DEF Held, onDisk
<1> QED
  BY <1>6, <1>7, <1>9, <1>10, ZenonT(40) DEF TelInv

(* The steps of the worker outside a push.                                 *)
LEMMA RecvKeeps ==
    ASSUME TelInv, Recv PROVE TelInv'
<1>1. TelTyped /\ HandsEmpty /\ RoomLeft /\ (\A e \in 1..emitted : Held(e)) /\ "worker" \in Crew
  BY CrewFinite, Zenon DEF TelInv
<1> DEFINE b == Append(buffer, Head(queue))
<1>2. /\ tlpc["worker"] = "select" /\ queue # <<>> /\ queue' = Tail(queue) /\ batch = <<>>
      /\ UNCHANGED <<emitted, onDisk, todo, sent, gone>>
  BY <1>1, Zenon DEF Recv, HandsEmpty
<1>3. /\ queue' \in Seq(Nat) /\ Head(queue) \in Nat
      /\ \A e \in Range(queue) : e = Head(queue) \/ e \in Range(queue')
  BY <1>1, <1>2, TailRange, Zenon DEF TelTyped
<1>4. b \in Seq(Nat) /\ \A e : e \in Range(buffer) \/ e = Head(queue) => e \in Range(b)
  BY <1>1, <1>3, AppendRange, Zenon DEF TelTyped
<1>5. \/ batch' = b /\ buffer' = <<>> /\ tlpc' = [tlpc EXCEPT !["worker"] = "send"]
      \/ buffer' = b /\ batch' = batch /\ tlpc' = tlpc
  BY Zenon DEF Recv, Step
<1> HIDE DEF b
<1>6. \A e \in 1..emitted' : Held(e)'
  BY <1>1, <1>2, <1>3, <1>4, <1>5, EmptyRange, ZenonT(40) DEF Held, onDisk
<1>7. CASE batch' = b /\ buffer' = <<>> /\ tlpc' = [tlpc EXCEPT !["worker"] = "send"]
  <2>1. TelTyped'
    BY <1>1, <1>2, <1>3, <1>4, <1>7 DEF TelTyped, onDisk, Labels
  <2>2. tlpc'["worker"] = "send" /\ \A u \in Crew : u # "worker" => tlpc'[u] = tlpc[u]
    BY <1>1, <1>7, Zenon DEF TelTyped
  <2>3. HandsEmpty'
    BY <1>1, <1>2, <2>2, Zenon DEF HandsEmpty
  <2>4. Cardinality(Appending)' \in Nat /\ Cardinality(Appending)' = Cardinality(Appending)
    BY <1>1, <1>2, <1>7, StaysOut, ZenonT(40) DEF Labels
  <2>5. RoomLeft'
    BY <1>1, <1>2, <2>4, AppendingType, RoomStays
  <2> QED
    BY <1>6, <2>1, <2>3, <2>5, ZenonT(40) DEF TelInv
<1>8. CASE buffer' = b /\ batch' = batch /\ tlpc' = tlpc
  <2>1. TelTyped'
    BY <1>1, <1>2, <1>3, <1>4, <1>8, ZenonT(40) DEF TelTyped, onDisk
  <2>2. HandsEmpty'
    BY <1>1, <1>2, <1>8, ZenonT(40) DEF HandsEmpty
  <2>3. RoomLeft'
    BY <1>1, <1>2, <1>8, Zenon DEF RoomLeft, onDisk, Appending
  <2> QED
    BY <1>6, <2>1, <2>2, <2>3, ZenonT(40) DEF TelInv
<1> QED
  BY <1>5, <1>7, <1>8, Zenon

LEMMA TickKeeps ==
    ASSUME TelInv, Tick PROVE TelInv'
<1>1. TelTyped /\ HandsEmpty /\ RoomLeft /\ (\A e \in 1..emitted : Held(e)) /\ "worker" \in Crew
  BY CrewFinite, Zenon DEF TelInv
<1>2. /\ tlpc["worker"] = "select" /\ batch = <<>> /\ disk' = disk
      /\ UNCHANGED <<emitted, queue, todo, sent, gone>>
  BY <1>1, Zenon DEF Tick, HandsEmpty, onDisk
<1>3. PICK l \in {"send", "rewrite"} : tlpc' = [tlpc EXCEPT !["worker"] = l]
  BY Zenon DEF Tick, Step
<1>4. tlpc'["worker"] = l /\ \A u \in Crew : u # "worker" => tlpc'[u] = tlpc[u]
  BY <1>1, <1>3, Zenon DEF TelTyped
<1>5. HandsEmpty'
  BY <1>1, <1>2, <1>4, Zenon DEF HandsEmpty
<1>6. l \in Labels /\ l # "append"
  BY <1>3, Zenon DEF Labels
<1>7. Cardinality(Appending)' \in Nat /\ Cardinality(Appending)' = Cardinality(Appending)
  BY <1>1, <1>2, <1>3, <1>6, StaysOut, ZenonT(40)
<1>8. CASE batch' = buffer /\ buffer' = <<>> /\ UNCHANGED onDisk
  <2>1. TelTyped'
    <3>1. <<>> \in Seq(Nat)
      OBVIOUS
    <3> QED
      BY <1>1, <1>2, <1>3, <1>6, <1>8, <3>1, ZenonT(40) DEF TelTyped, onDisk
  <2>2. \A e \in 1..emitted' : Held(e)'
    BY <1>1, <1>2, <1>8, EmptyRange DEF Held
  <2>3. RoomLeft'
    BY <1>1, <1>7, <1>8, AppendingType, RoomStays
  <2> QED
    BY <1>5, <2>1, <2>2, <2>3, ZenonT(40) DEF TelInv
<1>9. CASE /\ disk # <<>> /\ hasTmp' = TRUE /\ buffer' = buffer
           /\ LET n == IF Len(disk) < MaxBatch THEN Len(disk) ELSE MaxBatch
              IN  batch' = SubSeq(disk, 1, n) /\ tmp' = SubSeq(disk, n + 1, Len(disk))
  <2>1. Len(disk) \in Nat /\ Len(disk) > 0 /\ MaxBatch \in Nat /\ MaxBatch > 0 /\ disk \in Seq(Nat)
    <3>1. disk # <<>> /\ disk \in Seq(Nat)
      BY <1>1, <1>9, Zenon DEF TelTyped
    <3>2. Len(disk) \in Nat /\ Len(disk) > 0
      BY <3>1
    <3> QED
      BY <3>1, <3>2, TelemetryAssumption, Zenon
  <2> DEFINE k == IF Len(disk) < MaxBatch THEN Len(disk) ELSE MaxBatch
  <2>k. k \in Nat /\ k >= 1 /\ k <= Len(disk)
    BY <2>1
  <2>m. batch' = SubSeq(disk, 1, k) /\ tmp' = SubSeq(disk, k + 1, Len(disk))
    BY <1>9, Zenon
  <2> HIDE DEF k
  <2>2. PICK n \in Nat : /\ n >= 1 /\ n <= Len(disk)
                         /\ batch' = SubSeq(disk, 1, n) /\ tmp' = SubSeq(disk, n + 1, Len(disk))
    BY <2>k, <2>m, Zenon
  <2>3. batch' \in Seq(Nat)
    BY <2>1, <2>2
  <2>4. tmp' \in Seq(Nat) /\ Len(tmp') \in Nat /\ Len(tmp') < Len(disk)
    <3>1. PICK m \in Nat : m = n + 1 /\ m >= 1
      BY <2>2
    <3>2. tmp' = SubSeq(disk, m, Len(disk))
      BY <2>2, <3>1, Zenon
    <3>3. tmp' \in Seq(Nat) /\ Len(tmp') = IF m <= Len(disk) THEN Len(disk) - m + 1 ELSE 0
      BY <2>1, <3>1, <3>2, SubSeqLen, Zenon
    <3> QED
      BY <2>1, <2>2, <3>1, <3>3
  <2>5. TelTyped'
    BY <1>1, <1>2, <1>3, <1>6, <1>9, <2>3, <2>4, ZenonT(40) DEF TelTyped
  <2>6. \A e \in 1..emitted' : Held(e)'
    BY <1>1, <1>2, <1>9, EmptyRange DEF Held
  <2>7. RoomLeft'
    BY <1>1, <1>2, <1>7, <1>9, <2>4, ShorterFits
  <2> QED
    BY <1>5, <2>5, <2>6, <2>7, Zenon DEF TelInv
<1> QED
  BY <1>8, <1>9, Zenon DEF Tick

LEMMA RewriteKeeps ==
    ASSUME TelInv, Rewrite PROVE TelInv'
<1>1. TelTyped /\ HandsEmpty /\ RoomLeft /\ (\A e \in 1..emitted : Held(e)) /\ "worker" \in Crew
  BY CrewFinite, Zenon DEF TelInv
<1>2. /\ tlpc["worker"] = "rewrite" /\ tlpc' = [tlpc EXCEPT !["worker"] = "send"]
      /\ UNCHANGED <<emitted, queue, buffer, batch, todo, sent>>
  BY Zenon DEF Rewrite, memory_, Step
<1>3. tlpc'["worker"] = "send" /\ \A u \in Crew : u # "worker" => tlpc'[u] = tlpc[u]
  BY <1>1, <1>2, Zenon DEF TelTyped
<1>4. HandsEmpty'
  BY <1>1, <1>2, <1>3, Zenon DEF HandsEmpty
<1>5. Cardinality(Appending)' \in Nat /\ Cardinality(Appending)' = Cardinality(Appending)
  BY <1>1, <1>2, StaysOut, Zenon DEF Labels
<1>6. CASE hasTmp
  <2>1. /\ disk' = tmp /\ tmp' = <<>> /\ hasTmp' = FALSE
        /\ gone' = gone \union (Range(disk) \ (Range(tmp) \union Range(batch)))
    BY <1>6, Zenon DEF Rewrite
  <2>2. TelTyped'
    <3>1. <<>> \in Seq(Nat) /\ "send" \in Labels
      BY DEF Labels
    <3> QED
      BY <1>1, <1>2, <2>1, <3>1, ZenonT(40) DEF TelTyped
  <2>3. \A e \in 1..emitted' : Held(e)'
    BY <1>1, <1>2, <2>1, Zenon DEF Held
  <2>4. RoomLeft'
    <3>1. Cardinality(Appending)' <= Cardinality(Appending) + 1 /\ Cardinality(Appending)' <= Cardinality(Crew)
      BY <1>5, AppendingType, CrewFinite
    <3> QED
      BY <1>1, <1>5, <1>6, <2>1, <3>1, RenamedFits, ZenonT(40)
  <2> QED
    BY <1>4, <2>2, <2>3, <2>4, ZenonT(40) DEF TelInv
<1>7. CASE ~hasTmp
  <2>1. UNCHANGED <<onDisk, gone>>
    BY <1>7, Zenon DEF Rewrite
  <2>2. TelTyped'
    BY <1>1, <1>2, <2>1, Zenon DEF TelTyped, Labels, onDisk
  <2>3. \A e \in 1..emitted' : Held(e)'
    BY <1>1, <1>2, <2>1, ZenonT(40) DEF Held, onDisk
  <2>4. RoomLeft'
    BY <1>1, <1>5, <2>1, AppendingType, RoomStays
  <2> QED
    BY <1>4, <2>2, <2>3, <2>4 DEF TelInv
<1> QED
  BY <1>6, <1>7, Zenon

LEMMA SendBatchKeeps ==
    ASSUME TelInv, SendBatch PROVE TelInv'
<1>1. TelTyped /\ HandsEmpty /\ RoomLeft /\ (\A e \in 1..emitted : Held(e)) /\ "worker" \in Crew
  BY CrewFinite, Zenon DEF TelInv
<1>2. /\ tlpc["worker"] = "send" /\ batch' = <<>> /\ todo["worker"] = <<>>
      /\ UNCHANGED <<emitted, queue, buffer, onDisk, gone>>
  BY <1>1, Zenon DEF SendBatch, HandsEmpty
<1>3. CASE sent' = sent \union Range(batch) /\ tlpc' = [tlpc EXCEPT !["worker"] = "select"] /\ todo' = todo
  <2>1. tlpc'["worker"] = "select" /\ \A u \in Crew : u # "worker" => tlpc'[u] = tlpc[u]
    BY <1>1, <1>3, Zenon DEF TelTyped
  <2>2. HandsEmpty'
    BY <1>1, <1>2, <1>3, <2>1, ZenonT(40) DEF HandsEmpty
  <2>3. TelTyped'
    <3>1. <<>> \in Seq(Nat) /\ "select" \in Labels
      BY DEF Labels
    <3> QED
      BY <1>1, <1>2, <1>3, <3>1, ZenonT(40) DEF TelTyped, onDisk
  <2>4. \A e \in 1..emitted' : Held(e)'
    BY <1>1, <1>2, <1>3, Zenon DEF Held, onDisk
  <2>5. Cardinality(Appending)' \in Nat /\ Cardinality(Appending)' = Cardinality(Appending)
    BY <1>1, <1>2, <1>3, StaysOut, ZenonT(40) DEF Labels
  <2>6. RoomLeft'
    BY <1>1, <1>2, <2>5, AppendingType, RoomStays
  <2> QED
    BY <2>2, <2>3, <2>4, <2>6, Zenon DEF TelInv
<1>4. CASE /\ sent' \in {sent, sent \union Range(batch)} /\ tlpc' = [tlpc EXCEPT !["worker"] = "push"]
           /\ todo' = [todo EXCEPT !["worker"] = batch]
  <2>1. /\ tlpc'["worker"] = "push" /\ todo'["worker"] = batch
        /\ \A u \in Crew : u # "worker" => tlpc'[u] = tlpc[u] /\ todo'[u] = todo[u]
    BY <1>1, <1>4, Zenon DEF TelTyped
  <2>2. HandsEmpty'
    BY <1>1, <1>2, <2>1, ZenonT(40) DEF HandsEmpty
  <2>3. TelTyped'
    <3>1. <<>> \in Seq(Nat) /\ "push" \in Labels
      BY DEF Labels
    <3> QED
      BY <1>1, <1>2, <1>4, <3>1, ZenonT(40) DEF TelTyped, onDisk
  <2>4. \A e \in 1..emitted' : Held(e)'
    BY <1>1, <1>2, <1>4, <2>1, EmptyRange, ZenonT(40) DEF Held, onDisk
  <2>5. Cardinality(Appending)' \in Nat /\ Cardinality(Appending)' = Cardinality(Appending)
    BY <1>1, <1>2, <1>4, StaysOut, ZenonT(40) DEF Labels
  <2>6. RoomLeft'
    BY <1>1, <1>2, <2>5, AppendingType, RoomStays
  <2> QED
    BY <2>2, <2>3, <2>4, <2>6, ZenonT(40) DEF TelInv
<1> QED
  BY <1>3, <1>4, Zenon DEF SendBatch, Step

LEMMA CrashTelKeeps ==
    ASSUME TelInv, CrashTel PROVE TelInv'
<1>1. TelTyped /\ RoomLeft /\ (\A e \in 1..emitted : Held(e)) /\ "worker" \in Crew
  BY CrewFinite, Zenon DEF TelInv
<1>2. /\ gone' = gone \union Range(queue) \union Range(buffer) \union Range(batch)
                      \union UNION {Range(todo[t]) : t \in Crew}
      /\ queue' = <<>> /\ buffer' = <<>> /\ batch' = <<>> /\ todo' = [t \in Crew |-> <<>>]
      /\ tlpc' = [t \in Crew |-> IF t = "worker" THEN "select" ELSE "free"]
      /\ UNCHANGED <<emitted, onDisk, sent>>
  BY Zenon DEF CrashTel
<1>3. TelTyped'
  <2>1. tlpc' \in [Crew -> Labels] /\ <<>> \in Seq(Nat)
    BY <1>2 DEF Labels
  <2> QED
    BY <1>1, <1>2, <2>1, ZenonT(40) DEF TelTyped, onDisk
<1>4. HandsEmpty'
  BY <1>1, <1>2, Zenon DEF HandsEmpty
<1>5. \A e \in 1..emitted' : Held(e)'
  BY <1>1, <1>2, Zenon DEF Held, onDisk
<1>6. RoomLeft'
  <2>1. Appending' = {}
    BY <1>2, Zenon DEF Appending
  <2>2. Cardinality(Appending)' = 0
    BY <2>1, FS_EmptySet, ZenonT(40)
  <2>3. Cardinality(Appending)' \in Nat /\ Cardinality(Appending)' <= Cardinality(Appending)
    BY <2>2, AppendingType
  <2> QED
    BY <1>1, <1>2, <2>3, RoomStays, ZenonT(40)
<1> QED
  BY <1>3, <1>4, <1>5, <1>6, ZenonT(40) DEF TelInv

LEMMA TelNextInv == TelInv /\ [TelNext]_telVars => TelInv'
<1> SUFFICES ASSUME TelInv, [TelNext]_telVars PROVE TelInv'
  BY Zenon
<1>1. ASSUME UNCHANGED <<emitted, memory_, onDisk, tlpc, todo, sent, gone>> PROVE TelInv'
  BY <1>1, Zenon DEF TelInv, TelTyped, HandsEmpty, RoomLeft, Appending, Held, memory_, onDisk
<1>2. ASSUME NEW p \in Producers, Emit(p) \/ EnterHook(p) \/ PanicEmit(p) PROVE TelInv'
  <2>1. CASE Send(p)
    BY <2>1, SendKeeps, Zenon
  <2>2. CASE EnterHook(p)
    BY <1>1, <2>2, Zenon DEF EnterHook
  <2> QED
    BY <1>2, <2>1, <2>2, ZenonT(40) DEF Emit, PanicEmit
<1>3. ASSUME NEW t \in Crew, PushStep(t) PROVE TelInv'
  BY <1>3, CheckSizeKeeps, RotateKeeps, AppendLineKeeps, PushedKeeps, ZenonT(40) DEF PushStep
<1>4. CASE UNCHANGED telVars
  BY <1>1, <1>4, Zenon DEF telVars, memory_, onDisk
<1> QED
  BY <1>2, <1>3, <1>4, RecvKeeps, TickKeeps, RewriteKeeps, SendBatchKeeps, CrashTelKeeps, ZenonT(40) DEF TelNext

(* The telemetry pipeline, for any number of threads that push without a   *)
(* lock and any crash: every event emitted was received, is on its way or  *)
(* went by one of the known ways, and the overflow file exceeds its cap by *)
(* at most a line of each thread.                                          *)
THEOREM TelemetryKept == TelSpec => []EventsAreKept
<1>1. TelInv => EventsAreKept
  <2> SUFFICES ASSUME TelInv PROVE EventsAreKept
    BY Zenon
  <2>1. NothingVanishes
    BY Zenon DEF TelInv, Held, NothingVanishes
  <2>2. DiskBounded
    <3>1. Len(disk) \in Nat /\ Cardinality(Appending) \in Nat /\ MaxLines \in Nat /\ Cardinality(Crew) \in Nat
      BY AppendingType, CrewFinite, TelemetryAssumption DEF TelInv, TelTyped
    <3> QED
      BY <3>1 DEF TelInv, RoomLeft, DiskBounded
  <2> QED
    BY <2>1, <2>2, Zenon DEF EventsAreKept
<1> QED
  BY TelInitInv, TelNextInv, <1>1, PTL DEF TelSpec

=============================================================================
