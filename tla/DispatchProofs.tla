--------------------------- MODULE DispatchProofs ---------------------------
(***************************************************************************)
(* Where a request and its slot are, for any number of requests,           *)
(* providers, models and concurrent drains: a waiting request is in        *)
(* exactly one place where a drain finds it, a request holds one slot at   *)
(* most and the one it was told of, and slots are held by requests in      *)
(* flight only.                                                            *)
(***************************************************************************)
EXTENDS Dispatch, FiniteSetTheorems, TLAPS

(* Sequences as functions.                                                 *)

LEMMA SeqView ==
    ASSUME NEW S, NEW s \in Seq(S)
    PROVE  Len(s) \in Nat /\ DOMAIN s = 1..Len(s) /\ (s = <<>> <=> Len(s) = 0)
  OBVIOUS

LEMMA ConcatView ==
    ASSUME NEW S, NEW a \in Seq(S), NEW b \in Seq(S)
    PROVE  /\ a \o b \in Seq(S) /\ Len(a \o b) = Len(a) + Len(b)
           /\ \A i \in 1..(Len(a) + Len(b)) :
                 (a \o b)[i] = IF i <= Len(a) THEN a[i] ELSE b[i - Len(a)]
  OBVIOUS

LEMMA SubSeqView ==
    ASSUME NEW S, NEW s, NEW k \in Int, NEW n \in Int, \A i \in k..n : s[i] \in S
    PROVE  /\ SubSeq(s, k, n) \in Seq(S)
           /\ Len(SubSeq(s, k, n)) = IF k <= n THEN n - k + 1 ELSE 0
           /\ \A i \in 1..(n - k + 1) : SubSeq(s, k, n)[i] = s[k + i - 1]
  OBVIOUS

LEMMA TailView ==
    ASSUME NEW S, NEW s \in Seq(S), s # <<>>
    PROVE  Head(s) \in S /\ Tail(s) \in Seq(S) /\ Len(Tail(s)) = Len(s) - 1
  OBVIOUS

(* Queues as sets.                                                         *)

Distinct(s) == \A i, j \in DOMAIN s : s[i] = s[j] => i = j

LEMMA AppendElement ==
    ASSUME NEW S, NEW s \in Seq(S), NEW r \in S, Distinct(s), r \notin Elements(s)
    PROVE  /\ Append(s, r) \in Seq(S) /\ Distinct(Append(s, r))
           /\ Elements(Append(s, r)) = Elements(s) \cup {r}
<1>1. PICK n \in Nat : n = Len(s) /\ DOMAIN s = 1..n
  OBVIOUS
<1>2. /\ Append(s, r) \in Seq(S) /\ DOMAIN Append(s, r) = 1..(n + 1)
      /\ \A i \in 1..n : Append(s, r)[i] = s[i]
      /\ Append(s, r)[n + 1] = r
  BY <1>1
<1>3. Distinct(Append(s, r))
  BY <1>1, <1>2 DEF Distinct, Elements
<1>4. Elements(Append(s, r)) = Elements(s) \cup {r}
  <2>1. ASSUME NEW x \in Elements(Append(s, r)) PROVE x \in Elements(s) \cup {r}
    BY <1>1, <1>2 DEF Elements
  <2>2. ASSUME NEW x \in Elements(s) \cup {r} PROVE x \in Elements(Append(s, r))
    <3>1. CASE x = r
      BY <3>1, <1>1, <1>2, n + 1 \in 1..(n + 1), Zenon DEF Elements
    <3>2. CASE x \in Elements(s)
      <4>1. PICK i \in 1..n : x = s[i]
        BY <3>2, <1>1, Zenon DEF Elements
      <4> QED
        BY <4>1, <1>2, i \in 1..(n + 1), Zenon DEF Elements
    <3> QED
      BY <3>1, <3>2, Zenon
  <2> QED
    BY <2>1, <2>2, Zenon
<1> QED
  BY <1>2, <1>3, <1>4, Zenon

LEMMA PushElement ==
    ASSUME NEW S, NEW s \in Seq(S), NEW r \in S, Distinct(s), r \notin Elements(s)
    PROVE  /\ <<r>> \o s \in Seq(S) /\ Distinct(<<r>> \o s)
           /\ Elements(<<r>> \o s) = Elements(s) \cup {r}
<1>1. PICK n \in Nat : n = Len(s) /\ DOMAIN s = 1..n
  OBVIOUS
<1>2. /\ <<r>> \o s \in Seq(S) /\ DOMAIN (<<r>> \o s) = 1..(n + 1)
      /\ (<<r>> \o s)[1] = r
      /\ \A i \in 2..(n + 1) : (<<r>> \o s)[i] = s[i - 1]
  BY <1>1
<1>3. Distinct(<<r>> \o s)
  BY <1>1, <1>2 DEF Distinct, Elements
<1>4. Elements(<<r>> \o s) = Elements(s) \cup {r}
  <2>1. ASSUME NEW x \in Elements(<<r>> \o s) PROVE x \in Elements(s) \cup {r}
    BY <1>1, <1>2 DEF Elements
  <2>2. ASSUME NEW x \in Elements(s) \cup {r} PROVE x \in Elements(<<r>> \o s)
    <3>1. CASE x = r
      BY <3>1, <1>1, <1>2, 1 \in 1..(n + 1), Zenon DEF Elements
    <3>2. CASE x \in Elements(s)
      <4>1. PICK i \in 1..n : x = s[i]
        BY <3>2, <1>1, Zenon DEF Elements
      <4>2. i + 1 \in 2..(n + 1) /\ i + 1 \in 1..(n + 1) /\ (i + 1) - 1 = i
        BY <1>1
      <4> QED
        BY <4>1, <4>2, <1>2, Zenon DEF Elements
    <3> QED
      BY <3>1, <3>2, Zenon
  <2> QED
    BY <2>1, <2>2, Zenon
<1> QED
  BY <1>2, <1>3, <1>4, Zenon

(* What is left of a queue behind its first k entries.                     *)
LEMMA DropElements ==
    ASSUME NEW S, NEW s \in Seq(S), NEW k \in 1..(Len(s) + 1), Distinct(s)
    PROVE  /\ SubSeq(s, k + 1, Len(s)) \in Seq(S) /\ Distinct(SubSeq(s, k + 1, Len(s)))
           /\ Elements(SubSeq(s, k + 1, Len(s)))
                = Elements(s) \ ({s[i] : i \in 1..(k - 1)} \cup (IF k <= Len(s) THEN {s[k]} ELSE {}))
<1>1. PICK n \in Nat : n = Len(s) /\ DOMAIN s = 1..n
  OBVIOUS
<1> DEFINE d == SubSeq(s, k + 1, Len(s))
<1>a. k \in 1..(n + 1) /\ k \in Nat
  BY <1>1
<1>b. (IF k <= n THEN n - k ELSE 0) \in Nat
  BY <1>1, <1>a
<1>2. PICK l \in Nat : l = IF k <= n THEN n - k ELSE 0
  BY <1>b, Zenon
<1>3. /\ d \in Seq(S) /\ DOMAIN d = 1..l
      /\ \A i \in 1..l : d[i] = s[k + i] /\ k + i \in 1..n
  BY <1>1, <1>2, <1>a
<1> HIDE DEF d
<1>4. Distinct(d)
  <2> SUFFICES ASSUME NEW i \in 1..l, NEW j \in 1..l, d[i] = d[j] PROVE i = j
    BY <1>3, Zenon DEF Distinct
  <2>1. k + i = k + j
    BY <1>1, <1>3, Zenon DEF Distinct
  <2> QED
    BY <2>1, <1>a, <1>2
<1>5. ASSUME NEW x \in Elements(d)
      PROVE  x \in Elements(s) \ ({s[i] : i \in 1..(k - 1)} \cup (IF k <= n THEN {s[k]} ELSE {}))
  <2>1. PICK i \in 1..l : x = s[k + i] /\ k + i \in 1..n
    BY <1>3, <1>5, Zenon DEF Elements
  <2>2. \A j \in 1..n : s[j] = x => j = k + i
    BY <2>1, <1>1, Zenon DEF Distinct
  <2> QED
    BY <2>1, <2>2, <1>1 DEF Elements
<1>6. ASSUME NEW x \in Elements(s), x \notin {s[i] : i \in 1..(k - 1)}, k <= n => x # s[k]
      PROVE  x \in Elements(d)
  <2>1. PICK j \in 1..n : x = s[j]
    BY <1>1, Zenon DEF Elements
  <2>2. j > k
    BY <2>1, <1>1, <1>6
  <2>3. j - k \in 1..l /\ k + (j - k) = j
    BY <2>1, <2>2, <1>1, <1>2
  <2> QED
    BY <2>1, <2>3, <1>3, Zenon DEF Elements
<1> QED
  BY <1>1, <1>3, <1>4, <1>5, <1>6, Zenon DEF d

LEMMA CutLast ==
    ASSUME NEW S, NEW s \in Seq(S), s # <<>>, Distinct(s)
    PROVE  /\ s[Len(s)] \in S /\ s[Len(s)] \in Elements(s)
           /\ SubSeq(s, 1, Len(s) - 1) \in Seq(S) /\ Distinct(SubSeq(s, 1, Len(s) - 1))
           /\ Elements(SubSeq(s, 1, Len(s) - 1)) = Elements(s) \ {s[Len(s)]}
<1>1. PICK n \in Nat \ {0} : n = Len(s) /\ DOMAIN s = 1..n
  OBVIOUS
<1> DEFINE d == SubSeq(s, 1, Len(s) - 1)
<1>2. d \in Seq(S) /\ DOMAIN d = 1..(n - 1) /\ \A i \in 1..(n - 1) : d[i] = s[i]
  BY <1>1
<1>3. n \in 1..n /\ s[n] \in S /\ s[n] \in Elements(s)
  BY <1>1 DEF Elements
<1> HIDE DEF d
<1>4. Distinct(d)
  BY <1>1, <1>2 DEF Distinct
<1>5. ASSUME NEW x \in Elements(d) PROVE x \in Elements(s) \ {s[n]}
  BY <1>1, <1>2, <1>3, <1>5 DEF Elements, Distinct
<1>6. ASSUME NEW x \in Elements(s) \ {s[n]} PROVE x \in Elements(d)
  <2>1. PICK j \in 1..n : x = s[j]
    BY <1>1, Zenon DEF Elements
  <2>2. j \in 1..(n - 1)
    BY <2>1, <1>1
  <2> QED
    BY <2>1, <2>2, <1>2, Zenon DEF Elements
<1> QED
  BY <1>1, <1>2, <1>3, <1>4, <1>5, <1>6, Zenon DEF d

(* QueuedRequest removal by position.                                      *)
LEMMA CutElement ==
    ASSUME NEW S, NEW s \in Seq(S), NEW k \in DOMAIN s, Distinct(s)
    PROVE  /\ SubSeq(s, 1, k - 1) \o SubSeq(s, k + 1, Len(s)) \in Seq(S)
           /\ Distinct(SubSeq(s, 1, k - 1) \o SubSeq(s, k + 1, Len(s)))
           /\ Elements(SubSeq(s, 1, k - 1) \o SubSeq(s, k + 1, Len(s))) = Elements(s) \ {s[k]}
<1>1. PICK n \in Nat \ {0} : n = Len(s) /\ DOMAIN s = 1..n /\ k \in 1..n
  OBVIOUS
<1> DEFINE a == SubSeq(s, 1, k - 1)
           b == SubSeq(s, k + 1, Len(s))
           d == a \o b
<1>a. k \in Nat /\ k >= 1 /\ k <= n /\ k - 1 \in Nat /\ n - k \in Nat
  BY <1>1
<1>b. a \in Seq(S) /\ Len(a) = k - 1 /\ \A i \in 1..(k - 1) : a[i] = s[i]
  BY <1>1, <1>a
<1>c. b \in Seq(S) /\ Len(b) = n - k /\ \A i \in 1..(n - k) : b[i] = s[k + i]
  <2>1. k + 1 \in Int /\ n \in Int /\ \A i \in (k + 1)..n : s[i] \in S
    BY <1>1, <1>a
  <2>2. /\ b \in Seq(S) /\ Len(b) = IF k + 1 <= n THEN n - (k + 1) + 1 ELSE 0
        /\ \A i \in 1..(n - (k + 1) + 1) : b[i] = s[(k + 1) + i - 1]
    BY <1>1, <2>1, SubSeqView, SMTT(30)
  <2>3. n - (k + 1) + 1 = n - k /\ \A i \in 1..(n - k) : (k + 1) + i - 1 = k + i
    BY <1>1, <1>a
  <2> HIDE DEF a, b, d
  <2>4. Len(b) = n - k
    BY <1>1, <1>a, <2>2
  <2> QED
    BY <2>2, <2>3, <2>4, Zenon
<1> HIDE DEF a, b
<1>d. /\ d \in Seq(S) /\ Len(d) = Len(a) + Len(b)
      /\ \A i \in 1..(Len(a) + Len(b)) : d[i] = IF i <= Len(a) THEN a[i] ELSE b[i - Len(a)]
  BY <1>b, <1>c, ConcatView, Zenon
<1> HIDE DEF d
<1>2. /\ d \in Seq(S) /\ DOMAIN d = 1..(n - 1)
      /\ \A i \in 1..(n - 1) : d[i] = IF i < k THEN s[i] ELSE s[i + 1]
  <2>0. Len(a) = k - 1 /\ Len(b) = n - k
    BY <1>b, <1>c, Zenon
  <2>a. Len(a) + Len(b) = n - 1
    BY <1>a, <2>0
  <2>b. DOMAIN d = 1..Len(d)
    BY <1>d, SeqView, Zenon
  <2>1. Len(a) + Len(b) = n - 1 /\ DOMAIN d = 1..(n - 1)
    BY <2>a, <2>b, <1>d, Zenon
  <2>2. ASSUME NEW i \in 1..(n - 1), i < k PROVE d[i] = s[i]
    <3>1. i \in 1..(k - 1) /\ i <= Len(a)
      BY <2>2, <1>1, <1>a, <1>b
    <3> QED
      BY <3>1, <2>1, <1>b, <1>d, Zenon
  <2>3. ASSUME NEW i \in 1..(n - 1), ~(i < k) PROVE d[i] = s[i + 1]
    <3>1. i - Len(a) \in 1..(n - k) /\ ~(i <= Len(a)) /\ k + (i - Len(a)) = i + 1
      BY <2>3, <1>1, <1>a, <1>b
    <3> QED
      BY <3>1, <2>1, <1>c, <1>d, Zenon
  <2> QED
    BY <1>d, <2>1, <2>2, <2>3, Zenon
<1>3. Distinct(d)
  <2> SUFFICES ASSUME NEW i \in 1..(n - 1), NEW j \in 1..(n - 1), d[i] = d[j] PROVE i = j
    BY <1>2, Zenon DEF Distinct
  <2>1. (IF i < k THEN i ELSE i + 1) \in 1..n /\ (IF j < k THEN j ELSE j + 1) \in 1..n
    BY <1>1
  <2>2. s[IF i < k THEN i ELSE i + 1] = s[IF j < k THEN j ELSE j + 1]
    BY <1>2, Zenon
  <2>3. (IF i < k THEN i ELSE i + 1) = (IF j < k THEN j ELSE j + 1)
    BY <1>1, <2>1, <2>2, Zenon DEF Distinct
  <2> QED
    BY <1>1, <2>3
<1>4. ASSUME NEW x \in Elements(d) PROVE x \in Elements(s) \ {s[k]}
  <2>1. PICK i \in 1..(n - 1) : x = d[i]
    BY <1>2, Zenon DEF Elements
  <2>2. PICK j \in 1..n : x = s[j] /\ j # k
    BY <2>1, <1>1, <1>2
  <2> QED
    BY <2>2, <1>1, Zenon DEF Elements, Distinct
<1>5. ASSUME NEW x \in Elements(s) \ {s[k]} PROVE x \in Elements(d)
  <2>1. PICK j \in 1..n : x = s[j] /\ j # k
    BY <1>1, Zenon DEF Elements
  <2>2. PICK i \in 1..(n - 1) : x = d[i]
    <3>1. CASE j < k
      BY <3>1, <2>1, <1>1, <1>2, j \in 1..(n - 1), Zenon
    <3>2. CASE j > k
      <4>1. j - 1 \in 1..(n - 1) /\ ~(j - 1 < k) /\ (j - 1) + 1 = j
        BY <3>2, <2>1, <1>1
      <4> QED
        BY <4>1, <2>1, <1>2, Zenon
    <3> QED
      BY <3>1, <3>2, <2>1, <1>1
  <2> QED
    BY <2>2, <1>2, Zenon DEF Elements
<1> QED
  BY <1>1, <1>2, <1>3, <1>4, <1>5, Zenon DEF d, a, b

LEMMA FreshElements ==
    ASSUME NEW S, NEW q \in Seq(S), NEW s \in SequencesUpTo(Elements(q), Len(q)), Distinct(q), FreshPart(s, q)
    PROVE  s \in Seq(S) /\ Distinct(s) /\ Elements(s) = Elements(q) \ stale
<1>1. Elements(q) \subseteq S
  BY DEF Elements
<1>2. PICK k \in 0..Len(q) : s \in [1..k -> Elements(q)]
  BY Zenon DEF SequencesUpTo
<1>3. k \in Nat /\ s \in [1..k -> S]
  BY <1>1, <1>2
<1>4. s \in Seq(S) /\ DOMAIN s = 1..k
  BY <1>3
<1>5. Distinct(s)
  <2> SUFFICES ASSUME NEW i \in DOMAIN s, NEW j \in DOMAIN s, s[i] = s[j], i # j PROVE FALSE
    BY Zenon DEF Distinct
  <2>1. ASSUME NEW a \in DOMAIN s, NEW b \in DOMAIN s, s[a] = s[b], a < b PROVE FALSE
    <3>1. PICK u, v \in DOMAIN q : u < v /\ q[u] = s[a] /\ q[v] = s[b]
      BY <2>1, Zenon DEF FreshPart
    <3> QED
      BY <3>1, <2>1 DEF Distinct
  <2> QED
    BY <2>1, <1>3, <1>4
<1> QED
  BY <1>4, <1>5, Zenon DEF FreshPart

-----------------------------------------------------------------------------
(* The shape of a drain at each of its positions.                          *)

DrainTypes ==
    /\ dpc \in [Threads -> {"none", "pop", "reserve", "requeue", "check", "send"}]
    /\ todo \in [Threads -> Seq(Models)]
    /\ skipped \in [Threads -> Seq(Requests)]
    /\ cur \in [Threads -> Requests \cup {None}]
    /\ at \in [Threads -> Providers \cup {None}]

DrainOK(t) ==
    /\ dpc[t] = "none" => skipped[t] = <<>> /\ cur[t] = None /\ at[t] = None
    /\ dpc[t] # "none" => todo[t] # <<>>
    /\ dpc[t] = "pop" => cur[t] = None /\ at[t] = None
    /\ dpc[t] = "reserve" => cur[t] # None /\ at[t] = None
    /\ dpc[t] = "requeue" => skipped[t] # <<>> /\ (cur[t] = None <=> at[t] = None)
    /\ dpc[t] \in {"check", "send"} => skipped[t] = <<>> /\ cur[t] # None /\ at[t] # None

(* A handler drains only on its way out.                                   *)
DrainsLast == \A r \in Requests : dpc[Handler(r)] # "none" => rpc[r] = "left"

Shape == TypeOK /\ (\A t \in Threads : DrainOK(t)) /\ DrainsLast

(* The part of the shape that a step of the drain t can disturb.           *)
DrainsKept(t) ==
    /\ DrainTypes' /\ DrainOK(t)'
    /\ \A u \in Threads \ {t} :
          /\ dpc'[u] = dpc[u] /\ todo'[u] = todo[u] /\ skipped'[u] = skipped[u]
          /\ cur'[u] = cur[u] /\ at'[u] = at[u]

LEMMA ThreadNames ==
    /\ \A r, s \in Requests : Handler(r) = Handler(s) => r = s
    /\ \A r \in Requests, p \in Providers : Handler(r) # ReadLoop(p) /\ Handler(r) # ChallengeLoop(p)
    /\ \A r \in Requests : Handler(r) \in Threads
    /\ \A p \in Providers : ReadLoop(p) \in Threads /\ ChallengeLoop(p) \in Threads
  BY Zenon DEF Handler, ReadLoop, ChallengeLoop, Threads

LEMMA StartKeepsDrains ==
    ASSUME Shape, NEW t \in Threads, NEW p, dpc[t] = "none", StartDrain(t, p)
    PROVE  DrainsKept(t) /\ UNCHANGED <<skipped, cur, at>>
<1>0. DrainTypes /\ DrainOK(t)
  BY Zenon DEF Shape, TypeOK, DrainTypes
<1>1. CASE p \in registered
  <2>1. ModelsOf[p] \in Seq(Models) /\ ModelsOf[p] # <<>>
    BY <1>1, DispatchAssumption, Zenon DEF Shape, TypeOK
  <2>2. /\ dpc' = [dpc EXCEPT ![t] = "pop"] /\ todo' = [todo EXCEPT ![t] = ModelsOf[p]]
        /\ UNCHANGED <<skipped, cur, at>>
    BY <1>1, Zenon DEF StartDrain
  <2> QED
    BY <1>0, <2>1, <2>2, Zenon DEF DrainsKept, DrainTypes, DrainOK
<1>2. CASE p \notin registered
  BY <1>0, <1>2, Zenon DEF StartDrain, drainVars, DrainsKept, DrainTypes, DrainOK
<1> QED
  BY <1>1, <1>2, Zenon

LEMMA ProceedKeepsDrains ==
    ASSUME Shape, NEW t \in Threads, NEW c \in Requests \cup {None}, NEW s \in Seq(Requests),
           NEW p \in Providers \cup {None}, c = None <=> p = None,
           dpc[t] # "none", at' = [at EXCEPT ![t] = p], Proceed(t, c, s)
    PROVE  DrainsKept(t) /\ dpc'[t] # "reserve"
<1>0. DrainTypes /\ DrainOK(t) /\ todo[t] \in Seq(Models) /\ todo[t] # <<>>
  BY Zenon DEF Shape, TypeOK, DrainTypes, DrainOK
<1>1. Tail(todo[t]) \in Seq(Models) /\ (Len(todo[t]) # 1 => Tail(todo[t]) # <<>>)
  <2>1. Tail(todo[t]) \in Seq(Models) /\ Len(Tail(todo[t])) = Len(todo[t]) - 1
    BY <1>0, TailView, Zenon
  <2>2. Len(todo[t]) \in Nat
    BY <1>0, SeqView, Zenon
  <2>3. ASSUME Tail(todo[t]) = <<>> PROVE Len(Tail(todo[t])) = 0
    <3>1. Len(<<>>) = 0
      BY Zenon
    <3> QED
      BY <2>3, <3>1, Zenon
  <2>4. ASSUME Len(Tail(todo[t])) = 0 PROVE Len(todo[t]) = 1
    BY <2>1, <2>2, <2>4
  <2> QED
    BY <2>1, <2>3, <2>4, Zenon
<1>2. DrainTypes'
  BY <1>0, <1>1, Zenon DEF Proceed, DrainTypes
<1>3. /\ skipped'[t] = s /\ cur'[t] = c /\ at'[t] = p
      /\ dpc'[t] = IF s # <<>> THEN "requeue"
                   ELSE IF c # None THEN "check"
                   ELSE IF Len(todo[t]) = 1 THEN "none" ELSE "pop"
      /\ todo'[t] = IF s = <<>> /\ c = None THEN Tail(todo[t]) ELSE todo[t]
  BY <1>0, Zenon DEF Proceed, DrainTypes
<1>4. DrainOK(t)' /\ dpc'[t] # "reserve"
  BY <1>0, <1>1, <1>3, Zenon DEF DrainOK
<1> QED
  BY <1>0, <1>2, <1>4, ZenonT(40) DEF DrainsKept, Proceed, DrainTypes

LEMMA ReleaseKeepsDrains ==
    ASSUME Shape, NEW t \in Threads, dpc[t] \in {"check", "send"}, Release(t)
    PROVE  DrainsKept(t)
<1>0. DrainTypes /\ DrainOK(t) /\ todo[t] \in Seq(Models) /\ todo[t] # <<>>
  BY Zenon DEF Shape, TypeOK, DrainTypes, DrainOK
<1>1. ASSUME at[t] \in registered
      PROVE  ModelsOf[at[t]] \o todo[t] \in Seq(Models) /\ ModelsOf[at[t]] \o todo[t] # <<>>
  <2>1. ModelsOf[at[t]] \in Seq(Models)
    BY <1>1, DispatchAssumption, Zenon DEF Shape, TypeOK
  <2> QED
    BY <1>0, <2>1, ConcatView, SeqView
<1> QED
  BY <1>0, <1>1, Zenon DEF Release, DrainsKept, DrainTypes, DrainOK

(* The types of everything but the drains.                                 *)
OtherTypes ==
    /\ rpc \in [Requests -> {"start", "enqueue", "waiting", "remove", "dispatch", "running", "left"}]
    /\ prov \in [Requests -> Providers \cup {None}]
    /\ respCh \in [Requests -> Providers \cup {Empty, Nil}]
    /\ done \subseteq Requests
    /\ stale \subseteq Requests
    /\ queue \in [Models -> Seq(Requests)]
    /\ pending \in [Providers -> SUBSET Requests]
    /\ registered \subseteq Providers
    /\ trusted \subseteq Providers
    /\ usable \subseteq Providers \X Models
    /\ limit \in [Providers -> Nat]

LEMMA TypesOfParts == TypeOK <=> OtherTypes /\ DrainTypes
  BY Zenon DEF TypeOK, OtherTypes, DrainTypes

(* What a drain holds, in its hand or aside, are requests.                 *)
LEMMA HeldAreRequests ==
    ASSUME DrainTypes
    PROVE  \A u \in Threads : Held(u) \subseteq Requests
<1> SUFFICES ASSUME NEW u \in Threads, NEW s \in Held(u) PROVE s \in Requests
  BY Zenon
<1>1. skipped[u] \in Seq(Requests) /\ cur[u] \in Requests \cup {None}
  BY Zenon DEF DrainTypes
<1>2. \A i \in DOMAIN skipped[u] : skipped[u][i] \in Requests
  BY <1>1
<1> QED
  BY <1>1, <1>2, Zenon DEF Held, Elements

LEMMA RequestAdded ==
    ASSUME NEW s \in Seq(Requests), NEW r \in Requests, Distinct(s), r \notin Elements(s), NEW d
    PROVE  d = Append(s, r) \/ d = <<r>> \o s =>
              d \in Seq(Requests) /\ Distinct(d) /\ Elements(d) = Elements(s) \cup {r}
<1>1. Append(s, r) \in Seq(Requests) /\ Distinct(Append(s, r)) /\ Elements(Append(s, r)) = Elements(s) \cup {r}
  BY AppendElement
<1>2. <<r>> \o s \in Seq(Requests) /\ Distinct(<<r>> \o s) /\ Elements(<<r>> \o s) = Elements(s) \cup {r}
  BY PushElement
<1> QED
  BY <1>1, <1>2, Zenon

LEMMA NoElements == Elements(<<>>) = {}
  BY DEF Elements

LEMMA DrainKeepsShape ==
    ASSUME Shape, NEW t \in Threads, DrainsKept(t), OtherTypes',
           \A r \in Requests : rpc[r] = "left" => rpc'[r] = "left",
           dpc[t] # "none" \/ \A r \in Requests : t = Handler(r) => rpc'[r] = "left"
    PROVE  Shape'
<1>1. TypeOK'
  BY TypesOfParts, Zenon DEF DrainsKept, TypeOK, OtherTypes, DrainTypes
<1>2. ASSUME NEW u \in Threads \ {t}
      PROVE  DrainOK(u)'
  BY ZenonT(40) DEF Shape, DrainsKept, DrainOK
<1>3. DrainsLast'
  BY ThreadNames, Zenon DEF Shape, DrainsLast, DrainsKept
<1>4. \A u \in Threads : DrainOK(u)'
  BY <1>2, Zenon DEF DrainsKept
<1> QED
  BY <1>1, <1>3, <1>4, Zenon DEF Shape

LEMMA IdleKeepsShape ==
    ASSUME Shape, UNCHANGED drainVars, OtherTypes',
           \A r \in Requests : rpc[r] = "left" => rpc'[r] = "left"
    PROVE  Shape'
<1>1. TypeOK'
  BY Zenon DEF Shape, drainVars, TypeOK, OtherTypes
<1>2. \A u \in Threads : DrainOK(u)'
  BY Zenon DEF Shape, drainVars, DrainOK
<1>3. DrainsLast'
  BY Zenon DEF Shape, DrainsLast, drainVars
<1> QED
  BY <1>1, <1>2, <1>3, Zenon DEF Shape

LEMMA HeldByOthers ==
    ASSUME NEW t \in Threads, DrainsKept(t)
    PROVE  \A u \in Threads \ {t} : Held(u)' = Held(u)
  BY Zenon DEF DrainsKept, Held

-----------------------------------------------------------------------------
(* Where a request is.                                                     *)

Waits(r) == rpc[r] \in {"waiting", "remove", "left"}

InOwnQueue ==
    \A m \in Models : Distinct(queue[m]) /\ \A r \in Elements(queue[m]) : ModelOf[r] = m

QueuedWaits == \A r \in Requests : Queued(r) => respCh[r] = Empty /\ Waits(r)

AsideOnce == \A t \in Threads : Distinct(skipped[t]) /\ cur[t] \notin Elements(skipped[t])

HeldWaits == \A t \in Threads : \A r \in Held(t) : ~Queued(r) /\ respCh[r] = Empty /\ Waits(r)

HeldOnce == \A t, u \in Threads : t # u => Held(t) \cap Held(u) = {}

AnsweredWaits == \A r \in Requests : respCh[r] # Empty => Waits(r)

DoneIsAnswered ==
    \A r \in done : rpc[r] \notin {"start", "enqueue"} /\ (rpc[r] = "waiting" => respCh[r] # Empty)

Places ==
    /\ InOwnQueue /\ QueuedWaits /\ AsideOnce /\ HeldWaits /\ HeldOnce
    /\ AnsweredWaits /\ DoneIsAnswered /\ NoLostWaiter

(* Whose slot it holds: the answer, the handler or a drain knows of it, or *)
(* it was lost with a waiter that gave up or a request not encrypted.      *)
Assigned(r, p) ==
    \/ respCh[r] = p
    \/ rpc[r] \in {"dispatch", "running"} /\ prov[r] = p
    \/ \E t \in Threads : cur[t] = r /\ at[t] = p

Leaked(r) ==
    rpc[r] = "left" /\ respCh[r] = Empty /\ ~Queued(r) /\ \A t \in Threads : r \notin Held(t)

SlotsAreKnown == \A p \in Providers : \A r \in pending[p] : Assigned(r, p) \/ Leaked(r)

AssignedHolds ==
    \A p \in registered : \A r \in Requests : Assigned(r, p) /\ rpc[r] # "running" => r \in pending[p]

(* When no waiter gives up and every request can be encrypted, a handler   *)
(* that left has nothing anywhere.                                         *)
Steady == Patient = Requests /\ ~EncryptFaults

LeftIsGone ==
    Steady =>
        \A r \in Requests :
            /\ rpc[r] # "remove"
            /\ rpc[r] = "left" => Leaked(r) /\ \A p \in Providers : r \notin pending[p]

Owned == SlotsAreKnown /\ AssignedHolds /\ OneProvider /\ LeftIsGone

IInv == Shape /\ Places /\ Owned

LEMMA InvAtStart == Init => IInv
<1> SUFFICES ASSUME Init PROVE IInv
  BY Zenon
<1>1. Shape
  <2>1. limit \in [Providers -> Nat]
    BY DispatchAssumption, Zenon DEF Init
  <2> QED
    BY <2>1, ThreadNames, SMTT(30) DEF Init, Shape, TypeOK, DrainOK, DrainsLast
<1>2. \A m \in Models : Distinct(queue[m]) /\ Elements(queue[m]) = {}
  BY DEF Init, Distinct, Elements
<1>3. \A t \in Threads : Distinct(skipped[t]) /\ Elements(skipped[t]) = {} /\ Held(t) = {}
  BY DEF Init, Distinct, Elements, Held
<1>4. \A r \in Requests : ModelOf[r] \in Models /\ ~Queued(r)
  BY <1>2, DispatchAssumption, Zenon DEF Queued
<1>5. Places
  BY <1>2, <1>3, <1>4, Zenon DEF Init, Places, InOwnQueue, QueuedWaits, AsideOnce, HeldWaits, HeldOnce,
       AnsweredWaits, DoneIsAnswered, NoLostWaiter
<1>6. Owned
  BY DispatchAssumption, Zenon DEF Init, Owned, SlotsAreKnown, AssignedHolds, OneProvider, LeftIsGone, Assigned
<1> QED
  BY <1>1, <1>5, <1>6, Zenon DEF IInv

(* Steps that leave every request where it is.                             *)
LEMMA SamePlaces ==
    ASSUME Places, UNCHANGED <<queue, skipped, cur, respCh, done, rpc>>
    PROVE  Places'
<1>1. \A t \in Threads : Held(t)' = Held(t)
  BY Zenon DEF Held
<1>2. \A r \in Requests : (Queued(r)' <=> Queued(r))
  BY Zenon DEF Queued
<1>3. \A r : (Waits(r)' <=> Waits(r))
  BY Zenon DEF Waits
<1>4. InOwnQueue' /\ AsideOnce'
  BY Zenon DEF Places, InOwnQueue, AsideOnce
<1>5. QueuedWaits' /\ AnsweredWaits' /\ DoneIsAnswered'
  BY <1>2, <1>3, Zenon DEF Places, QueuedWaits, AnsweredWaits, DoneIsAnswered, Waits
<1>6. HeldWaits' /\ HeldOnce' /\ NoLostWaiter'
  BY <1>1, <1>3 DEF Places, HeldWaits, HeldOnce, NoLostWaiter, Queued
<1> QED
  BY <1>4, <1>5, <1>6, Zenon DEF Places

LEMMA QuietSteps ==
    ASSUME IInv, NEW p \in Providers,
           \/ \E r \in Requests : ProviderFinishes(p, r)
           \/ Heartbeat(p) \/ RecordChallengeSuccess(p) \/ RecordChallengeFailure(p)
           \/ Disconnect(p) \/ ClosePending(p)
    PROVE  IInv'
<1>0. UNCHANGED <<queue, skipped, cur, at, respCh, done, rpc, prov, stale>>
  BY Zenon DEF ProviderFinishes, Heartbeat, RecordChallengeSuccess, RecordChallengeFailure, Disconnect,
         ClosePending, queueVars, drainVars, StartDrain
<1>1. Places'
  BY <1>0, SamePlaces, Zenon DEF IInv
<1>2. \A r, q : (Assigned(r, q)' <=> Assigned(r, q))
  BY <1>0, Zenon DEF Assigned
<1>3. \A r : (Leaked(r)' <=> Leaked(r))
  BY <1>0, Zenon DEF Leaked, Queued, Held
<1>4. OtherTypes'
  <2>1. OtherTypes
    BY TypesOfParts, Zenon DEF IInv, Shape
  <2>2. ASSUME NEW r \in Requests, ProviderFinishes(p, r) PROVE OtherTypes'
    BY <1>0, <2>1, <2>2, Zenon DEF ProviderFinishes, RemovePending, provVars, OtherTypes
  <2>3. CASE Heartbeat(p)
    <3>1. PICK ok \in SUBSET Models : usable' = {u \in usable : u[1] # p} \cup ({p} \X ok)
      BY <2>3, Zenon DEF Heartbeat
    <3>2. usable' \subseteq Providers \X Models
      BY <2>1, <3>1, Zenon DEF OtherTypes
    <3>3. limit \in [Providers -> Nat] /\ Tiers[p] \subseteq Nat
      BY <2>1, DispatchAssumption, Zenon DEF OtherTypes
    <3>4. limit' \in [Providers -> Nat]
      <4>1. ASSUME NEW k \in Tiers[p], limit' = [limit EXCEPT ![p] = k] PROVE limit' \in [Providers -> Nat]
        BY <3>3, <4>1, Zenon
      <4>2. limit' = limit \/ \E k \in Tiers[p] : limit' = [limit EXCEPT ![p] = k]
        BY <2>3, Zenon DEF Heartbeat, ReportCapacity
      <4> QED
        BY <3>3, <4>1, <4>2, Zenon
    <3> QED
      BY <1>0, <2>1, <2>3, <3>2, <3>4, Zenon DEF Heartbeat, OtherTypes
  <2>4. CASE RecordChallengeSuccess(p) \/ RecordChallengeFailure(p)
    BY <1>0, <2>1, <2>4, Zenon
       DEF RecordChallengeSuccess, RecordChallengeFailure, OtherTypes
  <2>5. CASE ClosePending(p)
    BY <1>0, <2>1, <2>5, Zenon DEF ClosePending, provVars, OtherTypes
  <2>6. CASE Disconnect(p)
    <3>1. limit' \in [Providers -> Nat]
      BY <2>1, <2>6, DispatchAssumption, Zenon DEF Disconnect, OtherTypes
    <3> QED
      BY <1>0, <2>1, <2>6, <3>1, Zenon DEF Disconnect, OtherTypes
  <2> QED
    BY <2>2, <2>3, <2>4, <2>5, <2>6, Zenon
<1>5. Shape'
  <2>1. CASE UNCHANGED drainVars
    BY <1>0, <1>4, <2>1, IdleKeepsShape, Zenon DEF IInv
  <2>2. ASSUME NEW t \in {ReadLoop(p), ChallengeLoop(p)}, dpc[t] = "none", StartDrain(t, p)
        PROVE  Shape'
    <3>1. t \in Threads /\ \A r \in Requests : t # Handler(r)
      BY ThreadNames, Zenon
    <3> QED
      BY <1>0, <1>4, <2>2, <3>1, StartKeepsDrains, DrainKeepsShape, Zenon DEF IInv
  <2> QED
    BY <2>1, <2>2, Zenon DEF ProviderFinishes, Heartbeat, RecordChallengeSuccess, RecordChallengeFailure,
         Disconnect, ClosePending
<1>6. Owned'
  <2>0. SlotsAreKnown /\ AssignedHolds /\ OneProvider /\ LeftIsGone /\ OtherTypes
    BY TypesOfParts, Zenon DEF IInv, Shape, Owned
  <2>1. ASSUME NEW r \in Requests, ProviderFinishes(p, r) PROVE Owned'
    <3>1. /\ rpc[r] = "running" /\ UNCHANGED registered
          /\ pending' = [q \in Providers |-> IF q = p THEN pending[p] \ {r} ELSE pending[q]]
      BY <2>0, <2>1, Zenon DEF ProviderFinishes, RemovePending, provVars, OtherTypes
    <3>2. SlotsAreKnown' /\ AssignedHolds' /\ OneProvider'
      BY <1>0, <1>2, <1>3, <2>0, <3>1, Zenon DEF SlotsAreKnown, AssignedHolds, OneProvider, OtherTypes
    <3>3. LeftIsGone'
      BY <1>0, <1>3, <2>0, <3>1, Zenon DEF LeftIsGone
    <3> QED
      BY <3>2, <3>3, Zenon DEF Owned
  <2>2. CASE UNCHANGED pending
    <3>1. registered' \subseteq registered
      BY <2>2, Zenon DEF ProviderFinishes, Heartbeat, RecordChallengeSuccess, RecordChallengeFailure,
         Disconnect, ClosePending, provVars
    <3> QED
      BY <1>0, <1>2, <1>3, <2>0, <2>2, <3>1, Zenon DEF Owned, SlotsAreKnown, AssignedHolds, OneProvider, LeftIsGone
  <2>3. CASE ClosePending(p)
    <3>1. /\ p \notin registered /\ UNCHANGED registered
          /\ pending' = [q \in Providers |-> IF q = p THEN {} ELSE pending[q]]
      BY <2>0, <2>3, Zenon DEF ClosePending, provVars, OtherTypes
    <3>2. SlotsAreKnown'
      BY <1>2, <1>3, <2>0, <3>1, Zenon DEF SlotsAreKnown
    <3>3. AssignedHolds'
      BY <1>0, <1>2, <2>0, <3>1, Zenon DEF AssignedHolds, OtherTypes
    <3>4. OneProvider'
      BY <2>0, <3>1, Zenon DEF OneProvider
    <3>5. LeftIsGone'
      BY <1>0, <1>3, <2>0, <3>1, Zenon DEF LeftIsGone
    <3> QED
      BY <3>2, <3>3, <3>4, <3>5, Zenon DEF Owned
  <2> QED
    BY <2>1, <2>2, <2>3, Zenon DEF Heartbeat, RecordChallengeSuccess, RecordChallengeFailure, Disconnect
<1> QED
  BY <1>1, <1>5, <1>6, Zenon DEF IInv

(* A request between the queue and its end is in no queue, in no drain and *)
(* has no answer pending.                                                  *)
LEMMA ElsewhereIsNowhere ==
    ASSUME IInv, NEW r \in Requests, ~Waits(r)
    PROVE  /\ ~Queued(r) /\ respCh[r] = Empty
           /\ \A t \in Threads : r \notin Held(t) /\ cur[t] # r
  BY DispatchAssumption, Zenon
     DEF IInv, Places, QueuedWaits, HeldWaits, AnsweredWaits, Held

(* Steps of a handler that touch neither the queue nor a channel.          *)
LEMMA HandlerKeepsPlaces ==
    ASSUME IInv, NEW r \in Requests, ~Waits(r), NEW x \in {"enqueue", "dispatch", "running", "left"},
           rpc[r] = "start" \/ x # "enqueue",
           rpc' = [rpc EXCEPT ![r] = x], UNCHANGED <<queue, skipped, cur, respCh, done>>
    PROVE  Places'
<1>0. /\ InOwnQueue /\ QueuedWaits /\ AsideOnce /\ HeldWaits /\ HeldOnce
      /\ AnsweredWaits /\ DoneIsAnswered /\ NoLostWaiter /\ TypeOK
  BY Zenon DEF IInv, Places, Shape
<1>1. \A t \in Threads : Held(t)' = Held(t)
  BY Zenon DEF Held
<1>2. \A s \in Requests : (Queued(s)' <=> Queued(s))
  BY Zenon DEF Queued
<1>3. /\ rpc'[r] = x
      /\ \A s \in Requests \ {r} : rpc'[s] = rpc[s]
      /\ \A s \in Requests : Waits(s) => Waits(s)'
  BY <1>0, Zenon DEF TypeOK, Waits
<1>4. InOwnQueue' /\ AsideOnce' /\ HeldOnce'
  BY <1>0, <1>1, Zenon DEF InOwnQueue, AsideOnce, HeldOnce
<1>5. QueuedWaits' /\ AnsweredWaits'
  BY <1>0, <1>2, <1>3, Zenon DEF QueuedWaits, AnsweredWaits
<1>6. DoneIsAnswered'
  BY <1>0, <1>3, Zenon DEF DoneIsAnswered, TypeOK, Waits
<1>7. HeldWaits'
  <2> SUFFICES ASSUME NEW t \in Threads, NEW s \in Held(t)'
               PROVE  (~Queued(s) /\ respCh[s] = Empty /\ Waits(s))'
    BY Zenon DEF HeldWaits
  <2>1. s \in Held(t) /\ s \in Requests
    BY <1>0, <1>1 DEF TypeOK, Held, Elements
  <2> QED
    BY <1>0, <1>2, <1>3, <2>1, Zenon DEF HeldWaits
<1>8. NoLostWaiter'
  BY <1>0, <1>1, <1>2, <1>3, Zenon DEF NoLostWaiter
<1> QED
  BY <1>4, <1>5, <1>6, <1>7, <1>8, Zenon DEF Places

(* A request nobody was assigned a provider for occupies no slot.          *)
LEMMA UnassignedHasNoSlot ==
    ASSUME IInv, NEW r \in Requests, respCh[r] \notin Providers,
           rpc[r] \notin {"dispatch", "running"}, \A t \in Threads : cur[t] = r => at[t] = None,
           ~Leaked(r)
    PROVE  \A p \in Providers : r \notin pending[p]
  BY DispatchAssumption DEF IInv, Owned, SlotsAreKnown, Assigned

LEMMA ArriveStep == ASSUME IInv, NEW r \in Requests, Arrive(r) PROVE IInv'
<1>0. /\ rpc[r] = "start" /\ ~Waits(r) /\ OtherTypes /\ SlotsAreKnown /\ AssignedHolds /\ OneProvider /\ LeftIsGone
  BY TypesOfParts, Zenon DEF Arrive, Waits, IInv, Shape, Owned
<1>1. UNCHANGED <<queue, skipped, cur, at, respCh, done, stale, drainVars, registered>>
  BY Zenon DEF Arrive, queueVars, drainVars, provVars, ReserveFails
<1>2. /\ ~Queued(r) /\ respCh[r] = Empty
      /\ \A t \in Threads : r \notin Held(t) /\ cur[t] # r
  BY <1>0, ElsewhereIsNowhere, Zenon
<1>3. \A p \in Providers : r \notin pending[p]
  BY <1>0, <1>2, UnassignedHasNoSlot, DispatchAssumption, Zenon DEF Leaked
<1>4. CASE \E p \in Providers : addPending(p, r) /\ prov' = [prov EXCEPT ![r] = p]
                                /\ rpc' = [rpc EXCEPT ![r] = "dispatch"] /\ UNCHANGED provVars
  <2>1. PICK p \in Providers : /\ addPending(p, r) /\ prov' = [prov EXCEPT ![r] = p]
                               /\ rpc' = [rpc EXCEPT ![r] = "dispatch"] /\ UNCHANGED provVars
    BY <1>4, Zenon
  <2>2. Places'
    BY <1>0, <1>1, <2>1, HandlerKeepsPlaces, Zenon
  <2>3. OtherTypes'
    BY <1>0, <1>1, <2>1, Zenon DEF OtherTypes, addPending, provVars
  <2>4. Shape'
    BY <1>0, <1>1, <2>1, <2>3, IdleKeepsShape, Zenon DEF IInv, OtherTypes
  <2>5. /\ pending' = [q \in Providers |-> IF q = p THEN pending[p] \cup {r} ELSE pending[q]]
        /\ rpc'[r] = "dispatch" /\ prov'[r] = p
        /\ \A s \in Requests \ {r} : rpc'[s] = rpc[s] /\ prov'[s] = prov[s]
    BY <1>0, <2>1, Zenon DEF OtherTypes, addPending
  <2>6. \A s \in Requests \ {r}, q \in Providers : (Assigned(s, q)' <=> Assigned(s, q))
    BY <1>1, <2>5, Zenon DEF Assigned
  <2>7. \A q \in Providers : Assigned(r, q)' <=> q = p
    BY <1>1, <1>2, <2>5, DispatchAssumption, Zenon DEF Assigned
  <2>8. \A s \in Requests \ {r} : (Leaked(s)' <=> Leaked(s))
    BY <1>1, <2>5, Zenon DEF Leaked, Queued, Held
  <2>9. SlotsAreKnown'
    BY <1>0, <1>3, <2>5, <2>6, <2>7, <2>8, Zenon DEF SlotsAreKnown, OtherTypes
  <2>10. AssignedHolds'
    BY <1>0, <1>1, <2>5, <2>6, <2>7, ZenonT(40) DEF AssignedHolds, OtherTypes
  <2>11. OneProvider'
    BY <1>0, <1>3, <2>5 DEF OneProvider, OtherTypes
  <2>12. LeftIsGone'
    BY <1>0, <2>5, <2>8, Zenon DEF LeftIsGone, OtherTypes
  <2> QED
    BY <2>2, <2>4, <2>9, <2>10, <2>11, <2>12, Zenon DEF IInv, Owned
<1>5. CASE ReserveFails(r) /\ rpc' = [rpc EXCEPT ![r] = "enqueue"] /\ UNCHANGED prov
  <2>2. Places'
    BY <1>0, <1>1, <1>5, HandlerKeepsPlaces, Zenon
  <2>3. OtherTypes'
    BY <1>0, <1>1, <1>5, Zenon DEF OtherTypes, ReserveFails
  <2>4. Shape'
    BY <1>0, <1>1, <1>5, <2>3, IdleKeepsShape, Zenon DEF IInv, OtherTypes
  <2>5. /\ UNCHANGED pending /\ rpc'[r] = "enqueue"
        /\ \A s \in Requests \ {r} : rpc'[s] = rpc[s] /\ prov'[s] = prov[s]
    BY <1>0, <1>5, Zenon DEF OtherTypes, ReserveFails
  <2>6. \A s \in Requests \ {r}, q \in Providers : (Assigned(s, q)' <=> Assigned(s, q))
    BY <1>1, <2>5, Zenon DEF Assigned
  <2>7. \A q \in Providers : ~Assigned(r, q)'
    BY <1>1, <1>2, <2>5, DispatchAssumption, Zenon DEF Assigned
  <2>8. \A s \in Requests \ {r} : (Leaked(s)' <=> Leaked(s))
    BY <1>1, <2>5, Zenon DEF Leaked, Queued, Held
  <2>9. SlotsAreKnown'
    BY <1>0, <1>3, <2>5, <2>6, <2>8, Zenon DEF SlotsAreKnown, OtherTypes
  <2>10. AssignedHolds'
    BY <1>0, <1>1, <2>5, <2>6, <2>7, Zenon DEF AssignedHolds, OtherTypes
  <2>11. OneProvider'
    BY <1>0, <2>5, Zenon DEF OneProvider
  <2>12. LeftIsGone'
    BY <1>0, <2>5, <2>8, Zenon DEF LeftIsGone, OtherTypes
  <2> QED
    BY <2>2, <2>4, <2>9, <2>10, <2>11, <2>12, Zenon DEF IInv, Owned
<1> QED
  BY <1>4, <1>5, Zenon DEF Arrive

LEMMA WriteOKStep == ASSUME IInv, NEW r \in Requests, WriteOK(r) PROVE IInv'
<1>0. /\ rpc[r] = "dispatch" /\ ~Waits(r) /\ OtherTypes /\ SlotsAreKnown /\ AssignedHolds /\ OneProvider /\ LeftIsGone
  BY TypesOfParts, Zenon DEF WriteOK, Waits, IInv, Shape, Owned
<1>1. /\ rpc' = [rpc EXCEPT ![r] = "running"] 
      /\ UNCHANGED <<queue, skipped, cur, at, respCh, done, stale, drainVars, prov, pending,
                     registered, trusted, usable, limit>>
  BY Zenon DEF WriteOK, queueVars, drainVars, provVars
<1>2. Places'
  BY <1>0, <1>1, HandlerKeepsPlaces, Zenon
<1>3. OtherTypes'
  BY <1>0, <1>1, Zenon DEF OtherTypes
<1>4. Shape'
  BY <1>0, <1>1, <1>3, IdleKeepsShape, Zenon DEF IInv, OtherTypes
<1>5. rpc'[r] = "running" /\ \A s \in Requests \ {r} : rpc'[s] = rpc[s]
  BY <1>0, <1>1, Zenon DEF OtherTypes
<1>6. \A s \in Requests, q \in Providers : (Assigned(s, q)' <=> Assigned(s, q))
  BY <1>0, <1>1, <1>5, Zenon DEF Assigned
<1>7. \A s \in Requests : (Leaked(s)' <=> Leaked(s))
  BY <1>0, <1>1, <1>5, Zenon DEF Leaked, Queued, Held
<1>8. SlotsAreKnown' /\ AssignedHolds' /\ OneProvider'
  BY <1>0, <1>1, <1>5, <1>6, <1>7, Zenon DEF SlotsAreKnown, AssignedHolds, OneProvider, OtherTypes
<1>9. LeftIsGone'
  BY <1>0, <1>1, <1>5, <1>7, Zenon DEF LeftIsGone
<1> QED
  BY <1>2, <1>4, <1>8, <1>9, Zenon DEF IInv, Owned

(* The end of a handler, with or without its slot given back.              *)
LEMMA LeaveStep ==
    ASSUME IInv, NEW r \in Requests, EncryptFails(r) \/ Return(r) PROVE IInv'
<1>0. /\ rpc[r] \in {"dispatch", "running"} /\ ~Waits(r)
      /\ OtherTypes /\ SlotsAreKnown /\ AssignedHolds /\ OneProvider /\ LeftIsGone
  BY TypesOfParts, Zenon DEF EncryptFails, Return, Waits, IInv, Shape, Owned
<1>1. /\ rpc' = [rpc EXCEPT ![r] = "left"] /\ prov' = [prov EXCEPT ![r] = None]
      /\ StartDrain(Handler(r), prov[r])
      /\ UNCHANGED <<queue, respCh, done, stale, registered, trusted, usable, limit>>
  BY Zenon DEF EncryptFails, Return, queueVars, provVars
<1>2. Handler(r) \in Threads /\ dpc[Handler(r)] = "none"
  BY <1>0, ThreadNames, Zenon DEF IInv, Shape, DrainsLast
<1>3. DrainsKept(Handler(r)) /\ UNCHANGED <<skipped, cur, at>>
  BY <1>1, <1>2, StartKeepsDrains, Zenon DEF IInv
<1>4. Places'
  BY <1>0, <1>1, <1>3, HandlerKeepsPlaces, Zenon
<1>5. /\ pending' \in [Providers -> SUBSET Requests]
      /\ \A q \in Providers : pending'[q] \subseteq pending[q]
      /\ \A q \in Providers, s \in Requests \ {r} : s \in pending[q] => s \in pending'[q]
  <2>1. CASE EncryptFails(r)
    BY <1>0, <2>1, Zenon DEF EncryptFails, OtherTypes
  <2>2. CASE Return(r)
    <3>1. pending' = [q \in Providers |-> IF q = prov[r] THEN pending[q] \ {r} ELSE pending[q]]
      BY <1>0, <2>2, Zenon DEF Return, RemovePending, OtherTypes
    <3> QED
      BY <1>0, <3>1, Zenon DEF OtherTypes
  <2> QED
    BY <2>1, <2>2, Zenon
<1>6. OtherTypes'
  BY <1>0, <1>1, <1>5, Zenon DEF OtherTypes
<1>7. /\ rpc'[r] = "left" /\ prov'[r] = None
      /\ \A s \in Requests \ {r} : rpc'[s] = rpc[s] /\ prov'[s] = prov[s]
  BY <1>0, <1>1, Zenon DEF OtherTypes
<1>8. Shape'
  BY <1>2, <1>3, <1>6, <1>7, ThreadNames, DrainKeepsShape, Zenon DEF IInv
<1>9. /\ ~Queued(r) /\ respCh[r] = Empty
      /\ \A t \in Threads : r \notin Held(t) /\ cur[t] # r
  BY <1>0, ElsewhereIsNowhere, Zenon
<1>10. \A s \in Requests \ {r}, q \in Providers : (Assigned(s, q)' <=> Assigned(s, q))
  BY <1>1, <1>3, <1>7, Zenon DEF Assigned
<1>11. \A q \in Providers : ~Assigned(r, q)'
  BY <1>1, <1>3, <1>7, <1>9, DispatchAssumption, Zenon DEF Assigned
<1>12. \A s \in Requests \ {r} : (Leaked(s)' <=> Leaked(s))
  BY <1>1, <1>3, <1>7, Zenon DEF Leaked, Queued, Held
<1>13. Leaked(r)'
  BY <1>1, <1>3, <1>7, <1>9, Zenon DEF Leaked, Queued, Held
<1>14. SlotsAreKnown'
  BY <1>0, <1>5, <1>10, <1>12, <1>13, Zenon DEF SlotsAreKnown, OtherTypes
<1>15. AssignedHolds'
  BY <1>0, <1>1, <1>5, <1>7, <1>10, <1>11 DEF AssignedHolds, OtherTypes
<1>16. OneProvider'
  BY <1>0, <1>5, Zenon DEF OneProvider
<1>17. ASSUME Steady PROVE \A q \in Providers : r \notin pending'[q]
  <2>1. pending' = [q \in Providers |-> IF q = prov[r] THEN pending[q] \ {r} ELSE pending[q]]
    BY <1>0, <1>17, Zenon DEF Steady, EncryptFails, Return, RemovePending, OtherTypes
  <2>2. \A q \in Providers : r \in pending[q] => q = prov[r]
    BY <1>0, <1>9, DispatchAssumption, Zenon DEF SlotsAreKnown, Assigned, Leaked
  <2> QED
    BY <2>1, <2>2, Zenon
<1>18. LeftIsGone'
  BY <1>0, <1>5, <1>7, <1>12, <1>13, <1>17, ZenonT(40) DEF LeftIsGone
<1> QED
  BY <1>4, <1>8, <1>14, <1>15, <1>16, <1>18, Zenon DEF IInv, Owned

LEMMA GrowStaleStep == ASSUME IInv, NEW r \in Requests, GrowStale(r) PROVE IInv'
<1>1. /\ stale' = stale \cup {r}
      /\ UNCHANGED <<rpc, prov, queue, respCh, done, pending, registered, trusted, usable, limit, drainVars,
                     skipped, cur, at>>
  BY Zenon DEF GrowStale, queueVars, provVars, drainVars
<1>2. OtherTypes'
  BY <1>1, TypesOfParts, Zenon DEF IInv, Shape, OtherTypes
<1>3. Shape'
  BY <1>1, <1>2, IdleKeepsShape, Zenon DEF IInv
<1>4. Places'
  BY <1>1, SamePlaces, Zenon DEF IInv
<1>5. \A s, q : (Assigned(s, q)' <=> Assigned(s, q))
  BY <1>1, Zenon DEF Assigned
<1>6. \A s : (Leaked(s)' <=> Leaked(s))
  BY <1>1, Zenon DEF Leaked, Queued, Held
<1>7. Owned'
  BY <1>1, <1>5, <1>6, Zenon DEF IInv, Owned, SlotsAreKnown, AssignedHolds, OneProvider, LeftIsGone
<1> QED
  BY <1>3, <1>4, <1>7, Zenon DEF IInv

LEMMA TakeAnswerStep == ASSUME IInv, NEW r \in Requests, TakeAnswer(r) PROVE IInv'
<1>0. /\ InOwnQueue /\ QueuedWaits /\ AsideOnce /\ HeldWaits /\ HeldOnce
      /\ AnsweredWaits /\ DoneIsAnswered /\ NoLostWaiter
      /\ OtherTypes /\ DrainTypes /\ SlotsAreKnown /\ AssignedHolds /\ OneProvider /\ LeftIsGone
  BY TypesOfParts, Zenon DEF IInv, Places, Shape, Owned
<1>1. /\ rpc[r] = "waiting" /\ respCh[r] # Empty
      /\ respCh' = [respCh EXCEPT ![r] = Empty] /\ done' = done \cup {r}
      /\ UNCHANGED <<stale, queue, pending, registered, trusted, usable, limit, drainVars, skipped, cur, at>>
  BY Zenon DEF TakeAnswer, provVars, drainVars
<1>2. /\ respCh'[r] = Empty /\ respCh[r] \in Providers \cup {Nil}
      /\ rpc'[r] = IF respCh[r] = Nil THEN "left" ELSE "dispatch"
      /\ prov'[r] = IF respCh[r] = Nil THEN prov[r] ELSE respCh[r]
      /\ \A s \in Requests \ {r} : respCh'[s] = respCh[s] /\ rpc'[s] = rpc[s] /\ prov'[s] = prov[s]
  BY <1>0, <1>1, ZenonT(40) DEF TakeAnswer, OtherTypes
<1>3. OtherTypes'
  <2>1. CASE respCh[r] = Nil
    BY <1>0, <1>1, <2>1, Zenon DEF TakeAnswer, OtherTypes
  <2>2. CASE respCh[r] # Nil
    <3>1. respCh[r] \in Providers
      BY <1>2, <2>2, Zenon
    <3>2. rpc' = [rpc EXCEPT ![r] = "dispatch"] /\ prov' = [prov EXCEPT ![r] = respCh[r]]
      BY <2>2, Zenon DEF TakeAnswer
    <3> QED
      BY <1>0, <1>1, <3>1, <3>2, Zenon DEF OtherTypes
  <2> QED
    BY <2>1, <2>2, Zenon
<1>4. Shape'
  BY <1>1, <1>2, <1>3, IdleKeepsShape, Zenon DEF IInv
<1>5. /\ ~Queued(r)
      /\ \A t \in Threads : r \notin Held(t) /\ cur[t] # r
  BY <1>0, <1>1, DispatchAssumption, Zenon DEF QueuedWaits, HeldWaits, Held
<1>6. /\ \A t \in Threads : Held(t)' = Held(t) /\ Held(t) \subseteq Requests
      /\ \A s \in Requests : (Queued(s)' <=> Queued(s))
      /\ \A s \in Requests \ {r} : (Waits(s)' <=> Waits(s))
  BY <1>0, <1>1, <1>2 DEF Held, Queued, Waits, DrainTypes, Elements
<1>7. InOwnQueue' /\ AsideOnce' /\ HeldOnce'
  BY <1>0, <1>1, <1>6, Zenon DEF InOwnQueue, AsideOnce, HeldOnce
<1>8. QueuedWaits' /\ AnsweredWaits'
  BY <1>0, <1>2, <1>5, <1>6, ZenonT(40) DEF QueuedWaits, AnsweredWaits
<1>9. DoneIsAnswered'
  BY <1>0, <1>1, <1>2, ZenonT(40) DEF DoneIsAnswered, OtherTypes
<1>10. HeldWaits'
  BY <1>0, <1>2, <1>5, <1>6, Zenon DEF HeldWaits
<1>11. NoLostWaiter'
  BY <1>0, <1>1, <1>2, <1>6, Zenon DEF NoLostWaiter
<1>12. \A s \in Requests \ {r}, q \in Providers : (Assigned(s, q)' <=> Assigned(s, q))
  BY <1>1, <1>2, Zenon DEF Assigned
<1>13. \A q \in Providers : (Assigned(r, q)' <=> Assigned(r, q)) /\ (Assigned(r, q) <=> respCh[r] = q)
  BY <1>1, <1>2, <1>5, DispatchAssumption, ZenonT(40) DEF Assigned
<1>14. ~Leaked(r) /\ \A s \in Requests \ {r} : (Leaked(s)' <=> Leaked(s))
  BY <1>1, <1>2, <1>6, Zenon DEF Leaked
<1>15. SlotsAreKnown'
  BY <1>0, <1>1, <1>12, <1>13, <1>14, ZenonT(40) DEF SlotsAreKnown, OtherTypes
<1>16. AssignedHolds'
  BY <1>0, <1>1, <1>2, <1>12, <1>13 DEF AssignedHolds, OtherTypes
<1>17. OneProvider'
  BY <1>0, <1>1, ZenonT(40) DEF OneProvider
<1>18. ASSUME rpc'[r] = "left" PROVE Leaked(r)' /\ \A q \in Providers : r \notin pending'[q]
  <2>1. respCh[r] = Nil
    BY <1>2, <1>18, Zenon
  <2> QED
    BY <1>0, <1>1, <1>2, <1>5, <1>6, <1>13, <1>14, <1>18, <2>1, DispatchAssumption
       DEF SlotsAreKnown, Leaked
<1>19. LeftIsGone'
  BY <1>0, <1>1, <1>2, <1>14, <1>18, Zenon DEF LeftIsGone
<1> QED
  BY <1>4, <1>7, <1>8, <1>9, <1>10, <1>11, <1>15, <1>16, <1>17, <1>19, Zenon DEF IInv, Places, Owned

LEMMA GiveUpStep == ASSUME IInv, NEW r \in Requests, GiveUp(r) PROVE IInv'
<1>0. /\ InOwnQueue /\ QueuedWaits /\ AsideOnce /\ HeldWaits /\ HeldOnce
      /\ AnsweredWaits /\ DoneIsAnswered /\ NoLostWaiter
      /\ OtherTypes /\ DrainTypes /\ SlotsAreKnown /\ AssignedHolds /\ OneProvider /\ LeftIsGone
  BY TypesOfParts, Zenon DEF IInv, Places, Shape, Owned
<1>1. /\ rpc[r] = "waiting" /\ done' = done \cup {r} /\ rpc' = [rpc EXCEPT ![r] = "remove"]
      /\ UNCHANGED <<respCh, prov, stale, queue, pending, registered, trusted, usable, limit, drainVars,
                     skipped, cur, at>>
  BY Zenon DEF GiveUp, provVars, drainVars
<1>2. rpc'[r] = "remove" /\ \A s \in Requests \ {r} : rpc'[s] = rpc[s]
  BY <1>0, <1>1, Zenon DEF OtherTypes
<1>3. OtherTypes'
  BY <1>0, <1>1, Zenon DEF OtherTypes
<1>4. Shape'
  BY <1>1, <1>2, <1>3, IdleKeepsShape, ZenonT(40) DEF IInv
<1>6. /\ \A t \in Threads : Held(t)' = Held(t) /\ Held(t) \subseteq Requests
      /\ \A s \in Requests : (Queued(s)' <=> Queued(s))
      /\ \A s \in Requests : (Waits(s)' <=> Waits(s))
  BY <1>0, <1>1, <1>2 DEF Held, Queued, Waits, DrainTypes, Elements
<1>7. InOwnQueue' /\ AsideOnce' /\ HeldOnce'
  BY <1>0, <1>1, <1>6, Zenon DEF InOwnQueue, AsideOnce, HeldOnce
<1>8. QueuedWaits' /\ AnsweredWaits'
  BY <1>0, <1>1, <1>6, Zenon DEF QueuedWaits, AnsweredWaits
<1>9. DoneIsAnswered'
  BY <1>0, <1>1, <1>2, Zenon DEF DoneIsAnswered, OtherTypes
<1>10. HeldWaits'
  BY <1>0, <1>1, <1>6, Zenon DEF HeldWaits
<1>11. NoLostWaiter'
  BY <1>0, <1>1, <1>2, <1>6, Zenon DEF NoLostWaiter
<1>12. \A s \in Requests, q \in Providers : (Assigned(s, q)' <=> Assigned(s, q))
  BY <1>1, <1>2, Zenon DEF Assigned
<1>14. \A s \in Requests : (Leaked(s)' <=> Leaked(s))
  BY <1>1, <1>2, <1>6, Zenon DEF Leaked
<1>15. SlotsAreKnown' /\ AssignedHolds' /\ OneProvider'
  BY <1>0, <1>1, <1>2, <1>12, <1>14, Zenon DEF SlotsAreKnown, AssignedHolds, OneProvider, OtherTypes
<1>16. LeftIsGone'
  BY Zenon DEF GiveUp, LeftIsGone, Steady
<1> QED
  BY <1>4, <1>7, <1>8, <1>9, <1>10, <1>11, <1>15, <1>16, Zenon DEF IInv, Places, Owned

LEMMA RemoveStep == ASSUME IInv, NEW r \in Requests, Remove(r) PROVE IInv'
<1>0. /\ InOwnQueue /\ QueuedWaits /\ AsideOnce /\ HeldWaits /\ HeldOnce
      /\ AnsweredWaits /\ DoneIsAnswered /\ NoLostWaiter
      /\ OtherTypes /\ DrainTypes /\ SlotsAreKnown /\ AssignedHolds /\ OneProvider /\ LeftIsGone
      /\ ModelOf \in [Requests -> Models]
  BY TypesOfParts, DispatchAssumption, Zenon DEF IInv, Places, Shape, Owned
<1>1. /\ rpc[r] = "remove" /\ rpc' = [rpc EXCEPT ![r] = "left"]
      /\ UNCHANGED <<respCh, done, prov, stale, pending, registered, trusted, usable, limit, drainVars,
                     skipped, cur, at>>
  BY Zenon DEF Remove, provVars, drainVars
<1>2. rpc'[r] = "left" /\ \A s \in Requests \ {r} : rpc'[s] = rpc[s]
  BY <1>0, <1>1, Zenon DEF OtherTypes
<1>3. /\ queue' \in [Models -> Seq(Requests)]
      /\ \A m \in Models : /\ Distinct(queue'[m])
                           /\ Elements(queue'[m]) = Elements(queue[m]) \ {r}
  <2>a. PICK m \in Models : m = ModelOf[r]
    BY <1>0, Zenon
  <2>b. \A n \in Models \ {m} : r \notin Elements(queue[n])
    BY <1>0, <2>a, Zenon DEF InOwnQueue
  <2>1. CASE r \notin Elements(queue[m]) /\ UNCHANGED queue
    BY <1>0, <2>a, <2>b, <2>1 DEF InOwnQueue, OtherTypes
  <2>2. CASE \E i \in DOMAIN queue[m] :
                 /\ queue[m][i] = r
                 /\ queue' = [queue EXCEPT ![m] = SubSeq(queue[m], 1, i - 1)
                                                    \o SubSeq(queue[m], i + 1, Len(queue[m]))]
    <3>1. PICK i \in DOMAIN queue[m] :
                 /\ queue[m][i] = r
                 /\ queue' = [queue EXCEPT ![m] = SubSeq(queue[m], 1, i - 1)
                                                    \o SubSeq(queue[m], i + 1, Len(queue[m]))]
      BY <2>2, Zenon
    <3>2. PICK d : d = SubSeq(queue[m], 1, i - 1) \o SubSeq(queue[m], i + 1, Len(queue[m]))
      BY Zenon
    <3>3. d \in Seq(Requests) /\ Distinct(d) /\ Elements(d) = Elements(queue[m]) \ {r}
      BY <1>0, <3>1, <3>2, CutElement, ZenonT(40) DEF InOwnQueue, OtherTypes
    <3>4. queue' = [queue EXCEPT ![m] = d]
      BY <3>1, <3>2, Zenon
    <3> QED
      BY <1>0, <2>b, <3>3, <3>4 DEF InOwnQueue, OtherTypes
  <2> QED
    BY <2>a, <2>1, <2>2, Zenon DEF Remove
<1>4. OtherTypes'
  BY <1>0, <1>1, <1>3, Zenon DEF OtherTypes
<1>5. Shape'
  BY <1>1, <1>2, <1>4, IdleKeepsShape, Zenon DEF IInv
<1>6. /\ \A t \in Threads : Held(t)' = Held(t) /\ Held(t) \subseteq Requests
      /\ \A s \in Requests : (Waits(s)' <=> Waits(s))
  BY <1>0, <1>1, <1>2 DEF Held, Waits, DrainTypes, Elements
<1>7. \A s \in Requests : Queued(s)' <=> Queued(s) /\ s # r
  BY <1>0, <1>3, Zenon DEF Queued
<1>8. InOwnQueue'
  BY <1>0, <1>3, Zenon DEF InOwnQueue
<1>9. AsideOnce' /\ HeldOnce'
  BY <1>0, <1>1, <1>6, Zenon DEF AsideOnce, HeldOnce
<1>10. QueuedWaits' /\ AnsweredWaits'
  BY <1>0, <1>1, <1>6, <1>7, Zenon DEF QueuedWaits, AnsweredWaits
<1>11. DoneIsAnswered'
  BY <1>0, <1>1, <1>2, Zenon DEF DoneIsAnswered, OtherTypes
<1>12. HeldWaits'
  BY <1>0, <1>1, <1>6, <1>7, Zenon DEF HeldWaits
<1>13. NoLostWaiter'
  BY <1>0, <1>1, <1>2, <1>6, <1>7, Zenon DEF NoLostWaiter
<1>14. \A s \in Requests, q \in Providers : (Assigned(s, q)' <=> Assigned(s, q))
  BY <1>1, <1>2, Zenon DEF Assigned
<1>15. \A s \in Requests : Leaked(s) => Leaked(s)'
  BY <1>1, <1>2, <1>6, <1>7, Zenon DEF Leaked
<1>16. SlotsAreKnown' /\ AssignedHolds' /\ OneProvider'
  BY <1>0, <1>1, <1>2, <1>14, <1>15, Zenon DEF SlotsAreKnown, AssignedHolds, OneProvider, OtherTypes
<1>17. LeftIsGone'
  BY <1>0, <1>1, Zenon DEF LeftIsGone
<1> QED
  BY <1>5, <1>8, <1>9, <1>10, <1>11, <1>12, <1>13, <1>16, <1>17, Zenon DEF IInv, Places, Owned

(* Requests expired in the queue get a nil answer, and had no slot.        *)
LEMMA ExpireEffect ==
    ASSUME IInv, NEW S \in SUBSET Requests, \A r \in S : Queued(r), Expire(S)
    PROVE  /\ respCh' \in [Requests -> Providers \cup {Empty, Nil}] /\ done' = done \cup S
           /\ \A r \in Requests : respCh'[r] = IF r \in S THEN Nil ELSE respCh[r]
           /\ \A r \in S : /\ Waits(r) /\ respCh[r] = Empty /\ ~Leaked(r)
                           /\ \A t \in Threads : r \notin Held(t) /\ cur[t] # r
                           /\ \A p \in Providers : r \notin pending[p]
<1>1. \A r \in S : /\ Waits(r) /\ respCh[r] = Empty /\ ~Leaked(r)
                   /\ \A t \in Threads : r \notin Held(t) /\ cur[t] # r
  BY DispatchAssumption, ZenonT(40) DEF IInv, Places, QueuedWaits, HeldWaits, Leaked, Held
<1>2. \A r \in S, p \in Providers : r \notin pending[p]
  BY <1>1, UnassignedHasNoSlot, DispatchAssumption, Zenon DEF Waits
<1>3. /\ respCh' \in [Requests -> Providers \cup {Empty, Nil}] /\ done' = done \cup S
      /\ \A r \in Requests : respCh'[r] = IF r \in S THEN Nil ELSE respCh[r]
  BY <1>1, Zenon DEF Expire, IInv, Shape, TypeOK
<1> QED
  BY <1>1, <1>2, <1>3, Zenon

LEMMA EnqueueStep == ASSUME IInv, NEW r \in Requests, Enqueue(r) PROVE IInv'
<1>0. /\ InOwnQueue /\ QueuedWaits /\ AsideOnce /\ HeldWaits /\ HeldOnce
      /\ AnsweredWaits /\ DoneIsAnswered /\ NoLostWaiter
      /\ OtherTypes /\ DrainTypes /\ SlotsAreKnown /\ AssignedHolds /\ OneProvider /\ LeftIsGone
      /\ ModelOf \in [Requests -> Models] /\ Nil \notin Providers /\ Empty # Nil
  BY TypesOfParts, DispatchAssumption, Zenon DEF IInv, Places, Shape, Owned
<1>a. PICK m \in Models : m = ModelOf[r]
  BY <1>0, Zenon
<1>b. PICK S : S = Elements(queue[m]) \cap stale
  BY Zenon
<1>1. /\ rpc[r] = "enqueue" /\ ~Waits(r) /\ Expire(S)
      /\ UNCHANGED <<prov, stale, pending, registered, trusted, usable, limit, drainVars, skipped, cur, at>>
  BY <1>a, <1>b, Zenon DEF Enqueue, provVars, drainVars, Waits
<1>2. S \subseteq Requests /\ \A s \in S : Queued(s)
  BY <1>0, <1>b, Zenon DEF InOwnQueue, OtherTypes, Queued, Elements
<1>3. /\ respCh' \in [Requests -> Providers \cup {Empty, Nil}] /\ done' = done \cup S
      /\ \A s \in Requests : respCh'[s] = IF s \in S THEN Nil ELSE respCh[s]
      /\ \A s \in S : /\ Waits(s) /\ respCh[s] = Empty /\ ~Leaked(s)
                      /\ \A t \in Threads : s \notin Held(t) /\ cur[t] # s
                      /\ \A p \in Providers : s \notin pending[p]
  BY <1>1, <1>2, ExpireEffect, Zenon
<1>4. /\ ~Queued(r) /\ respCh[r] = Empty /\ r \notin S /\ r \notin Elements(queue[m])
      /\ \A t \in Threads : r \notin Held(t) /\ cur[t] # r
  BY <1>1, <1>2, <1>a, ElsewhereIsNowhere, Zenon DEF Queued
<1>5. \A p \in Providers : r \notin pending[p]
  BY <1>1, <1>4, UnassignedHasNoSlot, DispatchAssumption, Zenon DEF Leaked
<1>6. PICK d, x :
         /\ d \in Seq(Requests) /\ Distinct(d) /\ queue' = [queue EXCEPT ![m] = d]
         /\ rpc' = [rpc EXCEPT ![r] = x] /\ x \in {"left", "waiting"}
         /\ Elements(d) = (Elements(queue[m]) \ S) \cup (IF x = "waiting" THEN {r} ELSE {})
  <2>1. PICK s \in SequencesUpTo(Elements(queue[m]), Len(queue[m])) :
          /\ FreshPart(s, queue[m])
          /\ IF Len(s) >= MaxSize
             THEN /\ queue' = [queue EXCEPT ![m] = s]
                  /\ rpc' = [rpc EXCEPT ![r] = "left"]
             ELSE /\ queue' = [queue EXCEPT ![m] = Append(s, r)]
                  /\ rpc' = [rpc EXCEPT ![r] = "waiting"]
    BY <1>a, Zenon DEF Enqueue
  <2>2. s \in Seq(Requests) /\ Distinct(s) /\ Elements(s) = Elements(queue[m]) \ S
    BY <1>0, <1>b, <2>1, FreshElements DEF InOwnQueue, OtherTypes
  <2>3. CASE Len(s) >= MaxSize
    BY <2>1, <2>2, <2>3, Zenon
  <2>4. CASE ~(Len(s) >= MaxSize)
    <3>1. r \notin Elements(s)
      BY <1>4, <2>2, Zenon
    <3>2. /\ Append(s, r) \in Seq(Requests) /\ Distinct(Append(s, r))
          /\ Elements(Append(s, r)) = Elements(s) \cup {r}
      BY <2>2, <3>1, AppendElement
    <3>3. PICK d : d = Append(s, r)
      BY Zenon
    <3>4. /\ d \in Seq(Requests) /\ Distinct(d) /\ Elements(d) = (Elements(queue[m]) \ S) \cup {r}
          /\ queue' = [queue EXCEPT ![m] = d] /\ rpc' = [rpc EXCEPT ![r] = "waiting"]
      BY <2>1, <2>2, <2>4, <3>2, <3>3, Zenon
    <3> QED
      BY <3>4, Zenon
  <2> QED
    BY <2>3, <2>4, Zenon
<1>7. /\ rpc'[r] = x /\ (\A s \in Requests \ {r} : rpc'[s] = rpc[s])
      /\ queue' \in [Models -> Seq(Requests)] /\ queue'[m] = d
      /\ \A n \in Models \ {m} : queue'[n] = queue[n]
  BY <1>0, <1>6, Zenon DEF OtherTypes
<1>8. OtherTypes'
  BY <1>0, <1>1, <1>2, <1>3, <1>6, <1>7, Zenon DEF OtherTypes
<1>9. Shape'
  BY <1>1, <1>7, <1>8, IdleKeepsShape, Zenon DEF IInv
<1>10. InOwnQueue'
  BY <1>0, <1>6, <1>7, <1>a, Zenon DEF InOwnQueue
<1>11. \A s \in Requests : Queued(s)' <=> (Queued(s) /\ s \notin S) \/ (s = r /\ x = "waiting")
  BY <1>0, <1>2, <1>4, <1>6, <1>7, <1>a, <1>b, ZenonT(40) DEF Queued, InOwnQueue
<1>12. /\ \A t \in Threads : Held(t)' = Held(t) /\ Held(t) \subseteq Requests
       /\ \A s \in Requests \ {r} : (Waits(s)' <=> Waits(s))
       /\ Waits(r)'
  BY <1>0, <1>1, <1>6, <1>7 DEF Held, Waits, DrainTypes, Elements
<1>13. AsideOnce' /\ HeldOnce'
  BY <1>0, <1>1, <1>12, Zenon DEF AsideOnce, HeldOnce
<1>14. QueuedWaits' /\ AnsweredWaits'
  BY <1>0, <1>2, <1>3, <1>4, <1>11, <1>12, Zenon DEF QueuedWaits, AnsweredWaits
<1>15. DoneIsAnswered'
  <2> SUFFICES ASSUME NEW s \in done \cup S
               PROVE  rpc'[s] \notin {"start", "enqueue"} /\ (rpc'[s] = "waiting" => respCh'[s] # Empty)
    BY <1>3, Zenon DEF DoneIsAnswered
  <2>1. s # r /\ s \in Requests
    BY <1>0, <1>1, <1>2, <1>4, Zenon DEF DoneIsAnswered, OtherTypes
  <2>2. CASE s \in S
    BY <1>0, <1>3, <1>7, <2>1, <2>2, Zenon DEF Waits
  <2>3. CASE s \notin S
    BY <1>0, <1>3, <1>7, <2>1, <2>3, ZenonT(40) DEF DoneIsAnswered
  <2> QED
    BY <2>2, <2>3, Zenon
<1>16. HeldWaits'
  BY <1>0, <1>3, <1>4, <1>11, <1>12 DEF HeldWaits
<1>17. NoLostWaiter'
  <2> SUFFICES ASSUME NEW s \in Requests, rpc'[s] = "waiting", respCh'[s] = Empty
               PROVE  Queued(s)' \/ \E t \in Threads : s \in Held(t)'
    BY Zenon DEF NoLostWaiter
  <2>1. CASE s = r
    BY <1>7, <1>11, <2>1, Zenon
  <2>2. CASE s # r
    <3>1. s \notin S /\ respCh[s] = Empty /\ rpc[s] = "waiting"
      BY <1>0, <1>3, <1>7, <2>2, Zenon
    <3> QED
      BY <1>0, <1>11, <1>12, <3>1, Zenon DEF NoLostWaiter
  <2> QED
    BY <2>1, <2>2, Zenon
<1>18. \A s \in Requests, q \in Providers : (Assigned(s, q)' <=> Assigned(s, q))
  <2> SUFFICES ASSUME NEW s \in Requests, NEW q \in Providers
               PROVE  (Assigned(s, q)' <=> Assigned(s, q))
    BY Zenon
  <2>1. respCh'[s] = q <=> respCh[s] = q
    BY <1>0, <1>3, DispatchAssumption, ZenonT(40)
  <2>2. rpc'[s] \in {"dispatch", "running"} <=> rpc[s] \in {"dispatch", "running"}
    BY <1>1, <1>6, <1>7, Zenon
  <2> QED
    BY <1>1, <2>1, <2>2, Zenon DEF Assigned
<1>19. \A s \in Requests \ {r} : Leaked(s) => Leaked(s)'
  <2> SUFFICES ASSUME NEW s \in Requests \ {r}, Leaked(s) PROVE Leaked(s)'
    BY Zenon
  <2>1. rpc[s] = "left" /\ respCh[s] = Empty /\ ~Queued(s) /\ \A t \in Threads : s \notin Held(t)
    BY Zenon DEF Leaked
  <2>2. s \notin S
    BY <1>2, <2>1, Zenon
  <2>3. rpc'[s] = "left" /\ respCh'[s] = Empty
    BY <1>3, <1>7, <2>1, <2>2, Zenon
  <2>4. ~Queued(s)' /\ \A t \in Threads : s \notin Held(t)'
    BY <1>11, <1>12, <2>1, Zenon
  <2> QED
    BY <2>3, <2>4, Zenon DEF Leaked
<1>20. SlotsAreKnown'
  BY <1>0, <1>1, <1>5, <1>18, <1>19 DEF SlotsAreKnown, OtherTypes
<1>21. AssignedHolds'
  BY <1>0, <1>1, <1>7, <1>18, Zenon DEF AssignedHolds, OtherTypes
<1>22. OneProvider'
  BY <1>0, <1>1, Zenon DEF OneProvider
<1>23. rpc'[r] = "left" => Leaked(r)'
  BY <1>3, <1>4, <1>7, <1>11, <1>12, ZenonT(40) DEF Leaked
<1>24. LeftIsGone'
  BY <1>0, <1>1, <1>5, <1>6, <1>7, <1>19, <1>23 DEF LeftIsGone
<1> QED
  BY <1>9, <1>10, <1>13, <1>14, <1>15, <1>16, <1>17, <1>20, <1>21, <1>22, <1>24, ZenonT(40) DEF IInv, Places, Owned

-----------------------------------------------------------------------------
(* The steps of a drain; with the steps above, the theorems about the      *)
(* queue and the slots follow.                                             *)

(* What a pop removes, the expired and the one it takes, was queued.       *)
LEMMA PoppedElements ==
    ASSUME NEW q \in Seq(Requests), NEW k \in 1..(Len(q) + 1)
    PROVE  /\ \A i \in 1..(k - 1) : q[i] \in Elements(q)
           /\ k <= Len(q) => q[k] \in Elements(q)
           /\ k <= Len(q) /\ Distinct(q) => \A i \in 1..(k - 1) : q[i] # q[k]
<1>1. PICK n \in Nat : n = Len(q) /\ DOMAIN q = 1..n
  OBVIOUS
<1>2. \A i \in 1..n : q[i] \in Elements(q)
  BY <1>1, Zenon DEF Elements
<1>3. (\A i \in 1..(k - 1) : i \in 1..n /\ i # k) /\ (k <= n => k \in 1..n)
  BY <1>1
<1>4. ASSUME k <= n, Distinct(q), NEW i \in 1..(k - 1) PROVE q[i] # q[k]
  BY <1>1, <1>3, <1>4, Zenon DEF Distinct
<1> QED
  BY <1>1, <1>2, <1>3, <1>4, Zenon

LEMMA PopStep == ASSUME IInv, NEW t \in Threads, Pop(t) PROVE IInv'
<1>0. /\ InOwnQueue /\ QueuedWaits /\ AsideOnce /\ HeldWaits /\ HeldOnce
      /\ AnsweredWaits /\ DoneIsAnswered /\ NoLostWaiter
      /\ OtherTypes /\ DrainTypes /\ SlotsAreKnown /\ AssignedHolds /\ OneProvider /\ LeftIsGone
      /\ ModelOf \in [Requests -> Models] /\ Nil \notin Providers /\ Empty # Nil
      /\ DrainOK(t) /\ None \notin Requests /\ Shape
  BY TypesOfParts, DispatchAssumption, Zenon DEF IInv, Places, Shape, Owned
<1>1. /\ dpc[t] = "pop" /\ cur[t] = None /\ at[t] = None /\ todo[t] # <<>> /\ todo[t] \in Seq(Models)
      /\ UNCHANGED <<rpc, prov, stale, pending, registered, trusted, usable, limit, at>>
  BY <1>0, Zenon DEF Pop, provVars, DrainOK, DrainTypes
<1>2. PICK k \in 1..(Len(queue[Head(todo[t])]) + 1) :
         /\ Expire({queue[Head(todo[t])][i] : i \in 1..(k - 1)})
         /\ queue' = [queue EXCEPT ![Head(todo[t])] =
                         SubSeq(queue[Head(todo[t])], k + 1, Len(queue[Head(todo[t])]))]
         /\ IF k <= Len(queue[Head(todo[t])])
            THEN /\ cur' = [cur EXCEPT ![t] = queue[Head(todo[t])][k]]
                 /\ dpc' = [dpc EXCEPT ![t] = "reserve"]
                 /\ UNCHANGED <<skipped, todo>>
            ELSE Proceed(t, None, skipped[t])
  BY Zenon DEF Pop
<1>a. PICK m \in Models : m = Head(todo[t])
  BY <1>1, TailView, Zenon
<1>b. PICK q \in Seq(Requests) : q = queue[m]
  BY <1>0, Zenon DEF OtherTypes
<1>c. PICK S : S = {q[i] : i \in 1..(k - 1)}
  BY Zenon
<1>f. k \in 1..(Len(q) + 1) /\ Expire(S)
  BY <1>2, <1>a, <1>b, <1>c, Zenon
<1>g. PICK d : d = SubSeq(q, k + 1, Len(q)) /\ queue' = [queue EXCEPT ![m] = d]
  BY <1>2, <1>a, <1>b, Zenon
<1>h. IF k <= Len(q)
      THEN /\ cur' = [cur EXCEPT ![t] = q[k]]
           /\ dpc' = [dpc EXCEPT ![t] = "reserve"]
           /\ UNCHANGED <<skipped, todo>>
      ELSE Proceed(t, None, skipped[t])
  BY <1>2, <1>a, <1>b, Zenon
<1>d. PICK C : C = IF k <= Len(q) THEN {q[k]} ELSE {}
  BY Zenon
<1>3. Distinct(q) /\ \A r \in Elements(q) : r \in Requests /\ Queued(r) /\ ModelOf[r] = m
  BY <1>0, <1>b DEF InOwnQueue, OtherTypes, Queued, Elements
<1>4. S \subseteq Elements(q) /\ C \subseteq Elements(q) /\ S \cap C = {}
  <2>1. S \subseteq Elements(q)
    BY <1>c, <1>f, PoppedElements, Zenon
  <2>2. C \subseteq Elements(q)
    BY <1>d, <1>f, PoppedElements, Zenon
  <2>3. ASSUME k <= Len(q), NEW i \in 1..(k - 1) PROVE q[i] # q[k]
    BY <1>3, <1>f, <2>3, PoppedElements, Zenon
  <2> QED
    BY <1>c, <1>d, <2>1, <2>2, <2>3, Zenon
<1>5. /\ respCh' \in [Requests -> Providers \cup {Empty, Nil}] /\ done' = done \cup S
      /\ \A s \in Requests : respCh'[s] = IF s \in S THEN Nil ELSE respCh[s]
      /\ \A s \in S : /\ Waits(s) /\ respCh[s] = Empty /\ ~Leaked(s)
                      /\ \A u \in Threads : s \notin Held(u) /\ cur[u] # s
                      /\ \A p \in Providers : s \notin pending[p]
  <2>1. S \in SUBSET Requests /\ (\A s \in S : Queued(s)) /\ Expire(S)
    BY <1>3, <1>4, <1>f, Zenon
  <2> QED
    BY <2>1, ExpireEffect, Zenon
<1>6. d \in Seq(Requests) /\ Distinct(d) /\ Elements(d) = Elements(q) \ (S \cup C)
  BY <1>3, <1>c, <1>d, <1>f, <1>g, DropElements, ZenonT(40)
<1>7. /\ queue' \in [Models -> Seq(Requests)] /\ queue'[m] = d
      /\ \A n \in Models \ {m} : queue'[n] = queue[n]
  BY <1>0, <1>6, <1>g, Zenon DEF OtherTypes
<1>8. OtherTypes'
  BY <1>0, <1>1, <1>3, <1>4, <1>5, <1>7, Zenon DEF OtherTypes
<1>9. /\ DrainsKept(t) /\ skipped'[t] = skipped[t]
      /\ cur'[t] = (IF k <= Len(q) THEN q[k] ELSE None) /\ at'[t] = None
  <2>1. CASE k <= Len(q)
    <3>1. q[k] \in Requests
      BY <1>3, <1>4, <1>d, <2>1, Zenon
    <3>2. /\ cur' = [cur EXCEPT ![t] = q[k]] /\ dpc' = [dpc EXCEPT ![t] = "reserve"]
          /\ UNCHANGED <<skipped, todo, at>>
      BY <1>1, <1>h, <2>1, Zenon
    <3> QED
      BY <1>0, <1>1, <2>1, <3>1, <3>2, Zenon DEF DrainsKept, DrainTypes, DrainOK
  <2>2. CASE ~(k <= Len(q))
    <3>1. Proceed(t, None, skipped[t]) /\ at' = [at EXCEPT ![t] = None] /\ skipped[t] \in Seq(Requests)
      BY <1>0, <1>1, <1>h, <2>2, Zenon DEF DrainTypes
    <3>2. DrainsKept(t)
      BY <1>0, <1>1, <3>1, ProceedKeepsDrains, Zenon
    <3> QED
      BY <1>0, <1>1, <2>2, <3>1, <3>2, Zenon DEF Proceed, DrainTypes
  <2> QED
    BY <2>1, <2>2, Zenon
<1>10. Shape'
  BY <1>0, <1>1, <1>8, <1>9, DrainKeepsShape, Zenon
<1>11. /\ Held(t)' = Held(t) \cup C /\ Held(t)' = Elements(skipped[t]) \cup C
       /\ \A u \in Threads \ {t} : Held(u)' = Held(u)
       /\ \A u \in Threads : Held(u) \subseteq Requests
  <2>1. Held(t)' = Elements(skipped[t]) \cup C /\ Held(t) = Elements(skipped[t])
    BY <1>0, <1>1, <1>3, <1>4, <1>9, <1>d, Zenon DEF Held
  <2>2. \A u \in Threads : Held(u) \subseteq Requests
    BY <1>0, HeldAreRequests, Zenon
  <2> QED
    BY <1>9, <2>1, <2>2, HeldByOthers, Zenon
<1>12. \A s \in Requests : Queued(s)' <=> Queued(s) /\ s \notin S \cup C
  BY <1>0, <1>3, <1>4, <1>6, <1>7, <1>b, Zenon DEF Queued, InOwnQueue
<1>13. \A s : (Waits(s)' <=> Waits(s))
  BY <1>1, Zenon DEF Waits
<1>14. InOwnQueue'
  BY <1>0, <1>6, <1>7, <1>b, Zenon DEF InOwnQueue
<1>e. \A s \in C : s \in Requests /\ Queued(s) /\ respCh[s] = Empty /\ Waits(s) /\ s \notin S
                   /\ \A u \in Threads : s \notin Held(u)
  BY <1>0, <1>3, <1>4, Zenon DEF QueuedWaits, HeldWaits
<1>15. AsideOnce'
  <2>1. cur'[t] \notin Elements(skipped[t])
    <3>1. CASE k <= Len(q)
      BY <1>9, <1>e, <1>d, <3>1, Zenon DEF Held
    <3>2. CASE ~(k <= Len(q))
      BY <1>0, <1>1, <1>9, <3>2, Zenon DEF AsideOnce
    <3> QED
      BY <3>1, <3>2, Zenon
  <2> QED
    BY <1>0, <1>9, <2>1, Zenon DEF AsideOnce, DrainsKept
<1>16. HeldOnce'
  BY <1>0, <1>11, <1>e DEF HeldOnce
<1>17. QueuedWaits' /\ AnsweredWaits'
  BY <1>0, <1>3, <1>4, <1>5, <1>12, <1>13, Zenon DEF QueuedWaits, AnsweredWaits
<1>18. DoneIsAnswered'
  <2> SUFFICES ASSUME NEW s \in done \cup S
               PROVE  rpc[s] \notin {"start", "enqueue"} /\ (rpc[s] = "waiting" => respCh'[s] # Empty)
    BY <1>1, <1>5, Zenon DEF DoneIsAnswered
  <2>1. s \in Requests
    BY <1>0, <1>3, <1>4, Zenon DEF OtherTypes
  <2>2. CASE s \in S
    BY <1>0, <1>5, <2>1, <2>2, Zenon DEF Waits
  <2>3. CASE s \notin S
    BY <1>0, <1>5, <2>1, <2>3, Zenon DEF DoneIsAnswered
  <2> QED
    BY <2>2, <2>3, Zenon
<1>19. HeldWaits'
  <2> SUFFICES ASSUME NEW u \in Threads, NEW s \in Held(u)'
               PROVE  (~Queued(s) /\ respCh[s] = Empty /\ Waits(s))'
    BY Zenon DEF HeldWaits
  <2>1. CASE s \in C
    BY <1>5, <1>12, <1>13, <1>e, <2>1, Zenon
  <2>2. CASE s \notin C
    <3>1. s \in Held(u) /\ s \in Requests
      BY <1>11, <2>2, Zenon
    <3> QED
      BY <1>0, <1>5, <1>12, <1>13, <3>1, Zenon DEF HeldWaits
  <2> QED
    BY <2>1, <2>2, Zenon
<1>20. NoLostWaiter'
  <2> SUFFICES ASSUME NEW s \in Requests, rpc[s] = "waiting", respCh'[s] = Empty
               PROVE  Queued(s)' \/ \E u \in Threads : s \in Held(u)'
    BY <1>1, Zenon DEF NoLostWaiter
  <2>1. s \notin S /\ respCh[s] = Empty
    BY <1>0, <1>5, Zenon
  <2> QED
    BY <1>0, <1>11, <1>12, <2>1 DEF NoLostWaiter
<1>21. \A s \in Requests, p \in Providers : (Assigned(s, p)' <=> Assigned(s, p))
  <2> SUFFICES ASSUME NEW s \in Requests, NEW p \in Providers
               PROVE  (Assigned(s, p)' <=> Assigned(s, p))
    BY ZenonT(40)
  <2>1. respCh'[s] = p <=> respCh[s] = p
    BY <1>0, <1>5, DispatchAssumption, ZenonT(40)
  <2>2. \A u \in Threads : (cur'[u] = s /\ at'[u] = p) <=> (cur[u] = s /\ at[u] = p)
    <3>1. at[t] # p /\ at'[t] # p
      BY <1>1, <1>9, DispatchAssumption, ZenonT(40)
    <3> QED
      BY <1>9, <3>1, Zenon DEF DrainsKept
  <2> QED
    BY <1>1, <2>1, <2>2, Zenon DEF Assigned
<1>22. \A s \in Requests : Leaked(s) => Leaked(s)'
  BY <1>1, <1>5, <1>11, <1>12, <1>e DEF Leaked
<1>23. SlotsAreKnown' /\ AssignedHolds' /\ OneProvider'
  BY <1>0, <1>1, <1>21, <1>22, Zenon DEF SlotsAreKnown, AssignedHolds, OneProvider, OtherTypes
<1>24. LeftIsGone'
  BY <1>0, <1>1, <1>22, Zenon DEF LeftIsGone
<1> QED
  BY <1>10, <1>14, <1>15, <1>16, <1>17, <1>18, <1>19, <1>20, <1>23, <1>24, ZenonT(40) DEF IInv, Places, Owned

(* A drain found a provider for the request in its hand, or sets it aside. *)
LEMMA DrainReserveStep == ASSUME IInv, NEW t \in Threads, DrainReserve(t) PROVE IInv'
<1>0. /\ InOwnQueue /\ QueuedWaits /\ AsideOnce /\ HeldWaits /\ HeldOnce
      /\ AnsweredWaits /\ DoneIsAnswered /\ NoLostWaiter
      /\ OtherTypes /\ DrainTypes /\ SlotsAreKnown /\ AssignedHolds /\ OneProvider /\ LeftIsGone
      /\ DrainOK(t) /\ None \notin Requests /\ Shape
  BY TypesOfParts, DispatchAssumption, Zenon DEF IInv, Places, Shape, Owned
<1>1. /\ dpc[t] = "reserve" /\ cur[t] # None /\ at[t] = None /\ todo[t] # <<>>
      /\ skipped[t] \in Seq(Requests)
      /\ UNCHANGED <<rpc, prov, stale, queue, respCh, done, registered>>
  BY <1>0, Zenon DEF DrainReserve, provVars, queueVars, ReserveFails, DrainOK, DrainTypes
<1>2. PICK r \in Requests : r = cur[t]
  BY <1>0, <1>1, Zenon DEF DrainTypes
<1>3. r \in Held(t) /\ ~Queued(r) /\ respCh[r] = Empty /\ Waits(r) /\ r \notin Elements(skipped[t])
  BY <1>0, <1>1, <1>2, Zenon DEF Held, HeldWaits, AsideOnce
<1>4. \A u \in Threads \ {t} : r \notin Held(u) /\ cur[u] # r
  BY <1>0, <1>2, <1>3, Zenon DEF HeldOnce, Held
<1>5. \A p \in Providers : r \notin pending[p]
  BY <1>1, <1>2, <1>3, <1>4, UnassignedHasNoSlot, DispatchAssumption, Zenon DEF Leaked, Waits
<1>6. \A s : (Waits(s)' <=> Waits(s)) /\ (Queued(s)' <=> Queued(s))
  BY <1>1, Zenon DEF Waits, Queued
<1>7. InOwnQueue' /\ QueuedWaits' /\ AnsweredWaits' /\ DoneIsAnswered'
  BY <1>0, <1>1, <1>6, ZenonT(40) DEF InOwnQueue, QueuedWaits, AnsweredWaits, DoneIsAnswered
<1>8. ASSUME DrainsKept(t), Held(t)' = Held(t)
      PROVE  HeldWaits' /\ HeldOnce' /\ NoLostWaiter' /\ \A s \in Requests : (Leaked(s)' <=> Leaked(s))
  <2>1. \A u \in Threads : Held(u)' = Held(u)
    BY <1>8, HeldByOthers, Zenon
  <2>2. HeldWaits'
    BY <1>0, <1>1, <1>6, <2>1, Zenon DEF HeldWaits
  <2>3. HeldOnce'
    BY <1>0, <2>1, Zenon DEF HeldOnce
  <2>4. \A s \in Requests : (Leaked(s)' <=> Leaked(s))
    BY <1>1, <1>6, <2>1, ZenonT(40) DEF Leaked
  <2>5. NoLostWaiter'
    BY <1>0, <1>1, <1>6, <2>1, ZenonT(40) DEF NoLostWaiter
  <2> QED
    BY <2>2, <2>3, <2>4, <2>5, Zenon
<1>9. CASE \E p \in Providers : /\ addPending(p, r) /\ at' = [at EXCEPT ![t] = p]
                                /\ Proceed(t, r, skipped[t]) /\ UNCHANGED provVars
  <2>1. PICK p \in Providers : /\ addPending(p, r) /\ at' = [at EXCEPT ![t] = p]
                               /\ Proceed(t, r, skipped[t]) /\ UNCHANGED provVars
    BY <1>9, Zenon
  <2>2. DrainsKept(t)
    BY <1>0, <1>1, <2>1, ProceedKeepsDrains, DispatchAssumption, Zenon
  <2>3. cur'[t] = r /\ skipped'[t] = skipped[t] /\ at'[t] = p
    BY <1>0, <2>1, Zenon DEF Proceed, DrainTypes
  <2>4. OtherTypes'
    BY <1>0, <1>1, <2>1, Zenon DEF OtherTypes, addPending, provVars
  <2>5. Shape'
    BY <1>0, <1>1, <2>2, <2>4, DrainKeepsShape, Zenon
  <2>6. Held(t)' = Held(t)
    BY <1>2, <2>3, Zenon DEF Held
  <2>7. AsideOnce'
    BY <1>0, <1>3, <2>2, <2>3, Zenon DEF AsideOnce, DrainsKept
  <2>8. pending' = [q \in Providers |-> IF q = p THEN pending[p] \cup {r} ELSE pending[q]]
    BY <1>0, <2>1, Zenon DEF OtherTypes, addPending
  <2>9. \A s \in Requests \ {r}, q \in Providers : (Assigned(s, q)' <=> Assigned(s, q))
    <3> SUFFICES ASSUME NEW s \in Requests \ {r}, NEW q \in Providers
                 PROVE  (Assigned(s, q)' <=> Assigned(s, q))
      BY Zenon
    <3>1. \A u \in Threads : (cur'[u] = s /\ at'[u] = q) <=> (cur[u] = s /\ at[u] = q)
      BY <1>2, <2>2, <2>3, Zenon DEF DrainsKept
    <3> QED
      BY <1>1, <3>1, Zenon DEF Assigned
  <2>10. \A q \in Providers : Assigned(r, q)' <=> q = p
    <3> SUFFICES ASSUME NEW q \in Providers PROVE Assigned(r, q)' <=> q = p
      BY Zenon
    <3>1. \A u \in Threads : (cur'[u] = r /\ at'[u] = q) <=> (u = t /\ q = p)
      BY <1>4, <2>2, <2>3, Zenon DEF DrainsKept
    <3> QED
      BY <1>1, <1>3, <3>1, DispatchAssumption, Zenon DEF Assigned, Waits
  <2>11. HeldWaits' /\ HeldOnce' /\ NoLostWaiter' /\ \A s \in Requests : (Leaked(s)' <=> Leaked(s))
    BY <1>8, <2>2, <2>6, Zenon
  <2>12. SlotsAreKnown'
    BY <1>0, <1>5, <2>8, <2>9, <2>10, <2>11, ZenonT(40) DEF SlotsAreKnown, OtherTypes
  <2>13. AssignedHolds'
    BY <1>0, <1>1, <2>8, <2>9, <2>10, ZenonT(40) DEF AssignedHolds, OtherTypes
  <2>14. OneProvider'
    BY <1>0, <1>5, <2>8 DEF OneProvider, OtherTypes
  <2>15. LeftIsGone'
    BY <1>0, <1>1, <1>3, <2>8, <2>11, Zenon DEF LeftIsGone, Leaked
  <2> QED
    BY <1>7, <2>5, <2>7, <2>11, <2>12, <2>13, <2>14, <2>15, ZenonT(40) DEF IInv, Places, Owned
<1>10. CASE /\ ReserveFails(r) /\ skipped' = [skipped EXCEPT ![t] = Append(@, r)]
            /\ cur' = [cur EXCEPT ![t] = None] /\ dpc' = [dpc EXCEPT ![t] = "pop"]
            /\ UNCHANGED <<todo, at>>
  <2>1. PICK d : d = Append(skipped[t], r)
    BY ZenonT(40)
  <2>2. d \in Seq(Requests) /\ Distinct(d) /\ Elements(d) = Elements(skipped[t]) \cup {r}
    <3>1. skipped[t] \in Seq(Requests) /\ Distinct(skipped[t])
      BY <1>0, <1>1, Zenon DEF AsideOnce
    <3> QED
      BY <1>3, <2>1, <3>1, RequestAdded, Zenon
  <2>3. skipped' = [skipped EXCEPT ![t] = d]
    BY <1>10, <2>1, Zenon
  <2>4. DrainsKept(t) /\ skipped'[t] = d /\ cur'[t] = None /\ at'[t] = None
    BY <1>0, <1>1, <1>10, <2>2, <2>3, ZenonT(40) DEF DrainsKept, DrainTypes, DrainOK
  <2>5. OtherTypes'
    BY <1>0, <1>1, <1>10, Zenon DEF OtherTypes, ReserveFails
  <2>6. Shape'
    BY <1>0, <1>1, <2>4, <2>5, DrainKeepsShape, ZenonT(40)
  <2>a. Elements(d) \subseteq Requests
    BY <2>2 DEF Elements
  <2>7. Held(t)' = Held(t) /\ Elements(d) \subseteq Requests
    BY <1>0, <1>2, <2>2, <2>4, <2>a, Zenon DEF Held
  <2>8. AsideOnce'
    BY <1>0, <2>2, <2>4, <2>7, Zenon DEF AsideOnce, DrainsKept
  <2>9. \A s \in Requests, q \in Providers : (Assigned(s, q)' <=> Assigned(s, q))
    <3> SUFFICES ASSUME NEW s \in Requests, NEW q \in Providers
                 PROVE  (Assigned(s, q)' <=> Assigned(s, q))
      BY Zenon
    <3>0. at[t] # q /\ at'[t] # q
      BY <1>1, <2>4, DispatchAssumption, Zenon
    <3>1. \A u \in Threads : (cur'[u] = s /\ at'[u] = q) <=> (cur[u] = s /\ at[u] = q)
      BY <2>4, <3>0, Zenon DEF DrainsKept
    <3> QED
      BY <1>1, <3>1, Zenon DEF Assigned
  <2>10. HeldWaits' /\ HeldOnce' /\ NoLostWaiter' /\ \A s \in Requests : (Leaked(s)' <=> Leaked(s))
    BY <1>8, <2>4, <2>7, Zenon
  <2>11. SlotsAreKnown' /\ AssignedHolds' /\ OneProvider'
    BY <1>0, <1>1, <1>10, <2>9, <2>10, Zenon
       DEF SlotsAreKnown, AssignedHolds, OneProvider, OtherTypes, ReserveFails
  <2>12. LeftIsGone'
    BY <1>0, <1>1, <1>10, <2>10, ZenonT(40) DEF LeftIsGone, ReserveFails
  <2> QED
    BY <1>7, <2>6, <2>8, <2>10, <2>11, <2>12, Zenon DEF IInv, Places, Owned
<1> QED
  BY <1>2, <1>9, <1>10, Zenon DEF DrainReserve

LEMMA RequeueFrontStep == ASSUME IInv, NEW t \in Threads, RequeueFront(t) PROVE IInv'
<1>0. /\ InOwnQueue /\ QueuedWaits /\ AsideOnce /\ HeldWaits /\ HeldOnce
      /\ AnsweredWaits /\ DoneIsAnswered /\ NoLostWaiter
      /\ OtherTypes /\ DrainTypes /\ SlotsAreKnown /\ AssignedHolds /\ OneProvider /\ LeftIsGone
      /\ DrainOK(t) /\ None \notin Requests /\ Shape /\ ModelOf \in [Requests -> Models]
  BY TypesOfParts, DispatchAssumption, Zenon DEF IInv, Places, Shape, Owned
<1>1. /\ dpc[t] = "requeue" /\ skipped[t] # <<>> /\ skipped[t] \in Seq(Requests)
      /\ cur[t] \in Requests \cup {None} /\ at[t] \in Providers \cup {None}
      /\ (cur[t] = None <=> at[t] = None) /\ Distinct(skipped[t])
      /\ UNCHANGED <<rpc, prov, stale, respCh, done, pending, registered, trusted, usable, limit, at>>
  BY <1>0, Zenon DEF RequeueFront, provVars, DrainOK, DrainTypes, AsideOnce
<1>2. PICK r, d : r = skipped[t][Len(skipped[t])] /\ d = SubSeq(skipped[t], 1, Len(skipped[t]) - 1)
  BY Zenon
<1>3. /\ r \in Requests /\ r \in Elements(skipped[t]) /\ d \in Seq(Requests) /\ Distinct(d)
      /\ Elements(d) = Elements(skipped[t]) \ {r}
  BY <1>1, <1>2, CutLast, Zenon
<1>4. PICK m \in Models : m = ModelOf[r]
  BY <1>0, <1>3, Zenon
<1>5. queue' = [queue EXCEPT ![m] = <<r>> \o queue[m]] /\ Proceed(t, cur[t], d)
  BY <1>2, <1>4, Zenon DEF RequeueFront
<1>6. r \in Held(t) /\ r # cur[t] /\ ~Queued(r) /\ respCh[r] = Empty /\ Waits(r)
  BY <1>0, <1>1, <1>3, Zenon DEF Held, HeldWaits, AsideOnce
<1>7. PICK e : e = <<r>> \o queue[m]
  BY ZenonT(40)
<1>8. e \in Seq(Requests) /\ Distinct(e) /\ Elements(e) = Elements(queue[m]) \cup {r}
  <2>1. queue[m] \in Seq(Requests) /\ Distinct(queue[m]) /\ r \notin Elements(queue[m])
    BY <1>0, <1>4, <1>6, Zenon DEF OtherTypes, InOwnQueue, Queued
  <2> QED
    BY <1>3, <1>7, <2>1, RequestAdded, Zenon
<1>9. /\ queue' \in [Models -> Seq(Requests)] /\ queue'[m] = e
      /\ \A n \in Models \ {m} : queue'[n] = queue[n]
  BY <1>0, <1>5, <1>7, <1>8, Zenon DEF OtherTypes
<1>10. OtherTypes'
  BY <1>0, <1>1, <1>9, Zenon DEF OtherTypes
<1>11. DrainsKept(t)
  <2>1. at' = [at EXCEPT ![t] = at[t]]
    BY <1>0, <1>1, Zenon DEF DrainTypes
  <2> QED
    BY <1>0, <1>1, <1>3, <1>5, <2>1, ProceedKeepsDrains, Zenon
<1>12. cur' = cur /\ skipped'[t] = d
  BY <1>0, <1>5, Zenon DEF Proceed, DrainTypes
<1>13. Shape'
  BY <1>0, <1>1, <1>10, <1>11, DrainKeepsShape, ZenonT(40)
<1>14. /\ Held(t)' = Held(t) \ {r}
       /\ \A u \in Threads \ {t} : Held(u)' = Held(u)
       /\ \A u \in Threads : Held(u) \subseteq Requests
  <2>1. Held(t)' = Held(t) \ {r}
    BY <1>3, <1>6, <1>12, ZenonT(40) DEF Held
  <2>2. \A u \in Threads : Held(u) \subseteq Requests
    BY <1>0, HeldAreRequests, Zenon
  <2> QED
    BY <1>11, <2>1, <2>2, HeldByOthers, Zenon
<1>15. \A s \in Requests : Queued(s)' <=> Queued(s) \/ s = r
  BY <1>0, <1>4, <1>8, <1>9, Zenon DEF Queued
<1>16. \A s : (Waits(s)' <=> Waits(s))
  BY <1>1, Zenon DEF Waits
<1>17. InOwnQueue'
  BY <1>0, <1>4, <1>8, <1>9, Zenon DEF InOwnQueue
<1>18. QueuedWaits' /\ AnsweredWaits' /\ DoneIsAnswered'
  BY <1>0, <1>1, <1>6, <1>15, <1>16, ZenonT(40) DEF QueuedWaits, AnsweredWaits, DoneIsAnswered
<1>19. AsideOnce'
  BY <1>0, <1>3, <1>11, <1>12, ZenonT(40) DEF AsideOnce, DrainsKept
<1>20. HeldOnce'
  <2> SUFFICES ASSUME NEW u \in Threads, NEW v \in Threads, u # v PROVE Held(u)' \cap Held(v)' = {}
    BY Zenon DEF HeldOnce
  <2>1. Held(u)' \subseteq Held(u) /\ Held(v)' \subseteq Held(v)
    BY <1>14, Zenon
  <2>2. Held(u) \cap Held(v) = {}
    BY <1>0, ZenonT(40) DEF HeldOnce
  <2> QED
    BY <2>1, <2>2, Zenon
<1>21. HeldWaits'
  <2> SUFFICES ASSUME NEW u \in Threads, NEW s \in Held(u)'
               PROVE  (~Queued(s) /\ respCh[s] = Empty /\ Waits(s))'
    BY Zenon DEF HeldWaits
  <2>1. s \in Held(u) /\ s \in Requests
    BY <1>14, Zenon
  <2>2. s # r
    <3>1. CASE u = t
      BY <1>14, <3>1, Zenon
    <3>2. CASE u # t
      BY <1>0, <1>6, <2>1, <3>2, ZenonT(40) DEF HeldOnce
    <3> QED
      BY <3>1, <3>2, Zenon
  <2>3. ~Queued(s) /\ respCh[s] = Empty /\ Waits(s)
    BY <1>0, <2>1, Zenon DEF HeldWaits
  <2> QED
    BY <1>1, <1>15, <1>16, <2>1, <2>2, <2>3, Zenon
<1>22. NoLostWaiter'
  <2> SUFFICES ASSUME NEW s \in Requests, rpc[s] = "waiting", respCh[s] = Empty
               PROVE  Queued(s)' \/ \E u \in Threads : s \in Held(u)'
    BY <1>1, Zenon DEF NoLostWaiter
  <2>1. CASE Queued(s) \/ s = r
    BY <1>15, <2>1, Zenon
  <2>2. ASSUME NEW u \in Threads, s \in Held(u), s # r PROVE s \in Held(u)'
    BY <1>14, <2>2, Zenon
  <2> QED
    BY <1>0, <2>1, <2>2, Zenon DEF NoLostWaiter
<1>23. \A s \in Requests, q \in Providers : (Assigned(s, q)' <=> Assigned(s, q))
  BY <1>1, <1>12, Zenon DEF Assigned
<1>24. \A s \in Requests : Leaked(s) => Leaked(s)'
  BY <1>1, <1>6, <1>14, <1>15, Zenon DEF Leaked
<1>25. SlotsAreKnown' /\ AssignedHolds' /\ OneProvider'
  BY <1>0, <1>1, <1>23, <1>24, Zenon DEF SlotsAreKnown, AssignedHolds, OneProvider, OtherTypes
<1>26. LeftIsGone'
  BY <1>0, <1>1, <1>24, Zenon DEF LeftIsGone
<1> QED
  BY <1>13, <1>17, <1>18, <1>19, <1>20, <1>21, <1>22, <1>25, <1>26, ZenonT(40) DEF IInv, Places, Owned

(* The drain is done with the request in its hand: it was delivered, or    *)
(* its waiter is gone and the slot is given back.                          *)
LEMMA LetGo ==
    ASSUME IInv, NEW t \in Threads, NEW r \in Requests, NEW p \in Providers,
           dpc[t] \in {"check", "send"}, cur[t] = r, at[t] = p,
           DrainsKept(t), cur'[t] = None, at'[t] = None, UNCHANGED <<skipped, queue, rpc, prov, done>>,
           UNCHANGED <<stale, registered, trusted, usable, limit>>,
           \/ respCh' = [respCh EXCEPT ![r] = p] /\ UNCHANGED pending
           \/ UNCHANGED respCh /\ RemovePending(p, r) /\ r \in done
    PROVE  IInv'
<1>0. /\ InOwnQueue /\ QueuedWaits /\ AsideOnce /\ HeldWaits /\ HeldOnce
      /\ AnsweredWaits /\ DoneIsAnswered /\ NoLostWaiter
      /\ OtherTypes /\ DrainTypes /\ SlotsAreKnown /\ AssignedHolds /\ OneProvider /\ LeftIsGone
      /\ DrainOK(t) /\ None \notin Requests /\ Shape /\ None \notin Providers /\ Empty \notin Providers
  BY TypesOfParts, DispatchAssumption, ZenonT(40) DEF IInv, Places, Shape, Owned
<1>1. skipped[t] = <<>> /\ Elements(skipped[t]) = {}
  BY <1>0, NoElements, Zenon DEF DrainOK
<1>2. Held(t) = {r} /\ Held(t)' = {}
  BY <1>0, <1>1, Zenon DEF Held
<1>3. /\ \A u \in Threads \ {t} : Held(u)' = Held(u) /\ r \notin Held(u) /\ cur[u] # r
      /\ \A u \in Threads : Held(u) \subseteq Requests
  <2>1. \A u \in Threads : Held(u) \subseteq Requests
    BY <1>0, HeldAreRequests, Zenon
  <2>2. \A u \in Threads \ {t} : Held(u)' = Held(u) /\ r \notin Held(u)
    BY <1>0, <1>2, HeldByOthers, Zenon DEF HeldOnce
  <2> QED
    BY <1>0, <2>1, <2>2, ZenonT(40) DEF Held
<1>4. ~Queued(r) /\ respCh[r] = Empty /\ Waits(r)
  BY <1>0, <1>2, Zenon DEF HeldWaits
<1>5. \A s : (Waits(s)' <=> Waits(s)) /\ (Queued(s)' <=> Queued(s))
  BY Zenon DEF Waits, Queued
<1>6. /\ respCh' \in [Requests -> Providers \cup {Empty, Nil}]
      /\ \A s \in Requests \ {r} : respCh'[s] = respCh[s]
  BY <1>0, Zenon DEF OtherTypes
<1>7. /\ pending' \in [Providers -> SUBSET Requests]
      /\ \A q \in Providers : pending'[q] \subseteq pending[q] /\ pending[q] \ {r} \subseteq pending'[q]
  <2>1. CASE UNCHANGED pending
    BY <1>0, <2>1, Zenon DEF OtherTypes
  <2>2. CASE RemovePending(p, r)
    <3>1. pending' = [q \in Providers |-> IF q = p THEN pending[q] \ {r} ELSE pending[q]]
      BY <1>0, <2>2, Zenon DEF RemovePending, OtherTypes
    <3> QED
      BY <1>0, <3>1, Zenon DEF OtherTypes
  <2> QED
    BY <2>1, <2>2, Zenon
<1>8. OtherTypes'
  BY <1>0, <1>6, <1>7, Zenon DEF OtherTypes
<1>9. Shape'
  BY <1>0, <1>8, DrainKeepsShape, Zenon
<1>10. InOwnQueue' /\ HeldOnce'
  BY <1>0, <1>2, <1>3, Zenon DEF InOwnQueue, HeldOnce
<1>11. AsideOnce'
  BY <1>0, <1>1, Zenon DEF AsideOnce, DrainsKept
<1>12. QueuedWaits' /\ AnsweredWaits'
  BY <1>0, <1>4, <1>5, <1>6, ZenonT(40) DEF QueuedWaits, AnsweredWaits
<1>13. HeldWaits'
  <2> SUFFICES ASSUME NEW u \in Threads, NEW s \in Held(u)'
               PROVE  (~Queued(s) /\ respCh[s] = Empty /\ Waits(s))'
    BY Zenon DEF HeldWaits
  <2>1. u # t /\ s \in Held(u) /\ s # r /\ s \in Requests
    BY <1>2, <1>3, Zenon
  <2>2. ~Queued(s) /\ respCh[s] = Empty /\ Waits(s)
    BY <1>0, <2>1, Zenon DEF HeldWaits
  <2> QED
    BY <1>5, <1>6, <2>1, <2>2, Zenon
<1>14. DoneIsAnswered'
  <2> SUFFICES ASSUME NEW s \in done
               PROVE  rpc[s] \notin {"start", "enqueue"} /\ (rpc[s] = "waiting" => respCh'[s] # Empty)
    BY Zenon DEF DoneIsAnswered
  <2>1. s \in Requests
    BY <1>0, Zenon DEF OtherTypes
  <2>2. CASE s = r
    BY <1>0, <1>4, <2>2, Zenon DEF DoneIsAnswered
  <2>3. CASE s # r
    BY <1>0, <1>6, <2>1, <2>3, Zenon DEF DoneIsAnswered
  <2> QED
    BY <2>2, <2>3, Zenon
<1>15. NoLostWaiter'
  <2> SUFFICES ASSUME NEW s \in Requests, rpc[s] = "waiting", respCh'[s] = Empty
               PROVE  Queued(s)' \/ \E u \in Threads : s \in Held(u)'
    BY Zenon DEF NoLostWaiter
  <2>1. s # r
    <3>1. CASE respCh' = [respCh EXCEPT ![r] = p]
      BY <1>0, <3>1, Zenon DEF OtherTypes
    <3>2. CASE UNCHANGED respCh /\ r \in done
      BY <1>0, <1>4, <3>2, Zenon DEF DoneIsAnswered
    <3> QED
      BY <3>1, <3>2, Zenon
  <2>2. Queued(s) \/ \E u \in Threads : s \in Held(u)
    BY <1>0, <1>6, <2>1, Zenon DEF NoLostWaiter
  <2> QED
    BY <1>2, <1>3, <1>5, <2>1, <2>2, Zenon
<1>16. \A s \in Requests \ {r}, q \in Providers : (Assigned(s, q)' <=> Assigned(s, q))
  <2> SUFFICES ASSUME NEW s \in Requests \ {r}, NEW q \in Providers
               PROVE  (Assigned(s, q)' <=> Assigned(s, q))
    BY Zenon
  <2>1. \A u \in Threads : (cur'[u] = s /\ at'[u] = q) <=> (cur[u] = s /\ at[u] = q)
    BY <1>0, Zenon DEF DrainsKept
  <2> QED
    BY <1>6, <2>1, Zenon DEF Assigned
<1>17. \A s \in Requests \ {r} : (Leaked(s)' <=> Leaked(s))
  BY <1>2, <1>3, <1>5, <1>6, Zenon DEF Leaked
<1>18. \A u \in Threads : cur'[u] # r
  BY <1>0, <1>3, Zenon DEF DrainsKept
<1>19. \A q \in Providers : Assigned(r, q) <=> q = p
  BY <1>0, <1>3, <1>4, Zenon DEF Assigned, Waits
<1>20. r \in pending[p] \/ p \notin registered
  BY <1>0, <1>4, <1>19, Zenon DEF AssignedHolds, Waits
<1>21. \A q \in Providers : r \in pending[q] => q = p
  BY <1>0, <1>2, <1>19, Zenon DEF SlotsAreKnown, Leaked
<1>24. LeftIsGone'
  BY <1>0, <1>2, <1>7, <1>17, Zenon DEF LeftIsGone, Leaked
<1>22. CASE respCh' = [respCh EXCEPT ![r] = p] /\ UNCHANGED pending
  <2>1. respCh'[r] = p
    BY <1>0, <1>22, Zenon DEF OtherTypes
  <2>2. \A q \in Providers : Assigned(r, q)' <=> q = p
    BY <1>4, <1>18, <2>1, ZenonT(40) DEF Assigned, Waits
  <2>3. SlotsAreKnown'
    <3> SUFFICES ASSUME NEW q \in Providers, NEW s \in pending[q] PROVE Assigned(s, q)' \/ Leaked(s)'
      BY <1>22, Zenon DEF SlotsAreKnown
    <3>1. s \in Requests /\ (Assigned(s, q) \/ Leaked(s))
      BY <1>0, Zenon DEF SlotsAreKnown, OtherTypes
    <3>2. CASE s = r
      BY <1>21, <2>2, <3>2, Zenon
    <3>3. CASE s # r
      BY <1>16, <1>17, <3>1, <3>3, Zenon
    <3> QED
      BY <3>2, <3>3, Zenon
  <2>4. AssignedHolds'
    <3> SUFFICES ASSUME NEW q \in registered, NEW s \in Requests, Assigned(s, q)', rpc[s] # "running"
                 PROVE  s \in pending[q]
      BY <1>22, Zenon DEF AssignedHolds
    <3>1. q \in Providers
      BY <1>0, Zenon DEF OtherTypes
    <3>2. CASE s = r
      BY <1>20, <2>2, <3>1, <3>2, Zenon
    <3>3. CASE s # r
      BY <1>0, <1>16, <3>1, <3>3, Zenon DEF AssignedHolds
    <3> QED
      BY <3>2, <3>3, Zenon
  <2>5. OneProvider'
    BY <1>0, <1>22, Zenon DEF OneProvider
  <2> QED
    BY <1>9, <1>10, <1>11, <1>12, <1>13, <1>14, <1>15, <1>24, <2>3, <2>4, <2>5, ZenonT(40) DEF IInv, Places, Owned
<1>23. CASE UNCHANGED respCh /\ RemovePending(p, r)
  <2>1. \A q \in Providers : r \notin pending'[q]
    BY <1>0, <1>21, <1>23, Zenon DEF RemovePending, OtherTypes
  <2>2. \A q \in Providers : ~Assigned(r, q)'
    BY <1>0, <1>4, <1>18, <1>23, ZenonT(40) DEF Assigned, Waits
  <2>3. SlotsAreKnown'
    BY <1>0, <1>7, <1>16, <1>17, <2>1, ZenonT(40) DEF SlotsAreKnown, OtherTypes
  <2>4. AssignedHolds'
    BY <1>0, <1>7, <1>16, <2>2, ZenonT(40) DEF AssignedHolds, OtherTypes
  <2>5. OneProvider'
    <3> SUFFICES ASSUME NEW q1 \in Providers, NEW q2 \in Providers, pending'[q1] \cap pending'[q2] # {}
                 PROVE  q1 = q2
      BY Zenon DEF OneProvider
    <3>1. pending[q1] \cap pending[q2] # {}
      BY <1>7, Zenon
    <3> QED
      BY <1>0, <3>1, Zenon DEF OneProvider
  <2> QED
    BY <1>9, <1>10, <1>11, <1>12, <1>13, <1>14, <1>15, <1>24, <2>3, <2>4, <2>5, ZenonT(40) DEF IInv, Places, Owned
<1> QED
  BY <1>22, <1>23, Zenon

LEMMA DeliverStep ==
    ASSUME IInv, NEW t \in Threads, CheckDone(t) \/ Send(t) PROVE IInv'
<1>0. /\ Shape /\ DrainOK(t) /\ DrainTypes /\ OtherTypes /\ HeldWaits
      /\ dpc[t] \in {"check", "send"} /\ cur[t] # None /\ at[t] # None /\ todo[t] # <<>>
  BY TypesOfParts, Zenon DEF IInv, Shape, Places, CheckDone, Send, DrainOK
<1>1. PICK r \in Requests : r = cur[t]
  BY <1>0, Zenon DEF DrainTypes
<1>2. PICK p \in Providers : p = at[t]
  BY <1>0, Zenon DEF DrainTypes
<1>3. UNCHANGED <<rpc, prov, stale, done, queue, registered, trusted, usable, limit>>
  BY Zenon DEF CheckDone, Send, provVars
<1>4. respCh[r] = Empty
  BY <1>0, <1>1, Zenon DEF HeldWaits, Held
<1>5. CASE Release(t) /\ r \in done
  <2>1. DrainsKept(t)
    BY <1>0, <1>5, ReleaseKeepsDrains, Zenon
  <2>2. cur'[t] = None /\ at'[t] = None /\ UNCHANGED <<skipped, respCh>> /\ RemovePending(p, r)
    BY <1>0, <1>1, <1>2, <1>5, Zenon DEF Release, DrainTypes
  <2> QED
    BY <1>0, <1>1, <1>2, <1>3, <1>5, <2>1, <2>2, LetGo, Zenon
<1>6. CASE /\ respCh' = [respCh EXCEPT ![r] = p] /\ dpc' = [dpc EXCEPT ![t] = "pop"]
           /\ cur' = [cur EXCEPT ![t] = None] /\ at' = [at EXCEPT ![t] = None]
           /\ UNCHANGED <<pending, todo, skipped>>
  <2>1. DrainsKept(t) /\ cur'[t] = None /\ at'[t] = None
    BY <1>0, <1>6, Zenon DEF DrainsKept, DrainTypes, DrainOK
  <2> QED
    BY <1>0, <1>1, <1>2, <1>3, <1>6, <2>1, LetGo, Zenon
<1>7. CASE dpc' = [dpc EXCEPT ![t] = "send"] /\ UNCHANGED <<todo, skipped, cur, at, respCh, pending>>
  <2>1. DrainsKept(t)
    BY <1>0, <1>7, Zenon DEF DrainsKept, DrainTypes, DrainOK
  <2>2. OtherTypes'
    BY <1>0, <1>3, <1>7, Zenon DEF OtherTypes
  <2>3. Shape'
    BY <1>0, <1>3, <2>1, <2>2, DrainKeepsShape, Zenon
  <2>4. Places'
    BY <1>3, <1>7, SamePlaces, Zenon DEF IInv
  <2>5. \A s, q : (Assigned(s, q)' <=> Assigned(s, q))
    BY <1>3, <1>7, Zenon DEF Assigned
  <2>6. \A s : (Leaked(s)' <=> Leaked(s))
    BY <1>3, <1>7, Zenon DEF Leaked, Queued, Held
  <2>7. Owned'
    BY <1>3, <1>7, <2>5, <2>6, Zenon DEF IInv, Owned, SlotsAreKnown, AssignedHolds, OneProvider, LeftIsGone
  <2> QED
    BY <2>3, <2>4, <2>7, Zenon DEF IInv
<1> QED
  BY <1>1, <1>2, <1>4, <1>5, <1>6, <1>7, Zenon DEF CheckDone, Send

LEMMA InvStutters == ASSUME IInv, UNCHANGED vars PROVE IInv'
<1>1. UNCHANGED <<rpc, prov, stale, queue, respCh, done, pending, registered, trusted, usable, limit,
                  drainVars, dpc, todo, skipped, cur, at>>
  BY Zenon DEF vars, queueVars, provVars, drainVars
<1>2. OtherTypes'
  BY <1>1, TypesOfParts, Zenon DEF IInv, Shape, OtherTypes
<1>3. Shape'
  BY <1>1, <1>2, IdleKeepsShape, Zenon DEF IInv
<1>4. Places'
  BY <1>1, SamePlaces, Zenon DEF IInv
<1>5. \A s, q : (Assigned(s, q)' <=> Assigned(s, q))
  BY <1>1, Zenon DEF Assigned
<1>6. \A s : (Leaked(s)' <=> Leaked(s))
  BY <1>1, Zenon DEF Leaked, Queued, Held
<1>7. Owned'
  BY <1>1, <1>5, <1>6, Zenon DEF IInv, Owned, SlotsAreKnown, AssignedHolds, OneProvider, LeftIsGone
<1> QED
  BY <1>3, <1>4, <1>7, Zenon DEF IInv

LEMMA InvKept == IInv /\ [Next]_vars => IInv'
<1> SUFFICES ASSUME IInv, [Next]_vars PROVE IInv'
  BY Zenon
<1>1. ASSUME NEW r \in Requests, HandlerStep(r) \/ GrowStale(r) \/ GiveUp(r) PROVE IInv'
  BY <1>1, ArriveStep, EnqueueStep, TakeAnswerStep, RemoveStep, WriteOKStep, LeaveStep,
     GrowStaleStep, GiveUpStep, ZenonT(40) DEF HandlerStep
<1>2. ASSUME NEW t \in Threads, Drain(t) PROVE IInv'
  BY <1>2, PopStep, DrainReserveStep, RequeueFrontStep, DeliverStep, Zenon DEF Drain
<1>3. ASSUME NEW p \in Providers, ProviderStep(p) PROVE IInv'
  BY <1>3, QuietSteps, Zenon DEF ProviderStep
<1> QED
  BY <1>1, <1>2, <1>3, InvStutters, Zenon DEF Next

(* Every waiting request is in exactly one place where a drain finds it,   *)
(* whichever goroutines drain, enqueue, expire or give up meanwhile.       *)
THEOREM QueueIsExact == Spec => []QueueExact
<1>1. IInv => QueueExact
  BY Zenon DEF IInv, Places, QueueExact, NoDuplicate, InOwnQueue, AsideOnce, HeldOnce, HeldWaits, Distinct
<1> QED
  BY <1>1, InvAtStart, InvKept, PTL DEF Spec

(* A request holds one slot at most, and does hold the slot of the         *)
(* provider it was told of for as long as that provider is registered.     *)
THEOREM SlotsHold == Spec => []SlotsAreRight
<1>1. IInv => SlotsAreRight
  <2> SUFFICES ASSUME IInv PROVE SlotsAreRight
    BY Zenon
  <2>1. OneProvider /\ AssignedHolds
    BY Zenon DEF IInv, Owned
  <2>2. ASSUME NEW r \in Requests, NEW p \in registered,
               respCh[r] = p \/ (rpc[r] = "dispatch" /\ prov[r] = p)
        PROVE  r \in pending[p]
    <3>1. Assigned(r, p)
      BY <2>2, Zenon DEF Assigned
    <3>2. rpc[r] # "running"
      <4>1. registered \subseteq Providers /\ Empty \notin Providers /\ AnsweredWaits
        BY DispatchAssumption, Zenon DEF IInv, Shape, TypeOK, Places
      <4> QED
        BY <2>2, <4>1, Zenon DEF AnsweredWaits, Waits
    <3> QED
      BY <2>1, <3>1, <3>2, Zenon DEF AssignedHolds
  <2> QED
    BY <2>1, <2>2, Zenon DEF SlotsAreRight, AssignmentHoldsSlot
<1> QED
  BY <1>1, InvAtStart, InvKept, PTL DEF Spec

(* pendingCount counts requests in flight only, as long as no waiter gives *)
(* up and no encryption fails: the two ways a slot outlives its request.   *)
THEOREM SlotsAreInFlight == Steady => (Spec => []InFlightOnly)
<1> SUFFICES ASSUME Steady PROVE Spec => []InFlightOnly
  BY Zenon
<1>1. IInv => InFlightOnly
  BY Zenon DEF IInv, Shape, TypeOK, Owned, LeftIsGone, InFlightOnly
<1> QED
  BY <1>1, InvAtStart, InvKept, PTL DEF Spec

-----------------------------------------------------------------------------
(* No provider is taken past maxConcurrency as it stands.                  *)

(* The slots of every provider, as finite sets.                            *)
Slots ==
    /\ pending = [p \in Providers |-> pending[p]] /\ limit \in [Providers -> Nat]
    /\ \A p \in Providers : IsFiniteSet(pending[p])

(* What a step may do to the slots of a provider.                          *)
Fits ==
    \A p \in Providers :
        Cardinality(pending'[p]) > Cardinality(pending[p]) => Cardinality(pending'[p]) <= limit[p]

(* A reservation of a provider that has room, wherever it comes from.      *)
LEMMA ReserveFits ==
    ASSUME Slots, NEW p \in Providers, NEW r, Admits(p, r), addPending(p, r), UNCHANGED limit
    PROVE  Slots' /\ Fits
<1>1. limit[p] \in Nat /\ IsFiniteSet(pending[p]) /\ Cardinality(pending[p]) < limit[p]
  BY Zenon DEF Slots, Admits
<1>a. Cardinality(pending[p]) \in Nat
  BY <1>1, FS_CardinalityType, Zenon
<1>b. /\ IsFiniteSet(pending[p] \cup {r})
      /\ Cardinality(pending[p] \cup {r}) \in {Cardinality(pending[p]), Cardinality(pending[p]) + 1}
  BY <1>1, FS_AddElement, Zenon
<1>2. Cardinality(pending[p] \cup {r}) <= limit[p]
  BY <1>1, <1>a, <1>b
<1>3. pending' = [q \in Providers |-> IF q = p THEN pending[p] \cup {r} ELSE pending[q]]
  BY Zenon DEF addPending, Slots
<1>4. Slots'
  BY <1>b, <1>3, Zenon DEF Slots
<1>5. \A q \in Providers : q # p => pending'[q] = pending[q]
  BY <1>3, Zenon
<1>6. \A q \in Providers : ~(Cardinality(pending[q]) > Cardinality(pending[q]))
  BY FS_CardinalityType DEF Slots
<1>7. pending'[p] = pending[p] \cup {r}
  BY <1>3, Zenon
<1> QED
  BY <1>2, <1>4, <1>5, <1>6, <1>7, Zenon DEF Fits

(* Slots given back, or left alone.                                        *)
LEMMA ReleaseFits ==
    ASSUME Slots, limit' \in [Providers -> Nat], pending' = [p \in Providers |-> pending'[p]],
           \A p \in Providers : pending'[p] \subseteq pending[p]
    PROVE  Slots' /\ Fits
<1> SUFFICES ASSUME NEW p \in Providers
             PROVE  IsFiniteSet(pending'[p]) /\ ~(Cardinality(pending'[p]) > Cardinality(pending[p]))
  BY Zenon DEF Slots, Fits
<1>1. IsFiniteSet(pending[p]) /\ pending'[p] \subseteq pending[p]
  BY Zenon DEF Slots
<1>2. IsFiniteSet(pending'[p]) /\ Cardinality(pending'[p]) <= Cardinality(pending[p])
  BY <1>1, FS_Subset, Zenon
<1>3. Cardinality(pending'[p]) \in Nat /\ Cardinality(pending[p]) \in Nat
  BY <1>1, <1>2, FS_CardinalityType, Zenon
<1> QED
  BY <1>2, <1>3

LEMMA RemoveFits ==
    ASSUME Slots, NEW p, NEW r, RemovePending(p, r), UNCHANGED limit
    PROVE  Slots' /\ Fits
<1>1. pending' = [q \in Providers |-> IF q = p THEN pending[p] \ {r} ELSE pending[q]]
  BY Zenon DEF RemovePending, Slots
<1>2. \A q \in Providers : pending'[q] \subseteq pending[q]
  BY <1>1, Zenon
<1>3. pending' = [q \in Providers |-> pending'[q]]
  BY <1>1, Zenon
<1> QED
  BY <1>2, <1>3, ReleaseFits, Zenon DEF Slots

LEMMA SameFits ==
    ASSUME Slots, UNCHANGED pending, limit' \in [Providers -> Nat]
    PROVE  Slots' /\ Fits
BY ReleaseFits, Zenon DEF Slots

LEMMA SameLimit == ASSUME Slots, UNCHANGED limit PROVE limit' \in [Providers -> Nat]
BY Zenon DEF Slots

(* Handlers and drains reserve independently, and the limit of a provider  *)
(* is tested and used in one critical section; heartbeats move the limit,  *)
(* also below what is pending, and never add to it.                        *)
THEOREM CapacityHolds == Spec => WithinCapacity
<1>1. Init => Slots
  BY FS_EmptySet, DispatchAssumption DEF Init, Slots
<1>2. Slots /\ [Next]_vars => Slots' /\ [Fits]_vars
  <2> SUFFICES ASSUME Slots, [Next]_vars PROVE Slots' /\ Fits
    BY Zenon
  <2>1. ASSUME NEW r \in Requests, HandlerStep(r) \/ GrowStale(r) \/ GiveUp(r) PROVE Slots' /\ Fits
    <3>1. UNCHANGED limit
      BY <2>1, Zenon DEF HandlerStep, Arrive, ReserveFails, Enqueue, TakeAnswer, Remove, WriteOK, EncryptFails,
         Return, GrowStale, GiveUp, provVars
    <3>2. CASE Arrive(r)
      BY <3>1, <3>2, ReserveFits, SameFits, SameLimit, Zenon DEF Arrive, ReserveFails
    <3>3. CASE Return(r)
      BY <3>1, <3>3, RemoveFits, Zenon DEF Return
    <3> QED
      BY <2>1, <3>1, <3>2, <3>3, SameFits, SameLimit, Zenon
        DEF HandlerStep, Enqueue, TakeAnswer, Remove, WriteOK, EncryptFails, GrowStale, GiveUp
  <2>2. ASSUME NEW t \in Threads, Drain(t) PROVE Slots' /\ Fits
    <3>0. UNCHANGED limit
      BY <2>2, Zenon DEF Drain, Pop, DrainReserve, ReserveFails, RequeueFront, CheckDone, Send, provVars
    <3>1. CASE DrainReserve(t)
      BY <3>0, <3>1, ReserveFits, SameFits, SameLimit, Zenon DEF DrainReserve, ReserveFails
    <3>2. CASE CheckDone(t)
      BY <3>0, <3>2, RemoveFits, SameFits, SameLimit, Zenon DEF CheckDone, Release
    <3>3. CASE Send(t)
      BY <3>0, <3>3, RemoveFits, SameFits, SameLimit, Zenon DEF Send, Release
    <3> QED
      BY <2>2, <3>0, <3>1, <3>2, <3>3, SameFits, SameLimit, Zenon DEF Drain, Pop, RequeueFront
  <2>3. ASSUME NEW p \in Providers, ProviderStep(p) PROVE Slots' /\ Fits
    <3>1. ASSUME NEW r \in Requests, ProviderFinishes(p, r) PROVE Slots' /\ Fits
      BY <3>1, RemoveFits, Zenon DEF ProviderFinishes, provVars
    <3>2. CASE ClosePending(p)
      <4>1. pending' = [q \in Providers |-> IF q = p THEN {} ELSE pending[q]] /\ UNCHANGED limit
        BY <3>2, Zenon DEF ClosePending, Slots, provVars
      <4>2. /\ \A q \in Providers : pending'[q] \subseteq pending[q]
            /\ pending' = [q \in Providers |-> pending'[q]]
        BY <4>1, Zenon
      <4> QED
        BY <4>1, <4>2, ReleaseFits, SameLimit, Zenon
    <3>3. CASE Heartbeat(p)
      <4>1. UNCHANGED pending /\ ReportCapacity(p)
        BY <3>3, Zenon DEF Heartbeat
      <4>2. ASSUME NEW n \in Tiers[p], limit' = [limit EXCEPT ![p] = n] PROVE limit' \in [Providers -> Nat]
        <5>1. n \in Nat
          BY DispatchAssumption, Zenon
        <5> QED
          BY <4>2, <5>1, Zenon DEF Slots
      <4> QED
        BY <4>1, <4>2, SameFits, SameLimit, Zenon DEF ReportCapacity
    <3>4. CASE Disconnect(p)
      <4>1. limit' \in [Providers -> Nat]
        BY <3>4, DispatchAssumption, Zenon DEF Disconnect, Slots
      <4> QED
        BY <3>4, <4>1, SameFits, Zenon DEF Disconnect
    <3> QED
      BY <2>3, <3>1, <3>2, <3>3, <3>4, SameFits, SameLimit, Zenon
         DEF ProviderStep, RecordChallengeSuccess, RecordChallengeFailure
  <2>4. CASE UNCHANGED vars
    BY <2>4, SameFits, SameLimit, Zenon DEF vars, provVars
  <2> QED
    BY <2>1, <2>2, <2>3, <2>4, Zenon DEF Next
<1>3. WithinCapacity <=> [][Fits]_vars
  BY DEF WithinCapacity, Fits
<1> QED
  BY <1>1, <1>2, <1>3, PTL DEF Spec

=============================================================================
