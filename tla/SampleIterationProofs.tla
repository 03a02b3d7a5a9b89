------------------------ MODULE SampleIterationProofs ------------------------
(***************************************************************************)
(* What consumers of one reader deliver, for any number of consumers, of   *)
(* samples and any history depth.                                          *)
(***************************************************************************)
EXTENDS SampleIteration, TLAPS

(***************************************************************************)
(* Sequences.                                                              *)
(***************************************************************************)
LEMMA Joined ==
  ASSUME NEW U, NEW s \in Seq(U), NEW t \in Seq(U)
  PROVE  s \o t \in Seq(U) /\ Len(s \o t) = Len(s) + Len(t)
OBVIOUS

\* What appending adds to the elements.
LEMMA AppendedElements ==
  ASSUME NEW U, NEW s \in Seq(U), NEW e \in U
  PROVE  ToSet(Append(s, e)) = ToSet(s) \cup {e}
<1>1. /\ DOMAIN s = 1 .. Len(s) /\ Len(s) \in Nat
      /\ DOMAIN Append(s, e) = 1 .. Len(s) + 1
      /\ \A i \in 1 .. Len(s) : Append(s, e)[i] = s[i]
      /\ Append(s, e)[Len(s) + 1] = e
  OBVIOUS
<1> DEFINE t == Append(s, e)
<1> HIDE DEF t
<1>2. /\ DOMAIN t = 1 .. Len(s) + 1
      /\ \A i \in 1 .. Len(s) : t[i] = s[i]
      /\ t[Len(s) + 1] = e
  BY <1>1 DEF t
<1>3. \A x \in {t[i] : i \in DOMAIN t} : x \in {s[i] : i \in DOMAIN s} \cup {e}
  BY <1>1, <1>2
<1>4. \A x \in {s[i] : i \in DOMAIN s} : x \in {t[i] : i \in DOMAIN t}
  BY <1>1, <1>2
<1>5. e \in {t[i] : i \in DOMAIN t}
  BY <1>1, <1>2
<1> QED
  BY <1>3, <1>4, <1>5 DEF ToSet, t

\* A sequence without one of its elements.
LEMMA RemoveAtElements ==
  ASSUME NEW U, NEW s \in Seq(U), NEW n \in 1 .. Len(s)
  PROVE  /\ RemoveAt(s, n) \in Seq(U)
         /\ Len(RemoveAt(s, n)) = Len(s) - 1
         /\ \A i \in 1 .. Len(s) - 1 : RemoveAt(s, n)[i] = IF i < n THEN s[i] ELSE s[i + 1]
<1> DEFINE a == SubSeq(s, 1, n - 1)
           b == SubSeq(s, n + 1, Len(s))
<1>1. a \in Seq(U) /\ Len(a) = n - 1 /\ \A i \in 1 .. n - 1 : a[i] = s[i]
  OBVIOUS
<1>2. b \in Seq(U) /\ Len(b) = Len(s) - n /\ \A i \in 1 .. Len(s) - n : b[i] = s[n + i]
  OBVIOUS
<1>3. RemoveAt(s, n) = a \o b
  BY DEF RemoveAt
<1> HIDE DEF a, b
<1>4. a \o b \in Seq(U) /\ Len(a \o b) = Len(s) - 1
  <2>1. Len(a \o b) = Len(a) + Len(b)
    BY <1>1, <1>2, Joined
  <2>2. a \o b \in Seq(U)
    BY <1>1, <1>2
  <2>3. Len(s) \in Nat /\ n \in Nat
    OBVIOUS
  <2> QED
    BY <1>1, <1>2, <2>1, <2>2, <2>3
<1>5. ASSUME NEW i \in 1 .. Len(s) - 1
      PROVE  (a \o b)[i] = IF i < n THEN s[i] ELSE s[i + 1]
  <2>0. i \in Nat /\ n \in Nat /\ Len(s) \in Nat
    OBVIOUS
  <2>1. CASE i < n
    BY <1>1, <1>2, <2>0, <2>1
  <2>2. CASE ~(i < n)
    <3>1. (a \o b)[i] = b[i - (n - 1)] /\ i - (n - 1) \in 1 .. Len(s) - n
      BY <1>1, <1>2, <2>2
    <3>2. n + (i - (n - 1)) = i + 1
      OBVIOUS
    <3> QED
      BY <1>2, <2>2, <3>1, <3>2
  <2> QED
    BY <2>1, <2>2
<1> QED
  BY <1>3, <1>4, <1>5

LEMMA BoundedSequence ==
  ASSUME NEW U, NEW n \in Nat, NEW s \in Seq(U), Len(s) <= n
  PROVE  s \in BoundedSeq(U, n)
BY DEF BoundedSeq, SeqOf

(***************************************************************************)
(* The inductive invariant.                                                *)
(***************************************************************************)
\* Where everybody is.
PlacesSound ==
  /\ pc \in [Consumers -> {"new", "polling", "yielded", "awaiting", "shutdown"} \cup Final]
  /\ wait \in [Consumers -> {"none", "running", "triggered", "expired"}]
  /\ loop \in Async \cup {Nobody}

\* The reader keeps samples that have arrived, oldest first, within its depth.
CacheSound ==
  /\ arrived \in 0 .. MaxSamples
  /\ cache \in Seq(Samples) /\ Len(cache) <= Depth
  /\ \A n \in DOMAIN cache : cache[n] <= arrived
  /\ \A m, n \in DOMAIN cache : m < n => cache[m] < cache[n]
  /\ seen \subseteq Samples

\* Whatever was delivered, and by whomever, is older than all that can be.
DeliveredSound ==
  /\ DOMAIN got = Consumers
  /\ \A c \in Consumers :
       /\ got[c] \in Seq(Samples)
       /\ \A i \in DOMAIN got[c] : i <= got[c][i] /\ got[c][i] <= arrived
       /\ \A i \in DOMAIN got[c] : \A x \in Matching : got[c][i] < x

IterationInv == PlacesSound /\ CacheSound /\ DeliveredSound /\ OnceInOrder

(***************************************************************************)
(* Each action preserves it.                                               *)
(***************************************************************************)
LEMMA InitHolds == Init => IterationInv
<1> USE IterationAssumption DEF IterationAssumption
<1> SUFFICES ASSUME Init PROVE IterationInv
  OBVIOUS
<1>1. PlacesSound
  BY DEF Init, PlacesSound
<1>2. CacheSound
  BY DEF Init, CacheSound
<1>3. DeliveredSound
  BY DEF Init, DeliveredSound
<1>4. OnceInOrder
  BY DEF Init, OnceInOrder, ToSet
<1> QED
  BY <1>1, <1>2, <1>3, <1>4 DEF IterationInv

\* Only a consumer that may run moves, and it takes or frees the loop it is in.
LEMMA PlacesKept ==
  ASSUME PlacesSound, [Next]_vars
  PROVE  PlacesSound'
<1>1. ASSUME UNCHANGED <<pc, wait, loop>> PROVE PlacesSound'
  BY <1>1 DEF PlacesSound
<1>2. \A c \in Consumers : {Keep(c), Yield(c)} \subseteq Async \cup {Nobody}
  BY DEF PlacesSound, Keep, Yield
<1>3. ASSUME NEW c \in Consumers,
             Start(c) \/ Deliver(c) \/ Continue(c) \/ Stop(c) \/ BeginWait(c)
      PROVE  PlacesSound'
  BY <1>2, <1>3 DEF PlacesSound, Start, Deliver, Continue, Stop, BeginWait, Final
<1>4. ASSUME NEW c \in Consumers,
             WaitReturns(c) \/ Resume(c) \/ Cancel(c) \/ FinishShutdown(c)
      PROVE  PlacesSound'
  BY <1>2, <1>4 DEF PlacesSound, WaitReturns, Resume, AfterWait, Cancel, FinishShutdown, Final
<1> QED
  BY <1>1, <1>3, <1>4 DEF Next, Arrive, vars

DataInv == CacheSound /\ DeliveredSound /\ OnceInOrder

LEMMA ArriveKeeps ==
  ASSUME DataInv, Arrive
  PROVE  DataInv'
<1> USE IterationAssumption DEF IterationAssumption
<1> DEFINE old == IF Len(cache) = Depth THEN Tail(cache) ELSE cache
<1>1. /\ old \in Seq(Samples) /\ Len(old) < Depth
      /\ \A n \in DOMAIN old : old[n] <= arrived /\ old[n] \in ToSet(cache)
      /\ \A m, n \in DOMAIN old : m < n => old[m] < old[n]
  <2>1. CASE Len(cache) = Depth
    <3>1. /\ Tail(cache) \in Seq(Samples) /\ Len(Tail(cache)) = Len(cache) - 1
          /\ \A n \in 1 .. Len(cache) - 1 : Tail(cache)[n] = cache[n + 1]
      BY <2>1 DEF DataInv, CacheSound
    <3> QED
      BY <2>1, <3>1 DEF DataInv, CacheSound, ToSet
  <2>2. CASE Len(cache) # Depth
    BY <2>2 DEF DataInv, CacheSound, ToSet
  <2> QED
    BY <2>1, <2>2
<1>2. cache' = Append(old, arrived') /\ arrived' = arrived + 1 /\ arrived < MaxSamples
      /\ UNCHANGED <<seen, got>>
  BY DEF Arrive
<1> HIDE DEF old
<1>3. arrived \in Nat /\ arrived' \in Samples
  BY <1>2 DEF DataInv, CacheSound, Samples
<1>4. /\ cache' \in Seq(Samples) /\ Len(cache') = Len(old) + 1 /\ Len(cache') <= Depth
      /\ \A n \in 1 .. Len(old) : cache'[n] = old[n]
      /\ cache'[Len(old) + 1] = arrived'
  BY <1>1, <1>2, <1>3
<1>5. CacheSound'
  BY <1>1, <1>2, <1>3, <1>4 DEF DataInv, CacheSound, Samples
<1>6. Matching' \subseteq Matching \cup {arrived'}
  BY <1>1, <1>2, <1>4 DEF Matching, ToSet
<1>7. DeliveredSound'
  BY <1>2, <1>3, <1>6 DEF DataInv, DeliveredSound, Samples
<1>8. OnceInOrder'
  <2>1. got' = got
    BY <1>2
  <2> QED
    BY <2>1 DEF DataInv, OnceInOrder
<1> QED
  BY <1>5, <1>7, <1>8 DEF DataInv

\* The oldest sample that matches is newer than all that were delivered, and what
\* matches afterwards is newer than it.
LEMMA DeliverKeeps ==
  ASSUME DataInv, NEW c \in Consumers, Deliver(c)
  PROVE  DataInv'
<1> USE IterationAssumption DEF IterationAssumption
<1>1. PICK n \in DOMAIN cache :
        /\ cache[n] \in Matching
        /\ \A m \in 1 .. n - 1 : cache[m] \notin Matching
        /\ got' = [got EXCEPT ![c] = Append(@, cache[n])]
        /\ IF Mode[c] = "take" THEN cache' = RemoveAt(cache, n) /\ UNCHANGED seen
                               ELSE seen' = seen \cup {cache[n]} /\ UNCHANGED cache
  BY DEF Deliver
<1> DEFINE s == cache[n]
<1>2. arrived' = arrived /\ arrived \in Nat
  BY DEF Deliver, DataInv, CacheSound
<1>3. s \in Samples /\ s <= arrived /\ n \in 1 .. Len(cache)
  BY DEF DataInv, CacheSound
<1>4. \A x \in Matching : x # s => x > s
  <2>1. ASSUME NEW x \in Matching, x # s PROVE x > s
    <3>1. PICK k \in DOMAIN cache : x = cache[k]
      BY DEF Matching, ToSet
    <3>2. k > n
      BY <1>1, <2>1, <3>1 DEF DataInv, CacheSound
    <3> QED
      BY <3>1, <3>2 DEF DataInv, CacheSound
  <2> QED
    BY <2>1
<1>5. CacheSound' /\ Matching' \subseteq Matching \ {s}
  <2>1. CASE Mode[c] = "take"
    <3>1. cache' = RemoveAt(cache, n) /\ seen' = seen
      BY <1>1, <2>1
    <3>2. /\ cache' \in Seq(Samples) /\ Len(cache') = Len(cache) - 1
          /\ \A i \in 1 .. Len(cache) - 1 : cache'[i] = IF i < n THEN cache[i] ELSE cache[i + 1]
      <4>1. cache \in Seq(Samples)
        BY DEF DataInv, CacheSound
      <4>2. n \in 1 .. Len(cache)
        BY <1>3
      <4> DEFINE r == RemoveAt(cache, n)
      <4>3. /\ r \in Seq(Samples) /\ Len(r) = Len(cache) - 1
            /\ \A i \in 1 .. Len(cache) - 1 : r[i] = IF i < n THEN cache[i] ELSE cache[i + 1]
        BY <4>1, <4>2, RemoveAtElements
      <4> HIDE DEF r
      <4>4. cache' = r
        BY <3>1 DEF r
      <4> HIDE DEF s
      <4> QED
        BY <4>3, <4>4
    <3> DEFINE from(i) == IF i < n THEN i ELSE i + 1
    <3>0. /\ \A i \in 1 .. Len(cache) - 1 : from(i) \in DOMAIN cache \ {n} /\ cache'[i] = cache[from(i)]
          /\ \A i, j \in 1 .. Len(cache) - 1 : i < j => from(i) < from(j)
      <4>1. DOMAIN cache = 1 .. Len(cache) /\ Len(cache) \in Nat
        BY DEF DataInv, CacheSound
      <4>2. \A i \in 1 .. Len(cache) - 1 : from(i) \in 1 .. Len(cache) /\ from(i) # n
        BY <1>3, <4>1
      <4> QED
        BY <1>3, <3>2, <4>1, <4>2
    <3> HIDE DEF from
    <3>8. \A m \in DOMAIN cache : cache[m] \in Nat
      BY DEF DataInv, CacheSound, Samples
    <3>9. \A m \in DOMAIN cache \ {n} : cache[m] # s
      <4> SUFFICES ASSUME NEW m \in DOMAIN cache \ {n} PROVE cache[m] # s
        OBVIOUS
      <4>1. m < n \/ n < m
        BY <1>3 DEF DataInv, CacheSound
      <4>2. cache[m] < s \/ s < cache[m]
        BY <4>1 DEF DataInv, CacheSound
      <4> QED
        BY <3>8, <4>2
    <3>3. \A i \in 1 .. Len(cache) - 1 : cache'[i] # s /\ cache'[i] \in ToSet(cache)
      BY <3>0, <3>9 DEF ToSet
    <3>4. DOMAIN cache' = 1 .. Len(cache) - 1 /\ DOMAIN cache = 1 .. Len(cache) /\ Len(cache) \in Nat
      BY <3>2 DEF DataInv, CacheSound
    <3>5. \A i, j \in DOMAIN cache' : i < j => cache'[i] < cache'[j]
      BY <3>0, <3>4 DEF DataInv, CacheSound
    <3>6. \A i \in DOMAIN cache' : cache'[i] <= arrived
      BY <3>0, <3>4 DEF DataInv, CacheSound
    <3>7. Matching' \subseteq Matching \ {s}
      BY <3>1, <3>3, <3>4 DEF Matching, ToSet
    <3> QED
      BY <1>2, <3>1, <3>2, <3>4, <3>5, <3>6, <3>7 DEF DataInv, CacheSound
  <2>2. CASE Mode[c] # "take"
    <3>1. cache' = cache /\ seen' = seen \cup {s}
      BY <1>1, <2>2
    <3> QED
      BY <1>2, <1>3, <3>1 DEF DataInv, CacheSound, Matching, ToSet
  <2> QED
    BY <2>1, <2>2
<1>6. /\ got[c] \in Seq(Samples)
      /\ \A d \in Consumers : \A i \in DOMAIN got[d] : got[d][i] < s
  BY <1>1 DEF DataInv, DeliveredSound
<1>7. /\ got'[c] = Append(got[c], s) /\ \A d \in Consumers : d # c => got'[d] = got[d]
      /\ DOMAIN got' = Consumers
  BY <1>1 DEF DataInv, DeliveredSound
<1> HIDE DEF s
<1>8. /\ got'[c] \in Seq(Samples) /\ DOMAIN got'[c] = 1 .. Len(got[c]) + 1 /\ Len(got[c]) \in Nat
      /\ \A i \in 1 .. Len(got[c]) : got'[c][i] = got[c][i]
      /\ got'[c][Len(got[c]) + 1] = s
  BY <1>3, <1>6, <1>7
<1>9. Len(got[c]) + 1 <= s
  <2>1. CASE Len(got[c]) = 0
    BY <1>3, <2>1 DEF Samples
  <2>2. CASE Len(got[c]) # 0
    <3>1. Len(got[c]) \in DOMAIN got[c]
      BY <1>6, <2>2
    <3> DEFINE last == got[c][Len(got[c])]
    <3>2. Len(got[c]) <= last /\ last < s /\ last \in Nat
      BY <1>6, <3>1 DEF DataInv, DeliveredSound, Samples
    <3> QED
      BY <1>3, <1>8, <3>2 DEF Samples
  <2> QED
    BY <2>1, <2>2
<1>10. DeliveredSound'
  <2> SUFFICES ASSUME NEW d \in Consumers
               PROVE  /\ got'[d] \in Seq(Samples)
                      /\ \A i \in DOMAIN got'[d] : i <= got'[d][i] /\ got'[d][i] <= arrived
                      /\ \A i \in DOMAIN got'[d] : \A x \in Matching' : got'[d][i] < x
    BY <1>2, <1>7 DEF DeliveredSound
  <2>1. CASE d # c
    BY <1>5, <1>7, <2>1 DEF DataInv, DeliveredSound
  <2>2. ASSUME NEW i \in DOMAIN got'[c]
        PROVE  i <= got'[c][i] /\ got'[c][i] <= arrived /\ \A x \in Matching' : got'[c][i] < x
    <3>1. CASE i = Len(got[c]) + 1
      BY <1>3, <1>4, <1>5, <1>8, <1>9, <3>1
    <3>2. CASE i # Len(got[c]) + 1
      <4>1. i \in DOMAIN got[c] /\ got'[c][i] = got[c][i]
        BY <1>6, <1>8, <2>2, <3>2
      <4> QED
        BY <1>5, <4>1 DEF DataInv, DeliveredSound
    <3> QED
      BY <3>1, <3>2
  <2> QED
    BY <1>8, <2>1, <2>2
<1>11. \A d \in Consumers : ToSet(got'[d]) = IF d = c THEN ToSet(got[d]) \cup {s} ELSE ToSet(got[d])
  <2>1. \A d \in Consumers : d # c => ToSet(got'[d]) = ToSet(got[d])
    BY <1>7
  <2>3. ToSet(got'[c]) = ToSet(got[c]) \cup {s}
    BY <1>3, <1>6, <1>7, AppendedElements
  <2> QED
    BY <2>1, <2>3
<1>12. OnceInOrder'
  <2>1. \A i, j \in DOMAIN got'[c] : i < j => got'[c][i] < got'[c][j]
    BY <1>6, <1>8, SMTT(30) DEF DataInv, OnceInOrder
  <2>2. \A d \in Consumers : s \notin ToSet(got[d])
    <3>1. ASSUME NEW d \in Consumers, NEW i \in DOMAIN got[d] PROVE got[d][i] # s
      <4>1. got[d][i] \in Nat /\ got[d][i] < s
        BY <1>6 DEF DataInv, DeliveredSound, Samples
      <4> QED
        BY <1>3, <4>1 DEF Samples
    <3> QED
      BY <3>1 DEF ToSet
  <2>3. \A d, e \in Consumers : d # e => ToSet(got'[d]) \cap ToSet(got'[e]) = {}
    <3>1. \A d, e \in Consumers : d # e => ToSet(got[d]) \cap ToSet(got[e]) = {}
      BY DEF DataInv, OnceInOrder
    <3> QED
      BY <1>11, <2>2, <3>1
  <2>4. \A d \in Consumers \ {c} : \A i, j \in DOMAIN got'[d] : i < j => got'[d][i] < got'[d][j]
    BY <1>7 DEF DataInv, OnceInOrder
  <2> QED
    BY <2>1, <2>3, <2>4 DEF OnceInOrder
<1> QED
  BY <1>5, <1>10, <1>12 DEF DataInv

LEMMA DataKept ==
  ASSUME DataInv, [Next]_vars
  PROVE  DataInv'
<1>1. ASSUME UNCHANGED <<arrived, cache, seen, got>> PROVE DataInv'
  <2>1. arrived' = arrived /\ cache' = cache /\ seen' = seen /\ got' = got
    BY <1>1
  <2>2. Matching' = Matching
    BY <2>1 DEF Matching
  <2>3. CacheSound' /\ DeliveredSound'
    BY <2>1, <2>2 DEF DataInv, CacheSound, DeliveredSound
  <2>4. OnceInOrder'
    BY <2>1 DEF DataInv, OnceInOrder
  <2> QED
    BY <2>3, <2>4 DEF DataInv
<1> QED
  BY <1>1, ArriveKeeps, DeliverKeeps DEF Next, vars, Start, Continue, Stop, BeginWait, WaitReturns,
     Resume, Cancel, FinishShutdown

(***************************************************************************)
(* The theorems.                                                           *)
(***************************************************************************)
\* Iterating consumers and the samples that arrive keep the invariant.
THEOREM IterationAlways == Spec => []IterationInv
<1>1. IterationInv /\ [Next]_vars => IterationInv'
  BY PlacesKept, DataKept DEF IterationInv, DataInv
<1> QED
  BY InitHolds, <1>1, PTL DEF Spec

\* Every variable keeps its type: the reader never holds more than its depth, and
\* no consumer delivers more samples than have arrived.
THEOREM IterationTypes == Spec => []TypeOK
<1>1. IterationInv => TypeOK
  <2> SUFFICES ASSUME IterationInv PROVE TypeOK
    OBVIOUS
  <2>1. cache \in BoundedSeq(Samples, Depth)
    BY BoundedSequence, IterationAssumption DEF IterationAssumption, IterationInv, CacheSound
  <2>2. ASSUME NEW c \in Consumers PROVE got[c] \in BoundedSeq(Samples, MaxSamples)
    <3>1. got[c] \in Seq(Samples) /\ arrived <= MaxSamples /\ MaxSamples \in Nat
      BY IterationAssumption DEF IterationAssumption, IterationInv, CacheSound, DeliveredSound
    <3>2. Len(got[c]) <= MaxSamples
      <4>1. CASE Len(got[c]) = 0
        BY <3>1, <4>1
      <4>2. CASE Len(got[c]) # 0
        <5>1. Len(got[c]) \in DOMAIN got[c]
          BY <3>1, <4>2
        <5> DEFINE last == got[c][Len(got[c])]
        <5>2. Len(got[c]) <= last /\ last <= arrived /\ last \in Nat
          BY <3>1, <5>1 DEF IterationInv, DeliveredSound, Samples
        <5> QED
          BY <3>1, <5>2 DEF IterationInv, CacheSound
      <4> QED
        BY <4>1, <4>2
    <3> QED
      BY <3>1, <3>2, BoundedSequence
  <2> QED
    BY <2>1, <2>2 DEF TypeOK, IterationInv, PlacesSound, CacheSound
<1> QED
  BY IterationAlways, <1>1, PTL

\* No sample is delivered twice, and each consumer delivers in the order of
\* arrival, however the waits and wake-ups of the consumers fall.
THEOREM OnceInOrderTheorem == Spec => []OnceInOrder
BY IterationAlways, PTL DEF IterationInv
=============================================================================
