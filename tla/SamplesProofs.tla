---------------------------- MODULE SamplesProofs ----------------------------
(***************************************************************************)
(* Theorems about Samples.  First its sertypes, their reference counts and *)
(* the references to their classes, for every finite number of threads and *)
(* of sertypes; then SameInstance, HandedOver and TypeOK, for every set of *)
(* keys, writers, threads, sertypes, read limits and ways to cut a sample. *)
(***************************************************************************)
EXTENDS Samples, FiniteSetTheorems, WellFoundedInduction, TLAPS

(***************************************************************************)
(* Induction, stated with sets in place of predicates.                     *)
(***************************************************************************)
LEMMA LeastNumber ==
  ASSUME NEW T \in SUBSET Nat, T # {}
  PROVE  \E m \in T : \A k \in T : m <= k
<1> DEFINE R == OpToRel(<, Nat)
<1>1. \A x, y \in T : <<y, x>> \in R <=> y < x
  BY DEF OpToRel
<1>2. IsWellFoundedOn(R, Nat)
  BY NatLessThanWellFounded
<1> HIDE DEF R
<1>3. PICK x \in T : \A y \in T : <<y, x>> \notin R
  BY <1>2, WFMin, Zenon
<1>4. \A k \in T : ~(k < x)
  BY <1>1, <1>3, Zenon
<1> QED
  BY <1>4

LEMMA SetInduction ==
  ASSUME NEW T \in SUBSET Nat, 0 \in T, \A n \in T : n + 1 \in T
  PROVE  T = Nat
<1> SUFFICES ASSUME Nat \ T # {} PROVE FALSE
  OBVIOUS
<1>1. PICK m \in Nat \ T : \A k \in Nat \ T : m <= k
  BY LeastNumber, Nat \ T \in SUBSET Nat
<1>2. m # 0 /\ m - 1 \in Nat /\ m - 1 \in T
  BY <1>1
<1> QED
  BY <1>1, <1>2

LEMMA IntervalInduction ==
  ASSUME NEW N \in Nat, NEW T, 0 \in T, \A n \in 0 .. N - 1 : n \in T => n + 1 \in T
  PROVE  0 .. N \subseteq T
<1> DEFINE U == {n \in Nat : n <= N => n \in T}
<1>1. 0 \in U
  OBVIOUS
<1>2. \A n \in U : n + 1 \in U
  OBVIOUS
<1>3. U = Nat
  <2>1. U \in SUBSET Nat
    OBVIOUS
  <2> HIDE DEF U
  <2> QED
    BY <1>1, <1>2, <2>1, SetInduction
<1> QED
  BY <1>3

(***************************************************************************)
(* Recursive functions: one step after another there is a value.           *)
(***************************************************************************)
Steps(N, X) == [(1 .. N) \X X -> X]
Follows(f, step, base, N, X) ==
  /\ f \in [0 .. N -> X]
  /\ f[0] = base /\ \A n \in 1 .. N : f[n] = step[<<n, f[n - 1]>>]

LEMMA StepByStep ==
  ASSUME NEW X, NEW base \in X, NEW N \in Nat, NEW step \in Steps(N, X)
  PROVE  \E f : Follows(f, step, base, N, X)
<1> USE DEF Steps
<1> DEFINE Upto(m) == {f \in [0 .. m -> X] :
                         f[0] = base /\ \A n \in 1 .. m : f[n] = step[<<n, f[n - 1]>>]}
           T == {m \in Nat : m <= N => Upto(m) # {}}
<1>1. 0 \in T
  <2> DEFINE f == [n \in 0 .. 0 |-> base]
  <2>1. f \in [0 .. 0 -> X] /\ f[0] = base
    OBVIOUS
  <2> HIDE DEF f
  <2> QED
    BY <2>1
<1>2. ASSUME NEW m \in T PROVE m + 1 \in T
  <2> SUFFICES ASSUME m + 1 <= N PROVE Upto(m + 1) # {}
    OBVIOUS
  <2>1. PICK f \in [0 .. m -> X] : f[0] = base /\ \A n \in 1 .. m : f[n] = step[<<n, f[n - 1]>>]
    OBVIOUS
  <2> DEFINE g == [n \in 0 .. m + 1 |-> IF n <= m THEN f[n] ELSE step[<<m + 1, f[m]>>]]
  <2>2. f[m] \in X /\ m + 1 \in 1 .. N
    OBVIOUS
  <2>3. step[<<m + 1, f[m]>>] \in X
    BY <2>2
  <2>4. g \in [0 .. m + 1 -> X]
    BY <2>3
  <2>5. g[0] = base
    BY <2>1
  <2>6. ASSUME NEW n \in 1 .. m + 1 PROVE g[n] = step[<<n, g[n - 1]>>]
    <3>1. CASE n <= m
      <4>1. n \in 1 .. m /\ n - 1 \in 0 .. m /\ n - 1 <= m
        BY <3>1
      <4>2. g[n] = f[n] /\ g[n - 1] = f[n - 1]
        BY <4>1
      <4> QED
        BY <2>1, <4>1, <4>2
    <3>2. CASE n = m + 1
      <4>1. g[n] = step[<<m + 1, f[m]>>] /\ g[n - 1] = f[m]
        BY <3>2
      <4> QED
        BY <3>2, <4>1
    <3> QED
      BY <3>1, <3>2
  <2> HIDE DEF g
  <2>7. g \in Upto(m + 1)
    BY <2>4, <2>5, <2>6
  <2> QED
    BY <2>7
<1>3. T = Nat
  <2>1. T \in SUBSET Nat
    OBVIOUS
  <2> HIDE DEF T
  <2> QED
    BY <1>1, <1>2, <2>1, SetInduction
<1>4. N \in T
  BY <1>3
<1>5. PICK f : f \in Upto(N)
  BY <1>4
<1> QED
  BY <1>5 DEF Follows

(***************************************************************************)
(* Sequences.                                                              *)
(***************************************************************************)
LEMMA EmptySequence ==
  ASSUME NEW U
  PROVE  <<>> \in Seq(U) /\ Len(<<>>) = 0
OBVIOUS

LEMMA Joined ==
  ASSUME NEW U, NEW s \in Seq(U), NEW t \in Seq(U)
  PROVE  s \o t \in Seq(U) /\ Len(s \o t) = Len(s) + Len(t)
OBVIOUS

LEMMA SameSequence ==
  ASSUME NEW U, NEW s \in Seq(U), NEW t \in Seq(U), Len(s) = Len(t),
         \A i \in 1 .. Len(s) : s[i] = t[i]
  PROVE  s = t
OBVIOUS

\* A sequence is flattened by joining one of its elements after the other.
Joins(flat, s, N, U) ==
  /\ flat \in [0 .. N -> Seq(U)]
  /\ flat[0] = <<>> /\ \A n \in 1 .. N : flat[n] = flat[n - 1] \o s[n]

LEMMA FlattenSteps ==
  ASSUME NEW U, NEW N \in Nat, NEW s, s \in [1 .. N -> Seq(U)]
  PROVE  \E flat : Joins(flat, s, N, U) /\ FlattenSeq(s) = flat[N]
<1>0. s \in Seq(Seq(U)) /\ Len(s) = N
  OBVIOUS
<1>1. CASE N = 0
  <2>1. FlattenSeq(s) = s
    BY <1>0, <1>1 DEF FlattenSeq
  <2>2. s = <<>>
    BY <1>0, <1>1
  <2> DEFINE g == [n \in 0 .. N |-> <<>>]
  <2>3. Joins(g, s, N, U) /\ g[N] = <<>>
    BY <1>1, EmptySequence DEF Joins
  <2> QED
    BY <2>1, <2>2, <2>3
<1>2. CASE N # 0
  <2> DEFINE Flattens(f) == f = [i \in 1 .. N |-> IF i = 1 THEN s[i] ELSE f[i - 1] \o s[i]]
             flat == CHOOSE f : Flattens(f)
  <2>1. \E f : Flattens(f)
    <3> DEFINE X == Seq(U)
               step == [p \in (1 .. N) \X X |-> p[2] \o s[p[1]]]
             base == <<>>
    <3>1. step \in Steps(N, X)
      BY DEF Steps
    <3>2. base \in X
      BY EmptySequence
    <3>3. \A n \in 1 .. N, x \in X : step[<<n, x>>] = x \o s[n]
      OBVIOUS
    <3> HIDE DEF step, X, base
    <3>4. PICK f : Follows(f, step, base, N, X)
      BY <3>1, <3>2, StepByStep
    <3>7. /\ f \in [0 .. N -> X]
          /\ f[0] = base /\ \A n \in 1 .. N : f[n] = step[<<n, f[n - 1]>>]
      BY <3>4 DEF Follows
    <3> DEFINE g == [i \in 1 .. N |-> f[i]]
    <3>5. ASSUME NEW i \in 1 .. N PROVE f[i] = IF i = 1 THEN s[i] ELSE g[i - 1] \o s[i]
      <4>0. i - 1 \in 0 .. N /\ f[i - 1] \in X
        BY <3>7
      <4>1. f[i] = f[i - 1] \o s[i]
        BY <3>3, <3>7, <4>0
      <4>2. CASE i = 1
        <5>1. f[i] = <<>> \o s[i] /\ s[i] \in Seq(U)
          BY <3>7, <4>1, <4>2 DEF base
        <5> QED
          BY <4>2, <5>1
      <4>3. CASE i # 1
        <5>1. i - 1 \in 1 .. N
          BY <4>3
        <5> QED
          BY <4>1, <4>3, <5>1
      <4> QED
        BY <4>2, <4>3
    <3>6. Flattens(g)
      BY <3>5
    <3> QED
      BY <3>6
  <2>2. flat = [i \in 1 .. N |-> IF i = 1 THEN s[i] ELSE flat[i - 1] \o s[i]]
    BY <2>1
  <2>3. FlattenSeq(s) = flat[N]
    BY <1>0, <1>2 DEF FlattenSeq
  <2> HIDE DEF flat
  <2> DEFINE T == {n \in 0 .. N : n # 0 => flat[n] \in Seq(U)}
  <2>4. 0 \in T
    OBVIOUS
  <2>5. ASSUME NEW n \in 0 .. N - 1, n \in T PROVE n + 1 \in T
    <3>1. n + 1 \in 1 .. N /\ s[n + 1] \in Seq(U)
      OBVIOUS
    <3>0. \A i \in 1 .. N : flat[i] = IF i = 1 THEN s[i] ELSE flat[i - 1] \o s[i]
      BY <2>2, Zenon
    <3>2. flat[n + 1] = IF n + 1 = 1 THEN s[n + 1] ELSE flat[n] \o s[n + 1]
      BY <3>0, <3>1
    <3>3. flat[n + 1] \in Seq(U)
      BY <2>5, <3>1, <3>2, Joined
    <3> QED
      BY <3>1, <3>3
  <2>6. 0 .. N \subseteq T
    BY <2>4, <2>5, IntervalInduction
  <2>7. \A n \in 1 .. N : flat[n] \in Seq(U)
    BY <2>6
  <2>8. \A n \in 1 .. N : flat[n] = IF n = 1 THEN s[n] ELSE flat[n - 1] \o s[n]
    BY <2>2, Zenon
  <2> HIDE DEF T
  <2> DEFINE g == [n \in 0 .. N |-> IF n = 0 THEN <<>> ELSE flat[n]]
  <2>9. g \in [0 .. N -> Seq(U)] /\ g[0] = <<>> /\ g[N] = flat[N]
    BY <1>2, <2>7, EmptySequence
  <2>10. ASSUME NEW n \in 1 .. N PROVE g[n] = g[n - 1] \o s[n]
    <3>1. g[n] = flat[n] /\ n - 1 \in 0 .. N /\ (n # 1 => n - 1 # 0)
      OBVIOUS
    <3>2. CASE n = 1
      <4>1. g[n - 1] = <<>> /\ s[n] \in Seq(U)
        BY <3>2
      <4>2. <<>> \o s[n] = s[n]
        BY <4>1
      <4> QED
        BY <2>8, <3>1, <3>2, <4>1, <4>2, Zenon
    <3>3. CASE n # 1
      <4>1. g[n - 1] = flat[n - 1]
        BY <3>1, <3>3
      <4> QED
        BY <2>8, <3>1, <3>3, <4>1, Zenon
    <3> QED
      BY <3>2, <3>3
  <2> HIDE DEF g
  <2> QED
    BY <2>3, <2>9, <2>10 DEF Joins
<1> QED
  BY <1>1, <1>2

\* A sequence flattened has nothing but elements of its elements.
LEMMA FlattenSeqType ==
  ASSUME NEW U, NEW N \in Nat, NEW s, s \in [1 .. N -> Seq(U)]
  PROVE  FlattenSeq(s) \in Seq(U)
<1>1. PICK flat : Joins(flat, s, N, U) /\ FlattenSeq(s) = flat[N]
  BY FlattenSteps
<1> QED
  BY <1>1 DEF Joins

(***************************************************************************)
(* The inductive invariant.                                                *)
(***************************************************************************)
\* The calls that count a reference to s, and the sertypes of a class.
Holding(s) == {t \in Threads : mine[t] = s /\ pc[t] # "freeing"}
Sparing(s) == {t \in Threads : spare[t] = s}
OfClass(c) == {s \in Sertypes : class[s] = c}

\* What one thread adds to them.
Holds(t, s) == IF mine[t] = s /\ pc[t] # "freeing" THEN 1 ELSE 0
Spares(t, s) == IF spare[t] = s THEN 1 ELSE 0

SertypeTypes ==
  /\ typesLock \in Threads \cup {Nobody}
  /\ pc \in [Threads -> Places \cup {"collecting"}]
  /\ mine \in [Threads -> Sertypes \cup {NoSertype}]
  /\ spare \in [Threads -> Sertypes \cup {NoSertype}]
  /\ unseen \in [Threads -> SUBSET Sertypes]
  /\ class \in [Sertypes -> Classes \cup {NoClass}]
  /\ refs \in [Sertypes -> Nat] /\ topics \in [Sertypes -> Nat]
  /\ registry \subseteq Sertypes /\ described \subseteq Sertypes
  /\ pyRefs \in [Classes -> Nat]

\* A call has its sertype until it is done with it; three places hold the lock.
CallsSound ==
  \A t \in Threads :
    /\ mine[t] = NoSertype <=> pc[t] \in {"idle", "returning", "collecting"}
    /\ spare[t] = NoSertype <=> pc[t] # "replaced"
    /\ typesLock = t <=> pc[t] \in {"looking", "replaced", "freeing"}
    /\ pc[t] \in {"replaced", "created", "undoing", "deleting"} => mine[t] \in registry

\* A sertype that is not in the registry is one call's and nobody else's.
PrivateSound ==
  \A t \in Threads :
    /\ pc[t] \in {"creating", "failed", "looking", "freeing"} =>
         /\ mine[t] \in Allocated \ registry
         /\ \A u \in Threads : spare[u] # mine[t] /\ (mine[u] = mine[t] => u = t)
    /\ pc[t] = "replaced" =>
         /\ spare[t] \in Allocated \ registry
         /\ \A u \in Threads : mine[u] # spare[t] /\ (spare[u] = spare[t] => u = t)

\* What a call has compared with its sertype is of another class.
LookSound ==
  \A t \in Threads : pc[t] = "looking" =>
    /\ unseen[t] \subseteq registry
    /\ \A r \in registry \ unseen[t] : class[r] # class[mine[t]]

\* Registered sertypes are allocated, one of each class; allocated ones are
\* referenced, or are just being freed; a topic's are registered and described.
RegistrySound ==
  /\ registry \subseteq Allocated
  /\ \A r, s \in registry : class[r] = class[s] => r = s
  /\ \A s \in Sertypes : topics[s] > 0 => s \in registry \cap described
  /\ \A s \in Allocated : refs[s] > 0 \/ \E t \in Threads : pc[t] = "freeing" /\ mine[t] = s
  /\ \A s \in Sertypes \ Allocated : refs[s] = 0

RefsCounted ==
  \A s \in Sertypes :
    refs[s] = topics[s] + Cardinality(Holding(s)) + Cardinality(Sparing(s))

ClassesCounted == \A c \in Classes : pyRefs[c] = Cardinality(OfClass(c))

SertypeInv ==
  /\ SertypeTypes /\ CallsSound /\ PrivateSound /\ LookSound /\ RegistrySound
  /\ RefsCounted /\ ClassesCounted

(***************************************************************************)
(* Counting.                                                               *)
(***************************************************************************)
\* Two sets that differ in one element at most differ by one at most.
LEMMA CountMoves ==
  ASSUME NEW S, IsFiniteSet(S), NEW x, NEW A \in SUBSET S, NEW B \in SUBSET S,
         A \ {x} = B \ {x}
  PROVE  /\ Cardinality(A) \in Nat /\ Cardinality(B) \in Nat
         /\ Cardinality(B) + (IF x \in A THEN 1 ELSE 0) =
              Cardinality(A) + (IF x \in B THEN 1 ELSE 0)
<1>1. IsFiniteSet(A) /\ IsFiniteSet(B)
  BY FS_Subset
<1>2. Cardinality(A) \in Nat /\ Cardinality(B) \in Nat
  BY <1>1, FS_CardinalityType
<1>3. /\ Cardinality(A \ {x}) = IF x \in A THEN Cardinality(A) - 1 ELSE Cardinality(A)
      /\ Cardinality(B \ {x}) = IF x \in B THEN Cardinality(B) - 1 ELSE Cardinality(B)
  BY <1>1, FS_RemoveElement
<1> QED
  BY <1>2, <1>3

\* When one thread moves, the counts of calls change by what it adds.
LEMMA ThreadMoves ==
  ASSUME NEW t \in Threads, NEW s \in Sertypes,
         \A u \in Threads \ {t} : pc'[u] = pc[u] /\ mine'[u] = mine[u] /\ spare'[u] = spare[u]
  PROVE  /\ Cardinality(Holding(s)) \in Nat /\ Cardinality(Holding(s)') \in Nat
         /\ Cardinality(Sparing(s)) \in Nat /\ Cardinality(Sparing(s)') \in Nat
         /\ Cardinality(Holding(s)') + Holds(t, s) = Cardinality(Holding(s)) + Holds(t, s)'
         /\ Cardinality(Sparing(s)') + Spares(t, s) = Cardinality(Sparing(s)) + Spares(t, s)'
<1>0. IsFiniteSet(Threads)
  BY SertypesAssumption DEF SertypesAssumption
<1>1. Holding(s) \ {t} = Holding(s)' \ {t} /\ Sparing(s) \ {t} = Sparing(s)' \ {t}
  BY DEF Holding, Sparing
<1>2. /\ Holding(s) \in SUBSET Threads /\ Holding(s)' \in SUBSET Threads
      /\ Sparing(s) \in SUBSET Threads /\ Sparing(s)' \in SUBSET Threads
  BY DEF Holding, Sparing
<1>3. /\ (t \in Holding(s) <=> Holds(t, s) = 1) /\ (t \in Holding(s)' <=> Holds(t, s)' = 1)
      /\ (t \in Sparing(s) <=> Spares(t, s) = 1) /\ (t \in Sparing(s)' <=> Spares(t, s)' = 1)
      /\ {Holds(t, s), Holds(t, s)', Spares(t, s), Spares(t, s)'} \subseteq {0, 1}
  BY DEF Holding, Sparing, Holds, Spares
<1> DEFINE A == Holding(s)
           B == Holding(s)'
           C == Sparing(s)
           D == Sparing(s)'
<1> HIDE DEF A, B, C, D
<1>4. /\ Cardinality(A) \in Nat /\ Cardinality(B) \in Nat
      /\ Cardinality(B) + (IF t \in A THEN 1 ELSE 0) = Cardinality(A) + (IF t \in B THEN 1 ELSE 0)
  BY <1>0, <1>1, <1>2, CountMoves DEF A, B
<1>5. /\ Cardinality(C) \in Nat /\ Cardinality(D) \in Nat
      /\ Cardinality(D) + (IF t \in C THEN 1 ELSE 0) = Cardinality(C) + (IF t \in D THEN 1 ELSE 0)
  BY <1>0, <1>1, <1>2, CountMoves DEF C, D
<1> QED
  BY <1>3, <1>4, <1>5 DEF A, B, C, D

\* So the reference counts stay right when they change by the same.
LEMMA RefsMove ==
  ASSUME SertypeInv, NEW t \in Threads, SertypeTypes',
         \A u \in Threads \ {t} : pc'[u] = pc[u] /\ mine'[u] = mine[u] /\ spare'[u] = spare[u],
         \A s \in Sertypes : refs'[s] + topics[s] + Holds(t, s) + Spares(t, s) =
                               refs[s] + topics'[s] + Holds(t, s)' + Spares(t, s)'
  PROVE  RefsCounted'
<1> SUFFICES ASSUME NEW s \in Sertypes
             PROVE  refs'[s] = topics'[s] + Cardinality(Holding(s)') + Cardinality(Sparing(s)')
  BY DEF RefsCounted
<1>1. refs[s] = topics[s] + Cardinality(Holding(s)) + Cardinality(Sparing(s))
  BY DEF SertypeInv, RefsCounted
<1>2. {refs[s], topics[s], refs'[s], topics'[s]} \subseteq Nat
  BY DEF SertypeInv, SertypeTypes
<1>3. {Holds(t, s), Holds(t, s)', Spares(t, s), Spares(t, s)'} \subseteq {0, 1}
  BY DEF Holds, Spares
<1>4. /\ Cardinality(Holding(s)) \in Nat /\ Cardinality(Holding(s)') \in Nat
      /\ Cardinality(Sparing(s)) \in Nat /\ Cardinality(Sparing(s)') \in Nat
      /\ Cardinality(Holding(s)') + Holds(t, s) = Cardinality(Holding(s)) + Holds(t, s)'
      /\ Cardinality(Sparing(s)') + Spares(t, s) = Cardinality(Sparing(s)) + Spares(t, s)'
  BY ThreadMoves
<1> QED
  BY <1>1, <1>2, <1>3, <1>4

\* A sertype that no other call has is counted as often as this one has it.
LEMMA CountedAlone ==
  ASSUME SertypeInv, NEW t \in Threads, NEW s \in Sertypes \ registry,
         \A u \in Threads \ {t} : mine[u] # s /\ spare[u] # s
  PROVE  topics[s] = 0 /\ refs[s] = Holds(t, s) + Spares(t, s)
<1>0. IsFiniteSet(Threads)
  BY SertypesAssumption DEF SertypesAssumption
<1>1. topics[s] = 0
  BY DEF SertypeInv, RegistrySound, SertypeTypes
<1>2. Cardinality(Holding(s)) = Holds(t, s)
  <2>1. Holding(s) = IF Holds(t, s) = 1 THEN {t} ELSE {}
    BY DEF Holding, Holds
  <2> QED
    BY <2>1, FS_EmptySet, FS_Singleton DEF Holds
<1>3. Cardinality(Sparing(s)) = Spares(t, s)
  <2>1. Sparing(s) = IF Spares(t, s) = 1 THEN {t} ELSE {}
    BY DEF Sparing, Spares
  <2> QED
    BY <2>1, FS_EmptySet, FS_Singleton DEF Spares
<1> QED
  BY <1>1, <1>2, <1>3 DEF SertypeInv, RefsCounted, Holds, Spares

\* A call's sertype is referenced by it, and by nothing else if the count says so.
LEMMA Referenced ==
  ASSUME SertypeInv, NEW t \in Threads, mine[t] \in Sertypes, pc[t] # "freeing"
  PROVE  /\ refs[mine[t]] > 0
         /\ refs[mine[t]] = 1 =>
              /\ topics[mine[t]] = 0
              /\ \A u \in Threads : spare[u] # mine[t]
              /\ \A u \in Threads : mine[u] = mine[t] /\ pc[u] # "freeing" => u = t
<1> DEFINE s == mine[t]
           A == Holding(s)
           B == Sparing(s)
<1>0. IsFiniteSet(Threads) /\ A \in SUBSET Threads /\ B \in SUBSET Threads
  BY SertypesAssumption DEF SertypesAssumption, Holding, Sparing
<1>1. IsFiniteSet(A) /\ IsFiniteSet(B)
  BY <1>0, FS_Subset
<1>2. Cardinality(A) \in Nat /\ Cardinality(B) \in Nat
  BY <1>1, FS_CardinalityType
<1>3. t \in A
  BY DEF Holding
<1>4. refs[s] = topics[s] + Cardinality(A) + Cardinality(B) /\ topics[s] \in Nat
  BY DEF SertypeInv, SertypeTypes, RefsCounted
<1>5. Cardinality(A) # 0
  BY <1>1, <1>3, FS_EmptySet
<1>6. Cardinality(A) = 1 => A = {t}
  BY <1>1, <1>3, FS_Singleton
<1>7. Cardinality(B) = 0 => B = {}
  BY <1>1, FS_EmptySet
<1>8. /\ refs[s] > 0
      /\ refs[s] = 1 => topics[s] = 0 /\ Cardinality(A) = 1 /\ Cardinality(B) = 0
  <2> HIDE DEF A, B, s
  <2> QED
    BY <1>2, <1>4, <1>5
<1> QED
  BY <1>6, <1>7, <1>8 DEF Holding, Sparing

LEMMA ClassGained ==
  ASSUME SertypeInv, NEW s \in Sertypes \ Allocated, NEW c \in Classes,
         class' = [class EXCEPT ![s] = c], pyRefs' = [pyRefs EXCEPT ![c] = @ + 1]
  PROVE  ClassesCounted' /\ pyRefs' \in [Classes -> Nat]
<1>1. ASSUME NEW d \in Classes PROVE pyRefs'[d] = Cardinality(OfClass(d)')
  <2> DEFINE A == OfClass(d)
             B == OfClass(d)'
  <2>1. A \in SUBSET Sertypes /\ B \in SUBSET Sertypes /\ A \ {s} = B \ {s}
    BY DEF OfClass, SertypeInv, SertypeTypes
  <2>2. s \notin A /\ (s \in B <=> c = d)
    BY SertypesAssumption DEF OfClass, SertypeInv, SertypeTypes, Allocated, SertypesAssumption
  <2>3. pyRefs[d] = Cardinality(A) /\ pyRefs'[d] = IF c = d THEN pyRefs[d] + 1 ELSE pyRefs[d]
    BY DEF SertypeInv, ClassesCounted, SertypeTypes
  <2>4. IsFiniteSet(Sertypes)
    BY SertypesAssumption DEF SertypesAssumption
  <2> HIDE DEF A, B
  <2>5. /\ Cardinality(A) \in Nat /\ Cardinality(B) \in Nat
        /\ Cardinality(B) + (IF s \in A THEN 1 ELSE 0) = Cardinality(A) + (IF s \in B THEN 1 ELSE 0)
    BY <2>1, <2>4, CountMoves
  <2>6. pyRefs'[d] = Cardinality(B)
    BY <2>2, <2>3, <2>5
  <2> QED
    BY <2>6 DEF B
<1>2. pyRefs' \in [Classes -> Nat]
  BY DEF SertypeInv, SertypeTypes
<1> QED
  BY <1>1, <1>2 DEF ClassesCounted

LEMMA ClassLost ==
  ASSUME SertypeInv, NEW s \in Allocated,
         class' = [class EXCEPT ![s] = NoClass], pyRefs' = [pyRefs EXCEPT ![class[s]] = @ - 1]
  PROVE  ClassesCounted' /\ pyRefs' \in [Classes -> Nat]
<1>0. s \in Sertypes /\ class[s] \in Classes
  BY DEF Allocated, SertypeInv, SertypeTypes
<1>1. ASSUME NEW d \in Classes
      PROVE  pyRefs'[d] = Cardinality(OfClass(d)') /\ Cardinality(OfClass(d)') \in Nat
  <2> DEFINE A == OfClass(d)
             B == OfClass(d)'
  <2>1. A \in SUBSET Sertypes /\ B \in SUBSET Sertypes /\ A \ {s} = B \ {s}
    BY <1>0 DEF OfClass, SertypeInv, SertypeTypes
  <2>2. s \notin B /\ (s \in A <=> class[s] = d)
    BY <1>0, SertypesAssumption DEF OfClass, SertypeInv, SertypeTypes, SertypesAssumption
  <2>3. pyRefs[d] = Cardinality(A) /\ pyRefs'[d] = IF class[s] = d THEN pyRefs[d] - 1 ELSE pyRefs[d]
    BY <1>0 DEF SertypeInv, ClassesCounted, SertypeTypes
  <2>4. IsFiniteSet(Sertypes)
    BY SertypesAssumption DEF SertypesAssumption
  <2> HIDE DEF A, B
  <2>5. /\ Cardinality(A) \in Nat /\ Cardinality(B) \in Nat
        /\ Cardinality(B) + (IF s \in A THEN 1 ELSE 0) = Cardinality(A) + (IF s \in B THEN 1 ELSE 0)
    BY <2>1, <2>4, CountMoves
  <2>6. pyRefs'[d] = Cardinality(B)
    BY <2>2, <2>3, <2>5
  <2> QED
    BY <2>5, <2>6 DEF B
<1>2. pyRefs' = [d \in Classes |-> pyRefs'[d]]
  BY DEF SertypeInv, SertypeTypes
<1>3. pyRefs' \in [Classes -> Nat]
  BY <1>1, <1>2
<1> QED
  BY <1>1, <1>3 DEF ClassesCounted

(***************************************************************************)
(* Each action preserves it.                                               *)
(***************************************************************************)
LEMMA SertypeInvInit == Init => SertypeInv
<1> SUFFICES ASSUME InitSertypes PROVE SertypeInv
  BY DEF Init
<1> USE SertypesAssumption DEF SertypesAssumption
<1>1. SertypeTypes
  BY DEF InitSertypes, SertypeTypes, Places
<1>2. CallsSound /\ PrivateSound /\ LookSound
  BY DEF InitSertypes, CallsSound, PrivateSound, LookSound
<1>3. RegistrySound
  BY DEF InitSertypes, RegistrySound, Allocated
<1>4. RefsCounted
  <2>1. \A s \in Sertypes : Holding(s) = {} /\ Sparing(s) = {}
    BY DEF InitSertypes, Holding, Sparing
  <2>2. \A s \in Sertypes : Cardinality(Holding(s)) = 0 /\ Cardinality(Sparing(s)) = 0
    BY <2>1, FS_EmptySet
  <2>3. \A s \in Sertypes : refs[s] = topics[s] /\ topics[s] \in Nat
    BY DEF InitSertypes
  <2> QED
    BY <2>2, <2>3 DEF RefsCounted
<1>5. ClassesCounted
  <2>1. \A c \in Classes : OfClass(c) = IF c = MainClass THEN {Main} ELSE {}
    BY DEF InitSertypes, OfClass
  <2> QED
    BY <2>1, FS_EmptySet, FS_Singleton DEF InitSertypes, ClassesCounted
<1> QED
  BY <1>1, <1>2, <1>3, <1>4, <1>5 DEF SertypeInv

LEMMA CreateTopicKeeps ==
  ASSUME SertypeInv, NEW t \in Threads, NEW c \in Classes, CreateTopic(t, c)
  PROVE  SertypeInv'
<1> USE SertypesAssumption DEF SertypesAssumption, SertypeInv
<1>a. PICK n \in Sertypes \ Allocated :
        /\ pc[t] = "idle"
        /\ class' = [class EXCEPT ![n] = c]
        /\ refs' = [refs EXCEPT ![n] = 1]
        /\ mine' = [mine EXCEPT ![t] = n]
        /\ pyRefs' = [pyRefs EXCEPT ![c] = @ + 1]
        /\ Go(t, "creating")
        /\ UNCHANGED <<typesLock, spare, unseen, registry, described, topics>>
  BY DEF CreateTopic, NewSertype, CanCall
<1>b. refs[n] = 0 /\ \A u \in Threads : mine[u] # n /\ spare[u] # n
  <2>1. refs[n] = 0 /\ n \notin registry /\ n \in Sertypes
    BY <1>a DEF RegistrySound
  <2>2. ASSUME NEW u \in Threads, mine[u] = n PROVE FALSE
    <3>1. pc[u] \notin {"creating", "failed", "looking", "freeing", "replaced", "created", "deleting"}
      BY <1>a, <2>1, <2>2 DEF PrivateSound, CallsSound
    <3> QED
      BY <2>1, <2>2, <3>1 DEF CallsSound, SertypeTypes, Places
  <2>3. ASSUME NEW u \in Threads, spare[u] = n PROVE FALSE
    BY <1>a, <2>1, <2>3 DEF PrivateSound, CallsSound
  <2> QED
    BY <2>1, <2>2, <2>3
<1>c. ClassesCounted' /\ pyRefs' \in [Classes -> Nat]
  BY <1>a, ClassGained
<1>1. SertypeTypes'
  BY <1>a, <1>b, <1>c DEF Go, SertypeTypes, Places
<1>2. CallsSound'
  BY <1>a, <1>b DEF Go, SertypeTypes, CallsSound
<1>3. PrivateSound'
  <2>1. Allocated' = Allocated \cup {n} /\ registry' = registry /\ n \notin registry
    BY <1>a DEF Allocated, SertypeTypes, RegistrySound
  <2>2. \A u \in Threads : spare'[u] = spare[u] /\ mine'[u] = (IF u = t THEN n ELSE mine[u])
                         /\ pc'[u] = (IF u = t THEN "creating" ELSE pc[u])
    BY <1>a DEF Go, SertypeTypes
  <2>3. \A u \in Threads : mine[u] # n /\ spare[u] # n
    BY <1>b
  <2> QED
    BY <1>a, <2>1, <2>2, <2>3 DEF PrivateSound
<1>4. LookSound'
  <2>1. \A u \in Threads : pc'[u] = "looking" => u # t /\ pc[u] = "looking" /\ mine'[u] = mine[u]
    BY <1>a DEF Go, SertypeTypes
  <2>2. \A s \in Sertypes : s # n => class'[s] = class[s]
    BY <1>a DEF SertypeTypes
  <2>3. \A u \in Threads : pc[u] = "looking" => mine[u] # n /\ mine[u] \in Sertypes
    BY <1>b DEF PrivateSound, Allocated
  <2>4. registry' = registry /\ unseen' = unseen /\ n \notin registry /\ registry \subseteq Sertypes
    BY <1>a DEF RegistrySound, SertypeTypes
  <2> QED
    BY <2>1, <2>2, <2>3, <2>4 DEF LookSound
<1>5. RegistrySound'
  BY <1>a, <1>b DEF Go, SertypeTypes, CallsSound, PrivateSound, LookSound, RegistrySound, Allocated
<1>6. RefsCounted'
  <2>1. \A u \in Threads \ {t} : pc'[u] = pc[u] /\ mine'[u] = mine[u] /\ spare'[u] = spare[u]
    BY <1>a, <1>b DEF Go, SertypeTypes
  <2>2. \A s \in Sertypes : refs'[s] + topics[s] + Holds(t, s) + Spares(t, s) =
                              refs[s] + topics'[s] + Holds(t, s)' + Spares(t, s)'
    BY <1>a, <1>b DEF Go, Holds, Spares, SertypeTypes, CallsSound
  <2> QED
    BY <1>1, <2>1, <2>2, RefsMove
<1>7. ClassesCounted'
  BY <1>c
<1> QED
  BY <1>1, <1>2, <1>3, <1>4, <1>5, <1>6, <1>7

LEMMA CreateFailsKeeps ==
  ASSUME SertypeInv, NEW t \in Threads, CreateFails(t)
  PROVE  SertypeInv'
<1> USE SertypesAssumption DEF SertypesAssumption, SertypeInv
<1>1. SertypeTypes'
  BY DEF CreateFails, Go, sertypeVars, SertypeTypes, Places
<1>2. CallsSound'
  BY DEF CreateFails, Go, sertypeVars, SertypeTypes, CallsSound
<1>3. PrivateSound'
  BY DEF CreateFails, Go, sertypeVars, SertypeTypes, CallsSound, PrivateSound, Allocated
<1>4. LookSound'
  BY DEF CreateFails, Go, sertypeVars, SertypeTypes, CallsSound, PrivateSound, LookSound, Allocated
<1>5. RegistrySound'
  BY DEF CreateFails, Go, sertypeVars, SertypeTypes, CallsSound, PrivateSound, LookSound, RegistrySound, Allocated
<1>6. RefsCounted'
  <2>1. \A u \in Threads \ {t} : pc'[u] = pc[u] /\ mine'[u] = mine[u] /\ spare'[u] = spare[u]
    BY DEF CreateFails, Go, sertypeVars, SertypeTypes
  <2>2. \A s \in Sertypes : refs'[s] + topics[s] + Holds(t, s) + Spares(t, s) =
                              refs[s] + topics'[s] + Holds(t, s)' + Spares(t, s)'
    BY DEF CreateFails, Go, sertypeVars, Holds, Spares, SertypeTypes, CallsSound
  <2> QED
    BY <1>1, <2>1, <2>2, RefsMove
<1>7. ClassesCounted'
  BY DEF CreateFails, Go, sertypeVars, ClassesCounted, OfClass
<1> QED
  BY <1>1, <1>2, <1>3, <1>4, <1>5, <1>6, <1>7

LEMMA LockRegistryKeeps ==
  ASSUME SertypeInv, NEW t \in Threads, LockRegistry(t)
  PROVE  SertypeInv'
<1> USE SertypesAssumption DEF SertypesAssumption, SertypeInv
<1>1. SertypeTypes'
  BY DEF LockRegistry, Go, SertypeTypes, Places
<1>2. CallsSound'
  BY DEF LockRegistry, Go, SertypeTypes, CallsSound
<1>3. PrivateSound'
  BY DEF LockRegistry, Go, SertypeTypes, CallsSound, PrivateSound, Allocated
<1>4. LookSound'
  BY DEF LockRegistry, Go, SertypeTypes, CallsSound, PrivateSound, LookSound, Allocated
<1>5. RegistrySound'
  BY DEF LockRegistry, Go, SertypeTypes, CallsSound, PrivateSound, LookSound, RegistrySound, Allocated
<1>6. RefsCounted'
  <2>1. \A u \in Threads \ {t} : pc'[u] = pc[u] /\ mine'[u] = mine[u] /\ spare'[u] = spare[u]
    BY DEF LockRegistry, Go, SertypeTypes
  <2>2. \A s \in Sertypes : refs'[s] + topics[s] + Holds(t, s) + Spares(t, s) =
                              refs[s] + topics'[s] + Holds(t, s)' + Spares(t, s)'
    BY DEF LockRegistry, Go, Holds, Spares, SertypeTypes, CallsSound
  <2> QED
    BY <1>1, <2>1, <2>2, RefsMove
<1>7. ClassesCounted'
  BY DEF LockRegistry, Go, ClassesCounted, OfClass
<1> QED
  BY <1>1, <1>2, <1>3, <1>4, <1>5, <1>6, <1>7

LEMMA FindEqualKeeps ==
  ASSUME SertypeInv, NEW t \in Threads, FindEqual(t)
  PROVE  SertypeInv'
<1> USE SertypesAssumption DEF SertypesAssumption, SertypeInv
<1>a. PICK q \in unseen[t] :
        /\ pc[t] = "looking"
        /\ class[q] = class[mine[t]]
        /\ refs' = [refs EXCEPT ![q] = @ + 1]
        /\ spare' = [spare EXCEPT ![t] = mine[t]]
        /\ mine' = [mine EXCEPT ![t] = q]
        /\ unseen' = [unseen EXCEPT ![t] = {}]
        /\ Go(t, "replaced")
        /\ UNCHANGED <<typesLock, class, registry, described, topics, pyRefs>>
  BY DEF FindEqual
<1>b. q \in registry /\ q \in Sertypes /\ mine[t] \in Sertypes /\ mine[t] # q /\ spare[t] = NoSertype
  BY <1>a DEF LookSound, PrivateSound, SertypeTypes, CallsSound, Allocated
<1>1. SertypeTypes'
  BY <1>a, <1>b DEF Go, SertypeTypes, Places
<1>2. CallsSound'
  BY <1>a, <1>b DEF Go, SertypeTypes, CallsSound
<1>3. PrivateSound'
  BY <1>a, <1>b DEF Go, SertypeTypes, CallsSound, PrivateSound, Allocated
<1>4. LookSound'
  BY <1>a, <1>b DEF Go, SertypeTypes, CallsSound, PrivateSound, LookSound, Allocated
<1>5. RegistrySound'
  BY <1>a, <1>b DEF Go, SertypeTypes, CallsSound, PrivateSound, LookSound, RegistrySound, Allocated
<1>6. RefsCounted'
  <2>1. \A u \in Threads \ {t} : pc'[u] = pc[u] /\ mine'[u] = mine[u] /\ spare'[u] = spare[u]
    BY <1>a, <1>b DEF Go, SertypeTypes
  <2>2. \A s \in Sertypes : refs'[s] + topics[s] + Holds(t, s) + Spares(t, s) =
                              refs[s] + topics'[s] + Holds(t, s)' + Spares(t, s)'
    BY <1>a, <1>b DEF Go, Holds, Spares, SertypeTypes, CallsSound
  <2> QED
    BY <1>1, <2>1, <2>2, RefsMove
<1>7. ClassesCounted'
  BY <1>a, <1>b DEF Go, ClassesCounted, OfClass
<1> QED
  BY <1>1, <1>2, <1>3, <1>4, <1>5, <1>6, <1>7

LEMMA DifferKeeps ==
  ASSUME SertypeInv, NEW t \in Threads, Differ(t)
  PROVE  SertypeInv'
<1> USE SertypesAssumption DEF SertypesAssumption, SertypeInv
<1>1. SertypeTypes'
  BY DEF Differ, SertypeTypes, Places
<1>2. CallsSound'
  BY DEF Differ, SertypeTypes, CallsSound
<1>3. PrivateSound'
  BY DEF Differ, SertypeTypes, CallsSound, PrivateSound, Allocated
<1>4. LookSound'
  BY DEF Differ, SertypeTypes, CallsSound, PrivateSound, LookSound, Allocated
<1>5. RegistrySound'
  BY DEF Differ, SertypeTypes, CallsSound, PrivateSound, LookSound, RegistrySound, Allocated
<1>6. RefsCounted'
  <2>1. \A u \in Threads \ {t} : pc'[u] = pc[u] /\ mine'[u] = mine[u] /\ spare'[u] = spare[u]
    BY DEF Differ, SertypeTypes
  <2>2. \A s \in Sertypes : refs'[s] + topics[s] + Holds(t, s) + Spares(t, s) =
                              refs[s] + topics'[s] + Holds(t, s)' + Spares(t, s)'
    BY DEF Differ, Holds, Spares, SertypeTypes, CallsSound
  <2> QED
    BY <1>1, <2>1, <2>2, RefsMove
<1>7. ClassesCounted'
  BY DEF Differ, ClassesCounted, OfClass
<1> QED
  BY <1>1, <1>2, <1>3, <1>4, <1>5, <1>6, <1>7

LEMMA RegisterKeeps ==
  ASSUME SertypeInv, NEW t \in Threads, Register(t)
  PROVE  SertypeInv'
<1> USE SertypesAssumption DEF SertypesAssumption, SertypeInv
<1>a. mine[t] \in Sertypes
  BY DEF Register, PrivateSound, Allocated
<1>1. SertypeTypes'
  BY <1>a DEF Register, Go, SertypeTypes, Places
<1>2. CallsSound'
  BY <1>a DEF Register, Go, SertypeTypes, CallsSound
<1>3. PrivateSound'
  BY <1>a DEF Register, Go, SertypeTypes, CallsSound, PrivateSound, Allocated
<1>4. LookSound'
  BY <1>a DEF Register, Go, SertypeTypes, CallsSound, PrivateSound, LookSound, Allocated
<1>5. RegistrySound'
  BY <1>a DEF Register, Go, SertypeTypes, CallsSound, PrivateSound, LookSound, RegistrySound, Allocated
<1>6. RefsCounted'
  <2>1. \A u \in Threads \ {t} : pc'[u] = pc[u] /\ mine'[u] = mine[u] /\ spare'[u] = spare[u]
    BY <1>a DEF Register, Go, SertypeTypes
  <2>2. \A s \in Sertypes : refs'[s] + topics[s] + Holds(t, s) + Spares(t, s) =
                              refs[s] + topics'[s] + Holds(t, s)' + Spares(t, s)'
    BY <1>a DEF Register, Go, Holds, Spares, SertypeTypes, CallsSound
  <2> QED
    BY <1>1, <2>1, <2>2, RefsMove
<1>7. ClassesCounted'
  BY <1>a DEF Register, Go, ClassesCounted, OfClass
<1> QED
  BY <1>1, <1>2, <1>3, <1>4, <1>5, <1>6, <1>7

LEMMA DropSpareKeeps ==
  ASSUME SertypeInv, NEW t \in Threads, DropSpare(t)
  PROVE  SertypeInv'
<1> USE SertypesAssumption DEF SertypesAssumption, SertypeInv
<1>a. /\ spare[t] \in Allocated \ registry /\ spare[t] \in Sertypes
      /\ mine[t] # spare[t] /\ \A u \in Threads \ {t} : mine[u] # spare[t] /\ spare[u] # spare[t]
  BY DEF DropSpare, PrivateSound, Allocated
<1>b. topics[spare[t]] = 0 /\ refs[spare[t]] = 1
  BY <1>a, CountedAlone DEF Holds, Spares
<1>c. ClassesCounted' /\ pyRefs' \in [Classes -> Nat]
  BY <1>a, ClassLost DEF DropSpare, Free
<1>1. SertypeTypes'
  BY <1>a, <1>b, <1>c DEF DropSpare, Free, Go, SertypeTypes, Places
<1>2. CallsSound'
  BY <1>a, <1>b DEF DropSpare, Free, Go, SertypeTypes, CallsSound
<1>3. PrivateSound'
  BY <1>a, <1>b DEF DropSpare, Free, Go, SertypeTypes, CallsSound, PrivateSound, Allocated
<1>4. LookSound'
  BY <1>a, <1>b DEF DropSpare, Free, Go, SertypeTypes, CallsSound, PrivateSound, LookSound, Allocated
<1>5. RegistrySound'
  BY <1>a, <1>b DEF DropSpare, Free, Go, SertypeTypes, CallsSound, PrivateSound, LookSound, RegistrySound, Allocated
<1>6. RefsCounted'
  <2>1. \A u \in Threads \ {t} : pc'[u] = pc[u] /\ mine'[u] = mine[u] /\ spare'[u] = spare[u]
    BY <1>a, <1>b DEF DropSpare, Free, Go, SertypeTypes
  <2>2. \A s \in Sertypes : refs'[s] + topics[s] + Holds(t, s) + Spares(t, s) =
                              refs[s] + topics'[s] + Holds(t, s)' + Spares(t, s)'
    BY <1>a, <1>b DEF DropSpare, Free, Go, Holds, Spares, SertypeTypes, CallsSound
  <2> QED
    BY <1>1, <2>1, <2>2, RefsMove
<1>7. ClassesCounted'
  BY <1>c
<1> QED
  BY <1>1, <1>2, <1>3, <1>4, <1>5, <1>6, <1>7

LEMMA FinishTopicKeeps ==
  ASSUME SertypeInv, NEW t \in Threads, FinishTopic(t)
  PROVE  SertypeInv'
<1> USE SertypesAssumption DEF SertypesAssumption, SertypeInv
<1>a. mine[t] \in registry /\ mine[t] \in Sertypes
  BY DEF FinishTopic, CallsSound, SertypeTypes
<1>1. SertypeTypes'
  BY <1>a DEF FinishTopic, Go, SertypeTypes, Places
<1>2. CallsSound'
  BY <1>a DEF FinishTopic, Go, SertypeTypes, CallsSound
<1>3. PrivateSound'
  BY <1>a DEF FinishTopic, Go, SertypeTypes, CallsSound, PrivateSound, Allocated
<1>4. LookSound'
  BY <1>a DEF FinishTopic, Go, SertypeTypes, CallsSound, PrivateSound, LookSound, Allocated
<1>5. RegistrySound'
  BY <1>a DEF FinishTopic, Go, SertypeTypes, CallsSound, PrivateSound, LookSound, RegistrySound, Allocated
<1>6. RefsCounted'
  <2>1. \A u \in Threads \ {t} : pc'[u] = pc[u] /\ mine'[u] = mine[u] /\ spare'[u] = spare[u]
    BY <1>a DEF FinishTopic, Go, SertypeTypes
  <2>2. \A s \in Sertypes : refs'[s] + topics[s] + Holds(t, s) + Spares(t, s) =
                              refs[s] + topics'[s] + Holds(t, s)' + Spares(t, s)'
    BY <1>a DEF FinishTopic, Go, Holds, Spares, SertypeTypes, CallsSound
  <2> QED
    BY <1>1, <2>1, <2>2, RefsMove
<1>7. ClassesCounted'
  BY <1>a DEF FinishTopic, Go, ClassesCounted, OfClass
<1> QED
  BY <1>1, <1>2, <1>3, <1>4, <1>5, <1>6, <1>7

LEMMA RefuseTopicKeeps ==
  ASSUME SertypeInv, NEW t \in Threads, RefuseTopic(t)
  PROVE  SertypeInv'
<1> USE SertypesAssumption DEF SertypesAssumption, SertypeInv
<1>1. SertypeTypes'
  BY DEF RefuseTopic, Go, sertypeVars, SertypeTypes, Places
<1>2. CallsSound'
  BY DEF RefuseTopic, Go, sertypeVars, SertypeTypes, CallsSound
<1>3. PrivateSound'
  BY DEF RefuseTopic, Go, sertypeVars, SertypeTypes, CallsSound, PrivateSound, Allocated
<1>4. LookSound'
  BY DEF RefuseTopic, Go, sertypeVars, SertypeTypes, CallsSound, PrivateSound, LookSound, Allocated
<1>5. RegistrySound'
  BY DEF RefuseTopic, Go, sertypeVars, SertypeTypes, CallsSound, PrivateSound, LookSound, RegistrySound, Allocated
<1>6. RefsCounted'
  <2>1. \A u \in Threads \ {t} : pc'[u] = pc[u] /\ mine'[u] = mine[u] /\ spare'[u] = spare[u]
    BY DEF RefuseTopic, Go, sertypeVars, SertypeTypes
  <2>2. \A s \in Sertypes : refs'[s] + topics[s] + Holds(t, s) + Spares(t, s) =
                              refs[s] + topics'[s] + Holds(t, s)' + Spares(t, s)'
    BY DEF RefuseTopic, Go, sertypeVars, Holds, Spares, SertypeTypes, CallsSound
  <2> QED
    BY <1>1, <2>1, <2>2, RefsMove
<1>7. ClassesCounted'
  BY DEF RefuseTopic, Go, sertypeVars, ClassesCounted, OfClass
<1> QED
  BY <1>1, <1>2, <1>3, <1>4, <1>5, <1>6, <1>7

LEMMA FailTopicKeeps ==
  ASSUME SertypeInv, NEW t \in Threads, FailTopic(t)
  PROVE  SertypeInv'
<1> USE SertypesAssumption DEF SertypesAssumption, SertypeInv
<1>a. /\ mine[t] \in Allocated \ registry /\ mine[t] \in Sertypes
      /\ \A u \in Threads : spare[u] # mine[t] /\ (mine[u] = mine[t] => u = t)
  BY DEF FailTopic, PrivateSound, Allocated
<1>b. topics[mine[t]] = 0 /\ refs[mine[t]] = 1
  BY <1>a, CountedAlone DEF FailTopic, Holds, Spares
<1>c. ClassesCounted' /\ pyRefs' \in [Classes -> Nat]
  BY <1>a, ClassLost DEF FailTopic, Free
<1>1. SertypeTypes'
  BY <1>a, <1>b, <1>c DEF FailTopic, Free, Go, SertypeTypes, Places
<1>2. CallsSound'
  BY <1>a, <1>b DEF FailTopic, Free, Go, SertypeTypes, CallsSound
<1>3. PrivateSound'
  BY <1>a, <1>b DEF FailTopic, Free, Go, SertypeTypes, CallsSound, PrivateSound, Allocated
<1>4. LookSound'
  BY <1>a, <1>b DEF FailTopic, Free, Go, SertypeTypes, CallsSound, PrivateSound, LookSound, Allocated
<1>5. RegistrySound'
  BY <1>a, <1>b DEF FailTopic, Free, Go, SertypeTypes, CallsSound, PrivateSound, LookSound, RegistrySound, Allocated
<1>6. RefsCounted'
  <2>1. \A u \in Threads \ {t} : pc'[u] = pc[u] /\ mine'[u] = mine[u] /\ spare'[u] = spare[u]
    BY <1>a, <1>b DEF FailTopic, Free, Go, SertypeTypes
  <2>2. \A s \in Sertypes : refs'[s] + topics[s] + Holds(t, s) + Spares(t, s) =
                              refs[s] + topics'[s] + Holds(t, s)' + Spares(t, s)'
    BY <1>a, <1>b DEF FailTopic, Free, Go, Holds, Spares, SertypeTypes, CallsSound
  <2> QED
    BY <1>1, <2>1, <2>2, RefsMove
<1>7. ClassesCounted'
  BY <1>c
<1> QED
  BY <1>1, <1>2, <1>3, <1>4, <1>5, <1>6, <1>7

LEMMA FreeLastKeeps ==
  ASSUME SertypeInv, NEW t \in Threads, FreeLast(t)
  PROVE  SertypeInv'
<1> USE SertypesAssumption DEF SertypesAssumption, SertypeInv
<1>a. /\ mine[t] \in Allocated \ registry /\ mine[t] \in Sertypes
      /\ \A u \in Threads : spare[u] # mine[t] /\ (mine[u] = mine[t] => u = t)
  BY DEF FreeLast, PrivateSound, Allocated
<1>b. topics[mine[t]] = 0 /\ refs[mine[t]] = 0
  BY <1>a, CountedAlone DEF FreeLast, Holds, Spares
<1>c. ClassesCounted' /\ pyRefs' \in [Classes -> Nat]
  BY <1>a, ClassLost DEF FreeLast, Free
<1>1. SertypeTypes'
  BY <1>a, <1>b, <1>c DEF FreeLast, Free, Go, SertypeTypes, Places
<1>2. CallsSound'
  BY <1>a, <1>b DEF FreeLast, Free, Go, SertypeTypes, CallsSound
<1>3. PrivateSound'
  BY <1>a, <1>b DEF FreeLast, Free, Go, SertypeTypes, CallsSound, PrivateSound, Allocated
<1>4. LookSound'
  BY <1>a, <1>b DEF FreeLast, Free, Go, SertypeTypes, CallsSound, PrivateSound, LookSound, Allocated
<1>5. RegistrySound'
  BY <1>a, <1>b DEF FreeLast, Free, Go, SertypeTypes, CallsSound, PrivateSound, LookSound, RegistrySound, Allocated
<1>6. RefsCounted'
  <2>1. \A u \in Threads \ {t} : pc'[u] = pc[u] /\ mine'[u] = mine[u] /\ spare'[u] = spare[u]
    BY <1>a, <1>b DEF FreeLast, Free, Go, SertypeTypes
  <2>2. \A s \in Sertypes : refs'[s] + topics[s] + Holds(t, s) + Spares(t, s) =
                              refs[s] + topics'[s] + Holds(t, s)' + Spares(t, s)'
    BY <1>a, <1>b DEF FreeLast, Free, Go, Holds, Spares, SertypeTypes, CallsSound
  <2> QED
    BY <1>1, <2>1, <2>2, RefsMove
<1>7. ClassesCounted'
  BY <1>c
<1> QED
  BY <1>1, <1>2, <1>3, <1>4, <1>5, <1>6, <1>7

LEMMA DeleteTopicKeeps ==
  ASSUME SertypeInv, NEW t \in Threads, NEW d \in Sertypes, DeleteTopic(t, d)
  PROVE  SertypeInv'
<1> USE SertypesAssumption DEF SertypesAssumption, SertypeInv
<1>a. topics[d] > 0 /\ d \in registry
  BY DEF DeleteTopic, RegistrySound, SertypeTypes
<1>1. SertypeTypes'
  BY <1>a DEF DeleteTopic, CanCall, Go, SertypeTypes, Places
<1>2. CallsSound'
  BY <1>a DEF DeleteTopic, CanCall, Go, SertypeTypes, CallsSound
<1>3. PrivateSound'
  BY <1>a DEF DeleteTopic, CanCall, Go, SertypeTypes, CallsSound, PrivateSound, Allocated
<1>4. LookSound'
  BY <1>a DEF DeleteTopic, CanCall, Go, SertypeTypes, CallsSound, PrivateSound, LookSound, Allocated
<1>5. RegistrySound'
  BY <1>a DEF DeleteTopic, CanCall, Go, SertypeTypes, CallsSound, PrivateSound, LookSound, RegistrySound, Allocated
<1>6. RefsCounted'
  <2>1. \A u \in Threads \ {t} : pc'[u] = pc[u] /\ mine'[u] = mine[u] /\ spare'[u] = spare[u]
    BY <1>a DEF DeleteTopic, CanCall, Go, SertypeTypes
  <2>2. \A s \in Sertypes : refs'[s] + topics[s] + Holds(t, s) + Spares(t, s) =
                              refs[s] + topics'[s] + Holds(t, s)' + Spares(t, s)'
    BY <1>a DEF DeleteTopic, CanCall, Go, Holds, Spares, SertypeTypes, CallsSound
  <2> QED
    BY <1>1, <2>1, <2>2, RefsMove
<1>7. ClassesCounted'
  BY <1>a DEF DeleteTopic, CanCall, Go, ClassesCounted, OfClass
<1> QED
  BY <1>1, <1>2, <1>3, <1>4, <1>5, <1>6, <1>7

LEMMA UnrefKeeps ==
  ASSUME SertypeInv, NEW t \in Threads, Unref(t)
  PROVE  SertypeInv'
<1> USE SertypesAssumption DEF SertypesAssumption, SertypeInv
<1>a. mine[t] \in registry /\ mine[t] \in Sertypes
  BY DEF Unref, CallsSound, SertypeTypes
<1>b. /\ refs[mine[t]] > 0
      /\ refs[mine[t]] = 1 =>
           /\ topics[mine[t]] = 0
           /\ \A u \in Threads : spare[u] # mine[t] /\ (mine[u] = mine[t] => u = t)
  <2>1. \A u \in Threads : mine[u] = mine[t] => pc[u] # "freeing"
    BY <1>a DEF PrivateSound
  <2> QED
    BY <1>a, <2>1, Referenced DEF Unref
<1>1. SertypeTypes'
  BY <1>a, <1>b DEF Unref, Go, SertypeTypes, Places
<1>2. CallsSound'
  BY <1>a, <1>b DEF Unref, Go, SertypeTypes, CallsSound
<1>3. PrivateSound'
  <2>1. \A u \in Threads \ {t} : mine'[u] = mine[u] /\ pc'[u] = pc[u]
    BY DEF Unref, Go, SertypeTypes
  <2>2. spare' = spare /\ Allocated' = Allocated
    BY DEF Unref, Allocated
  <2>3. CASE refs[mine[t]] = 1
    <3>1. pc'[t] = "freeing" /\ mine' = mine /\ registry' = registry \ {mine[t]}
      BY <2>3 DEF Unref, Go, SertypeTypes
    <3>2. mine[t] \in Allocated
      BY <1>a DEF RegistrySound
    <3> QED
      BY <1>b, <2>1, <2>2, <2>3, <3>1, <3>2 DEF PrivateSound
  <2>4. CASE refs[mine[t]] # 1
    <3>1. pc'[t] = "returning" /\ mine'[t] = NoSertype /\ registry' = registry
      BY <2>4 DEF Unref, Go, SertypeTypes
    <3>2. NoSertype \notin Sertypes
      BY SertypesAssumption DEF SertypesAssumption
    <3> QED
      BY <2>1, <2>2, <3>1, <3>2 DEF PrivateSound, Allocated
  <2> QED
    BY <2>3, <2>4
<1>4. LookSound'
  BY <1>a, <1>b DEF Unref, Go, SertypeTypes, CallsSound, PrivateSound, LookSound, Allocated
<1>5. RegistrySound'
  BY <1>a, <1>b DEF Unref, Go, SertypeTypes, CallsSound, PrivateSound, LookSound, RegistrySound, Allocated
<1>6. RefsCounted'
  <2>1. \A u \in Threads \ {t} : pc'[u] = pc[u] /\ mine'[u] = mine[u] /\ spare'[u] = spare[u]
    BY <1>a, <1>b DEF Unref, Go, SertypeTypes
  <2>2. \A s \in Sertypes : refs'[s] + topics[s] + Holds(t, s) + Spares(t, s) =
                              refs[s] + topics'[s] + Holds(t, s)' + Spares(t, s)'
    BY <1>a, <1>b DEF Unref, Go, Holds, Spares, SertypeTypes, CallsSound
  <2> QED
    BY <1>1, <2>1, <2>2, RefsMove
<1>7. ClassesCounted'
  BY <1>a, <1>b DEF Unref, Go, ClassesCounted, OfClass
<1> QED
  BY <1>1, <1>2, <1>3, <1>4, <1>5, <1>6, <1>7

LEMMA ReturnKeeps ==
  ASSUME SertypeInv, NEW t \in Threads, Return(t)
  PROVE  SertypeInv'
<1> USE SertypesAssumption DEF SertypesAssumption, SertypeInv
<1>1. SertypeTypes'
  BY DEF Return, Go, sertypeVars, SertypeTypes, Places
<1>2. CallsSound'
  BY DEF Return, Go, sertypeVars, SertypeTypes, CallsSound
<1>3. PrivateSound'
  BY DEF Return, Go, sertypeVars, SertypeTypes, CallsSound, PrivateSound, Allocated
<1>4. LookSound'
  BY DEF Return, Go, sertypeVars, SertypeTypes, CallsSound, PrivateSound, LookSound, Allocated
<1>5. RegistrySound'
  BY DEF Return, Go, sertypeVars, SertypeTypes, CallsSound, PrivateSound, LookSound, RegistrySound, Allocated
<1>6. RefsCounted'
  <2>1. \A u \in Threads \ {t} : pc'[u] = pc[u] /\ mine'[u] = mine[u] /\ spare'[u] = spare[u]
    BY DEF Return, Go, sertypeVars, SertypeTypes
  <2>2. \A s \in Sertypes : refs'[s] + topics[s] + Holds(t, s) + Spares(t, s) =
                              refs[s] + topics'[s] + Holds(t, s)' + Spares(t, s)'
    BY DEF Return, Go, sertypeVars, Holds, Spares, SertypeTypes, CallsSound
  <2> QED
    BY <1>1, <2>1, <2>2, RefsMove
<1>7. ClassesCounted'
  BY DEF Return, Go, sertypeVars, ClassesCounted, OfClass
<1> QED
  BY <1>1, <1>2, <1>3, <1>4, <1>5, <1>6, <1>7

LEMMA ReadingKeeps ==
  ASSUME SertypeInv, NEW t \in Threads,
         \/ pc[t] = "idle" /\ Go(t, "collecting")
         \/ pc[t] = "collecting" /\ Go(t, "idle"),
         UNCHANGED sertypeVars
  PROVE  SertypeInv'
<1> USE SertypesAssumption DEF SertypesAssumption, SertypeInv
<1>1. SertypeTypes'
  BY DEF Go, sertypeVars, SertypeTypes, Places
<1>2. CallsSound'
  BY DEF Go, sertypeVars, SertypeTypes, CallsSound
<1>3. PrivateSound'
  BY DEF Go, sertypeVars, SertypeTypes, CallsSound, PrivateSound, Allocated
<1>4. LookSound'
  BY DEF Go, sertypeVars, SertypeTypes, CallsSound, PrivateSound, LookSound, Allocated
<1>5. RegistrySound'
  BY DEF Go, sertypeVars, SertypeTypes, CallsSound, PrivateSound, LookSound, RegistrySound, Allocated
<1>6. RefsCounted'
  <2>1. \A u \in Threads \ {t} : pc'[u] = pc[u] /\ mine'[u] = mine[u] /\ spare'[u] = spare[u]
    BY DEF Go, sertypeVars, SertypeTypes
  <2>2. \A s \in Sertypes : refs'[s] + topics[s] + Holds(t, s) + Spares(t, s) =
                              refs[s] + topics'[s] + Holds(t, s)' + Spares(t, s)'
    BY DEF Go, sertypeVars, Holds, Spares, SertypeTypes, CallsSound
  <2> QED
    BY <1>1, <2>1, <2>2, RefsMove
<1>7. ClassesCounted'
  BY DEF Go, sertypeVars, ClassesCounted, OfClass
<1> QED
  BY <1>1, <1>2, <1>3, <1>4, <1>5, <1>6, <1>7

LEMMA SertypesRest ==
  ASSUME SertypeInv, UNCHANGED <<pc, sertypeVars>>
  PROVE  SertypeInv'
BY DEF SertypeInv, sertypeVars, SertypeTypes, CallsSound, PrivateSound, LookSound, RegistrySound,
       RefsCounted, ClassesCounted, Holding, Sparing, OfClass, Allocated

LEMMA SertypeInvNext ==
  ASSUME SertypeInv, [Next]_vars
  PROVE  SertypeInv'
<1>1. ASSUME SertypesNext PROVE SertypeInv'
  BY <1>1, CreateTopicKeeps, CreateFailsKeeps, DeleteTopicKeeps, LockRegistryKeeps, FindEqualKeeps,
     DifferKeeps, RegisterKeeps, DropSpareKeeps, FinishTopicKeeps, RefuseTopicKeeps, FailTopicKeeps,
     UnrefKeeps, FreeLastKeeps, ReturnKeeps
     DEF SertypesNext, Continue
<1>2. ASSUME NEW t \in Threads, CallSamples(t) PROVE SertypeInv'
  <2>1. ASSUME NEW mask \in Masks, NEW limit \in ReadLimits, NEW take \in BOOLEAN,
               StartRead(t, mask, limit, take)
        PROVE  SertypeInv'
    BY <2>1, ReadingKeeps DEF StartRead, CanCall
  <2>2. ASSUME Call(t) PROVE SertypeInv'
    BY <2>2, SertypesRest DEF Call
  <2> QED
    BY <1>2, <2>1, <2>2 DEF CallSamples, Write, RegisterInstance, UnregisterInstance, DisposeHandle,
       UnregisterHandle
<1>3. ASSUME NEW t \in Threads, Collect(t) PROVE SertypeInv'
  BY <1>3, SertypesRest DEF Collect
<1>4. ASSUME NEW t \in Threads, FinishRead(t) PROVE SertypeInv'
  BY <1>4, ReadingKeeps DEF FinishRead
<1>5. ASSUME NEW w, NEW op, NEW k, NEW v, NEW le, NEW ok, NEW chain,
             Receive(w, op, k, v, le, ok, chain)
      PROVE  SertypeInv'
  BY <1>5, SertypesRest DEF Receive
<1>6. ASSUME UNCHANGED vars PROVE SertypeInv'
  BY <1>6, SertypesRest DEF vars
<1> QED
  BY <1>1, <1>2, <1>3, <1>4, <1>5, <1>6 DEF Next, SamplesNext

\* The reference counts of the sertypes, and of their classes, are those of the
\* topics and calls that need them, and no registered sertypes are of one class:
\* for any finite number of threads that create and delete topics and of sertypes.
THEOREM SertypesTheorem == Spec => []SertypesHeld
<1>1. SertypeInv => SertypesHeld
  BY DEF SertypeInv, SertypesHeld, RegistrySound, RefsCounted, ClassesCounted, Holding, Sparing,
     OfClass, Allocated
<1> QED
  BY SertypeInvInit, SertypeInvNext, <1>1, PTL DEF Spec

-----------------------------------------------------------------------------

(***************************************************************************)
(* The inductive invariant: an instance keeps its key as every serdata of  *)
(* that key has it, and no two are about the same one; and what is on its  *)
(* way to the program still reads as what it is about.                     *)
(***************************************************************************)
KeyFor(a) == [version |-> 2, le |-> NativeLE, key |-> a]
SdOf(sd, a) == sd \in SerdataRecords /\ sd.key = KeyFor(a) /\ Deserialize(sd.data) = a
SampleOf(s, a) == s \in SampleRecords /\ s.about = a /\ Deserialize(s.sd.data) = a
InstanceOf(i, a) ==
  /\ i = [untyped |-> i.untyped, about |-> a, writers |-> i.writers, samples |-> i.samples,
          invalid |-> i.invalid, alive |-> i.alive]
  /\ i.untyped \in Untyped /\ i.untyped.key = KeyFor(a)
  /\ i.writers \subseteq AllWriters
  /\ i.samples = [n \in DOMAIN i.samples |-> i.samples[n]] /\ DOMAIN i.samples \subseteq 1 .. MaxCalls
  /\ \A n \in DOMAIN i.samples : SampleOf(i.samples[n], a)
  /\ i.invalid \in {"none", "unread", "read"} /\ i.alive \in BOOLEAN
About(a) == \E k \in Keys : a = KeyOf(type, k)

KeyInv ==
  /\ calls \in 0 .. MaxCalls /\ type \in Types
  /\ \A h \in Handles : h \in 1 .. calls
  /\ \A h \in Handles : About(instances[h].about) /\ InstanceOf(instances[h], instances[h].about)
  /\ \A g, h \in Handles : instances[g].about = instances[h].about => g = h

\* What is still to be collected, and what is.
Outs ==
  {x \in [valid : BOOLEAN, about : Abouts, sd : SerdataRecords \cup Untyped] :
     IF x.valid THEN x.sd \in SerdataRecords /\ Deserialize(x.sd.data) = x.about
                ELSE x.sd \in Untyped /\ x.sd.key = KeyFor(x.about)}
Items == {x \in [valid : BOOLEAN, about : Abouts, data : Payloads] : Deserialize(x.data) = x.about}

ReadInv ==
  /\ gil \in Threads \cup {Nobody}
  /\ collector.todo \in Seq(Outs) /\ collector.items \in Seq(Items)
  /\ collector.capacity \in Nat /\ Len(collector.items) <= collector.capacity
  /\ HandedOver

(***************************************************************************)
(* Payloads and keys.                                                      *)
(***************************************************************************)
Upto(m) == [i \in 1 .. m |-> i]

LEMMA Continued ==
  ASSUME NEW m \in Nat, NEW k \in Int
  PROVE  Upto(m) \o [i \in 1 .. k |-> m + i] = Upto(IF k > 0 THEN m + k ELSE m)
<1>1. CASE k > 0
  <2> DEFINE t == [i \in 1 .. k |-> m + i]
             r == Upto(m + k)
  <2>1. Upto(m) \in Seq(Int) /\ Len(Upto(m)) = m /\ \A i \in 1 .. m : Upto(m)[i] = i
    BY DEF Upto
  <2>2. t \in Seq(Int) /\ Len(t) = k /\ \A i \in 1 .. k : t[i] = m + i
    BY <1>1
  <2>3. r \in Seq(Int) /\ Len(r) = m + k /\ \A i \in 1 .. m + k : r[i] = i
    BY <1>1 DEF Upto
  <2> HIDE DEF t, r
  <2>4. Upto(m) \o t \in Seq(Int) /\ Len(Upto(m) \o t) = m + k
    BY <2>1, <2>2, Joined
  <2>5. ASSUME NEW i \in 1 .. m + k PROVE (Upto(m) \o t)[i] = i
    <3>1. CASE i <= m
      BY <2>1, <2>2, <3>1
    <3>2. CASE ~(i <= m)
      <4>1. (Upto(m) \o t)[i] = t[i - m] /\ i - m \in 1 .. k
        BY <2>1, <2>2, <3>2
      <4> QED
        BY <2>2, <4>1
    <3> QED
      BY <3>1, <3>2
  <2>6. Upto(m) \o t = r
    BY <2>3, <2>4, <2>5, SameSequence
  <2> QED
    BY <1>1, <2>6 DEF t, r
<1>2. CASE ~(k > 0)
  <2>1. [i \in 1 .. k |-> m + i] = <<>>
    BY <1>2
  <2>2. Upto(m) \in Seq(Int)
    BY DEF Upto
  <2>3. Upto(m) \o <<>> = Upto(m)
    BY <2>2
  <2>4. (IF k > 0 THEN m + k ELSE m) = m
    BY <1>2
  <2> QED
    BY <2>1, <2>3, <2>4, Zenon
<1> QED
  BY <1>1, <1>2

\* What arrives in fragments is what was sent.
LEMMA ChainsCover ==
  ASSUME NEW c \in FragChains
  PROVE  Reassembled(c) = Upto(PayloadLen)
<1> DEFINE N == Len(c)
<1>1. /\ N \in Nat \ {0}
      /\ \A n \in 1 .. N : c[n][1] \in 0 .. PayloadLen /\ c[n][2] \in 0 .. PayloadLen
      /\ \E n \in 1 .. N : c[n][2] = PayloadLen
  <2>1. \A n \in 1 .. N : c[n][1] \in 0 .. PayloadLen /\ c[n][2] \in 0 .. PayloadLen
    BY SerdataAssumption DEF SerdataAssumption
  <2>2. N \in Nat \ {0} /\ \E n \in 1 .. N : c[n][2] = PayloadLen
    BY SerdataAssumption DEF SerdataAssumption
  <2> QED
    BY <2>1, <2>2
<1>2. PayloadLen \in Nat
  BY DEF PayloadLen
<1> DEFINE Longer(n, x) == x \o [i \in 1 .. c[n][2] - Len(x) |-> Unit(c[n], Len(x) - c[n][1] + i - 1)]
           Is(f) == f = [n \in 0 .. N |-> IF n = 0 THEN <<>> ELSE Longer(n, f[n - 1])]
           got == CHOOSE f : Is(f)
<1>3. Reassembled(c) = got[N]
  BY DEF Reassembled
<1>4. \A n \in 1 .. N, x \in Seq(Int) : Longer(n, x) \in Seq(Int)
  <2> SUFFICES ASSUME NEW n \in 1 .. N, NEW x \in Seq(Int) PROVE Longer(n, x) \in Seq(Int)
    OBVIOUS
  <2> DEFINE k == c[n][2] - Len(x)
             e(i) == Unit(c[n], Len(x) - c[n][1] + i - 1)
  <2>1. k \in Int /\ Len(x) \in Nat /\ c[n][1] \in Int
    BY <1>1, <1>2
  <2>2. \A i \in Int : e(i) \in Int
    BY <2>1 DEF Unit
  <2> HIDE DEF k, e
  <2>3. [i \in 1 .. k |-> e(i)] \in Seq(Int)
    <3>1. CASE k > 0
      BY <2>1, <2>2, <3>1
    <3>2. CASE ~(k > 0)
      <4>1. [i \in 1 .. k |-> e(i)] = <<>>
        BY <2>1, <3>2
      <4> QED
        BY <4>1, EmptySequence, Zenon
    <3> QED
      BY <3>1, <3>2
  <2> QED
    BY <2>3, Joined DEF k, e
<1>5. Is(got)
  <2> DEFINE step == [p \in (1 .. N) \X Seq(Int) |-> Longer(p[1], p[2])]
  <2>1. step \in Steps(N, Seq(Int))
    BY <1>4 DEF Steps
  <2>2. \A n \in 1 .. N, x \in Seq(Int) : step[<<n, x>>] = Longer(n, x)
    OBVIOUS
  <2> HIDE DEF step, Longer
  <2>3. PICK f : Follows(f, step, <<>>, N, Seq(Int))
    BY <1>1, <2>1, StepByStep, EmptySequence
  <2>4. /\ f \in [0 .. N -> Seq(Int)]
        /\ f[0] = <<>> /\ \A n \in 1 .. N : f[n] = step[<<n, f[n - 1]>>]
    BY <2>3 DEF Follows
  <2>7. \A n \in 1 .. N : f[n - 1] \in Seq(Int)
    BY <1>1, <2>4
  <2>5. \A n \in 1 .. N : f[n] = Longer(n, f[n - 1])
    BY <2>2, <2>4, <2>7, Zenon
  <2>6. Is(f)
    BY <1>1, <2>4, <2>5
  <2> QED
    BY <2>6
<1> HIDE DEF got
<1>6. got[0] = <<>> /\ \A n \in 1 .. N : got[n] = Longer(n, got[n - 1])
  <2> HIDE DEF Longer
  <2>1. got = [n \in 0 .. N |-> IF n = 0 THEN <<>> ELSE Longer(n, got[n - 1])]
    BY <1>5
  <2>2. 0 \in 0 .. N /\ \A n \in 1 .. N : n \in 0 .. N /\ n # 0
    BY <1>1
  <2> QED
    BY <2>1, <2>2, Zenon
<1> DEFINE T == {n \in 0 .. N : \E m \in 0 .. PayloadLen :
                                  got[n] = Upto(m) /\ \A k \in 1 .. n : c[k][2] <= m}
<1>7. 0 \in T
  <2>1. Upto(0) = <<>>
    BY DEF Upto
  <2>2. 0 \in 0 .. PayloadLen /\ 0 \in 0 .. N /\ 1 .. 0 = {}
    BY <1>1, <1>2
  <2> HIDE DEF Upto
  <2>3. got[0] = Upto(0) /\ \A k \in 1 .. 0 : c[k][2] <= 0
    BY <1>6, <2>1, <2>2
  <2> QED
    BY <2>2, <2>3
<1>8. ASSUME NEW n \in 0 .. N - 1, n \in T PROVE n + 1 \in T
  <2>1. PICK m \in 0 .. PayloadLen : got[n] = Upto(m) /\ \A k \in 1 .. n : c[k][2] <= m
    BY <1>8
  <2>2. m \in Nat /\ n + 1 \in 1 .. N /\ (n + 1) - 1 = n
    BY <1>1, <1>2
  <2>3. Len(Upto(m)) = m
    BY <2>2 DEF Upto
  <2> DEFINE k == c[n + 1][2] - m
  <2>4. k \in Int /\ c[n + 1][1] \in Int
    BY <1>1, <1>2, <2>2
  <2>5. \A i \in 1 .. k : Unit(c[n + 1], m - c[n + 1][1] + i - 1) = m + i
    <3>1. \A x, y, i \in Int : x + (y - x + i - 1) + 1 = y + i
      OBVIOUS
    <3>2. \A i \in 1 .. k : i \in Int
      BY <2>4
    <3>3. m \in Int
      BY <2>2
    <3> HIDE DEF k
    <3> QED
      BY <2>4, <3>1, <3>2, <3>3 DEF Unit
  <2>6. [i \in 1 .. k |-> Unit(c[n + 1], m - c[n + 1][1] + i - 1)] = [i \in 1 .. k |-> m + i]
    BY <2>5
  <2>7. got[n + 1] = Upto(m) \o [i \in 1 .. k |-> m + i]
    <3>1. got[n + 1] = Longer(n + 1, Upto(m))
      <4> HIDE DEF Longer
      <4> QED
        BY <1>6, <2>1, <2>2, Zenon
    <3>2. Longer(n + 1, Upto(m)) = Upto(m) \o [i \in 1 .. k |-> Unit(c[n + 1], m - c[n + 1][1] + i - 1)]
      BY <2>3, Zenon
    <3> QED
      BY <2>6, <3>1, <3>2, Zenon
  <2>8. got[n + 1] = Upto(IF k > 0 THEN m + k ELSE m)
    BY <2>2, <2>4, <2>7, Continued
  <2>9. (IF k > 0 THEN m + k ELSE m) \in 0 .. PayloadLen
    BY <1>1, <1>2, <2>2
  <2>10. \A j \in 1 .. n + 1 : c[j][2] <= IF k > 0 THEN m + k ELSE m
    <3>1. \A j \in 1 .. n + 1 : (j \in 1 .. n \/ j = n + 1) /\ c[j][2] \in Int
      BY <1>1, <1>2, <2>2
    <3>2. CASE k > 0
      BY <2>1, <2>2, <2>4, <3>1, <3>2
    <3>3. CASE ~(k > 0)
      BY <2>1, <2>2, <2>4, <3>1, <3>3
    <3> QED
      BY <3>2, <3>3
  <2> QED
    BY <2>2, <2>8, <2>9, <2>10
<1>9. N \in T
  <2>1. 0 .. N \subseteq T
    <3> HIDE DEF T
    <3> QED
      BY <1>1, <1>7, <1>8, IntervalInduction
  <2> QED
    BY <1>1, <2>1
<1>10. PICK m \in 0 .. PayloadLen : got[N] = Upto(m) /\ \A k \in 1 .. N : c[k][2] <= m
  BY <1>9
<1>11. m = PayloadLen
  BY <1>1, <1>2, <1>10
<1> QED
  BY <1>3, <1>10, <1>11

\* Whatever the version and byte order of a payload, its key comes out the same,
\* and it still reads as that key.
LEMMA FromPayload ==
  ASSUME type \in Types, NEW k \in Keys, NEW v \in Versions, NEW le \in BOOLEAN,
         NEW kind \in {"data", "key"}, NEW ok \in BOOLEAN,
         Normalizes(Serialize(type, v, le, kind, k, ok), kind)
  PROVE  SdOf(FromCommon(Serialize(type, v, le, kind, k, ok)), KeyOf(type, k))
<1> DEFINE b == Serialize(type, v, le, kind, k, ok)
           a == KeyOf(type, k)
           enc == Encoding(type, v = 2)
           Body_(x) == [version |-> v, le |-> x, kind |-> kind, key |-> a, wellFormed |-> ok]
           Load(x) == [enc |-> enc, le |-> x, body |-> Body_(x)]
<1>1. b = Load(le)
  BY DEF Serialize
<1>2. enc \in Encodings /\ a \in Keys \cup {NoKey}
  BY DEF Encoding, Encodings, V2Encodings, KeyOf
<1>3. NativeLE \in BOOLEAN
  BY SerdataAssumption DEF SerdataAssumption
<1> HIDE DEF b, a, enc
<1>4. ok /\ v = Version(enc \in V2Encodings)
  BY <1>1 DEF b, Normalizes, Readable, IsV2
<1>5. Normalize(b) = Load(NativeLE)
  <2>1. CASE le = NativeLE
    BY <1>1, <2>1 DEF Normalize
  <2>2. CASE le # NativeLE
    <3>1. NativeLE = ~le
      BY <1>3, <2>2
    <3>2. Normalize(b) = [b EXCEPT !.body.le = ~@, !.le = ~@]
      BY <1>1, <2>2 DEF Normalize
    <3> DEFINE half == [enc |-> enc, le |-> le, body |-> Body_(~le)]
    <3>4. [Load(le) EXCEPT !.body.le = ~@] = half
      OBVIOUS
    <3>5. [half EXCEPT !.le = ~@] = Load(~le)
      OBVIOUS
    <3>3. [b EXCEPT !.body.le = ~@, !.le = ~@] = Load(~le)
      BY <1>1, <3>4, <3>5
    <3> QED
      BY <3>1, <3>2, <3>3
  <2> QED
    BY <2>1, <2>2
<1>6. Load(NativeLE) \in Payloads
  BY <1>2, <1>3 DEF Payloads, Body
<1>7. Deserialize(Load(NativeLE)) = a
  BY <1>4 DEF Deserialize, Readable, IsV2
<1>8. FromCommon(b) = [data |-> Load(NativeLE), key |-> KeyFor(a), v2 |-> enc \in V2Encodings]
  BY <1>1, <1>5 DEF FromCommon, ExtractKey, KeyFor, IsV2
<1>9. KeyFor(a) \in KeyBytes
  BY <1>2, <1>3 DEF KeyFor, KeyBytes, Versions
<1>10. FromCommon(b) \in SerdataRecords
  BY <1>6, <1>8, <1>9 DEF SerdataRecords
<1>11. SdOf(FromCommon(b), a)
  BY <1>7, <1>8, <1>10 DEF SdOf
<1> QED
  BY <1>11 DEF a, b

\* Two keys are equal exactly when what they are about is.
LEMMA EqualKeys ==
  ASSUME NEW u, NEW sd, NEW a, NEW b, About(a), About(b),
         u.key = KeyFor(a), sd.key = KeyFor(b)
  PROVE  EqKey(type, u, sd) <=> a = b
<1>1. CASE type.keyless
  BY <1>1 DEF EqKey, About, KeyOf
<1>2. CASE ~type.keyless
  BY <1>2 DEF EqKey, KeyFor
<1> QED
  BY <1>1, <1>2

(***************************************************************************)
(* Steps of one instance.                                                  *)
(***************************************************************************)
LEMMA Made ==
  ASSUME NEW a, NEW u \in Untyped, NEW writers, NEW samples, NEW invalid, NEW alive \in BOOLEAN, NEW j,
         u.key = KeyFor(a), writers \subseteq AllWriters,
         samples = [n \in DOMAIN samples |-> samples[n]], DOMAIN samples \subseteq 1 .. MaxCalls,
         \A n \in DOMAIN samples : SampleOf(samples[n], a),
         invalid \in {"none", "unread", "read"},
         j = [untyped |-> u, about |-> a, writers |-> writers, samples |-> samples,
              invalid |-> invalid, alive |-> alive]
  PROVE  InstanceOf(j, a)
<1>1. /\ j.untyped = u /\ j.writers = writers /\ j.samples = samples
      /\ j.invalid = invalid /\ j.alive = alive
  OBVIOUS
<1>2. j = [untyped |-> j.untyped, about |-> a, writers |-> j.writers, samples |-> j.samples,
           invalid |-> j.invalid, alive |-> j.alive]
  BY <1>1
<1> QED
  BY <1>1, <1>2, Zenon DEF InstanceOf

\* Its parts, for the steps that change some of them.
LEMMA PartsOf ==
  ASSUME NEW i, NEW a, InstanceOf(i, a)
  PROVE  \E u, ws, sa, v, al :
           /\ i = [untyped |-> u, about |-> a, writers |-> ws, samples |-> sa,
                   invalid |-> v, alive |-> al]
           /\ u \in Untyped /\ ws \subseteq AllWriters /\ v \in {"none", "unread", "read"} /\ al \in BOOLEAN
           /\ u.key = KeyFor(a)
BY DEF InstanceOf

\* An instance stays about its key: when it is written, when it ends, and when a
\* sample of that key is added.
LEMMA StepsOfInstance ==
  ASSUME NEW i, NEW a, NEW w \in AllWriters, InstanceOf(i, a)
  PROVE  /\ InstanceOf(By(i, w), a)
         /\ InstanceOf(Ended(i), a)
         /\ InstanceOf([i EXCEPT !.writers = @ \ {w}], a)
<1>0. PICK u, ws, sa, v, al :
        /\ i = [untyped |-> u, about |-> a, writers |-> ws, samples |-> sa,
                invalid |-> v, alive |-> al]
        /\ u \in Untyped /\ ws \subseteq AllWriters /\ v \in {"none", "unread", "read"} /\ al \in BOOLEAN
        /\ u.key = KeyFor(a)
  BY PartsOf
<1>1. /\ sa = [n \in DOMAIN sa |-> sa[n]] /\ DOMAIN sa \subseteq 1 .. MaxCalls
      /\ \A n \in DOMAIN sa : SampleOf(sa[n], a)
  BY <1>0 DEF InstanceOf
<1>2. i = [untyped |-> u, about |-> a, writers |-> ws, samples |-> sa, invalid |-> v, alive |-> al]
  BY <1>0
<1>3. InstanceOf(By(i, w), a)
  <2>1. By(i, w) = [untyped |-> u, about |-> a, writers |-> ws \cup {w}, samples |-> sa,
                    invalid |-> v, alive |-> al]
    BY <1>2 DEF By
  <2>2. ws \cup {w} \subseteq AllWriters
    BY <1>0
  <2> QED
    BY <1>0, <1>1, <2>1, <2>2, Made
<1>4. InstanceOf(Ended(i), a)
  <2> DEFINE x == IF i.alive /\ Quiet(i) THEN "unread" ELSE i.invalid
  <2>1. Ended(i) = [i EXCEPT !.alive = FALSE, !.invalid = x]
    BY Zenon DEF Ended
  <2>2. x \in {"none", "unread", "read"}
    BY <1>0, <1>2
  <2> HIDE DEF x
  <2>3. Ended(i) = [untyped |-> u, about |-> a, writers |-> ws, samples |-> sa,
                    invalid |-> x, alive |-> FALSE]
    BY <1>2, <2>1
  <2> QED
    BY <1>0, <1>1, <2>2, <2>3, Made
<1>5. InstanceOf([i EXCEPT !.writers = @ \ {w}], a)
  <2>1. [i EXCEPT !.writers = @ \ {w}] =
          [untyped |-> u, about |-> a, writers |-> ws \ {w}, samples |-> sa, invalid |-> v, alive |-> al]
    BY <1>2
  <2>2. ws \ {w} \subseteq AllWriters
    BY <1>0
  <2> QED
    BY <1>0, <1>1, <2>1, <2>2, Made
<1> QED
  BY <1>3, <1>4, <1>5

LEMMA AddedSample ==
  ASSUME NEW i, NEW a \in Abouts, NEW sd, NEW n \in 1 .. MaxCalls, InstanceOf(i, a), SdOf(sd, a)
  PROVE  InstanceOf(Added(i, sd, a, n), a)
<1>0. PICK u, ws, sa, v, al :
        /\ i = [untyped |-> u, about |-> a, writers |-> ws, samples |-> sa,
                invalid |-> v, alive |-> al]
        /\ u \in Untyped /\ ws \subseteq AllWriters /\ v \in {"none", "unread", "read"} /\ al \in BOOLEAN
        /\ u.key = KeyFor(a)
  BY PartsOf
<1> DEFINE sample == [sd |-> sd, about |-> a, read |-> FALSE]
           new == [m \in DOMAIN i.samples \cup {n} |-> IF m = n THEN sample ELSE i.samples[m]]
<1>1. SampleOf(sample, a)
  BY DEF SdOf, SampleOf, SampleRecords
<1>2. Added(i, sd, a, n) = [i EXCEPT !.samples = new, !.invalid = "none", !.alive = TRUE]
  BY Zenon DEF Added
<1> HIDE DEF sample
<1>3. \A m \in DOMAIN new : SampleOf(new[m], a)
  BY <1>1 DEF InstanceOf
<1>4. new = [m \in DOMAIN new |-> new[m]] /\ DOMAIN new \subseteq 1 .. MaxCalls
  BY DEF InstanceOf
<1> HIDE DEF new
<1>5. Added(i, sd, a, n) = [untyped |-> u, about |-> a, writers |-> ws, samples |-> new,
                            invalid |-> "none", alive |-> TRUE]
  BY <1>0, <1>2
<1> QED
  BY <1>0, <1>3, <1>4, <1>5, Made

LEMMA ApplyKeepsAbout ==
  ASSUME NEW i, NEW a \in Abouts, NEW w \in AllWriters, NEW sd, NEW n \in 1 .. MaxCalls,
         NEW op \in Operations, InstanceOf(i, a), SdOf(sd, a)
  PROVE  InstanceOf(Apply(i, w, op, sd, a, n), a)
<1>1. InstanceOf(Disposed(i, w), a) /\ InstanceOf(Unregistered(i, w), a)
  BY StepsOfInstance DEF Disposed, Unregistered
<1>2. InstanceOf(Added(By(i, w), sd, a, n), a)
  BY StepsOfInstance, AddedSample
<1>3. InstanceOf(Ended(Added(By(i, w), sd, a, n)), a)
  BY <1>2, StepsOfInstance
<1> QED
  BY <1>1, <1>2, <1>3, StepsOfInstance DEF Apply, Operations

LEMMA EndKeepsAbout ==
  ASSUME NEW i, NEW a, NEW w \in AllWriters, InstanceOf(i, a)
  PROVE  InstanceOf(Disposed(i, w), a) /\ InstanceOf(Unregistered(i, w), a)
BY StepsOfInstance DEF Disposed, Unregistered

LEMMA ReadKeepsAbout ==
  ASSUME NEW i, NEW a, NEW h, NEW picked, InstanceOf(i, a)
  PROVE  InstanceOf(AfterRead(h, i, picked), a) /\ InstanceOf(AfterTake(h, i, picked), a)
<1>0. PICK u, ws, sa, v, al :
        /\ i = [untyped |-> u, about |-> a, writers |-> ws, samples |-> sa,
                invalid |-> v, alive |-> al]
        /\ u \in Untyped /\ ws \subseteq AllWriters /\ v \in {"none", "unread", "read"} /\ al \in BOOLEAN
        /\ u.key = KeyFor(a)
  BY PartsOf
<1>1. InstanceOf(AfterRead(h, i, picked), a)
  <2> DEFINE new == [n \in DOMAIN i.samples |-> Marked(i.samples[n], <<h, n>> \in picked)]
             x == IF <<h, 0>> \in picked THEN "read" ELSE i.invalid
  <2>1. AfterRead(h, i, picked) = [i EXCEPT !.samples = new, !.invalid = x]
    BY Zenon DEF AfterRead
  <2>2. ASSUME NEW n \in DOMAIN new PROVE SampleOf(new[n], a)
    <3>1. SampleOf(i.samples[n], a)
      BY DEF InstanceOf
    <3>2. new[n] = Marked(i.samples[n], <<h, n>> \in picked)
      OBVIOUS
    <3> HIDE DEF new
    <3> QED
      BY <3>1, <3>2 DEF SampleOf, Marked, SampleRecords
  <2>3. new = [n \in DOMAIN new |-> new[n]] /\ DOMAIN new \subseteq 1 .. MaxCalls
    BY DEF InstanceOf
  <2>4. x \in {"none", "unread", "read"}
    BY <1>0
  <2> HIDE DEF new, x
  <2>5. AfterRead(h, i, picked) =
          [untyped |-> u, about |-> a, writers |-> ws, samples |-> new, invalid |-> x, alive |-> al]
    BY <1>0, <2>1
  <2> QED
    BY <1>0, <2>2, <2>3, <2>4, <2>5, Made
<1>2. InstanceOf(AfterTake(h, i, picked), a)
  <2> DEFINE new == [n \in {m \in DOMAIN i.samples : <<h, m>> \notin picked} |-> i.samples[n]]
             x == IF <<h, 0>> \in picked THEN "none" ELSE i.invalid
  <2>1. AfterTake(h, i, picked) = [i EXCEPT !.samples = new, !.invalid = x]
    BY Zenon DEF AfterTake
  <2>2. \A n \in DOMAIN new : SampleOf(new[n], a)
    BY DEF InstanceOf
  <2>3. new = [n \in DOMAIN new |-> new[n]] /\ DOMAIN new \subseteq 1 .. MaxCalls
    BY DEF InstanceOf
  <2>4. x \in {"none", "unread", "read"}
    BY <1>0
  <2> HIDE DEF new, x
  <2>5. AfterTake(h, i, picked) =
          [untyped |-> u, about |-> a, writers |-> ws, samples |-> new, invalid |-> x, alive |-> al]
    BY <1>0, <2>1
  <2> QED
    BY <1>0, <2>2, <2>3, <2>4, <2>5, Made
<1> QED
  BY <1>1, <1>2

(***************************************************************************)
(* Steps of the set of instances.                                          *)
(***************************************************************************)
\* Whatever happens to each instance alone leaves the whole in order.
LEMMA EachAlone ==
  ASSUME KeyInv, NEW f, DOMAIN f = Handles, type' = type, calls' \in calls .. MaxCalls,
         \A h \in Handles : InstanceOf(f[h], instances[h].about),
         instances' = Kept(f)
  PROVE  KeyInv'
<1>1. Handles' \subseteq Handles
  BY DEF Handles, Kept
<1>2. \A h \in Handles' : instances'[h] = f[h]
  BY DEF Handles, Kept
<1>3. \A h \in Handles' : instances'[h].about = instances[h].about
  <2>1. \A i, a : InstanceOf(i, a) => i.about = a
    BY DEF InstanceOf
  <2> QED
    BY <1>1, <1>2, <2>1
<1>4. \A h \in Handles' : InstanceOf(instances'[h], instances'[h].about)
  BY <1>1, <1>2, <1>3
<1>5. \A h \in Handles' : \E k \in Keys : instances'[h].about = KeyOf(type', k)
  BY <1>1, <1>3 DEF KeyInv, About
<1>6. calls' \in 0 .. MaxCalls /\ type' \in Types /\ \A h \in Handles' : h \in 1 .. calls'
  BY <1>1, SertypesAssumption DEF KeyInv, SertypesAssumption
<1>7. \A g, h \in Handles' : instances'[g].about = instances'[h].about => g = h
  BY <1>1, <1>3 DEF KeyInv
<1> QED
  BY <1>4, <1>5, <1>6, <1>7, Zenon DEF KeyInv, About

LEMMA DeliverKeeps ==
  ASSUME KeyInv, NEW w \in AllWriters, NEW op \in Operations, NEW sd, NEW a,
         About(a), SdOf(sd, a), Deliver(w, op, sd, a),
         type' = type, calls < MaxCalls, calls' = calls + 1
  PROVE  KeyInv'
<1> DEFINE n == calls + 1
           h == IF Found(sd) = {} THEN n ELSE CHOOSE x \in Found(sd) : TRUE
           old == IF Found(sd) = {} THEN NewInstance(sd, a) ELSE instances[h]
           f == [g \in Handles \cup {h} |->
                   IF g = h THEN Apply(old, w, op, sd, a, n) ELSE instances[g]]
<1>0. calls' \in 0 .. MaxCalls /\ n \in 1 .. MaxCalls /\ a \in Abouts
  BY SertypesAssumption DEF KeyInv, SertypesAssumption, About, KeyOf, Abouts
<1>1. ASSUME NEW g \in Handles PROVE g \in Found(sd) <=> instances[g].about = a
  <2>1. About(instances[g].about) /\ instances[g].untyped.key = KeyFor(instances[g].about)
    BY DEF KeyInv, InstanceOf
  <2>2. sd.key = KeyFor(a)
    BY DEF SdOf
  <2>3. EqKey(type, instances[g].untyped, sd) <=> instances[g].about = a
    BY <2>1, <2>2, EqualKeys
  <2> QED
    BY <2>3 DEF Found
<1>2. InstanceOf(old, a)
  <2>1. CASE Found(sd) = {}
    <3>1. /\ ToUntyped(sd) \in Untyped /\ ToUntyped(sd).key = KeyFor(a)
      BY DEF SdOf, SerdataRecords, ToUntyped, Untyped
    <3>2. <<>> = [x \in DOMAIN <<>> |-> <<>>[x]] /\ DOMAIN <<>> = {}
      OBVIOUS
    <3>3. InstanceOf(NewInstance(sd, a), a)
      BY <3>1, <3>2, Made DEF NewInstance
    <3> QED
      BY <2>1, <3>3
  <2>2. CASE Found(sd) # {}
    <3>1. h \in Found(sd) /\ h \in Handles
      BY <2>2 DEF Found
    <3> QED
      BY <1>1, <2>2, <3>1 DEF KeyInv
  <2> QED
    BY <2>1, <2>2
<1>3. InstanceOf(f[h], a)
  <2>1. f[h] = Apply(old, w, op, sd, a, n)
    OBVIOUS
  <2> HIDE DEF n, h, old, f
  <2> QED
    BY <1>0, <1>2, <2>1, ApplyKeepsAbout
<1>4. \A g \in Handles : instances[g].about = a => g = h
  <2>1. CASE Found(sd) = {}
    BY <1>1, <2>1
  <2>2. CASE Found(sd) # {}
    <3>1. h \in Found(sd) /\ h \in Handles
      BY <2>2 DEF Found
    <3> QED
      BY <1>1, <3>1 DEF KeyInv
  <2> QED
    BY <2>1, <2>2
<1>5. h \in 1 .. calls + 1
  <2>1. CASE Found(sd) = {}
    BY <2>1 DEF KeyInv
  <2>2. CASE Found(sd) # {}
    BY <2>2 DEF KeyInv, Found
  <2> QED
    BY <2>1, <2>2
<1>6. instances' = Kept(f)
  BY DEF Deliver
<1>7. DOMAIN f = Handles \cup {h} /\ \A g \in Handles : g # h => f[g] = instances[g]
  OBVIOUS
<1> HIDE DEF n, h, old, f
<1>8. Handles' \subseteq Handles \cup {h} /\ \A g \in Handles' : instances'[g] = f[g]
  BY <1>6, <1>7 DEF Handles, Kept
<1>9. \A g \in Handles' : instances'[g].about = IF g = h THEN a ELSE instances[g].about
  BY <1>3, <1>7, <1>8 DEF InstanceOf
<1>10. \A g \in Handles' : InstanceOf(instances'[g], instances'[g].about)
  BY <1>3, <1>7, <1>8, <1>9 DEF KeyInv
<1>11. \A g \in Handles' : \E k \in Keys : instances'[g].about = KeyOf(type', k)
  BY <1>8, <1>9 DEF KeyInv, About
<1>12. \A g1, g2 \in Handles' : instances'[g1].about = instances'[g2].about => g1 = g2
  BY <1>4, <1>8, <1>9 DEF KeyInv
<1>13. type' \in Types /\ \A g \in Handles' : g \in 1 .. calls'
  BY <1>5, <1>8 DEF KeyInv
<1> QED
  BY <1>0, <1>10, <1>11, <1>12, <1>13, Zenon DEF KeyInv, About

LEMMA NothingHappens ==
  ASSUME KeyInv, UNCHANGED <<type, instances>>, calls' \in calls .. MaxCalls
  PROVE  KeyInv'
<1>1. type' = type /\ instances' = instances
  OBVIOUS
<1>2. calls' \in 0 .. MaxCalls /\ \A h \in Handles : h \in 1 .. calls'
  BY SertypesAssumption DEF KeyInv, SertypesAssumption
<1> QED
  BY <1>1, <1>2 DEF KeyInv, Handles, About

(***************************************************************************)
(* The actions and the instances.                                          *)
(***************************************************************************)
LEMMA KeyInvInit == Init => KeyInv
BY SertypesAssumption, SamplesAssumption
   DEF SertypesAssumption, SamplesAssumption, Init, InitSertypes, InitSamples, KeyInv, Handles

\* The calls there are.
LEMMA CallsCounted ==
  ASSUME KeyInv, [Next]_vars
  PROVE  calls' = calls \/ (calls < MaxCalls /\ calls' = calls + 1)
<1>1. SertypesNext => calls' = calls \/ (calls < MaxCalls /\ calls' = calls + 1)
  BY DEF SertypesNext, CreateTopic, CreateFails, DeleteTopic, Continue, LockRegistry,
         FindEqual, Differ, Register, DropSpare, FinishTopic, RefuseTopic, FailTopic, Unref, FreeLast, Return,
         CanCall
<1>2. \A t \in Threads : CallSamples(t) => calls < MaxCalls /\ calls' = calls + 1
  <2> SUFFICES ASSUME NEW t \in Threads, CallSamples(t) PROVE calls < MaxCalls /\ calls' = calls + 1
    OBVIOUS
  <2>1. CASE \E mask \in Masks, limit \in ReadLimits, take \in BOOLEAN : StartRead(t, mask, limit, take)
    BY <2>1 DEF StartRead, CanCall
  <2>2. CASE \E w \in DOMAIN Writers, h \in Handles : DisposeHandle(t, w, h) \/ UnregisterHandle(t, w, h)
    BY <2>2 DEF DisposeHandle, UnregisterHandle, Call, CanCall
  <2>3. CASE \E w \in DOMAIN Writers, k \in Keys, ok \in BOOLEAN :
               (\E op \in Operations : Write(t, w, op, k, ok))
                 \/ RegisterInstance(t, w, k, ok) \/ UnregisterInstance(t, w, k, ok)
    BY <2>3 DEF Write, RegisterInstance, UnregisterInstance, Call, CanCall
  <2> QED
    BY <2>1, <2>2, <2>3 DEF CallSamples
<1> QED
  BY <1>1, <1>2 DEF Next, SamplesNext, Collect, FinishRead, Receive, vars

LEMMA KeyInvNext ==
  ASSUME KeyInv, [Next]_vars
  PROVE  KeyInv'
<1>0. calls \in 0 .. MaxCalls /\ calls' \in calls .. MaxCalls /\ MaxCalls \in Nat
  BY CallsCounted, SertypesAssumption DEF KeyInv, SertypesAssumption
<1>1. ASSUME SertypesNext, UNCHANGED sampleVars PROVE KeyInv'
  BY <1>0, <1>1, NothingHappens DEF sampleVars
<1>2. ASSUME NEW w \in AllWriters, NEW op \in Operations, NEW k \in Keys, NEW v \in Versions,
             NEW le \in BOOLEAN, NEW ok \in BOOLEAN,
             LET b == Serialize(type, v, le, KindOf(op), k, ok)
             IN  IF Normalizes(b, KindOf(op))
                 THEN Deliver(w, op, FromCommon(b), KeyOf(type, k)) ELSE UNCHANGED instances,
             calls < MaxCalls, calls' = calls + 1, type' = type
      PROVE  KeyInv'
  <2> DEFINE b == Serialize(type, v, le, KindOf(op), k, ok)
  <2>1. KindOf(op) \in {"data", "key"} /\ type \in Types /\ About(KeyOf(type, k))
    BY DEF KindOf, KeyInv, About
  <2>2. CASE Normalizes(b, KindOf(op))
    <3>1. SdOf(FromCommon(b), KeyOf(type, k))
      BY <2>1, <2>2, FromPayload
    <3>2. Deliver(w, op, FromCommon(b), KeyOf(type, k))
      BY <1>2, <2>2
    <3> HIDE DEF b
    <3> QED
      BY <1>2, <2>1, <3>1, <3>2, DeliverKeeps
  <2>3. CASE ~Normalizes(b, KindOf(op))
    BY <1>0, <1>2, <2>3, NothingHappens
  <2> QED
    BY <2>2, <2>3
<1>3. ASSUME NEW t \in Threads, NEW w \in DOMAIN Writers, NEW op \in Operations, NEW k \in Keys,
             NEW ok \in BOOLEAN, Call(t), Send(w, op, k, ok)
      PROVE  KeyInv'
  <2>1. NativeLE \in BOOLEAN /\ w \in AllWriters /\ Writers[w] \in Versions
    BY SerdataAssumption, SamplesAssumption DEF SerdataAssumption, SamplesAssumption, AllWriters
  <2>2. calls < MaxCalls /\ calls' = calls + 1 /\ type' = type
    BY <1>3 DEF Call, CanCall
  <2> QED
    BY <1>2, <1>3, <2>1, <2>2 DEF Send
<1>4. ASSUME NEW t \in Threads, NEW w \in DOMAIN Writers, NEW h \in Handles,
             DisposeHandle(t, w, h) \/ UnregisterHandle(t, w, h)
      PROVE  KeyInv'
  <2> DEFINE f(x) == [instances EXCEPT ![h] = x]
  <2>1. \A x : DOMAIN f(x) = Handles
    BY DEF Handles
  <2>2. \A g \in Handles : InstanceOf(instances[g], instances[g].about)
    BY DEF KeyInv
  <2>3. \A x \in {Disposed(instances[h], w), Unregistered(instances[h], w)} :
          InstanceOf(x, instances[h].about)
    BY <2>2, EndKeepsAbout DEF AllWriters
  <2>4. \A x \in {Disposed(instances[h], w), Unregistered(instances[h], w)} : \A g \in Handles :
          InstanceOf(f(x)[g], instances[g].about)
    BY <2>2, <2>3 DEF Handles
  <2>5. PICK x \in {Disposed(instances[h], w), Unregistered(instances[h], w)} : instances' = Kept(f(x))
    BY <1>4 DEF DisposeHandle, UnregisterHandle
  <2>6. type' = type
    BY <1>4 DEF DisposeHandle, UnregisterHandle, Call
  <2>7. DOMAIN f(x) = Handles /\ \A g \in Handles : InstanceOf(f(x)[g], instances[g].about)
    BY <2>1, <2>4
  <2> HIDE DEF f
  <2> QED
    BY <1>0, <2>5, <2>6, <2>7, EachAlone
<1>5. ASSUME NEW w \in Remotes, NEW op \in Operations, NEW k \in Keys, NEW v \in Versions,
             NEW le \in BOOLEAN, NEW ok \in BOOLEAN, NEW chain \in FragChains,
             Receive(w, op, k, v, le, ok, chain)
      PROVE  KeyInv'
  <2>1. \A b : FromSer(b, chain) = b
    BY ChainsCover DEF FromSer, Upto
  <2>2. calls < MaxCalls /\ calls' = calls + 1 /\ type' = type /\ w \in AllWriters
    BY <1>5 DEF Receive, AllWriters
  <2> QED
    BY <1>2, <1>5, <2>1, <2>2 DEF Receive
<1>6. ASSUME NEW t \in Threads, NEW mask \in Masks, NEW limit \in ReadLimits, NEW take \in BOOLEAN,
             StartRead(t, mask, limit, take)
      PROVE  KeyInv'
  <2> DEFINE picked == ToSet(ToRead(mask, limit))
             f == [h \in Handles |-> IF take THEN AfterTake(h, instances[h], picked)
                                     ELSE AfterRead(h, instances[h], picked)]
  <2>1. instances' = Kept(f) /\ type' = type
    BY <1>6 DEF StartRead
  <2>2. \A h \in Handles : InstanceOf(f[h], instances[h].about)
    BY ReadKeepsAbout DEF KeyInv
  <2>3. DOMAIN f = Handles
    OBVIOUS
  <2> HIDE DEF f
  <2> QED
    BY <1>0, <2>1, <2>2, <2>3, EachAlone
<1>7. ASSUME NEW t \in Threads, Collect(t) \/ FinishRead(t) PROVE KeyInv'
  BY <1>0, <1>7, NothingHappens DEF Collect, FinishRead
<1>8. ASSUME UNCHANGED vars PROVE KeyInv'
  BY <1>0, <1>8, NothingHappens DEF vars, sampleVars
<1>9. \A t \in Threads : CallSamples(t) => KeyInv'
  <2>1. {"register", "unregister"} \subseteq Operations
    BY DEF Operations
  <2> QED
    BY <1>3, <1>4, <1>6, <2>1 DEF CallSamples, Write, RegisterInstance, UnregisterInstance
<1> QED
  BY <1>1, <1>5, <1>7, <1>8, <1>9 DEF Next, SamplesNext

\* The samples of one key are one instance whatever they were encoded in, and
\* those of two keys never are: for all keys, writers, threads, read limits and
\* ways in which a payload comes in fragments.
THEOREM OneInstancePerKey == Spec => []SameInstance
<1>1. KeyInv => SameInstance
  <2> SUFFICES ASSUME KeyInv PROVE SameInstance
    OBVIOUS
  <2>1. ASSUME NEW h \in Handles, NEW n \in DOMAIN instances[h].samples
        PROVE  instances[h].samples[n].about = instances[h].about
    <3>1. SampleOf(instances[h].samples[n], instances[h].about)
      BY DEF KeyInv, InstanceOf
    <3> QED
      BY <3>1 DEF SampleOf
  <2> QED
    BY <2>1 DEF KeyInv, SameInstance
<1> QED
  BY KeyInvInit, KeyInvNext, <1>1, PTL DEF Spec

(***************************************************************************)
(* Reading.                                                                *)
(***************************************************************************)
Toread == {p \in Handles \X Nat : p[2] = 0 \/ p[2] \in DOMAIN instances[p[1]].samples}

LEMMA InOrderType ==
  ASSUME NEW numbers
  PROVE  InOrder(numbers) \in Seq(numbers)
<1> DEFINE s == [n \in 1 .. MaxCalls |-> IF n \in numbers THEN <<n>> ELSE <<>>]
<1>1. MaxCalls \in Nat
  BY SertypesAssumption DEF SertypesAssumption
<1>2. ASSUME NEW n \in 1 .. MaxCalls PROVE (IF n \in numbers THEN <<n>> ELSE <<>>) \in Seq(numbers)
  <2>1. n \in numbers => <<n>> \in Seq(numbers)
    OBVIOUS
  <2> QED
    BY <2>1, EmptySequence
<1>3. s \in [1 .. MaxCalls -> Seq(numbers)]
  BY <1>2
<1>4. InOrder(numbers) = FlattenSeq(s)
  BY DEF InOrder
<1> HIDE DEF s
<1> QED
  BY <1>1, <1>3, <1>4, FlattenSeqType

\* read and take hand out samples, and invalid samples, of the instances.
LEMMA ToReadType ==
  ASSUME KeyInv, NEW mask, NEW limit \in ReadLimits
  PROVE  ToRead(mask, limit) \in Seq(Toread)
<1>1. ASSUME NEW h \in Handles PROVE InstanceItems(h, mask) \in Seq(Toread)
  <2> DEFINE i == instances[h]
             valid == {n \in DOMAIN i.samples : mask = "any" \/ ~i.samples[n].read}
             invalid == IF i.invalid = "unread" \/ (i.invalid = "read" /\ mask = "any") THEN <<0>> ELSE <<>>
             all == InOrder(valid) \o invalid
             U == {n \in Nat : n = 0 \/ n \in DOMAIN i.samples}
  <2>1. valid \subseteq U /\ 0 \in U
    <3>1. DOMAIN i.samples \subseteq 1 .. MaxCalls
      BY DEF KeyInv, InstanceOf
    <3> HIDE DEF i
    <3>2. 1 .. MaxCalls \subseteq Nat
      OBVIOUS
    <3> QED
      BY <3>1, <3>2, Zenon
  <2>2. InOrder(valid) \in Seq(U)
    <3>1. InOrder(valid) \in Seq(valid)
      BY InOrderType
    <3> HIDE DEF valid, U
    <3> QED
      BY <2>1, <3>1
  <2>3. invalid \in Seq(U)
    <3>1. <<0>> \in Seq(U)
      BY <2>1
    <3> HIDE DEF U
    <3> QED
      BY <3>1, EmptySequence
  <2>4. all \in Seq(U)
    <3> HIDE DEF valid, invalid, U
    <3> QED
      BY <2>2, <2>3, Joined
  <2>5. InstanceItems(h, mask) = [n \in DOMAIN all |-> <<h, all[n]>>]
    BY DEF InstanceItems
  <2>6. \A u \in U : <<h, u>> \in Toread
    BY DEF Toread
  <2> HIDE DEF all, U
  <2>7. DOMAIN all = 1 .. Len(all) /\ Len(all) \in Nat /\ \A n \in DOMAIN all : all[n] \in U
    BY <2>4
  <2> QED
    BY <2>5, <2>6, <2>7
<1> DEFINE order == InOrder(Handles)
           parts == [n \in DOMAIN order |-> InstanceItems(order[n], mask)]
           all == FlattenSeq(parts)
<1>2. order \in Seq(Handles)
  BY InOrderType
<1>3. ToRead(mask, limit) = SubSeq(all, 1, IF Len(all) < limit THEN Len(all) ELSE limit)
  BY DEF ToRead
<1> HIDE DEF order
<1>4. DOMAIN order = 1 .. Len(order) /\ Len(order) \in Nat /\ \A n \in DOMAIN order : order[n] \in Handles
  BY <1>2
<1>5. parts \in [1 .. Len(order) -> Seq(Toread)]
  BY <1>1, <1>4
<1> HIDE DEF parts
<1>6. all \in Seq(Toread)
  BY <1>4, <1>5, FlattenSeqType
<1> HIDE DEF all
<1>7. limit \in Nat /\ Len(all) \in Nat
  BY <1>6, SamplesAssumption DEF SamplesAssumption
<1> DEFINE m == IF Len(all) < limit THEN Len(all) ELSE limit
<1>8. m \in 0 .. Len(all)
  BY <1>7
<1> HIDE DEF m
<1>9. SubSeq(all, 1, m) \in Seq(Toread)
  BY <1>6, <1>8
<1> QED
  BY <1>3, <1>9 DEF m

LEMMA HandoutTells ==
  ASSUME KeyInv, NEW p \in Toread
  PROVE  Handout(p) \in Outs
<1> DEFINE i == instances[p[1]]
<1>1. p[1] \in Handles /\ (p[2] = 0 \/ p[2] \in DOMAIN i.samples)
  BY DEF Toread
<1>2. InstanceOf(i, i.about) /\ i.about \in Abouts
  BY <1>1 DEF KeyInv, About, KeyOf, Abouts
<1>3. i.untyped \in Untyped /\ i.untyped.key = KeyFor(i.about)
  BY <1>2 DEF InstanceOf
<1>4. p[2] # 0 => SampleOf(i.samples[p[2]], i.about)
  BY <1>1, <1>2 DEF InstanceOf
<1>5. Handout(p) = IF p[2] = 0 THEN [valid |-> FALSE, sd |-> i.untyped, about |-> i.about]
                   ELSE [valid |-> TRUE, sd |-> i.samples[p[2]].sd, about |-> i.samples[p[2]].about]
  BY DEF Handout
<1> HIDE DEF i
<1>6. CASE p[2] = 0
  BY <1>2, <1>3, <1>5, <1>6 DEF Outs
<1>7. CASE p[2] # 0
  <2> DEFINE s == i.samples[p[2]]
  <2>1. s.sd \in SerdataRecords /\ s.about = i.about /\ Deserialize(s.sd.data) = i.about
    BY <1>4, <1>7 DEF SampleOf, SampleRecords
  <2> HIDE DEF s
  <2>2. Handout(p) = [valid |-> TRUE, sd |-> s.sd, about |-> s.about]
    BY <1>5, <1>7 DEF s
  <2> QED
    BY <1>2, <2>1, <2>2 DEF Outs
<1> QED
  BY <1>6, <1>7

\* A sample comes to the program as it was serialised, and the key of an invalid
\* one in the version its instance was written in first.
LEMMA SampleReads ==
  ASSUME KeyInv, NEW x \in Outs
  PROVE  Sample(x) \in Items
<1>1. CASE x.valid
  <2>1. x.sd.data \in Payloads /\ Deserialize(x.sd.data) = x.about
    BY <1>1 DEF Outs, SerdataRecords
  <2>2. Sample(x) = [valid |-> x.valid, about |-> x.about, data |-> x.sd.data]
    BY <1>1 DEF Sample
  <2> QED
    BY <2>1, <2>2 DEF Outs, Items
<1>2. CASE ~x.valid
  <2> DEFINE u == x.sd
             a == x.about
             enc == Encoding(type, u.v2)
             b == [enc |-> enc, le |-> NativeLE,
                   body |-> [version |-> Version(u.v2), le |-> NativeLE, kind |-> "key", key |-> a,
                             wellFormed |-> TRUE]]
  <2>1. u.v2 \in BOOLEAN /\ u.key = KeyFor(a) /\ a \in Abouts
    BY <1>2 DEF Outs, Untyped
  <2>2. u.key.le = NativeLE /\ u.key.key = a
    BY <2>1 DEF KeyFor
  <2>3. UntypedToSample(type, u) = b
    BY <2>2 DEF UntypedToSample
  <2>4. enc \in Encodings /\ (enc \in V2Encodings <=> u.v2)
    BY <2>1 DEF Encoding, Encodings, V2Encodings
  <2>5. NativeLE \in BOOLEAN
    BY SerdataAssumption DEF SerdataAssumption
  <2>6. Sample(x) = [valid |-> x.valid, about |-> a, data |-> b]
    BY <1>2, <2>3 DEF Sample
  <2>7. x.valid \in BOOLEAN
    BY DEF Outs
  <2> HIDE DEF u, a, enc
  <2>8. b \in Payloads
    BY <2>1, <2>4, <2>5 DEF Payloads, Body, Abouts, Version, Versions
  <2>9. Deserialize(b) = a
    BY <2>1, <2>4 DEF Deserialize, Readable, IsV2, Version
  <2> HIDE DEF b
  <2> QED
    BY <2>1, <2>6, <2>7, <2>8, <2>9 DEF Items
<1> QED
  BY <1>1, <1>2

LEMMA ReadInvInit == Init => ReadInv
BY EmptySequence DEF Init, InitSertypes, InitSamples, ReadInv, NoRead, HandedOver

LEMMA NothingRead ==
  ASSUME ReadInv, UNCHANGED <<collector, handed>>, gil' \in Threads \cup {Nobody}
  PROVE  ReadInv'
BY DEF ReadInv, HandedOver

LEMMA ReadInvNext ==
  ASSUME KeyInv, ReadInv, [Next]_vars
  PROVE  ReadInv'
<1>1. ASSUME SertypesNext, UNCHANGED sampleVars PROVE ReadInv'
  <2>1. gil' \in Threads \cup {Nobody}
    BY <1>1 DEF ReadInv, SertypesNext, CreateTopic, CreateFails, DeleteTopic, Continue, LockRegistry,
       FindEqual, Differ, Register, DropSpare, FinishTopic, RefuseTopic, FailTopic, Unref, FreeLast, Return
  <2> QED
    BY <1>1, <2>1, NothingRead DEF sampleVars
<1>2. ASSUME NEW t \in Threads, Call(t) PROVE ReadInv'
  BY <1>2, NothingRead DEF Call, ReadInv
<1>3. ASSUME NEW w, NEW op, NEW k, NEW v, NEW le, NEW ok, NEW chain,
             Receive(w, op, k, v, le, ok, chain)
      PROVE  ReadInv'
  BY <1>3, NothingRead DEF Receive, ReadInv
<1>4. ASSUME NEW t \in Threads, NEW mask \in Masks, NEW limit \in ReadLimits, NEW take \in BOOLEAN,
             StartRead(t, mask, limit, take)
      PROVE  ReadInv'
  <2> DEFINE order == ToRead(mask, limit)
             todo == [n \in DOMAIN order |-> Handout(order[n])]
  <2>1. order \in Seq(Toread)
    BY ToReadType
  <2>2. collector' = [NoRead EXCEPT !.todo = todo] /\ handed' = <<>> /\ gil' = t
    BY <1>4 DEF StartRead
  <2> HIDE DEF order
  <2>3. DOMAIN order = 1 .. Len(order) /\ Len(order) \in Nat /\ \A n \in DOMAIN order : order[n] \in Toread
    BY <2>1
  <2>4. \A n \in DOMAIN order : Handout(order[n]) \in Outs
    BY <2>3, HandoutTells
  <2>5. todo \in Seq(Outs)
    BY <2>3, <2>4
  <2> HIDE DEF todo
  <2>6. collector'.todo = todo /\ collector'.items = <<>> /\ collector'.capacity = 0
    BY <2>2 DEF NoRead
  <2>7. /\ collector'.todo \in Seq(Outs)' /\ collector'.items \in Seq(Items)' /\ collector'.capacity \in Nat
        /\ Len(collector'.items) <= collector'.capacity
    BY <2>5, <2>6, EmptySequence DEF Outs, Items
  <2>8. HandedOver'
    BY <2>2 DEF HandedOver
  <2> QED
    BY <2>2, <2>7, <2>8 DEF ReadInv
<1>5. ASSUME NEW t \in Threads, Collect(t) PROVE ReadInv'
  <2> DEFINE x == Head(collector.todo)
  <2>1. /\ collector' = [todo |-> Tail(collector.todo), items |-> Append(collector.items, Sample(x)),
                         capacity |-> Capacity(collector)]
        /\ collector.todo # <<>> /\ handed' = handed /\ gil' = gil
    BY <1>5 DEF Collect
  <2>2. x \in Outs /\ Tail(collector.todo) \in Seq(Outs)
    BY <2>1 DEF ReadInv
  <2>3. Sample(x) \in Items
    BY <2>2, SampleReads
  <2> HIDE DEF x
  <2>4. /\ Append(collector.items, Sample(x)) \in Seq(Items)
        /\ Len(Append(collector.items, Sample(x))) = Len(collector.items) + 1
        /\ Len(collector.items) \in Nat
    BY <2>3 DEF ReadInv
  <2>5. Capacity(collector) \in Nat /\ Len(collector.items) + 1 <= Capacity(collector)
    BY <2>4, SamplesAssumption DEF ReadInv, SamplesAssumption, Capacity
  <2>6. /\ collector'.todo \in Seq(Outs)' /\ collector'.items \in Seq(Items)' /\ collector'.capacity \in Nat
        /\ Len(collector'.items) <= collector'.capacity
    BY <2>1, <2>2, <2>4, <2>5 DEF Outs, Items
  <2>7. HandedOver'
    BY <2>1 DEF ReadInv, HandedOver
  <2> QED
    BY <2>1, <2>6, <2>7 DEF ReadInv
<1>6. ASSUME NEW t \in Threads, FinishRead(t) PROVE ReadInv'
  <2>1. /\ collector' = NoRead /\ gil' = Nobody
        /\ handed' = [n \in DOMAIN collector.items |->
                  [valid |-> collector.items[n].valid, about |-> collector.items[n].about,
                   value |-> Deserialize(collector.items[n].data)]]
    BY <1>6 DEF FinishRead
  <2>2. \A n \in DOMAIN collector.items : collector.items[n] \in Items
    BY DEF ReadInv
  <2>3. \A n \in DOMAIN collector.items : Deserialize(collector.items[n].data) = collector.items[n].about
    BY <2>2 DEF Items
  <2>4. HandedOver'
    BY <2>1, <2>3 DEF HandedOver
  <2>5. /\ collector'.todo \in Seq(Outs)' /\ collector'.items \in Seq(Items)' /\ collector'.capacity \in Nat
        /\ Len(collector'.items) <= collector'.capacity
    BY <2>1, EmptySequence DEF NoRead
  <2> QED
    BY <2>1, <2>4, <2>5 DEF ReadInv
<1>7. ASSUME UNCHANGED vars PROVE ReadInv'
  BY <1>7, NothingRead DEF vars, sampleVars, ReadInv
<1>8. \A t \in Threads : CallSamples(t) => ReadInv'
  BY <1>2, <1>4 DEF CallSamples, Write, RegisterInstance, UnregisterInstance, DisposeHandle,
     UnregisterHandle
<1> QED
  BY <1>1, <1>3, <1>5, <1>6, <1>7, <1>8 DEF Next, SamplesNext

\* What a program reads is what was written, in whichever version, byte order and
\* fragments it came, and whether it is a sample or the key of an ended instance.
THEOREM ReadIsWritten == Spec => []HandedOver
<1>1. Init => KeyInv /\ ReadInv
  BY KeyInvInit, ReadInvInit
<1>2. KeyInv /\ ReadInv /\ [Next]_vars => (KeyInv /\ ReadInv)'
  BY KeyInvNext, ReadInvNext
<1>3. ReadInv => HandedOver
  BY DEF ReadInv
<1> QED
  BY <1>1, <1>2, <1>3, PTL DEF Spec

\* Every variable keeps its type, and the arrays of the collector always have room
\* for what they hold.
THEOREM SampleTypes == Spec => []TypeOK
<1>1. Init => KeyInv /\ ReadInv /\ SertypeInv
  BY KeyInvInit, ReadInvInit, SertypeInvInit
<1>2. KeyInv /\ ReadInv /\ SertypeInv /\ [Next]_vars => (KeyInv /\ ReadInv /\ SertypeInv)'
  BY KeyInvNext, ReadInvNext, SertypeInvNext
<1>3. KeyInv /\ ReadInv /\ SertypeInv => TypeOK
  <2> SUFFICES ASSUME KeyInv, ReadInv, SertypeInv PROVE TypeOK
    OBVIOUS
  <2>1. ASSUME NEW h \in Handles PROVE IsInstance(instances[h])
    <3>1. InstanceOf(instances[h], instances[h].about) /\ instances[h].about \in Abouts
      BY DEF KeyInv, About, KeyOf, Abouts
    <3> DEFINE i == instances[h]
    <3> HIDE DEF i
    <3>2. \A n \in DOMAIN i.samples : SampleOf(i.samples[n], i.about) => i.samples[n] \in SampleRecords
      BY DEF SampleOf
    <3> QED
      BY <3>1, <3>2, Zenon DEF InstanceOf, IsInstance, i
  <2>2. Handles \subseteq 1 .. calls /\ calls \in 0 .. MaxCalls /\ type \in Types
    BY DEF KeyInv
  <2>3. ToSet(collector.items) \subseteq [valid : BOOLEAN, about : Abouts, data : Payloads]
    <3>1. \A n \in DOMAIN collector.items : collector.items[n] \in Items
      BY DEF ReadInv
    <3> QED
      BY <3>1 DEF ToSet, Items
  <2>4. {refs, topics} \subseteq [Sertypes -> Nat] /\ {registry, described} \subseteq SUBSET Sertypes
    BY DEF SertypeInv, SertypeTypes
  <2> QED
    BY <2>1, <2>2, <2>3, <2>4, Zenon DEF TypeOK, ReadInv, SertypeInv, SertypeTypes
<1> QED
  BY <1>1, <1>2, <1>3, PTL DEF Spec
=============================================================================
