------------------------------ MODULE QosProofs ------------------------------
(***************************************************************************)
(* The Qos objects that threads hold are sorted, with one policy of each   *)
(* scope, wherever they come from, so that the scan that stops early finds *)
(* what there is; they come back from their dictionaries as they were; and *)
(* get_qos and set_qos implement a register per entity.  All of it is for  *)
(* any policies, property names, entities and threads.                     *)
(***************************************************************************)
EXTENDS Qos, FiniteSetTheorems, WellFoundedInduction, TLAPS

(***************************************************************************)
(* Induction, stated with sets in place of predicates.                     *)
(***************************************************************************)
LEMMA LeastNumber ==
  ASSUME NEW T \in SUBSET Nat, T # {}
  PROVE  \E m \in T : \A k \in T : m <= k
<1> DEFINE R == OpToRel(<, Nat)
<1>1. \A x, y \in T : <<y, x>> \in R <=> y < x
  BY DEF OpToRel
<1>2. IsWellFoundedOn(R, Nat)
  BY NatLessThanWellFounded
<1> HIDE DEF R
<1>3. PICK x \in T : \A y \in T : <<y, x>> \notin R
  BY <1>2, WFMin, Zenon
<1>4. \A k \in T : ~(k < x)
  BY <1>1, <1>3, Zenon
<1> QED
  BY <1>4

LEMMA SetInduction ==
  ASSUME NEW T \in SUBSET Nat, 0 \in T, \A n \in T : n + 1 \in T
  PROVE  T = Nat
<1> SUFFICES ASSUME Nat \ T # {} PROVE FALSE
  OBVIOUS
<1>1. PICK m \in Nat \ T : \A k \in Nat \ T : m <= k
  BY LeastNumber, Nat \ T \in SUBSET Nat
<1>2. m # 0 /\ m - 1 \in Nat /\ m - 1 \in T
  BY <1>1
<1> QED
  BY <1>1, <1>2

LEMMA IntervalInduction ==
  ASSUME NEW N \in Nat, NEW T, 0 \in T, \A n \in 0 .. N - 1 : n \in T => n + 1 \in T
  PROVE  0 .. N \subseteq T
<1> DEFINE U == {n \in Nat : n <= N => n \in T}
<1>1. 0 \in U
  OBVIOUS
<1>2. \A n \in U : n + 1 \in U
  OBVIOUS
<1>3. U = Nat
  <2>1. U \in SUBSET Nat
    OBVIOUS
  <2> HIDE DEF U
  <2> QED
    BY <1>1, <1>2, <2>1, SetInduction
<1> QED
  BY <1>3

(***************************************************************************)
(* Recursive functions: one step after another there is a value.           *)
(***************************************************************************)
Steps(N, X) == [(1 .. N) \X X -> X]
Follows(f, step, base, N, X) ==
  /\ f \in [0 .. N -> X]
  /\ f[0] = base /\ \A n \in 1 .. N : f[n] = step[<<n, f[n - 1]>>]

LEMMA StepByStep ==
  ASSUME NEW X, NEW base \in X, NEW N \in Nat, NEW step \in Steps(N, X)
  PROVE  \E f : Follows(f, step, base, N, X)
<1> USE DEF Steps
<1> DEFINE Upto(m) == {f \in [0 .. m -> X] :
                         f[0] = base /\ \A n \in 1 .. m : f[n] = step[<<n, f[n - 1]>>]}
           T == {m \in Nat : m <= N => Upto(m) # {}}
<1>1. 0 \in T
  <2> DEFINE f == [n \in 0 .. 0 |-> base]
  <2>1. f \in [0 .. 0 -> X] /\ f[0] = base
    OBVIOUS
  <2> HIDE DEF f
  <2> QED
    BY <2>1
<1>2. ASSUME NEW m \in T PROVE m + 1 \in T
  <2> SUFFICES ASSUME m + 1 <= N PROVE Upto(m + 1) # {}
    OBVIOUS
  <2>1. PICK f \in [0 .. m -> X] : f[0] = base /\ \A n \in 1 .. m : f[n] = step[<<n, f[n - 1]>>]
    OBVIOUS
  <2> DEFINE g == [n \in 0 .. m + 1 |-> IF n <= m THEN f[n] ELSE step[<<m + 1, f[m]>>]]
  <2>2. f[m] \in X /\ m + 1 \in 1 .. N
    OBVIOUS
  <2>3. step[<<m + 1, f[m]>>] \in X
    BY <2>2
  <2>4. g \in [0 .. m + 1 -> X]
    BY <2>3
  <2>5. g[0] = base
    BY <2>1
  <2>6. ASSUME NEW n \in 1 .. m + 1 PROVE g[n] = step[<<n, g[n - 1]>>]
    <3>1. CASE n <= m
      <4>1. n \in 1 .. m /\ n - 1 \in 0 .. m /\ n - 1 <= m
        BY <3>1
      <4>2. g[n] = f[n] /\ g[n - 1] = f[n - 1]
        BY <4>1
      <4> QED
        BY <2>1, <4>1, <4>2
    <3>2. CASE n = m + 1
      <4>1. g[n] = step[<<m + 1, f[m]>>] /\ g[n - 1] = f[m]
        BY <3>2
      <4> QED
        BY <3>2, <4>1
    <3> QED
      BY <3>1, <3>2
  <2> HIDE DEF g
  <2>7. g \in Upto(m + 1)
    BY <2>4, <2>5, <2>6
  <2> QED
    BY <2>7
<1>3. T = Nat
  <2>1. T \in SUBSET Nat
    OBVIOUS
  <2> HIDE DEF T
  <2> QED
    BY <1>1, <1>2, <2>1, SetInduction
<1>4. N \in T
  BY <1>3
<1>5. PICK f : f \in Upto(N)
  BY <1>4
<1> QED
  BY <1>5 DEF Follows

(***************************************************************************)
(* Sequences.                                                              *)
(***************************************************************************)
LEMMA EmptySequence ==
  ASSUME NEW U
  PROVE  <<>> \in Seq(U) /\ Len(<<>>) = 0
OBVIOUS

LEMMA Joined ==
  ASSUME NEW U, NEW s \in Seq(U), NEW t \in Seq(U)
  PROVE  s \o t \in Seq(U) /\ Len(s \o t) = Len(s) + Len(t)
OBVIOUS

LEMMA JoinedElements ==
  ASSUME NEW U, NEW s \in Seq(U), NEW t \in Seq(U)
  PROVE  /\ DOMAIN (s \o t) = 1 .. Len(s) + Len(t)
         /\ \A i \in 1 .. Len(s) : (s \o t)[i] = s[i]
         /\ \A i \in 1 .. Len(t) : (s \o t)[Len(s) + i] = t[i]
OBVIOUS

LEMMA SameSequence ==
  ASSUME NEW U, NEW s \in Seq(U), NEW t \in Seq(U), Len(s) = Len(t),
         \A i \in 1 .. Len(s) : s[i] = t[i]
  PROVE  s = t
OBVIOUS

\* A sequence is flattened by joining one of its elements after the other.
Joins(flat, s, N, U) ==
  /\ flat \in [0 .. N -> Seq(U)]
  /\ flat[0] = <<>> /\ \A n \in 1 .. N : flat[n] = flat[n - 1] \o s[n]

LEMMA FlattenSteps ==
  ASSUME NEW U, NEW N \in Nat, NEW s, s \in [1 .. N -> Seq(U)]
  PROVE  \E flat : Joins(flat, s, N, U) /\ FlattenSeq(s) = flat[N]
<1>0. s \in Seq(Seq(U)) /\ Len(s) = N
  OBVIOUS
<1>1. CASE N = 0
  <2>1. FlattenSeq(s) = s
    BY <1>0, <1>1 DEF FlattenSeq
  <2>2. s = <<>>
    BY <1>0, <1>1
  <2> DEFINE g == [n \in 0 .. N |-> <<>>]
  <2>3. Joins(g, s, N, U) /\ g[N] = <<>>
    BY <1>1, EmptySequence DEF Joins
  <2> QED
    BY <2>1, <2>2, <2>3
<1>2. CASE N # 0
  <2> DEFINE Flattens(f) == f = [i \in 1 .. N |-> IF i = 1 THEN s[i] ELSE f[i - 1] \o s[i]]
             flat == CHOOSE f : Flattens(f)
  <2>1. \E f : Flattens(f)
    <3> DEFINE X == Seq(U)
               step == [p \in (1 .. N) \X X |-> p[2] \o s[p[1]]]
             base == <<>>
    <3>1. step \in Steps(N, X)
      BY DEF Steps
    <3>2. base \in X
      BY EmptySequence
    <3>3. \A n \in 1 .. N, x \in X : step[<<n, x>>] = x \o s[n]
      OBVIOUS
    <3> HIDE DEF step, X, base
    <3>4. PICK f : Follows(f, step, base, N, X)
      BY <3>1, <3>2, StepByStep
    <3>7. /\ f \in [0 .. N -> X]
          /\ f[0] = base /\ \A n \in 1 .. N : f[n] = step[<<n, f[n - 1]>>]
      BY <3>4 DEF Follows
    <3> DEFINE g == [i \in 1 .. N |-> f[i]]
    <3>5. ASSUME NEW i \in 1 .. N PROVE f[i] = IF i = 1 THEN s[i] ELSE g[i - 1] \o s[i]
      <4>0. i - 1 \in 0 .. N /\ f[i - 1] \in X
        BY <3>7
      <4>1. f[i] = f[i - 1] \o s[i]
        BY <3>3, <3>7, <4>0
      <4>2. CASE i = 1
        <5>1. f[i] = <<>> \o s[i] /\ s[i] \in Seq(U)
          BY <3>7, <4>1, <4>2 DEF base
        <5> QED
          BY <4>2, <5>1
      <4>3. CASE i # 1
        <5>1. i - 1 \in 1 .. N
          BY <4>3
        <5> QED
          BY <4>1, <4>3, <5>1
      <4> QED
        BY <4>2, <4>3
    <3>6. Flattens(g)
      BY <3>5
    <3> QED
      BY <3>6
  <2>2. flat = [i \in 1 .. N |-> IF i = 1 THEN s[i] ELSE flat[i - 1] \o s[i]]
    BY <2>1
  <2>3. FlattenSeq(s) = flat[N]
    BY <1>0, <1>2 DEF FlattenSeq
  <2> HIDE DEF flat
  <2> DEFINE T == {n \in 0 .. N : n # 0 => flat[n] \in Seq(U)}
  <2>4. 0 \in T
    OBVIOUS
  <2>5. ASSUME NEW n \in 0 .. N - 1, n \in T PROVE n + 1 \in T
    <3>1. n + 1 \in 1 .. N /\ s[n + 1] \in Seq(U)
      OBVIOUS
    <3>0. \A i \in 1 .. N : flat[i] = IF i = 1 THEN s[i] ELSE flat[i - 1] \o s[i]
      BY <2>2, Zenon
    <3>2. flat[n + 1] = IF n + 1 = 1 THEN s[n + 1] ELSE flat[n] \o s[n + 1]
      BY <3>0, <3>1
    <3>3. flat[n + 1] \in Seq(U)
      BY <2>5, <3>1, <3>2, Joined
    <3> QED
      BY <3>1, <3>3
  <2>6. 0 .. N \subseteq T
    BY <2>4, <2>5, IntervalInduction
  <2>7. \A n \in 1 .. N : flat[n] \in Seq(U)
    BY <2>6
  <2>8. \A n \in 1 .. N : flat[n] = IF n = 1 THEN s[n] ELSE flat[n - 1] \o s[n]
    BY <2>2, Zenon
  <2> HIDE DEF T
  <2> DEFINE g == [n \in 0 .. N |-> IF n = 0 THEN <<>> ELSE flat[n]]
  <2>9. g \in [0 .. N -> Seq(U)] /\ g[0] = <<>> /\ g[N] = flat[N]
    BY <1>2, <2>7, EmptySequence
  <2>10. ASSUME NEW n \in 1 .. N PROVE g[n] = g[n - 1] \o s[n]
    <3>1. g[n] = flat[n] /\ n - 1 \in 0 .. N /\ (n # 1 => n - 1 # 0)
      OBVIOUS
    <3>2. CASE n = 1
      <4>1. g[n - 1] = <<>> /\ s[n] \in Seq(U)
        BY <3>2
      <4>2. <<>> \o s[n] = s[n]
        BY <4>1
      <4> QED
        BY <2>8, <3>1, <3>2, <4>1, <4>2, Zenon
    <3>3. CASE n # 1
      <4>1. g[n - 1] = flat[n - 1]
        BY <3>1, <3>3
      <4> QED
        BY <2>8, <3>1, <3>3, <4>1, Zenon
    <3> QED
      BY <3>2, <3>3
  <2> HIDE DEF g
  <2> QED
    BY <2>3, <2>9, <2>10 DEF Joins
<1> QED
  BY <1>1, <1>2

\* A sequence with one more element.
LEMMA InsertAtElements ==
  ASSUME NEW U, NEW s \in Seq(U), NEW n \in 1 .. Len(s) + 1, NEW e \in U
  PROVE  /\ InsertAt(s, n, e) \in Seq(U)
         /\ Len(InsertAt(s, n, e)) = Len(s) + 1
         /\ \A i \in 1 .. Len(s) + 1 :
              InsertAt(s, n, e)[i] = IF i < n THEN s[i] ELSE IF i = n THEN e ELSE s[i - 1]
<1> DEFINE a == SubSeq(s, 1, n - 1)
           b == SubSeq(s, n, Len(s))
           c == a \o <<e>>
<1>0. Len(s) \in Nat /\ n \in Nat
  OBVIOUS
<1>1. a \in Seq(U) /\ Len(a) = n - 1 /\ \A i \in 1 .. n - 1 : a[i] = s[i]
  OBVIOUS
<1>2. b \in Seq(U) /\ Len(b) = Len(s) - n + 1 /\ \A i \in 1 .. Len(s) - n + 1 : b[i] = s[n + i - 1]
  OBVIOUS
<1>3. InsertAt(s, n, e) = c \o b
  BY DEF InsertAt
<1> HIDE DEF a, b
<1>4. c \in Seq(U) /\ Len(c) = n /\ c[n] = e /\ \A i \in 1 .. n - 1 : c[i] = s[i]
  BY <1>0, <1>1
<1> HIDE DEF c
<1>5. c \o b \in Seq(U) /\ Len(c \o b) = Len(s) + 1
  <2>1. c \o b \in Seq(U) /\ Len(c \o b) = Len(c) + Len(b)
    BY <1>2, <1>4, Joined
  <2> QED
    BY <1>0, <1>2, <1>4, <2>1
<1>6. ASSUME NEW i \in 1 .. Len(s) + 1
      PROVE  (c \o b)[i] = IF i < n THEN s[i] ELSE IF i = n THEN e ELSE s[i - 1]
  <2>1. CASE i <= n
    <3>1. (c \o b)[i] = c[i]
      BY <1>0, <1>2, <1>4, <2>1
    <3> QED
      BY <1>0, <1>4, <2>1, <3>1
  <2>2. CASE ~(i <= n)
    <3>1. (c \o b)[i] = b[i - n] /\ i - n \in 1 .. Len(s) - n + 1
      BY <1>0, <1>2, <1>4, <2>2, SMTT(30)
    <3>2. n + (i - n) - 1 = i - 1
      BY <1>0
    <3> QED
      BY <1>0, <1>2, <2>2, <3>1, <3>2
  <2> QED
    BY <2>1, <2>2
<1> QED
  BY <1>3, <1>5, <1>6

(***************************************************************************)
(* The order of scopes.                                                    *)
(***************************************************************************)
LEMMA RanksAreNumbers ==
  ASSUME NEW names, DOMAIN names \subseteq Nat, NEW a \in DOMAIN Ranks(names)
  PROVE  /\ Ranks(names)[a] \in Nat
         /\ \A b \in DOMAIN Ranks(names) : Ranks(names)[a] = Ranks(names)[b] => a = b
<1> DEFINE At(n) == CHOOSE i \in DOMAIN names : names[i] = n
<1>1. \A n \in {names[i] : i \in DOMAIN names} : At(n) \in DOMAIN names /\ names[At(n)] = n
  OBVIOUS
<1>2. \A n \in {names[i] : i \in DOMAIN names} : Ranks(names)[n] = At(n)
  BY DEF Ranks
<1>3. DOMAIN Ranks(names) = {names[i] : i \in DOMAIN names}
  BY DEF Ranks
<1> HIDE DEF At
<1> QED
  BY <1>1, <1>2, <1>3

LEMMA Ranked ==
  /\ \A a \in DOMAIN ScopeRank : ScopeRank[a] \in Nat
  /\ \A a, b \in DOMAIN ScopeRank : ScopeRank[a] = ScopeRank[b] => a = b
  /\ \A a \in DOMAIN KeyRank : KeyRank[a] \in Nat
  /\ \A a, b \in DOMAIN KeyRank : KeyRank[a] = KeyRank[b] => a = b
<1>1. DOMAIN ScopeNames \subseteq Nat
  BY DEF ScopeNames
<1> DEFINE U == ToSet(PropertyKeys) \cup {Blank}
<1>2. DOMAIN (<<Blank>> \o PropertyKeys) \subseteq Nat
  <2>1. PropertyKeys \in Seq(ToSet(PropertyKeys))
    BY QosAssumption DEF QosAssumption
  <2>2. <<Blank>> \in Seq(U) /\ PropertyKeys \in Seq(U)
    <3> DEFINE K == ToSet(PropertyKeys)
    <3> HIDE DEF K
    <3>1. PropertyKeys \in Seq(K)
      BY <2>1 DEF K
    <3>2. <<Blank>> \in Seq({Blank})
      OBVIOUS
    <3>3. \A V, W, x : x \in Seq(V) /\ V \subseteq W => x \in Seq(W)
      OBVIOUS
    <3>4. U = K \cup {Blank}
      BY DEF K
    <3> HIDE DEF U
    <3>5. K \subseteq U /\ {Blank} \subseteq U
      BY <3>4
    <3> QED
      BY <3>1, <3>2, <3>3, <3>5
  <2> HIDE DEF U
  <2>3. <<Blank>> \o PropertyKeys \in Seq(U)
    BY <2>2, Joined
  <2>4. \A V, x : x \in Seq(V) => DOMAIN x \subseteq Nat
    OBVIOUS
  <2> QED
    BY <2>3, <2>4
<1> QED
  BY <1>1, <1>2, RanksAreNumbers DEF ScopeRank, KeyRank

\* Every property name in use, and the empty one, has its place in the order.
LEMMA KeysRanked ==
  Blank \in DOMAIN KeyRank /\ ToSet(PropertyKeys) \subseteq DOMAIN KeyRank
<1> DEFINE none == <<Blank>>
           all == none \o PropertyKeys
           U == ToSet(PropertyKeys) \cup {Blank}
<1>1. PropertyKeys \in Seq(U)
  <2>1. \A V, W, x : x \in Seq(V) /\ V \subseteq W => x \in Seq(W)
    OBVIOUS
  <2> DEFINE K == ToSet(PropertyKeys)
  <2> HIDE DEF K
  <2>2. PropertyKeys \in Seq(K)
    BY QosAssumption DEF QosAssumption, K
  <2>3. PropertyKeys \in Seq(K \cup {Blank})
    BY <2>1, <2>2
  <2> QED
    BY <2>3 DEF K
<1>2. none \in Seq(U) /\ Len(none) = 1 /\ none[1] = Blank
  <2> HIDE DEF U
  <2>1. Blank \in U
    BY DEF U
  <2> QED
    BY <2>1
<1>3. DOMAIN KeyRank = {all[i] : i \in DOMAIN all}
  BY DEF KeyRank, Ranks
<1> HIDE DEF none, U
<1>4. /\ DOMAIN all = 1 .. Len(none) + Len(PropertyKeys)
      /\ \A i \in 1 .. Len(none) : all[i] = none[i]
      /\ \A i \in 1 .. Len(PropertyKeys) : all[Len(none) + i] = PropertyKeys[i]
  <2> HIDE DEF all
  <2>1. /\ DOMAIN (none \o PropertyKeys) = 1 .. Len(none) + Len(PropertyKeys)
        /\ \A i \in 1 .. Len(none) : (none \o PropertyKeys)[i] = none[i]
        /\ \A i \in 1 .. Len(PropertyKeys) : (none \o PropertyKeys)[Len(none) + i] = PropertyKeys[i]
    <3> DEFINE s == none
               t == PropertyKeys
    <3>1. s \in Seq(U) /\ t \in Seq(U)
      BY <1>1, <1>2
    <3> HIDE DEF s, t
    <3>2. /\ DOMAIN (s \o t) = 1 .. Len(s) + Len(t)
          /\ \A i \in 1 .. Len(s) : (s \o t)[i] = s[i]
          /\ \A i \in 1 .. Len(t) : (s \o t)[Len(s) + i] = t[i]
      BY <3>1, JoinedElements
    <3> QED
      BY <3>2 DEF s, t
  <2> QED
    BY <2>1 DEF all
<1> HIDE DEF all
<1>5. DOMAIN PropertyKeys = 1 .. Len(PropertyKeys) /\ Len(PropertyKeys) \in Nat
  BY <1>1
<1>6. all[1] = Blank /\ 1 \in DOMAIN all
  BY <1>2, <1>4, <1>5
<1>7. ASSUME NEW i \in DOMAIN PropertyKeys PROVE PropertyKeys[i] \in DOMAIN KeyRank
  <2>1. Len(none) + i \in DOMAIN all
    BY <1>2, <1>4, <1>5
  <2> QED
    BY <1>3, <1>4, <1>5, <2>1
<1> QED
  BY <1>3, <1>6, <1>7 DEF ToSet

LEMMA ScopesArePairs ==
  \A s \in Scopes : s[1] \in DOMAIN ScopeRank /\ s[2] \in DOMAIN KeyRank /\ s = <<s[1], s[2]>>
<1> DEFINE A == DOMAIN ScopeRank
           B == DOMAIN KeyRank
<1>1. Scopes = A \X B
  BY DEF Scopes
<1> HIDE DEF A, B
<1>2. \A s \in A \X B : s[1] \in A /\ s[2] \in B /\ s = <<s[1], s[2]>>
  OBVIOUS
<1> QED
  BY <1>1, <1>2 DEF A, B

\* Before is a strict order in which any two scopes are comparable.
LEMMA ScopeOrder ==
  /\ \A s \in Scopes : ~Before(s, s)
  /\ \A r, s, t \in Scopes : Before(r, s) /\ Before(s, t) => Before(r, t)
  /\ \A s, t \in Scopes : s # t => Before(s, t) \/ Before(t, s)
<1>1. \A s \in Scopes : s[1] \in DOMAIN ScopeRank /\ s[2] \in DOMAIN KeyRank /\ s = <<s[1], s[2]>>
  BY ScopesArePairs
<1>2. \A s \in Scopes : ~Before(s, s)
  BY <1>1, Ranked DEF Before
<1>3. \A r, s, t \in Scopes : Before(r, s) /\ Before(s, t) => Before(r, t)
  BY <1>1, Ranked DEF Before
<1>4. ASSUME NEW s \in Scopes, NEW t \in Scopes, s # t PROVE Before(s, t) \/ Before(t, s)
  <2>1. s[1] # t[1] \/ s[2] # t[2]
    BY <1>1, <1>4
  <2>2. CASE s[1] # t[1]
    BY <1>1, <2>2, Ranked DEF Before
  <2>3. CASE s[1] = t[1] /\ s[2] # t[2]
    BY <1>1, <2>3, Ranked DEF Before
  <2> QED
    BY <2>1, <2>2, <2>3
<1> QED
  BY <1>2, <1>3, <1>4

(***************************************************************************)
(* Sequences of policies.                                                  *)
(***************************************************************************)
Good(q) == q \in Seq(ToSet(q)) /\ \A i \in DOMAIN q : q[i].scope \in Scopes
Ordered(q) == \A i, j \in DOMAIN q : i < j => ~Before(q[j].scope, q[i].scope)
Strict(q) == \A i, j \in DOMAIN q : i < j => Before(q[i].scope, q[j].scope)
Distinct(q) == \A i, j \in DOMAIN q : i # j => q[i].scope # q[j].scope

LEMMA Lengths ==
  ASSUME NEW q, Good(q)
  PROVE  DOMAIN q = 1 .. Len(q) /\ Len(q) \in Nat
BY DEF Good

LEMMA GoodSequence ==
  ASSUME NEW U, NEW q \in Seq(U), \A i \in DOMAIN q : q[i].scope \in Scopes
  PROVE  Good(q)
<1>1. DOMAIN q = 1 .. Len(q) /\ Len(q) \in Nat
  OBVIOUS
<1>2. \A i \in 1 .. Len(q) : q[i] \in ToSet(q)
  BY <1>1 DEF ToSet
<1>3. q \in Seq(ToSet(q))
  BY <1>1, <1>2
<1> QED
  BY <1>3 DEF Good

LEMMA GoodWithin ==
  ASSUME NEW U, NEW q, Good(q), ToSet(q) \subseteq U
  PROVE  q \in Seq(U)
BY DEF Good

\* Without two policies of a scope, to be in order is to be strictly so; and it is
\* enough that neighbours differ, which _assert_consistency looks at.
LEMMA StrictOrder ==
  ASSUME NEW q, Good(q)
  PROVE  /\ Strict(q) <=> Ordered(q) /\ Distinct(q)
         /\ Ordered(q) /\ (\A i \in 2 .. Len(q) : q[i - 1].scope # q[i].scope) => Strict(q)
         /\ (\A i \in 2 .. Len(q) : Before(q[i - 1].scope, q[i].scope)) => Strict(q)
<1>0. DOMAIN q = 1 .. Len(q) /\ Len(q) \in Nat /\ \A i \in DOMAIN q : q[i].scope \in Scopes
  BY DEF Good
<1>1. Strict(q) => Ordered(q) /\ Distinct(q)
  <2> SUFFICES ASSUME Strict(q) PROVE Ordered(q) /\ Distinct(q)
    OBVIOUS
  <2>1. ASSUME NEW i \in DOMAIN q, NEW j \in DOMAIN q, i < j
        PROVE  ~Before(q[j].scope, q[i].scope) /\ q[i].scope # q[j].scope
    <3>1. Before(q[i].scope, q[j].scope)
      BY <2>1 DEF Strict
    <3> QED
      BY <1>0, <3>1, ScopeOrder
  <2>2. \A i, j \in DOMAIN q : i # j => i < j \/ j < i
    BY <1>0
  <2> QED
    BY <2>1, <2>2 DEF Ordered, Distinct
<1>2. Ordered(q) /\ Distinct(q) => Strict(q)
  <2> SUFFICES ASSUME Ordered(q), Distinct(q), NEW i \in DOMAIN q, NEW j \in DOMAIN q, i < j
               PROVE  Before(q[i].scope, q[j].scope)
    BY DEF Strict
  <2>1. ~Before(q[j].scope, q[i].scope)
    BY DEF Ordered
  <2>2. q[i].scope # q[j].scope
    BY <1>0 DEF Distinct
  <2> QED
    BY <1>0, <2>1, <2>2, ScopeOrder
<1>3. ASSUME Ordered(q), \A i \in 2 .. Len(q) : q[i - 1].scope # q[i].scope PROVE Strict(q)
  <2> SUFFICES ASSUME NEW i \in DOMAIN q, NEW j \in DOMAIN q, i < j
               PROVE  Before(q[i].scope, q[j].scope)
    BY DEF Strict
  <2>1. i + 1 \in DOMAIN q /\ i + 1 \in 2 .. Len(q) /\ (i + 1) - 1 = i /\ i < i + 1
    BY <1>0
  <2>2. Before(q[i].scope, q[i + 1].scope)
    <3>1. q[i].scope # q[i + 1].scope
      BY <1>3, <2>1
    <3>2. ~Before(q[i + 1].scope, q[i].scope)
      BY <1>3, <2>1 DEF Ordered
    <3> QED
      BY <1>0, <2>1, <3>1, <3>2, ScopeOrder
  <2>3. i + 1 = j \/ ~Before(q[j].scope, q[i + 1].scope)
    <3>1. i + 1 = j \/ i + 1 < j
      BY <1>0
    <3> QED
      BY <1>3, <2>1, <3>1 DEF Ordered
  <2>4. q[j].scope = q[i + 1].scope \/ Before(q[i + 1].scope, q[j].scope)
    BY <1>0, <2>1, <2>3, ScopeOrder
  <2> QED
    BY <1>0, <2>1, <2>2, <2>4, ScopeOrder
<1>4. ASSUME \A i \in 2 .. Len(q) : Before(q[i - 1].scope, q[i].scope) PROVE Strict(q)
  <2> DEFINE T == {j \in 0 .. Len(q) : \A i \in DOMAIN q : i < j => Before(q[i].scope, q[j].scope)}
  <2>1. 0 \in T
    BY <1>0
  <2>2. ASSUME NEW j \in 0 .. Len(q) - 1, j \in T PROVE j + 1 \in T
    <3> SUFFICES ASSUME NEW i \in DOMAIN q, i < j + 1 PROVE Before(q[i].scope, q[j + 1].scope)
      BY <1>0
    <3>1. j + 1 \in 2 .. Len(q) /\ (j + 1) - 1 = j /\ j \in DOMAIN q /\ j + 1 \in DOMAIN q
      BY <1>0
    <3>2. Before(q[j].scope, q[j + 1].scope)
      BY <1>4, <3>1
    <3>3. CASE i = j
      BY <3>2, <3>3
    <3>4. CASE i # j
      <4>1. Before(q[i].scope, q[j].scope)
        BY <1>0, <2>2, <3>4
      <4> QED
        BY <1>0, <3>1, <3>2, <4>1, ScopeOrder
    <3> QED
      BY <3>3, <3>4
  <2>3. 0 .. Len(q) \subseteq T
    <3> HIDE DEF T
    <3> QED
      BY <1>0, <2>1, <2>2, IntervalInduction
  <2> QED
    BY <1>0, <2>3 DEF Strict
<1> QED
  BY <1>1, <1>2, <1>3, <1>4

(***************************************************************************)
(* Choosing and sorting.                                                   *)
(***************************************************************************)
\* r has what q has in some places up to n, in their order: m says where from.
Picks(r, m, q, places, n, U) ==
  /\ r \in Seq(U)
  /\ m \in [1 .. Len(r) -> places \cap (1 .. n)]
  /\ \A i \in 1 .. Len(r) : r[i] = q[m[i]]
  /\ \A i, j \in 1 .. Len(r) : i < j => m[i] < m[j]
  /\ \A k \in places \cap (1 .. n) : \E i \in 1 .. Len(r) : m[i] = k

LEMMA OneMore ==
  ASSUME NEW U, NEW q \in Seq(U), NEW places, NEW n \in 0 .. Len(q) - 1, NEW r, NEW m,
         Picks(r, m, q, places, n, U)
  PROVE  \E k : Picks(r \o (IF n + 1 \in places THEN <<q[n + 1]>> ELSE <<>>), k, q, places, n + 1, U)
<1>0. n \in Nat /\ n + 1 \in 1 .. Len(q) /\ r \in Seq(U) /\ Len(r) \in Nat /\ q[n + 1] \in U
  BY DEF Picks
<1>1. CASE n + 1 \in places
  <2> DEFINE s == r \o <<q[n + 1]>>
             k == [i \in 1 .. Len(r) + 1 |-> IF i <= Len(r) THEN m[i] ELSE n + 1]
  <2>1. /\ s \in Seq(U) /\ Len(s) = Len(r) + 1
        /\ \A i \in 1 .. Len(r) : s[i] = r[i] /\ s[Len(r) + 1] = q[n + 1]
    BY <1>0
  <2>5. s[Len(r) + 1] = q[n + 1]
    BY <1>0
  <2>4. m \in [1 .. Len(r) -> places \cap (1 .. n)]
    BY DEF Picks
  <2>2. /\ \A i \in 1 .. Len(r) : k[i] = m[i] /\ k[i] \in places \cap (1 .. n) /\ i \in 1 .. Len(r) + 1
        /\ k[Len(r) + 1] = n + 1 /\ DOMAIN k = 1 .. Len(r) + 1 /\ Len(r) + 1 \in 1 .. Len(r) + 1
    <3>1. Len(r) + 1 \in 1 .. Len(r) + 1 /\ ~(Len(r) + 1 <= Len(r)) /\ \A i \in 1 .. Len(r) : i <= Len(r) /\ i \in 1 .. Len(r) + 1
      BY <1>0
    <3> QED
      BY <2>4, <3>1
  <2>3. k \in [1 .. Len(r) + 1 -> places \cap (1 .. n + 1)]
    BY <1>0, <1>1 DEF Picks
  <2> HIDE DEF s, k
  <2>6. \A i \in 1 .. Len(r) + 1 : i \in 1 .. Len(r) \/ i = Len(r) + 1
    BY <1>0
  <2>7. \A i \in 1 .. Len(r) + 1 : s[i] = q[k[i]]
    BY <2>1, <2>2, <2>5, <2>6 DEF Picks
  <2>8. ASSUME NEW i \in 1 .. Len(r) + 1, NEW j \in 1 .. Len(r) + 1, i < j
        PROVE  k[i] < k[j]
    <3>1. i \in 1 .. Len(r)
      BY <1>0, <2>8
    <3>2. k[i] = m[i] /\ m[i] \in 1 .. n
      BY <2>2, <3>1
    <3>3. CASE j \in 1 .. Len(r)
      BY <2>2, <2>8, <3>1, <3>2, <3>3 DEF Picks
    <3>4. CASE j = Len(r) + 1
      BY <1>0, <2>2, <3>2, <3>4
    <3> QED
      BY <2>6, <3>3, <3>4
  <2>9. \A x \in places \cap (1 .. n + 1) : \E i \in 1 .. Len(r) + 1 : k[i] = x
    <3>1. \A x \in places \cap (1 .. n + 1) : x \in places \cap (1 .. n) \/ x = n + 1
      BY <1>0
    <3> QED
      BY <2>2, <3>1 DEF Picks
  <2>10. Picks(s, k, q, places, n + 1, U)
    BY <2>1, <2>3, <2>7, <2>8, <2>9 DEF Picks
  <2> QED
    BY <1>1, <2>10 DEF s
<1>2. CASE n + 1 \notin places
  <2>1. places \cap (1 .. n) = places \cap (1 .. n + 1)
    BY <1>0, <1>2
  <2>2. r \o <<>> = r
    BY <1>0
  <2>3. Picks(r, m, q, places, n + 1, U)
    BY <2>1 DEF Picks
  <2> QED
    BY <1>2, <2>2, <2>3
<1> QED
  BY <1>1, <1>2

LEMMA ChosenPicks ==
  ASSUME NEW U, NEW q \in Seq(U), NEW places
  PROVE  \E m : Picks(Chosen(q, places), m, q, places, Len(q), U)
<1> DEFINE N == Len(q)
           part(i) == IF i \in places THEN <<q[i]>> ELSE <<>>
           s == [i \in 1 .. N |-> part(i)]
<1>1. N \in Nat /\ DOMAIN q = 1 .. N /\ \A i \in 1 .. N : q[i] \in U
  OBVIOUS
<1>2. s \in [1 .. N -> Seq(U)]
  <2>1. ASSUME NEW i \in 1 .. N PROVE part(i) \in Seq(U)
    <3>1. <<q[i]>> \in Seq(U)
      BY <1>1
    <3> QED
      BY <3>1, EmptySequence
  <2> QED
    BY <2>1
<1>3. Chosen(q, places) = FlattenSeq(s)
  BY <1>1 DEF Chosen
<1>4. PICK flat : Joins(flat, s, N, U) /\ FlattenSeq(s) = flat[N]
  BY <1>1, <1>2, FlattenSteps
<1> DEFINE T == {n \in 0 .. N : \E m : Picks(flat[n], m, q, places, n, U)}
<1>5. 0 \in T
  <2> DEFINE m == [i \in 1 .. 0 |-> 0]
  <2>1. m \in [1 .. 0 -> places \cap (1 .. 0)]
    OBVIOUS
  <2>2. flat[0] = <<>> /\ <<>> \in Seq(U) /\ Len(<<>>) = 0
    BY <1>4, EmptySequence DEF Joins
  <2> HIDE DEF m
  <2>3. Picks(flat[0], m, q, places, 0, U)
    BY <2>1, <2>2 DEF Picks
  <2> QED
    BY <1>1, <2>3
<1>6. ASSUME NEW n \in 0 .. N - 1, n \in T PROVE n + 1 \in T
  <2>1. PICK m : Picks(flat[n], m, q, places, n, U)
    BY <1>6
  <2>2. n + 1 \in 1 .. N /\ (n + 1) - 1 = n /\ n + 1 \in 0 .. N
    BY <1>1
  <2>3. flat[n + 1] = flat[n] \o s[n + 1]
    BY <1>4, <2>2 DEF Joins
  <2>4. s[n + 1] = IF n + 1 \in places THEN <<q[n + 1]>> ELSE <<>>
    BY <2>2
  <2> HIDE DEF s
  <2>5. \E k : Picks(flat[n + 1], k, q, places, n + 1, U)
    BY <2>1, <2>3, <2>4, OneMore
  <2> QED
    BY <2>2, <2>5
<1>7. 0 .. N \subseteq T
  <2> HIDE DEF T, N
  <2> QED
    BY <1>1, <1>5, <1>6, IntervalInduction
<1>8. N \in T
  BY <1>1, <1>7
<1> QED
  BY <1>3, <1>4, <1>8

\* What Qos objects are narrowed to, or left with, is sorted as they were.
LEMMA ChosenFrom ==
  ASSUME NEW q, Good(q), NEW places
  PROVE  /\ Good(Chosen(q, places))
         /\ Strict(q) => Strict(Chosen(q, places))
         /\ \A x : x \in ToSet(Chosen(q, places)) <=> \E k \in DOMAIN q \cap places : x = q[k]
<1>1. q \in Seq(ToSet(q)) /\ DOMAIN q = 1 .. Len(q) /\ Len(q) \in Nat
  BY DEF Good
<1>2. PICK m : Picks(Chosen(q, places), m, q, places, Len(q), ToSet(q))
  BY <1>1, ChosenPicks
<1> DEFINE r == Chosen(q, places)
<1> HIDE DEF r
<1>3. r \in Seq(ToSet(q)) /\ DOMAIN r = 1 .. Len(r)
  BY <1>2 DEF Picks, r
<1>4. \A i \in DOMAIN r : m[i] \in DOMAIN q \cap places /\ r[i] = q[m[i]]
  BY <1>1, <1>2, <1>3 DEF Picks, r
<1>5. Good(r)
  <2>1. \A i \in DOMAIN r : r[i].scope \in Scopes
    BY <1>4 DEF Good
  <2> QED
    BY <1>3, <2>1, GoodSequence
<1>6. Strict(q) => Strict(r)
  BY <1>2, <1>3, <1>4 DEF Picks, Strict, r
<1>7. ASSUME NEW x PROVE x \in ToSet(r) <=> \E k \in DOMAIN q \cap places : x = q[k]
  <2>2. \A k \in places \cap (1 .. Len(q)) : \E i \in 1 .. Len(r) : m[i] = k
    BY <1>2 DEF Picks, r
  <2>1. \A k \in DOMAIN q \cap places : \E i \in DOMAIN r : r[i] = q[k]
    <3> SUFFICES ASSUME NEW k \in DOMAIN q \cap places PROVE \E i \in DOMAIN r : r[i] = q[k]
      OBVIOUS
    <3>1. PICK i \in 1 .. Len(r) : m[i] = k
      BY <1>1, <2>2
    <3> QED
      BY <1>3, <1>4, <3>1
  <2> QED
    BY <1>4, <2>1 DEF ToSet
<1> QED
  BY <1>5, <1>6, <1>7 DEF r

LEMMA FirstPlace ==
  ASSUME NEW q, Good(q), NEW places \in SUBSET DOMAIN q
  PROVE  /\ First(q, places) \in 1 .. Len(q) + 1
         /\ First(q, places) <= Len(q) => First(q, places) \in places
         /\ \A k \in places : First(q, places) <= k
<1>1. DOMAIN q = 1 .. Len(q) /\ Len(q) \in Nat
  BY Lengths
<1>2. CASE places = {}
  BY <1>1, <1>2 DEF First
<1>3. CASE places # {}
  <2>1. places \in SUBSET Nat
    BY <1>1
  <2>2. \E m \in places : \A k \in places : m <= k
    BY <1>3, <2>1, LeastNumber
  <2>3. Min(places) \in places /\ \A k \in places : Min(places) <= k
    BY <2>2, Zenon DEF Min
  <2>4. First(q, places) = Min(places)
    BY <1>3 DEF First
  <2> QED
    BY <1>1, <2>3, <2>4
<1> QED
  BY <1>2, <1>3

LEMMA InsertedKeeps ==
  ASSUME NEW q, Good(q), NEW p, p.scope \in Scopes
  PROVE  /\ Good(Inserted(q, p))
         /\ Len(Inserted(q, p)) = Len(q) + 1
         /\ ToSet(Inserted(q, p)) = ToSet(q) \cup {p}
         /\ Ordered(q) => Ordered(Inserted(q, p))
         /\ Strict(q) /\ (\A i \in DOMAIN q : q[i].scope # p.scope) => Strict(Inserted(q, p))
<1> DEFINE U == ToSet(q) \cup {p}
           larger == {i \in DOMAIN q : Before(p.scope, q[i].scope)}
           f == First(q, larger)
           r == InsertAt(q, f, p)
<1>1. DOMAIN q = 1 .. Len(q) /\ Len(q) \in Nat /\ \A i \in DOMAIN q : q[i].scope \in Scopes
  BY DEF Good
<1>2. q \in Seq(U) /\ p \in U
  BY GoodWithin
<1>3. /\ f \in 1 .. Len(q) + 1
      /\ f <= Len(q) => f \in larger
      /\ \A k \in larger : f <= k
  BY FirstPlace
<1>4. Inserted(q, p) = r
  BY DEF Inserted
<1>6. f <= Len(q) => Before(p.scope, q[f].scope)
  BY <1>3
<1> HIDE DEF f
<1>5. \A i \in DOMAIN q : i < f => ~Before(p.scope, q[i].scope)
  BY <1>1, <1>3
<1> HIDE DEF U, larger, r
<1>7. /\ r \in Seq(U) /\ Len(r) = Len(q) + 1
      /\ \A i \in 1 .. Len(q) + 1 : r[i] = IF i < f THEN q[i] ELSE IF i = f THEN p ELSE q[i - 1]
  <2>1. f \in 1 .. Len(q) + 1
    BY <1>3
  <2> QED
    BY <1>2, <2>1, InsertAtElements DEF r
<1>8. DOMAIN r = 1 .. Len(q) + 1
  BY <1>7
<1>9. /\ \A i \in DOMAIN r : i < f => i \in DOMAIN q /\ r[i] = q[i]
      /\ f \in DOMAIN r /\ r[f] = p
      /\ \A i \in DOMAIN r : f < i => i - 1 \in DOMAIN q /\ r[i] = q[i - 1]
      /\ \A i \in DOMAIN r : i \in Int
  BY <1>1, <1>3, <1>7, <1>8
<1>10. \A i \in DOMAIN r : i < f \/ i = f \/ f < i
  BY <1>3, <1>9
<1>11. Good(r)
  <2>1. \A i \in DOMAIN r : r[i].scope \in Scopes
    BY <1>1, <1>9, <1>10
  <2> QED
    BY <1>7, <2>1, GoodSequence
<1>12. ToSet(r) = ToSet(q) \cup {p}
  <2>1. ASSUME NEW i \in DOMAIN q PROVE \E j \in DOMAIN r : r[j] = q[i]
    <3>1. CASE i < f
      <4>1. i \in DOMAIN r
        BY <1>1, <1>8
      <4> QED
        BY <1>9, <3>1, <4>1
    <3>2. CASE ~(i < f)
      <4>1. i + 1 \in DOMAIN r /\ f < i + 1 /\ (i + 1) - 1 = i
        BY <1>1, <1>3, <1>8, <3>2
      <4> QED
        BY <1>9, <4>1
    <3> QED
      BY <3>1, <3>2
  <2> QED
    BY <1>9, <1>10, <2>1 DEF ToSet
<1>13. ASSUME Ordered(q) PROVE Ordered(r)
  <2>1. \A i \in DOMAIN q : f <= i => Before(p.scope, q[i].scope) /\ ~Before(q[i].scope, p.scope)
    <3> SUFFICES ASSUME NEW i \in DOMAIN q, f <= i
                 PROVE  Before(p.scope, q[i].scope) /\ ~Before(q[i].scope, p.scope)
      OBVIOUS
    <3>1. f \in DOMAIN q /\ Before(p.scope, q[f].scope)
      BY <1>1, <1>3, <1>6
    <3>2. f = i \/ ~Before(q[i].scope, q[f].scope)
      <4>1. f = i \/ f < i
        BY <1>1, <1>3
      <4> QED
        BY <1>13, <3>1, <4>1 DEF Ordered
    <3>3. q[i].scope = q[f].scope \/ Before(q[f].scope, q[i].scope)
      BY <1>1, <3>1, <3>2, ScopeOrder
    <3>4. Before(p.scope, q[i].scope)
      BY <1>1, <3>1, <3>3, ScopeOrder
    <3> QED
      BY <1>1, <3>4, ScopeOrder
  <2> SUFFICES ASSUME NEW i \in DOMAIN r, NEW j \in DOMAIN r, i < j
               PROVE  ~Before(r[j].scope, r[i].scope)
    BY DEF Ordered
  <2>2. CASE j < f
    <3>1. i < f
      BY <1>3, <1>9, <2>2
    <3> QED
      BY <1>9, <1>13, <2>2, <3>1 DEF Ordered
  <2>3. CASE j = f
    BY <1>5, <1>9, <2>3
  <2>4. CASE f < j /\ i = f
    <3>1. j - 1 \in DOMAIN q /\ f <= j - 1 /\ r[j] = q[j - 1] /\ r[i] = p
      BY <1>3, <1>9, <2>4
    <3> QED
      BY <2>1, <3>1
  <2>5. CASE f < j /\ i < f
    <3>1. j - 1 \in DOMAIN q /\ i < j - 1 /\ r[j] = q[j - 1] /\ i \in DOMAIN q /\ r[i] = q[i]
      BY <1>3, <1>9, <2>5
    <3> QED
      BY <1>13, <3>1 DEF Ordered
  <2>6. CASE f < j /\ f < i
    <3>1. j - 1 \in DOMAIN q /\ i - 1 < j - 1 /\ r[j] = q[j - 1] /\ i - 1 \in DOMAIN q /\ r[i] = q[i - 1]
      BY <1>3, <1>9, <2>6
    <3> QED
      BY <1>13, <3>1 DEF Ordered
  <2> QED
    BY <1>10, <2>2, <2>3, <2>4, <2>5, <2>6
<1>14. ASSUME Strict(q), \A i \in DOMAIN q : q[i].scope # p.scope PROVE Strict(r)
  <2>1. Ordered(q) /\ Distinct(q)
    BY <1>14, StrictOrder
  <2>2. ASSUME NEW i \in DOMAIN r, NEW j \in DOMAIN r, i # j PROVE r[i].scope # r[j].scope
    <3> DEFINE here(k) == IF k < f THEN k ELSE k - 1
    <3>1. \A k \in DOMAIN r : k # f => here(k) \in DOMAIN q /\ r[k] = q[here(k)]
      BY <1>9, <1>10
    <3>2. i # f /\ j # f => here(i) # here(j)
      BY <1>3, <1>9, <2>2
    <3> HIDE DEF here
    <3> QED
      BY <1>9, <1>14, <2>1, <2>2, <3>1, <3>2 DEF Distinct
  <2>3. Distinct(r)
    BY <2>2 DEF Distinct
  <2> QED
    BY <1>11, <1>13, <2>1, <2>3, StrictOrder
<1> QED
  BY <1>4, <1>7, <1>11, <1>12, <1>13, <1>14

\* The steps of sorting: one policy after the other finds its place.
SortSteps(f, ps) ==
  f[0] = <<>> /\ \A n \in 1 .. Len(ps) : f[n] = Inserted(f[n - 1], ps[n])

LEMMA SortedSteps ==
  ASSUME NEW ps, Good(ps)
  PROVE  \E f : SortSteps(f, ps) /\ Sorted(ps) = f[Len(ps)]
<1> DEFINE N == Len(ps)
           X == {q \in Seq(ToSet(ps)) : Good(q)}
           Is(f) == f = [n \in 0 .. N |-> IF n = 0 THEN <<>> ELSE Inserted(f[n - 1], ps[n])]
           sorted == CHOOSE f : Is(f)
<1>1. N \in Nat /\ DOMAIN ps = 1 .. N /\ \A n \in 1 .. N : ps[n].scope \in Scopes /\ ps[n] \in ToSet(ps)
  BY DEF Good, ToSet
<1>2. Sorted(ps) = sorted[N]
  BY DEF Sorted
<1>3. <<>> \in X
  <2>1. <<>> \in Seq(ToSet(ps)) /\ \A i \in DOMAIN <<>> : <<>>[i].scope \in Scopes
    OBVIOUS
  <2> QED
    BY <2>1, GoodSequence
<1>4. \A n \in 1 .. N, q \in X : Inserted(q, ps[n]) \in X
  <2> SUFFICES ASSUME NEW n \in 1 .. N, NEW q \in X PROVE Inserted(q, ps[n]) \in X
    OBVIOUS
  <2>1. Good(Inserted(q, ps[n])) /\ ToSet(Inserted(q, ps[n])) = ToSet(q) \cup {ps[n]}
    BY <1>1, InsertedKeeps
  <2>2. ToSet(q) \subseteq ToSet(ps)
    <3>1. q \in Seq(ToSet(ps))
      OBVIOUS
    <3> DEFINE V == ToSet(ps)
    <3> HIDE DEF V
    <3>2. q \in Seq(V) => \A i \in DOMAIN q : q[i] \in V
      OBVIOUS
    <3> QED
      BY <3>1, <3>2 DEF V, ToSet
  <2>3. ToSet(Inserted(q, ps[n])) \subseteq ToSet(ps)
    BY <1>1, <2>1, <2>2
  <2> QED
    BY <2>1, <2>3, GoodWithin
<1>5. Is(sorted)
  <2> DEFINE step == [a \in (1 .. N) \X X |-> Inserted(a[2], ps[a[1]])]
  <2>1. step \in Steps(N, X)
    BY <1>4 DEF Steps
  <2>2. \A n \in 1 .. N, q \in X : step[<<n, q>>] = Inserted(q, ps[n])
    OBVIOUS
  <2> HIDE DEF step, X
  <2>3. PICK f : Follows(f, step, <<>>, N, X)
    BY <1>1, <1>3, <2>1, StepByStep
  <2>4. /\ f \in [0 .. N -> X]
        /\ f[0] = <<>> /\ \A n \in 1 .. N : f[n] = step[<<n, f[n - 1]>>]
    BY <2>3 DEF Follows
  <2>5. \A n \in 1 .. N : f[n - 1] \in X
    BY <1>1, <2>4
  <2>6. \A n \in 1 .. N : f[n] = Inserted(f[n - 1], ps[n])
    BY <2>2, <2>4, <2>5, Zenon
  <2>7. Is(f)
    BY <1>1, <2>4, <2>6
  <2> QED
    BY <2>7
<1> HIDE DEF sorted
<1>6. SortSteps(sorted, ps)
  <2>1. sorted = [n \in 0 .. N |-> IF n = 0 THEN <<>> ELSE Inserted(sorted[n - 1], ps[n])]
    BY <1>5
  <2>2. 0 \in 0 .. N /\ \A n \in 1 .. N : n \in 0 .. N /\ n # 0
    BY <1>1
  <2> QED
    BY <2>1, <2>2, Zenon DEF SortSteps
<1> QED
  BY <1>2, <1>6

\* Sorting keeps the policies; without two of a scope they end up strictly in order.
LEMMA SortedKeeps ==
  ASSUME NEW ps, Good(ps)
  PROVE  /\ Good(Sorted(ps)) /\ Ordered(Sorted(ps))
         /\ Len(Sorted(ps)) = Len(ps) /\ ToSet(Sorted(ps)) = ToSet(ps)
         /\ Distinct(ps) => Strict(Sorted(ps))
<1>1. Len(ps) \in Nat /\ DOMAIN ps = 1 .. Len(ps) /\ \A n \in DOMAIN ps : ps[n].scope \in Scopes
  BY DEF Good
<1>2. PICK f : SortSteps(f, ps) /\ Sorted(ps) = f[Len(ps)]
  BY SortedSteps
<1> DEFINE upto(n) == {ps[i] : i \in 1 .. n}
           Is(n) == /\ Good(f[n]) /\ Ordered(f[n])
                    /\ Len(f[n]) = n /\ ToSet(f[n]) = upto(n)
                    /\ Distinct(ps) => Strict(f[n])
           T == {n \in 0 .. Len(ps) : Is(n)}
<1>3. 0 \in T
  <2>1. <<>> \in Seq({}) /\ DOMAIN <<>> = {} /\ Len(<<>>) = 0
    OBVIOUS
  <2>2. Good(<<>>)
    BY <2>1, GoodSequence
  <2>3. Ordered(<<>>) /\ Strict(<<>>) /\ ToSet(<<>>) = {} /\ upto(0) = {}
    BY <2>1 DEF Ordered, Strict, ToSet
  <2> QED
    BY <1>1, <1>2, <2>1, <2>2, <2>3 DEF SortSteps
<1>4. ASSUME NEW n \in 0 .. Len(ps) - 1, n \in T PROVE n + 1 \in T
  <2>1. n + 1 \in 1 .. Len(ps) /\ (n + 1) - 1 = n /\ n + 1 \in 0 .. Len(ps) /\ n \in Nat
    BY <1>1
  <2>2. f[n + 1] = Inserted(f[n], ps[n + 1]) /\ ps[n + 1].scope \in Scopes
    BY <1>1, <1>2, <2>1 DEF SortSteps
  <2>3. upto(n + 1) = upto(n) \cup {ps[n + 1]}
    BY <2>1
  <2>4. Distinct(ps) => \A i \in DOMAIN f[n] : f[n][i].scope # ps[n + 1].scope
    <3> SUFFICES ASSUME Distinct(ps), NEW i \in DOMAIN f[n] PROVE f[n][i].scope # ps[n + 1].scope
      OBVIOUS
    <3>1. f[n][i] \in ToSet(f[n])
      BY DEF ToSet
    <3>2. PICK k \in 1 .. n : f[n][i] = ps[k]
      BY <1>4, <3>1
    <3>3. k \in DOMAIN ps /\ n + 1 \in DOMAIN ps /\ k # n + 1
      BY <1>1, <2>1
    <3> QED
      BY <3>2, <3>3 DEF Distinct
  <2>5. Good(f[n]) /\ Ordered(f[n]) /\ Len(f[n]) = n /\ ToSet(f[n]) = upto(n)
    BY <1>4
  <2>6. Distinct(ps) => Strict(f[n])
    BY <1>4
  <2> HIDE DEF upto
  <2>7. /\ Good(f[n + 1]) /\ Ordered(f[n + 1]) /\ Len(f[n + 1]) = n + 1
        /\ ToSet(f[n + 1]) = upto(n + 1)
        /\ Distinct(ps) => Strict(f[n + 1])
    BY <2>2, <2>3, <2>4, <2>5, <2>6, InsertedKeeps
  <2> QED
    BY <2>1, <2>7
<1>5. Len(ps) \in T
  <2> HIDE DEF T
  <2>1. 0 .. Len(ps) \subseteq T
    BY <1>1, <1>3, <1>4, IntervalInduction
  <2> QED
    BY <1>1, <2>1
<1>6. upto(Len(ps)) = ToSet(ps)
  BY <1>1 DEF ToSet
<1> QED
  BY <1>2, <1>5, <1>6

LEMMA JoinedKeeps ==
  ASSUME NEW a, NEW b, Good(a), Good(b)
  PROVE  /\ Good(a \o b)
         /\ ToSet(a \o b) = ToSet(a) \cup ToSet(b)
         /\ \A i \in DOMAIN (a \o b) : \/ \E j \in DOMAIN a : (a \o b)[i] = a[j]
                                       \/ \E j \in DOMAIN b : (a \o b)[i] = b[j]
         /\ /\ Distinct(a) /\ Distinct(b)
            /\ \A i \in DOMAIN a, j \in DOMAIN b : a[i].scope # b[j].scope
            => Distinct(a \o b)
<1> DEFINE U == ToSet(a) \cup ToSet(b)
           r == a \o b
<1>1. /\ DOMAIN a = 1 .. Len(a) /\ Len(a) \in Nat /\ DOMAIN b = 1 .. Len(b) /\ Len(b) \in Nat
      /\ a \in Seq(U) /\ b \in Seq(U)
  BY Lengths, GoodWithin
<1> HIDE DEF U
<1>2. r \in Seq(U) /\ Len(r) = Len(a) + Len(b)
  BY <1>1, Joined
<1>3. /\ \A i \in 1 .. Len(a) : r[i] = a[i]
      /\ \A i \in 1 .. Len(b) : r[Len(a) + i] = b[i]
  BY <1>1
<1>4. DOMAIN r = 1 .. Len(a) + Len(b)
  BY <1>2
<1> HIDE DEF r
<1>5. ASSUME NEW i \in DOMAIN r
      PROVE  \/ i \in DOMAIN a /\ r[i] = a[i]
             \/ i - Len(a) \in DOMAIN b /\ r[i] = b[i - Len(a)]
  <2>1. i \in 1 .. Len(a) \/ (i - Len(a) \in 1 .. Len(b) /\ Len(a) + (i - Len(a)) = i)
    BY <1>1, <1>4
  <2> QED
    BY <1>1, <1>3, <2>1
<1>6. /\ \A i \in DOMAIN a : i \in DOMAIN r /\ r[i] = a[i]
      /\ \A i \in DOMAIN b : Len(a) + i \in DOMAIN r /\ r[Len(a) + i] = b[i]
  BY <1>1, <1>3, <1>4
<1>7. Good(r)
  <2>1. \A i \in DOMAIN r : r[i].scope \in Scopes
    BY <1>5 DEF Good
  <2> QED
    BY <1>2, <2>1, GoodSequence
<1>8. ToSet(r) = ToSet(a) \cup ToSet(b)
  BY <1>5, <1>6 DEF ToSet
<1>9. ASSUME Distinct(a), Distinct(b), \A i \in DOMAIN a, j \in DOMAIN b : a[i].scope # b[j].scope
      PROVE  Distinct(r)
  <2> SUFFICES ASSUME NEW i \in DOMAIN r, NEW j \in DOMAIN r, i # j PROVE r[i].scope # r[j].scope
    BY DEF Distinct
  <2>1. i - Len(a) # j - Len(a)
    BY <1>1, <1>4
  <2> QED
    BY <1>5, <1>9, <2>1 DEF Distinct
<1> QED
  BY <1>5, <1>7, <1>8, <1>9 DEF r

LEMMA WithBaseKeeps ==
  ASSUME NEW ps, NEW base, Good(ps), Good(base)
  PROVE  /\ Good(WithBase(ps, base))
         /\ Strict(ps) /\ Strict(base) => Distinct(WithBase(ps, base))
         /\ \A x : x \in ToSet(WithBase(ps, base)) <=>
              \/ x \in ToSet(ps)
              \/ x \in ToSet(base) /\ \A i \in DOMAIN ps : ps[i].scope # x.scope
<1> DEFINE places == {j \in DOMAIN base : \A i \in DOMAIN ps : ps[i].scope # base[j].scope}
           rest == Chosen(base, places)
<1>1. WithBase(ps, base) = ps \o rest
  BY DEF WithBase
<1>2. /\ Good(rest)
      /\ Strict(base) => Strict(rest)
      /\ \A x : x \in ToSet(rest) <=> \E k \in DOMAIN base \cap places : x = base[k]
  <2> HIDE DEF places
  <2> QED
    BY ChosenFrom
<1> HIDE DEF rest
<1>3. \A x : x \in ToSet(rest) <=> x \in ToSet(base) /\ \A i \in DOMAIN ps : ps[i].scope # x.scope
  BY <1>2 DEF ToSet
<1>4. Strict(base) => Distinct(rest)
  BY <1>2, StrictOrder
<1>5. \A i \in DOMAIN ps, j \in DOMAIN rest : ps[i].scope # rest[j].scope
  BY <1>3 DEF ToSet
<1>6. Strict(ps) => Distinct(ps)
  BY StrictOrder
<1>7. /\ Good(ps \o rest) /\ ToSet(ps \o rest) = ToSet(ps) \cup ToSet(rest)
      /\ Distinct(ps) /\ Distinct(rest) => Distinct(ps \o rest)
  BY <1>2, <1>5, JoinedKeeps
<1> QED
  BY <1>1, <1>3, <1>4, <1>6, <1>7

(***************************************************************************)
(* What the getters of get_qos find.                                       *)
(***************************************************************************)
\* Every scope name is known, and no getter is called twice.
LEMMA ScopesKnown ==
  /\ DOMAIN AllScopes = 1 .. Len(AllScopes) /\ Len(AllScopes) = 27
  /\ \A j \in DOMAIN AllScopes : AllScopes[j] \in DOMAIN ScopeRank
  /\ \A i, j \in DOMAIN AllScopes : AllScopes[i] = AllScopes[j] => i = j
<1>1. Len(AllScopes) = 27 /\ DOMAIN AllScopes = 1 .. 27
  BY DEF AllScopes
<1>2. DOMAIN ScopeRank = {ScopeNames[i] : i \in 1 .. 27}
  BY DEF ScopeRank, Ranks, ScopeNames
<1>3. \A j \in 1 .. 27 : AllScopes[j] \in {ScopeNames[i] : i \in 1 .. 27}
  BY DEF AllScopes, ScopeNames
<1>4. \A i, j \in 1 .. 27 : AllScopes[i] = AllScopes[j] => i = j
  BY DEF AllScopes
<1> QED
  BY <1>1, <1>2, <1>3, <1>4

LEMMA NextScopeFollows ==
  ASSUME NEW c, NEW i \in 1 .. Len(AllScopes) + 1
  PROVE  NextScope(c, i) \in i .. Len(AllScopes) + 1
<1> DEFINE answered == {j \in i .. Len(AllScopes) : Answers(c, AllScopes[j])}
<1>1. Len(AllScopes) = 27
  BY ScopesKnown
<1>2. CASE answered = {}
  <2>1. NextScope(c, i) = Len(AllScopes) + 1
    BY <1>2 DEF NextScope
  <2> QED
    BY <1>1, <2>1
<1>3. CASE answered # {}
  <2>1. answered \in SUBSET Nat
    BY <1>1
  <2>2. \E m \in answered : \A k \in answered : m <= k
    BY <1>3, <2>1, LeastNumber
  <2>3. Min(answered) \in answered
    BY <2>2, Zenon DEF Min
  <2>4. NextScope(c, i) = Min(answered)
    BY <1>3 DEF NextScope
  <2> QED
    BY <1>1, <2>3, <2>4
<1> QED
  BY <1>2, <1>3

\* What a getter finds: nothing, or one policy of the scope.
OneOf(r, s) == r = <<>> \/ (r = <<r[1]>> /\ r[1].scope = <<s, Blank>>)

LEMMA OnePolicy ==
  ASSUME NEW s, NEW kind, NEW args
  PROVE  OneOf(<<Policy(s, kind, args)>>, s)
BY DEF OneOf, Policy

LEMMA GettersFind ==
  ASSUME NEW c
  PROVE  /\ OneOf(GetReliability(c), "Reliability") /\ OneOf(GetDurability(c), "Durability")
         /\ OneOf(GetHistory(c), "History") /\ OneOf(GetResourceLimits(c), "ResourceLimits")
         /\ OneOf(GetPresentation(c), "PresentationAccessScope") /\ OneOf(GetLifespan(c), "Lifespan")
         /\ OneOf(GetDeadline(c), "Deadline") /\ OneOf(GetLatencyBudget(c), "LatencyBudget")
         /\ OneOf(GetOwnership(c), "Ownership")
         /\ OneOf(GetOwnershipStrength(c), "OwnershipStrength")
         /\ OneOf(GetLiveliness(c), "Liveliness") /\ OneOf(GetTimeBasedFilter(c), "TimeBasedFilter")
         /\ OneOf(GetPartition(c), "Partition")
         /\ OneOf(GetTransportPriority(c), "TransportPriority")
         /\ OneOf(GetDestinationOrder(c), "DestinationOrder")
         /\ OneOf(GetWriterDataLifecycle(c), "WriterDataLifecycle")
         /\ OneOf(GetReaderDataLifecycle(c), "ReaderDataLifecycle")
         /\ OneOf(GetDurabilityService(c), "DurabilityService")
         /\ OneOf(GetIgnoreLocal(c), "IgnoreLocal") /\ OneOf(GetUserdata(c), "Userdata")
         /\ OneOf(GetGroupdata(c), "Groupdata") /\ OneOf(GetTopicdata(c), "Topicdata")
         /\ OneOf(GetTypeConsistency(c), "TypeConsistency")
         /\ OneOf(GetDataRepresentation(c), "DataRepresentation")
         /\ OneOf(GetEntityName(c), "EntityName")
<1>1. /\ OneOf(GetReliability(c), "Reliability") /\ OneOf(GetHistory(c), "History")
      /\ OneOf(GetTypeConsistency(c), "TypeConsistency")
  BY OnePolicy DEF GetReliability, GetHistory, GetTypeConsistency
<1>2. /\ OneOf(GetDurability(c), "Durability") /\ OneOf(GetPresentation(c), "PresentationAccessScope")
      /\ OneOf(GetLiveliness(c), "Liveliness") /\ OneOf(GetIgnoreLocal(c), "IgnoreLocal")
      /\ OneOf(GetDurabilityService(c), "DurabilityService")
      /\ OneOf(GetDataRepresentation(c), "DataRepresentation")
      /\ OneOf(GetOwnership(c), "Ownership") /\ OneOf(GetDestinationOrder(c), "DestinationOrder")
  BY OnePolicy DEF GetDurability, GetPresentation, GetLiveliness, GetIgnoreLocal,
                   GetDurabilityService, GetDataRepresentation, GetOwnership, GetDestinationOrder
<1>3. /\ OneOf(GetResourceLimits(c), "ResourceLimits") /\ OneOf(GetLifespan(c), "Lifespan")
      /\ OneOf(GetDeadline(c), "Deadline") /\ OneOf(GetLatencyBudget(c), "LatencyBudget")
      /\ OneOf(GetOwnershipStrength(c), "OwnershipStrength")
      /\ OneOf(GetTimeBasedFilter(c), "TimeBasedFilter")
      /\ OneOf(GetTransportPriority(c), "TransportPriority")
      /\ OneOf(GetWriterDataLifecycle(c), "WriterDataLifecycle")
      /\ OneOf(GetReaderDataLifecycle(c), "ReaderDataLifecycle")
      /\ OneOf(GetEntityName(c), "EntityName")
  BY OnePolicy DEF GetResourceLimits, GetLifespan, GetDeadline, GetLatencyBudget,
                   GetOwnershipStrength, GetTimeBasedFilter, GetTransportPriority,
                   GetWriterDataLifecycle, GetReaderDataLifecycle, GetEntityName
<1>4. \A s : OneOf(<<>>, s)
  BY DEF OneOf
<1>5. /\ OneOf(GetPartition(c), "Partition") /\ OneOf(GetUserdata(c), "Userdata")
      /\ OneOf(GetGroupdata(c), "Groupdata") /\ OneOf(GetTopicdata(c), "Topicdata")
  BY <1>4, OnePolicy DEF GetPartition, GetUserdata, GetGroupdata, GetTopicdata
<1> QED
  BY <1>1, <1>2, <1>3, <1>5

LEMMA FromCFinds ==
  ASSUME NEW j \in DOMAIN AllScopes, AllScopes[j] \notin PropertyScopes, NEW c
  PROVE  OneOf(FromC(AllScopes[j], c), AllScopes[j])
<1> DEFINE s == AllScopes[j]
<1>1. s \in {AllScopes[k] : k \in 1 .. 27} \ PropertyScopes
  BY ScopesKnown
<1>2. {AllScopes[k] : k \in 1 .. 27} \ PropertyScopes \subseteq
        {"Reliability", "Durability", "History", "ResourceLimits", "PresentationAccessScope",
         "Lifespan", "Deadline", "LatencyBudget", "Ownership", "OwnershipStrength",
         "Liveliness", "TimeBasedFilter", "Partition", "TransportPriority",
         "DestinationOrder", "WriterDataLifecycle", "ReaderDataLifecycle",
         "DurabilityService", "IgnoreLocal", "Userdata", "Groupdata", "Topicdata",
         "TypeConsistency", "DataRepresentation", "EntityName"}
  BY DEF AllScopes, PropertyScopes
<1> HIDE DEF s
<1> QED
  BY <1>1, <1>2, GettersFind DEF FromC, s

\* Policies read by the getters of some scope names.
ReadOf(r, names) ==
  Good(r) /\ Distinct(r) /\ \A i \in DOMAIN r : r[i].scope[1] \in names

LEMMA NoneOrOne ==
  ASSUME NEW s \in DOMAIN ScopeRank, NEW r, OneOf(r, s)
  PROVE  ReadOf(r, {s})
<1>1. <<s, Blank>> \in Scopes
  <2>2. Blank \in DOMAIN KeyRank
    BY KeysRanked
  <2> DEFINE A == DOMAIN ScopeRank
             B == DOMAIN KeyRank
  <2>3. s \in A /\ Blank \in B
    BY <2>2
  <2> HIDE DEF A, B
  <2>4. <<s, Blank>> \in A \X B
    BY <2>3
  <2> QED
    BY <2>4 DEF Scopes, A, B
<1>2. CASE r = <<>>
  <2>1. r \in Seq({}) /\ DOMAIN r = {}
    BY <1>2
  <2> QED
    BY <2>1, GoodSequence DEF ReadOf, Distinct
<1>3. CASE r = <<r[1]>> /\ r[1].scope = <<s, Blank>>
  <2> DEFINE p == r[1]
  <2>1. r = <<p>> /\ p.scope = <<s, Blank>>
    BY <1>3
  <2> HIDE DEF p
  <2>2. <<p>> \in Seq({p}) /\ DOMAIN <<p>> = {1} /\ <<p>>[1] = p
    OBVIOUS
  <2>3. r \in Seq({p}) /\ DOMAIN r = {1} /\ r[1] = p
    BY <2>1, <2>2
  <2>4. p.scope \in Scopes /\ p.scope[1] = s
    <3>1. <<s, Blank>>[1] = s
      OBVIOUS
    <3> QED
      BY <1>1, <2>1, <3>1
  <2>5. Good(r)
    BY <2>3, <2>4, GoodSequence
  <2> QED
    BY <2>3, <2>4, <2>5 DEF ReadOf, Distinct
<1> QED
  BY <1>2, <1>3 DEF OneOf

\* The property getters find each name once.
LEMMA PropertiesFind ==
  ASSUME NEW s \in PropertyScopes, NEW c
  PROVE  ReadOf(Properties(s, c), {s})
<1> DEFINE K == ToSet(PropertyKeys)
           places == {i \in DOMAIN PropertyKeys : <<s, PropertyKeys[i]>> \in DOMAIN c}
           keys == Chosen(PropertyKeys, places)
           get(k) == IF s = "Property" THEN GetProperty(k, c[<<s, k>>])
                                       ELSE GetBinaryProperty(k, c[<<s, k>>])
           r == [i \in DOMAIN keys |-> get(keys[i])]
<1>1. PropertyKeys \in Seq(K) /\ IsInjective(PropertyKeys)
  BY QosAssumption DEF QosAssumption
<1>2. Properties(s, c) = r
  BY DEF Properties
<1> HIDE DEF K, places
<1>3. PICK m : Picks(keys, m, PropertyKeys, places, Len(PropertyKeys), K)
  BY <1>1, ChosenPicks
<1> HIDE DEF keys
<1>4. /\ keys \in Seq(K) /\ DOMAIN keys = 1 .. Len(keys) /\ Len(keys) \in Nat
      /\ \A i \in 1 .. Len(keys) : m[i] \in 1 .. Len(PropertyKeys) /\ keys[i] = PropertyKeys[m[i]]
      /\ \A i, j \in 1 .. Len(keys) : i < j => m[i] < m[j]
  BY <1>3 DEF Picks
<1>5. \A i \in DOMAIN keys : keys[i] \in K
  BY <1>4
<1>6. \A i, j \in DOMAIN keys : i # j => keys[i] # keys[j]
  <2>1. \A i, j \in 1 .. Len(PropertyKeys) : i # j => PropertyKeys[i] # PropertyKeys[j]
    <3>1. DOMAIN PropertyKeys = 1 .. Len(PropertyKeys)
      BY <1>1
    <3> QED
      BY <1>1, <3>1 DEF IsInjective
  <2> SUFFICES ASSUME NEW i \in DOMAIN keys, NEW j \in DOMAIN keys, i # j PROVE keys[i] # keys[j]
    OBVIOUS
  <2>2. i < j \/ j < i
    BY <1>4
  <2>3. m[i] # m[j]
    BY <1>4, <2>2
  <2> QED
    BY <1>4, <2>1, <2>3
<1>7. \A k : get(k).scope = <<s, k>>
  BY DEF GetProperty, GetBinaryProperty, PropertyScopes
<1>8. \A k \in K : <<s, k>> \in Scopes
  <2>1. s \in DOMAIN ScopeRank
    <3>1. s \in {AllScopes[j] : j \in 1 .. 27}
      BY DEF PropertyScopes, AllScopes
    <3> QED
      BY <3>1, ScopesKnown
  <2>2. K \subseteq DOMAIN KeyRank
    BY KeysRanked DEF K
  <2> DEFINE A == DOMAIN ScopeRank
             B == DOMAIN KeyRank
  <2>3. s \in A /\ K \subseteq B
    BY <2>1, <2>2
  <2> HIDE DEF A, B
  <2>4. \A k \in K : <<s, k>> \in A \X B
    BY <2>3
  <2> QED
    BY <2>4 DEF Scopes, A, B
<1> HIDE DEF get
<1>9. DOMAIN r = 1 .. Len(keys) /\ \A i \in DOMAIN keys : r[i].scope = <<s, keys[i]>> /\ r[i] \in {get(k) : k \in K}
  BY <1>4, <1>5, <1>7
<1>10. r \in Seq({get(k) : k \in K})
  <2> DEFINE G == {get(k) : k \in K}
  <2>1. \A i \in 1 .. Len(keys) : get(keys[i]) \in G
    BY <1>4, <1>5
  <2> HIDE DEF G
  <2>2. r = [i \in 1 .. Len(keys) |-> get(keys[i])]
    BY <1>4
  <2>3. [i \in 1 .. Len(keys) |-> get(keys[i])] \in Seq(G)
    BY <1>4, <2>1
  <2> QED
    BY <2>2, <2>3 DEF G
<1> HIDE DEF r
<1>11. \A i \in DOMAIN r : i \in DOMAIN keys /\ r[i].scope = <<s, keys[i]>> /\ r[i].scope \in Scopes
  BY <1>4, <1>5, <1>8, <1>9
<1>12. Good(r)
  BY <1>10, <1>11, GoodSequence
<1>13. Distinct(r)
  BY <1>6, <1>11 DEF Distinct
<1>14. \A i \in DOMAIN r : r[i].scope[1] \in {s}
  BY <1>11
<1> QED
  BY <1>2, <1>12, <1>13, <1>14 DEF ReadOf

\* What is found next has none of the scopes found before.
LEMMA FoundMore ==
  ASSUME NEW a, NEW b, NEW before, NEW s, ReadOf(a, before), ReadOf(b, {s}), s \notin before
  PROVE  ReadOf(a \o b, before \cup {s})
<1>1. \A i \in DOMAIN a, j \in DOMAIN b : a[i].scope # b[j].scope
  BY DEF ReadOf
<1>2. Good(a \o b) /\ Distinct(a \o b)
  BY <1>1, JoinedKeeps DEF ReadOf
<1>3. ToSet(a \o b) = ToSet(a) \cup ToSet(b)
  <2>1. Good(a) /\ Good(b)
    BY DEF ReadOf
  <2> QED
    BY <2>1, JoinedKeeps
<1> DEFINE r == a \o b
<1> HIDE DEF r
<1>4. \A i \in DOMAIN r : r[i].scope[1] \in before \cup {s}
  <2>1. \A x \in ToSet(a) \cup ToSet(b) : x.scope[1] \in before \cup {s}
    BY DEF ReadOf, ToSet
  <2>2. \A i \in DOMAIN r : r[i] \in ToSet(r)
    BY DEF ToSet
  <2> QED
    BY <1>3, <2>1, <2>2 DEF r
<1> QED
  BY <1>2, <1>4 DEF ReadOf, r

(***************************************************************************)
(* Every Qos object is sorted, with one policy of a scope, and so is what  *)
(* is made of what a get_qos has read: the getters come in the order of    *)
(* AllScopes, so that none reads a scope that was read before.             *)
(***************************************************************************)
ReadBefore(a) == {AllScopes[j] : j \in 1 .. a - 1}

Sound(q) == Good(q) /\ Strict(q)

Reading(p, a, r) ==
  /\ a \in 0 .. Len(AllScopes) + 1
  /\ ReadOf(r, ReadBefore(a))
  /\ p \in {"calling", "reading"} => a # 0
  /\ p = "reading" => a \in DOMAIN AllScopes /\ AllScopes[a] \notin OwnVariables

HeldSound == \A t \in Threads : Sound(held[t].policies)

FoundSound == \A t \in Threads : Reading(pc[t], at[t], found[t])

QosInv ==
  /\ DOMAIN held = Threads /\ DOMAIN found = Threads /\ DOMAIN at = Threads /\ DOMAIN pc = Threads
  /\ HeldSound
  /\ FoundSound

LEMMA EmptyIsSound == Sound(<<>>) /\ \A names : ReadOf(<<>>, names)
<1>1. <<>> \in Seq({}) /\ DOMAIN <<>> = {}
  OBVIOUS
<1>2. Good(<<>>)
  BY <1>1, GoodSequence
<1> QED
  BY <1>1, <1>2 DEF Sound, Strict, ReadOf, Distinct

LEMMA LiteralsAreSound ==
  ASSUME NEW l \in Literals
  PROVE  Sound(l)
<1>1. IsQos("Qos", l)
  BY QosAssumption DEF QosAssumption
<1>2. Good(l) /\ \A i \in 2 .. Len(l) : Before(l[i - 1].scope, l[i].scope)
  BY <1>1 DEF IsQos, Good
<1> QED
  BY <1>2, StrictOrder DEF Sound

LEMMA OperandsAreSound ==
  ASSUME QosInv, NEW t \in Threads, NEW q \in Operands(t)
  PROVE  Sound(q)
BY EmptyIsSound, LiteralsAreSound DEF QosInv, HeldSound, Operands

\* A step of one thread leaves what the others have.
LEMMA OneThread ==
  ASSUME QosInv, NEW t \in Threads,
         DOMAIN held' = Threads, DOMAIN found' = Threads, DOMAIN at' = Threads, DOMAIN pc' = Threads,
         \A u \in Threads \ {t} : held'[u] = held[u] /\ found'[u] = found[u] /\ at'[u] = at[u]
                                  /\ pc'[u] = pc[u],
         Sound(held'[t].policies), Reading(pc'[t], at'[t], found'[t])
  PROVE  QosInv'
<1>1. \A u \in Threads : Sound(held'[u].policies)
  BY DEF QosInv, HeldSound
<1>2. \A u \in Threads : Reading(pc'[u], at'[u], found'[u])
  BY DEF QosInv, FoundSound
<1> QED
  BY <1>1, <1>2 DEF QosInv, HeldSound, FoundSound

LEMMA ResultKeeps ==
  ASSUME QosInv, NEW t \in Threads, NEW class, NEW ps, Result(t, class, ps), Sound(ps)
  PROVE  QosInv'
<1>1. held' = [held EXCEPT ![t] = [class |-> class, policies |-> ps]]
      /\ found' = found /\ at' = at /\ pc' = pc
  BY DEF Result
<1>2. DOMAIN held' = Threads /\ held'[t].policies = ps /\ \A u \in Threads \ {t} : held'[u] = held[u]
  BY <1>1 DEF QosInv
<1>3. Reading(pc'[t], at'[t], found'[t])
  BY <1>1 DEF QosInv, FoundSound
<1> QED
  BY <1>1, <1>2, <1>3, OneThread DEF QosInv

LEMMA OperationsKeep ==
  ASSUME QosInv, NEW t \in Threads
  PROVE  /\ \A l \in Literals, base \in Operands(t) : Construct(t, l, base) => QosInv'
         /\ \A l \in Literals, q \in Operands(t) : Subtract(t, q, l) => QosInv'
         /\ \A q \in Operands(t), class \in Classes : Narrow(t, q, class) => QosInv'
<1>1. ASSUME NEW l \in Literals, NEW base \in Operands(t), Construct(t, l, base) PROVE QosInv'
  <2> DEFINE ps == Sorted(WithBase(l, base))
  <2>1. PICK class \in Classes : Consistent(class, ps) /\ Result(t, class, ps)
    BY <1>1 DEF Construct
  <2>2. Good(WithBase(l, base))
    BY LiteralsAreSound, OperandsAreSound, WithBaseKeeps DEF Sound
  <2>3. Good(ps) /\ Ordered(ps)
    BY <2>2, SortedKeeps
  <2> HIDE DEF ps
  <2>4. \A i \in 2 .. Len(ps) : ps[i - 1].scope # ps[i].scope
    BY <2>1 DEF Consistent
  <2>5. Sound(ps)
    BY <2>3, <2>4, StrictOrder DEF Sound
  <2> QED
    BY <2>1, <2>5, ResultKeeps
<1>2. ASSUME NEW l \in Literals, NEW q \in Operands(t), Subtract(t, q, l) PROVE QosInv'
  <2>1. Sound(Minus(q, l))
    BY OperandsAreSound, ChosenFrom DEF Sound, Minus
  <2> QED
    BY <1>2, <2>1, ResultKeeps DEF Subtract
<1>3. ASSUME NEW q \in Operands(t), NEW class \in Classes, Narrow(t, q, class) PROVE QosInv'
  <2>1. Sound(Narrowed(class, q))
    BY OperandsAreSound, ChosenFrom DEF Sound, Narrowed
  <2> QED
    BY <1>3, <2>1, ResultKeeps DEF Narrow
<1> QED
  BY <1>1, <1>2, <1>3

LEMMA MovingKeeps ==
  ASSUME QosInv, NEW t \in Threads, NEW c,
         held' = held, found' = found, at' = at, pc' = [pc EXCEPT ![t] = c],
         c \notin {"calling", "reading"}
  PROVE  QosInv'
<1>1. DOMAIN pc' = Threads /\ pc'[t] = c /\ \A u \in Threads \ {t} : pc'[u] = pc[u]
  BY DEF QosInv
<1>2. Reading(pc'[t], at'[t], found'[t])
  BY <1>1 DEF QosInv, FoundSound, Reading
<1>3. Sound(held'[t].policies)
  BY DEF QosInv, HeldSound
<1> QED
  BY <1>1, <1>2, <1>3, OneThread DEF QosInv

LEMMA CallsKeep ==
  ASSUME QosInv, NEW t \in Threads
  PROVE  /\ \A e \in Entities : StartCreate(t, e) \/ StartSet(t, e) => QosInv'
         /\ Create(t) \/ Set(t) => QosInv'
         /\ \A e \in Places : StartGet(t, e) => QosInv'
<1>1. ASSUME NEW e \in Entities, StartCreate(t, e) PROVE QosInv'
  <2>1. UNCHANGED <<held, found, at>> /\ pc' = [pc EXCEPT ![t] = "creating"]
    BY <1>1 DEF StartCreate
  <2> QED
    BY <2>1, MovingKeeps
<1>2. ASSUME NEW e \in Entities, StartSet(t, e) PROVE QosInv'
  <2>1. UNCHANGED <<held, found, at>> /\ pc' = [pc EXCEPT ![t] = "setting"]
    BY <1>2 DEF StartSet
  <2> QED
    BY <2>1, MovingKeeps
<1>3. ASSUME Create(t) PROVE QosInv'
  <2>1. UNCHANGED <<held, found, at>> /\ pc' = [pc EXCEPT ![t] = "idle"]
    BY <1>3 DEF Create, Done
  <2> QED
    BY <2>1, MovingKeeps
<1>4. ASSUME Set(t) PROVE QosInv'
  <2>1. UNCHANGED <<held, found, at>> /\ pc' = [pc EXCEPT ![t] = "idle"]
    BY <1>4 DEF Set, Done
  <2> QED
    BY <2>1, MovingKeeps
<1>5. ASSUME NEW e \in Places, StartGet(t, e) PROVE QosInv'
  <2>1. UNCHANGED <<held, found, at>> /\ pc' = [pc EXCEPT ![t] = "fetching"]
    BY <1>5 DEF StartGet
  <2> QED
    BY <2>1, MovingKeeps
<1> QED
  BY <1>1, <1>2, <1>3, <1>4, <1>5

LEMMA FetchKeeps ==
  ASSUME QosInv, NEW t \in Threads, Fetch(t)
  PROVE  QosInv'
<1> DEFINE n == NextScope(native[place[t]], 1)
<1>1. n \in 1 .. Len(AllScopes) + 1 /\ Len(AllScopes) = 27
  <2>1. Len(AllScopes) = 27
    BY ScopesKnown
  <2>2. 1 \in 1 .. Len(AllScopes) + 1
    BY <2>1
  <2> QED
    BY <2>1, <2>2, NextScopeFollows
<1>2. /\ held' = held /\ pc' = [pc EXCEPT ![t] = "calling"] /\ at' = [at EXCEPT ![t] = n]
      /\ found' = [found EXCEPT ![t] = <<>>]
  BY DEF Fetch
<1> HIDE DEF n
<1>3. Reading("calling", n, <<>>)
  BY <1>1, EmptyIsSound DEF Reading
<1>4. /\ DOMAIN pc' = Threads /\ DOMAIN at' = Threads /\ DOMAIN found' = Threads
      /\ pc'[t] = "calling" /\ at'[t] = n /\ found'[t] = <<>>
      /\ \A u \in Threads \ {t} : found'[u] = found[u] /\ at'[u] = at[u] /\ pc'[u] = pc[u]
  BY <1>2 DEF QosInv
<1>5. Sound(held'[t].policies)
  BY <1>2 DEF QosInv, HeldSound
<1> QED
  BY <1>2, <1>3, <1>4, <1>5, OneThread DEF QosInv

\* One getter after the other.
LEMMA NextReading ==
  ASSUME NEW a \in DOMAIN AllScopes, NEW r, NEW p, NEW c, NEW x,
         Reading(p, a, r), ReadOf(x, {AllScopes[a]})
  PROVE  Reading("calling", NextScope(c, a + 1), r \o x)
<1> DEFINE s == AllScopes[a]
           n == NextScope(c, a + 1)
<1>1. a \in 1 .. 27 /\ Len(AllScopes) = 27 /\ DOMAIN AllScopes = 1 .. 27
  BY ScopesKnown
<1>2. n \in a + 1 .. 28
  <2>1. a + 1 \in 1 .. Len(AllScopes) + 1
    BY <1>1
  <2> QED
    BY <1>1, <2>1, NextScopeFollows
<1>3. s \notin ReadBefore(a)
  BY <1>1, ScopesKnown DEF ReadBefore
<1> HIDE DEF s
<1>4. ReadOf(r \o x, ReadBefore(a) \cup {s})
  BY <1>3, FoundMore DEF Reading, s
<1>5. ReadBefore(a) \cup {s} \subseteq ReadBefore(n)
  BY <1>1, <1>2 DEF ReadBefore, s
<1>6. ReadOf(r \o x, ReadBefore(n))
  BY <1>4, <1>5 DEF ReadOf
<1> HIDE DEF n
<1>7. n \in 0 .. Len(AllScopes) + 1 /\ n # 0
  BY <1>1, <1>2
<1>8. Reading("calling", n, r \o x)
  BY <1>6, <1>7 DEF Reading
<1> QED
  BY <1>8 DEF n

LEMMA CallKeeps ==
  ASSUME QosInv, NEW t \in Threads, Call(t)
  PROVE  QosInv'
<1> DEFINE c == cq[t]
           s == AllScopes[at[t]]
           own == IF s = "DataRepresentation" THEN FromC(s, c[<<s, Blank>>]) ELSE Properties(s, c)
<1>1. Reading(pc[t], at[t], found[t]) /\ Sound(held[t].policies) /\ pc[t] = "calling"
  BY DEF QosInv, FoundSound, HeldSound, Call
<1>2. at[t] \in DOMAIN AllScopes
  <2>1. at[t] \in 0 .. Len(AllScopes) + 1 /\ at[t] # 0
    BY <1>1 DEF Reading
  <2>2. at[t] <= Len(AllScopes)
    BY DEF Call
  <2> QED
    BY <2>1, <2>2, ScopesKnown
<1>3. CASE s \notin OwnVariables
  <2>1. held' = held /\ found' = found /\ at' = at /\ pc' = [pc EXCEPT ![t] = "reading"]
    BY <1>3 DEF Call
  <2>2. DOMAIN pc' = Threads /\ pc'[t] = "reading" /\ \A u \in Threads \ {t} : pc'[u] = pc[u]
    BY <2>1 DEF QosInv
  <2>3. Reading("reading", at[t], found[t])
    BY <1>1, <1>2, <1>3 DEF Reading
  <2> QED
    BY <1>1, <2>1, <2>2, <2>3, OneThread DEF QosInv
<1>4. CASE s \in OwnVariables
  <2>1. /\ held' = held /\ pc' = pc /\ found' = [found EXCEPT ![t] = @ \o own]
        /\ at' = [at EXCEPT ![t] = NextScope(c, @ + 1)]
    BY <1>4 DEF Call
  <2>2. ReadOf(own, {s})
    <3>1. CASE s = "DataRepresentation"
      <4>1. s \notin PropertyScopes
        BY <3>1 DEF PropertyScopes
      <4>2. OneOf(FromC(s, c[<<s, Blank>>]), s) /\ s \in DOMAIN ScopeRank
        BY <1>2, <4>1, FromCFinds, ScopesKnown
      <4>3. own = FromC(s, c[<<s, Blank>>])
        BY <3>1
      <4> HIDE DEF s, own
      <4> QED
        BY <4>2, <4>3, NoneOrOne
    <3>2. CASE s # "DataRepresentation"
      <4>1. s \in PropertyScopes
        BY <1>4, <3>2 DEF OwnVariables, PropertyScopes
      <4>2. own = Properties(s, c)
        BY <3>2
      <4> HIDE DEF s, own, c
      <4> QED
        BY <4>1, <4>2, PropertiesFind
    <3> QED
      BY <3>1, <3>2
  <2> HIDE DEF own, c
  <2>3. Reading("calling", NextScope(c, at[t] + 1), found[t] \o own)
    BY <1>1, <1>2, <2>2, NextReading
  <2>4. /\ DOMAIN found' = Threads /\ DOMAIN at' = Threads /\ DOMAIN pc' = Threads
        /\ pc'[t] = "calling" /\ at'[t] = NextScope(c, at[t] + 1) /\ found'[t] = found[t] \o own
        /\ \A u \in Threads \ {t} : found'[u] = found[u] /\ at'[u] = at[u] /\ pc'[u] = pc[u]
    BY <1>1, <2>1 DEF QosInv
  <2> QED
    BY <1>1, <2>1, <2>3, <2>4, OneThread DEF QosInv
<1> QED
  BY <1>3, <1>4

LEMMA ReadKeeps ==
  ASSUME QosInv, NEW t \in Threads, Read(t)
  PROVE  QosInv'
<1> DEFINE s == AllScopes[at[t]]
           x == FromC(s, cells[Cells(s)])
<1>1. Reading(pc[t], at[t], found[t]) /\ Sound(held[t].policies) /\ pc[t] = "reading"
  BY DEF QosInv, FoundSound, HeldSound, Read
<1>2. at[t] \in DOMAIN AllScopes /\ s \notin PropertyScopes
  BY <1>1 DEF Reading, OwnVariables, PropertyScopes
<1>3. OneOf(x, s) /\ s \in DOMAIN ScopeRank
  BY <1>2, FromCFinds, ScopesKnown
<1>4. /\ held' = held /\ pc' = [pc EXCEPT ![t] = "calling"]
      /\ found' = [found EXCEPT ![t] = @ \o x]
      /\ at' = [at EXCEPT ![t] = NextScope(cq[t], @ + 1)]
  BY DEF Read
<1> HIDE DEF x
<1>5. ReadOf(x, {s})
  <2> HIDE DEF s
  <2> QED
    BY <1>3, NoneOrOne
<1>6. Reading("calling", NextScope(cq[t], at[t] + 1), found[t] \o x)
  BY <1>1, <1>2, <1>5, NextReading
<1>7. /\ DOMAIN found' = Threads /\ DOMAIN at' = Threads /\ DOMAIN pc' = Threads
      /\ pc'[t] = "calling" /\ at'[t] = NextScope(cq[t], at[t] + 1) /\ found'[t] = found[t] \o x
      /\ \A u \in Threads \ {t} : found'[u] = found[u] /\ at'[u] = at[u] /\ pc'[u] = pc[u]
  BY <1>1, <1>4 DEF QosInv
<1> QED
  BY <1>1, <1>4, <1>6, <1>7, OneThread DEF QosInv

LEMMA FinishKeeps ==
  ASSUME QosInv, NEW t \in Threads, Finish(t)
  PROVE  QosInv'
<1> DEFINE q == Sorted(found[t])
           h == IF place[t] \in Profiles
                  THEN [class |-> Kind[place[t]], policies |-> Narrowed(Kind[place[t]], q)]
                  ELSE [class |-> "Qos", policies |-> q]
<1>1. Reading(pc[t], at[t], found[t])
  BY DEF QosInv, FoundSound
<1>2. Sound(q)
  BY <1>1, SortedKeeps DEF Reading, ReadOf, Sound
<1>3. /\ held' = [held EXCEPT ![t] = h] /\ found' = [found EXCEPT ![t] = <<>>]
      /\ at' = [at EXCEPT ![t] = 0] /\ pc' = [pc EXCEPT ![t] = "idle"]
  BY DEF Finish, Done
<1> HIDE DEF q
<1>4. Sound(h.policies)
  <2>1. Sound(Narrowed(Kind[place[t]], q))
    BY <1>2, ChosenFrom DEF Sound, Narrowed
  <2> QED
    BY <1>2, <2>1
<1> HIDE DEF h
<1>5. Reading("idle", 0, <<>>)
  BY EmptyIsSound, ScopesKnown DEF Reading
<1>6. /\ DOMAIN held' = Threads /\ DOMAIN found' = Threads /\ DOMAIN at' = Threads
      /\ DOMAIN pc' = Threads
      /\ held'[t] = h /\ pc'[t] = "idle" /\ at'[t] = 0 /\ found'[t] = <<>>
      /\ \A u \in Threads \ {t} : held'[u] = held[u] /\ found'[u] = found[u] /\ at'[u] = at[u]
                                  /\ pc'[u] = pc[u]
  BY <1>3 DEF QosInv
<1> QED
  BY <1>4, <1>5, <1>6, OneThread

\* Every Qos object a thread holds, made by the program or read from an entity or a
\* profile, is sorted and has one policy of a scope: for any Qos objects the program
\* writes down, any property names, entities, profiles and threads.
THEOREM QosAlways == Spec => []QosInv
<1>1. Init => QosInv
  <2> SUFFICES ASSUME Init PROVE QosInv
    OBVIOUS
  <2>1. Reading("idle", 0, <<>>)
    BY EmptyIsSound, ScopesKnown DEF Reading
  <2> QED
    BY <2>1, EmptyIsSound DEF Init, QosInv, HeldSound, FoundSound
<1>2. QosInv /\ [Next]_vars => QosInv'
  <2> SUFFICES ASSUME QosInv, [Next]_vars PROVE QosInv'
    OBVIOUS
  <2>1. CASE UNCHANGED vars
    BY <2>1 DEF vars, QosInv, HeldSound, FoundSound
  <2>2. CASE Next
    <3>1. PICK t \in Threads :
            \/ \E l \in Literals, base \in Operands(t) : Construct(t, l, base)
            \/ \E l \in Literals, q \in Operands(t) : Subtract(t, q, l)
            \/ \E q \in Operands(t), class \in Classes : Narrow(t, q, class)
            \/ \E e \in Entities : StartCreate(t, e) \/ StartSet(t, e)
            \/ Create(t) \/ Set(t)
            \/ \E e \in Places : StartGet(t, e)
            \/ Fetch(t) \/ Call(t) \/ Read(t) \/ Finish(t)
      BY <2>2 DEF Next
    <3> QED
      BY <3>1, OperationsKeep, CallsKeep, FetchKeeps, CallKeeps, ReadKeeps, FinishKeeps
  <2> QED
    BY <2>1, <2>2
<1> QED
  BY <1>1, <1>2, PTL DEF Spec

(***************************************************************************)
(* Looking up.                                                             *)
(***************************************************************************)
\* What comes first is all that the scan sees.
LEMMA PrefixOf ==
  ASSUME NEW q, Good(q), NEW n \in 1 .. Len(q) + 1
  PROVE  LET s == SubSeq(q, 1, n - 1)
         IN  Good(s) /\ Len(s) = n - 1 /\ DOMAIN s = 1 .. n - 1 /\ \A i \in 1 .. n - 1 : s[i] = q[i]
<1> DEFINE s == SubSeq(q, 1, n - 1)
           U == ToSet(q)
<1>1. q \in Seq(U) /\ \A i \in DOMAIN q : q[i].scope \in Scopes
  BY DEF Good
<1> HIDE DEF U
<1>2. DOMAIN q = 1 .. Len(q) /\ Len(q) \in Nat
  BY <1>1
<1>3. s \in Seq(U) /\ Len(s) = n - 1 /\ \A i \in 1 .. n - 1 : s[i] = q[i]
  BY <1>1, <1>2
<1> HIDE DEF s
<1>4. DOMAIN s = 1 .. n - 1 /\ 1 .. n - 1 \subseteq DOMAIN q
  BY <1>2, <1>3
<1>5. \A i \in DOMAIN s : s[i].scope \in Scopes
  BY <1>1, <1>3, <1>4
<1>6. Good(s)
  BY <1>3, <1>5, GoodSequence
<1> QED
  BY <1>3, <1>4, <1>6 DEF s

\* In a sorted Qos the scan ends behind every policy of its scope.
LEMMA ScanFinds ==
  ASSUME NEW q, Sound(q), NEW scope \in Scopes
  PROVE  /\ Good(Scanned(q, scope))
         /\ \A i \in DOMAIN Scanned(q, scope) : i \in DOMAIN q /\ Scanned(q, scope)[i] = q[i]
         /\ \A j \in DOMAIN q : q[j].scope = scope => j \in DOMAIN Scanned(q, scope)
<1> DEFINE larger == {i \in DOMAIN q : Before(scope, q[i].scope)}
           n == First(q, larger)
           s == SubSeq(q, 1, n - 1)
<1>1. /\ Good(q) /\ DOMAIN q = 1 .. Len(q) /\ Len(q) \in Nat
      /\ \A i \in DOMAIN q : q[i].scope \in Scopes
  BY DEF Sound, Good
<1>2. Scanned(q, scope) = s
  BY DEF Scanned
<1>3. /\ n \in 1 .. Len(q) + 1
      /\ n <= Len(q) => n \in larger
  BY <1>1, FirstPlace
<1>4. n <= Len(q) => n \in DOMAIN q /\ Before(scope, q[n].scope)
  BY <1>3
<1> HIDE DEF n, larger
<1>5. Good(s) /\ DOMAIN s = 1 .. n - 1 /\ \A i \in 1 .. n - 1 : s[i] = q[i]
  BY <1>1, <1>3, PrefixOf
<1>6. ASSUME NEW j \in DOMAIN q, q[j].scope = scope PROVE j < n
  <2> SUFFICES ASSUME ~(j < n) PROVE FALSE
    OBVIOUS
  <2>1. n \in DOMAIN q /\ Before(scope, q[n].scope)
    BY <1>1, <1>3, <1>4
  <2>2. n = j \/ Before(q[n].scope, q[j].scope)
    <3>1. n = j \/ n < j
      BY <1>1, <1>3
    <3> QED
      BY <2>1, <3>1 DEF Sound, Strict
  <2> QED
    BY <1>1, <1>6, <2>1, <2>2, ScopeOrder
<1> HIDE DEF s
<1>7. \A i \in DOMAIN s : i \in DOMAIN q /\ s[i] = q[i]
  BY <1>1, <1>3, <1>5
<1>8. \A j \in DOMAIN q : q[j].scope = scope => j \in DOMAIN s
  BY <1>1, <1>3, <1>5, <1>6
<1> QED
  BY <1>2, <1>5, <1>7, <1>8

\* No policy has the scope of none.
LEMMA NoPolicyIsNone == NoPolicy.scope \notin Scopes
<1>1. \A s \in Scopes : s[1] \in DOMAIN ScopeRank
  BY ScopesArePairs
<1>2. Blank \notin DOMAIN ScopeRank
  <2>1. DOMAIN ScopeRank = {ScopeNames[i] : i \in 1 .. 27}
    BY DEF ScopeRank, Ranks, ScopeNames
  <2>2. {ScopeNames[i] : i \in 1 .. 27} \subseteq
    {"BinaryProperty", "DataRepresentation", "Deadline", "DestinationOrder", "Durability",
     "DurabilityService", "EntityName", "Groupdata", "History", "IgnoreLocal",
     "LatencyBudget", "Lifespan", "Liveliness", "Ownership", "OwnershipStrength",
     "Partition", "PresentationAccessScope", "Property", "ReaderDataLifecycle",
     "Reliability", "ResourceLimits", "TimeBasedFilter", "Topicdata",
     "TransportPriority", "TypeConsistency", "Userdata", "WriterDataLifecycle"}
    BY DEF ScopeNames
  <2> QED
    BY <2>1, <2>2, Zenon DEF Blank
<1>3. NoPolicy.scope = <<Blank, Blank>>
  BY DEF NoPolicy
<1>4. <<Blank, Blank>>[1] = Blank
  OBVIOUS
<1> QED
  BY <1>1, <1>2, <1>3, <1>4

LEMMA LookUpFinds ==
  ASSUME NEW q, Sound(q), NEW scope \in Scopes
  PROVE  \/ \E j \in DOMAIN q : q[j].scope = scope /\ LookUp(q, scope) = q[j]
         \/ (\A j \in DOMAIN q : q[j].scope # scope) /\ LookUp(q, scope) = NoPolicy
<1> DEFINE s == Scanned(q, scope)
           hits == {i \in DOMAIN s : s[i].scope = scope}
           hit == First(s, hits)
<1>1. /\ Good(s)
      /\ \A i \in DOMAIN s : i \in DOMAIN q /\ s[i] = q[i]
      /\ \A j \in DOMAIN q : q[j].scope = scope => j \in DOMAIN s
  BY ScanFinds
<1>2. LookUp(q, scope) = IF hit > Len(s) THEN NoPolicy ELSE s[hit]
  BY DEF LookUp
<1> HIDE DEF s
<1>3. DOMAIN s = 1 .. Len(s) /\ Len(s) \in Nat
  BY <1>1, Lengths
<1>4. /\ hit \in 1 .. Len(s) + 1
      /\ hit <= Len(s) => hit \in hits
      /\ \A k \in hits : hit <= k
  BY <1>1, FirstPlace
<1> HIDE DEF hit
<1>5. CASE hit <= Len(s)
  <2>1. hit \in DOMAIN s /\ s[hit].scope = scope
    BY <1>4, <1>5
  <2>2. LookUp(q, scope) = s[hit]
    BY <1>2, <1>3, <1>4, <1>5
  <2> QED
    BY <1>1, <2>1, <2>2
<1>6. CASE ~(hit <= Len(s))
  <2>1. hits = {}
    BY <1>3, <1>4, <1>6
  <2>2. \A j \in DOMAIN q : q[j].scope # scope
    BY <1>1, <2>1
  <2>3. LookUp(q, scope) = NoPolicy
    BY <1>2, <1>3, <1>4, <1>6
  <2> QED
    BY <2>2, <2>3
<1> QED
  BY <1>5, <1>6

LEMMA EqualPolicies ==
  ASSUME NEW p, NEW r
  PROVE  Equal(p, p) /\ (Equal(p, r) <=> Equal(r, p)) /\ (Equal(p, r) => p.scope = r.scope)
BY DEF Equal

\* What qos[...] and "in" find, and what they do not.
LEMMA Found ==
  ASSUME NEW q, Sound(q), NEW p, p.scope \in Scopes
  PROVE  /\ ContainsScope(q, p.scope) <=> \E j \in DOMAIN q : q[j].scope = p.scope
         /\ \A j \in DOMAIN q : q[j].scope = p.scope => LookUp(q, p.scope) = q[j]
         /\ ContainsPolicy(q, p) <=> \E j \in DOMAIN q : Equal(q[j], p)
<1>1. \A j \in DOMAIN q : q[j].scope \in Scopes
  BY DEF Sound, Good
<1>2. \A i, j \in DOMAIN q : q[i].scope = q[j].scope => i = j
  BY StrictOrder DEF Sound, Distinct
<1>3. \/ \E j \in DOMAIN q : q[j].scope = p.scope /\ LookUp(q, p.scope) = q[j]
      \/ (\A j \in DOMAIN q : q[j].scope # p.scope) /\ LookUp(q, p.scope) = NoPolicy
  BY LookUpFinds
<1>4. \A j \in DOMAIN q : q[j] # NoPolicy
  BY <1>1, NoPolicyIsNone
<1>5. ContainsPolicy(q, p) <=> \E j \in DOMAIN q : Equal(q[j], p)
  <2> DEFINE s == Scanned(q, p.scope)
  <2>1. /\ \A i \in DOMAIN s : i \in DOMAIN q /\ s[i] = q[i]
        /\ \A j \in DOMAIN q : q[j].scope = p.scope => j \in DOMAIN s
    BY ScanFinds
  <2>2. ContainsPolicy(q, p) <=> \E i \in DOMAIN s : Equal(s[i], p)
    BY DEF ContainsPolicy
  <2> HIDE DEF s
  <2> QED
    BY <2>1, <2>2, EqualPolicies
<1> QED
  BY <1>2, <1>3, <1>4, <1>5 DEF ContainsScope

\* The scan of qos[...] and of "in" that stops at the first larger scope finds what
\* there is of a scope, and only that, in any Qos object a thread holds.
THEOREM LookUpTheorem == Spec => []LookUpFindsAll
<1>1. QosInv => LookUpFindsAll
  <2> SUFFICES ASSUME QosInv, NEW t \in Threads, NEW l \in Literals, NEW i \in DOMAIN l
               PROVE  LET q == held[t].policies
                          p == l[i]
                          same == {j \in DOMAIN q : q[j].scope = p.scope}
                      IN /\ ContainsScope(q, p.scope) <=> same # {}
                         /\ \A j \in same : Equal(LookUp(q, p.scope), q[j])
                         /\ ContainsPolicy(q, p) <=> \E j \in same : Equal(q[j], p)
    BY DEF LookUpFindsAll
  <2> DEFINE q == held[t].policies
             p == l[i]
  <2>1. Sound(q)
    BY DEF QosInv, HeldSound
  <2>2. p.scope \in Scopes
    BY LiteralsAreSound DEF Sound, Good
  <2> HIDE DEF q, p
  <2>3. /\ ContainsScope(q, p.scope) <=> \E j \in DOMAIN q : q[j].scope = p.scope
        /\ \A j \in DOMAIN q : q[j].scope = p.scope => LookUp(q, p.scope) = q[j]
        /\ ContainsPolicy(q, p) <=> \E j \in DOMAIN q : Equal(q[j], p)
    BY <2>1, <2>2, Found
  <2>4. /\ ContainsScope(q, p.scope) <=> {j \in DOMAIN q : q[j].scope = p.scope} # {}
        /\ \A j \in {j \in DOMAIN q : q[j].scope = p.scope} : Equal(LookUp(q, p.scope), q[j])
        /\ ContainsPolicy(q, p) <=>
             \E j \in {j \in DOMAIN q : q[j].scope = p.scope} : Equal(q[j], p)
    BY <2>3, EqualPolicies
  <2> QED
    BY <2>4 DEF q, p
<1> QED
  BY <1>1, QosAlways, PTL

(***************************************************************************)
(* Adding and subtracting.                                                 *)
(***************************************************************************)
\* Two Qos objects with the same policies have them in the same places.
SameUpto(a, b, n) == \A i \in 1 .. n : (i \in DOMAIN a <=> i \in DOMAIN b) /\ (i \in DOMAIN a => a[i] = b[i])

LEMMA NextPlace ==
  ASSUME NEW a, NEW b, Sound(a), Sound(b), ToSet(a) = ToSet(b), NEW n \in Nat, SameUpto(a, b, n),
         n + 1 \in DOMAIN a
  PROVE  n + 1 \in DOMAIN b /\ a[n + 1] = b[n + 1]
<1>1. /\ DOMAIN a = 1 .. Len(a) /\ Len(a) \in Nat /\ DOMAIN b = 1 .. Len(b) /\ Len(b) \in Nat
      /\ \A i \in DOMAIN a : a[i].scope \in Scopes
      /\ \A i \in DOMAIN b : b[i].scope \in Scopes
  BY Lengths DEF Sound, Good
<1>2. \A i, j \in DOMAIN a : i < j => Before(a[i].scope, a[j].scope)
  BY DEF Sound, Strict
<1>3. \A i, j \in DOMAIN b : i < j => Before(b[i].scope, b[j].scope)
  BY DEF Sound, Strict
<1>4. PICK k \in DOMAIN b : a[n + 1] = b[k]
  BY DEF ToSet
<1>5. k >= n + 1
  <2> SUFFICES ASSUME ~(k >= n + 1) PROVE FALSE
    OBVIOUS
  <2>1. k \in 1 .. n
    BY <1>1
  <2>2. k \in DOMAIN a /\ a[k] = b[k]
    BY <2>1 DEF SameUpto
  <2>3. Before(a[k].scope, a[n + 1].scope)
    BY <1>2, <2>1, <2>2
  <2> QED
    BY <1>1, <1>4, <2>2, <2>3, ScopeOrder
<1>6. n + 1 \in DOMAIN b
  BY <1>1, <1>4, <1>5
<1>7. PICK l \in DOMAIN a : b[n + 1] = a[l]
  BY <1>6 DEF ToSet
<1>8. l >= n + 1
  <2> SUFFICES ASSUME ~(l >= n + 1) PROVE FALSE
    OBVIOUS
  <2>1. l \in 1 .. n
    BY <1>1
  <2>2. l \in DOMAIN b /\ a[l] = b[l]
    BY <2>1 DEF SameUpto
  <2>3. Before(b[l].scope, b[n + 1].scope)
    BY <1>3, <1>6, <2>1, <2>2
  <2> QED
    BY <1>1, <1>6, <1>7, <2>2, <2>3, ScopeOrder
<1>9. k = n + 1 \/ n + 1 < k
  BY <1>1, <1>5
<1>10. l = n + 1 \/ n + 1 < l
  BY <1>1, <1>8
<1>11. k = n + 1 \/ l = n + 1
  <2> SUFFICES ASSUME n + 1 < k, n + 1 < l PROVE FALSE
    BY <1>9, <1>10
  <2>1. Before(b[n + 1].scope, a[n + 1].scope)
    BY <1>3, <1>4, <1>6
  <2>2. Before(a[n + 1].scope, b[n + 1].scope)
    BY <1>2, <1>7
  <2> QED
    BY <1>1, <1>6, <2>1, <2>2, ScopeOrder
<1> QED
  BY <1>4, <1>6, <1>7, <1>11

LEMMA SamePolicies ==
  ASSUME NEW a, NEW b, Sound(a), Sound(b), ToSet(a) = ToSet(b)
  PROVE  a = b
<1> DEFINE T == {n \in Nat : SameUpto(a, b, n)}
<1>1. 0 \in T
  BY DEF SameUpto
<1>2. ASSUME NEW n \in T PROVE n + 1 \in T
  <2>1. SameUpto(b, a, n)
    BY <1>2 DEF SameUpto
  <2>2. n + 1 \in DOMAIN a <=> n + 1 \in DOMAIN b
    BY <2>1, NextPlace
  <2>3. n + 1 \in DOMAIN a => a[n + 1] = b[n + 1]
    BY NextPlace
  <2>4. \A i \in 1 .. n + 1 : i \in 1 .. n \/ i = n + 1
    BY <1>2
  <2> QED
    BY <1>2, <2>2, <2>3, <2>4 DEF SameUpto
<1>3. T = Nat
  <2> HIDE DEF T
  <2>1. T \in SUBSET Nat
    BY DEF T
  <2> QED
    BY <1>1, <1>2, <2>1, SetInduction
<1> DEFINE U == ToSet(a)
<1>4. a \in Seq(U) /\ b \in Seq(U)
  BY DEF Sound, Good
<1> HIDE DEF U
<1>5. DOMAIN a = 1 .. Len(a) /\ Len(a) \in Nat /\ DOMAIN b = 1 .. Len(b) /\ Len(b) \in Nat
  BY <1>4
<1>6. SameUpto(a, b, Len(a)) /\ SameUpto(a, b, Len(b))
  BY <1>3, <1>5
<1>7. Len(a) = Len(b)
  <2>1. Len(a) <= Len(b)
    <3>1. Len(a) = 0 \/ Len(a) \in DOMAIN b
      BY <1>5, <1>6 DEF SameUpto
    <3> QED
      BY <1>5, <3>1
  <2>2. Len(b) <= Len(a)
    <3>1. Len(b) = 0 \/ Len(b) \in DOMAIN a
      BY <1>5, <1>6 DEF SameUpto
    <3> QED
      BY <1>5, <3>1
  <2>3. \A m, n \in Nat : m <= n /\ n <= m => m = n
    OBVIOUS
  <2> QED
    BY <1>5, <2>1, <2>2, <2>3
<1>8. \A i \in 1 .. Len(a) : a[i] = b[i]
  BY <1>5, <1>6 DEF SameUpto
<1> QED
  BY <1>4, <1>7, <1>8, SameSequence

LEMMA SumOf ==
  ASSUME NEW q, NEW r, Sound(q), Sound(r)
  PROVE  /\ Sound(Plus(q, r))
         /\ \A x : x \in ToSet(Plus(q, r)) <=>
              \/ x \in ToSet(r)
              \/ x \in ToSet(q) /\ \A i \in DOMAIN r : r[i].scope # x.scope
<1>1. /\ Good(WithBase(r, q)) /\ Distinct(WithBase(r, q))
      /\ \A x : x \in ToSet(WithBase(r, q)) <=>
           \/ x \in ToSet(r)
           \/ x \in ToSet(q) /\ \A i \in DOMAIN r : r[i].scope # x.scope
  BY WithBaseKeeps DEF Sound
<1>2. Plus(q, r) = Sorted(WithBase(r, q))
  BY DEF Plus
<1>3. Good(Plus(q, r)) /\ Strict(Plus(q, r)) /\ ToSet(Plus(q, r)) = ToSet(WithBase(r, q))
  BY <1>1, <1>2, SortedKeeps
<1> QED
  BY <1>1, <1>3 DEF Sound

LEMMA DifferenceOf ==
  ASSUME NEW q, NEW r, Sound(q), Sound(r)
  PROVE  /\ Sound(Minus(q, r))
         /\ \A x : x \in ToSet(Minus(q, r)) <=>
              x \in ToSet(q) /\ \A j \in DOMAIN r : ~Equal(r[j], x)
<1> DEFINE places == {i \in DOMAIN q : ~ContainsPolicy(r, q[i])}
<1>1. Minus(q, r) = Chosen(q, places)
  BY DEF Minus
<1>2. \A i \in DOMAIN q : i \in places <=> \A j \in DOMAIN r : ~Equal(r[j], q[i])
  <2>1. ASSUME NEW i \in DOMAIN q
        PROVE  ContainsPolicy(r, q[i]) <=> \E j \in DOMAIN r : Equal(r[j], q[i])
    <3>1. q[i].scope \in Scopes
      BY DEF Sound, Good
    <3> QED
      BY <3>1, Found
  <2> QED
    BY <2>1
<1> HIDE DEF places
<1>3. /\ Sound(Chosen(q, places))
      /\ \A x : x \in ToSet(Chosen(q, places)) <=> \E k \in DOMAIN q \cap places : x = q[k]
  BY ChosenFrom DEF Sound
<1>4. \A x : (\E k \in DOMAIN q \cap places : x = q[k])
              <=> x \in ToSet(q) /\ \A j \in DOMAIN r : ~Equal(r[j], x)
  BY <1>2 DEF ToSet
<1> QED
  BY <1>1, <1>3, <1>4

LEMMA SameIsSame ==
  ASSUME NEW q
  PROVE  SameQos(q, q)
BY EqualPolicies DEF SameQos

\* Addition lets the right operand win and keeps the rest of the left one; what was
\* added can be subtracted; a Qos minus itself is empty and plus itself is the same:
\* for any Qos object a thread holds and any the program writes down.
THEOREM SumsTheorem == Spec => []SumsAddUp
<1>1. ASSUME NEW q, Sound(q) PROVE SameQos(Plus(q, q), q)
  <2>1. Sound(Plus(q, q)) /\ ToSet(Plus(q, q)) = ToSet(q)
    BY <1>1, SumOf
  <2>2. Plus(q, q) = q
    BY <1>1, <2>1, SamePolicies
  <2> QED
    BY <2>2, SameIsSame
<1>2. ASSUME NEW q, Sound(q) PROVE SameQos(Minus(q, q), <<>>)
  <2>1. \A x : x \notin ToSet(Minus(q, q))
    <3>1. \A x : x \in ToSet(q) => \E j \in DOMAIN q : Equal(q[j], x)
      BY EqualPolicies DEF ToSet
    <3> QED
      BY <1>2, <3>1, DifferenceOf
  <2>2. Sound(Minus(q, q)) /\ ToSet(Minus(q, q)) = ToSet(<<>>)
    <3>1. ToSet(<<>>) = {}
      <4>1. DOMAIN <<>> = {}
        OBVIOUS
      <4> QED
        BY <4>1 DEF ToSet
    <3> QED
      BY <1>2, <2>1, <3>1, DifferenceOf
  <2>3. Minus(q, q) = <<>>
    BY <2>2, EmptyIsSound, SamePolicies
  <2> QED
    BY <2>3, SameIsSame
<1>3. ASSUME NEW q, Sound(q), NEW r, Sound(r) PROVE CanSubtract(Plus(q, r), r)
  <2> SUFFICES ASSUME NEW i \in DOMAIN r PROVE ContainsPolicy(Plus(q, r), r[i])
    BY DEF CanSubtract
  <2>1. r[i] \in ToSet(r) /\ r[i].scope \in Scopes
    BY <1>3 DEF Sound, Good, ToSet
  <2>2. Sound(Plus(q, r)) /\ r[i] \in ToSet(Plus(q, r))
    BY <1>3, <2>1, SumOf
  <2>3. \E j \in DOMAIN Plus(q, r) : Equal(Plus(q, r)[j], r[i])
    BY <2>2, EqualPolicies DEF ToSet
  <2> QED
    BY <2>1, <2>2, <2>3, Found
<1>4. ASSUME NEW q, Sound(q), NEW r, Sound(r)
      PROVE  SameQos(Minus(Plus(q, r), r),
                     Chosen(q, {j \in DOMAIN q : \A i \in DOMAIN r : r[i].scope # q[j].scope}))
  <2> DEFINE sum == Plus(q, r)
             places == {j \in DOMAIN q : \A i \in DOMAIN r : r[i].scope # q[j].scope}
             rest == Chosen(q, places)
  <2>1. /\ Sound(sum)
        /\ \A x : x \in ToSet(sum) <=>
             \/ x \in ToSet(r)
             \/ x \in ToSet(q) /\ \A i \in DOMAIN r : r[i].scope # x.scope
    BY <1>4, SumOf
  <2> HIDE DEF sum
  <2>2. /\ Sound(Minus(sum, r))
        /\ \A x : x \in ToSet(Minus(sum, r)) <=>
             x \in ToSet(sum) /\ \A j \in DOMAIN r : ~Equal(r[j], x)
    BY <1>4, <2>1, DifferenceOf
  <2>3. \A x : x \in ToSet(q) /\ (\A i \in DOMAIN r : r[i].scope # x.scope)
               <=> \E k \in DOMAIN q \cap places : x = q[k]
    BY DEF ToSet
  <2> HIDE DEF places
  <2>4. /\ Sound(rest)
        /\ \A x : x \in ToSet(rest) <=> \E k \in DOMAIN q \cap places : x = q[k]
    BY <1>4, ChosenFrom DEF Sound
  <2> HIDE DEF rest
  <2>5. \A x : x \in ToSet(r) => \E j \in DOMAIN r : Equal(r[j], x)
    BY EqualPolicies DEF ToSet
  <2>6. \A x : x \in ToSet(Minus(sum, r)) <=> x \in ToSet(rest)
    BY <2>1, <2>2, <2>3, <2>4, <2>5, EqualPolicies
  <2>7. Minus(sum, r) = rest
    BY <2>2, <2>4, <2>6, SamePolicies
  <2> QED
    BY <2>7, SameIsSame DEF sum, rest, places
<1>5. QosInv => SumsAddUp
  <2> SUFFICES ASSUME QosInv PROVE SumsAddUp
    OBVIOUS
  <2>1. \A t \in Threads : Sound(held[t].policies)
    BY DEF QosInv, HeldSound
  <2>2. \A r \in Literals : Sound(r)
    BY LiteralsAreSound
  <2> QED
    BY <1>1, <1>2, <1>3, <1>4, <2>1, <2>2 DEF SumsAddUp
<1> QED
  BY <1>5, QosAlways, PTL

(***************************************************************************)
(* What goes through C and back.  What a setter passes has the shape the   *)
(* getter of the scope reads: a number of integers, or any number of them. *)
(***************************************************************************)
AnyLength == {"Partition", "DataRepresentation"}

CellLengths ==
  {<<"Durability", 1>>, <<"Lifespan", 1>>, <<"Deadline", 1>>, <<"LatencyBudget", 1>>,
   <<"Ownership", 1>>, <<"OwnershipStrength", 1>>, <<"TimeBasedFilter", 1>>,
   <<"TransportPriority", 1>>, <<"DestinationOrder", 1>>, <<"WriterDataLifecycle", 1>>,
   <<"IgnoreLocal", 1>>, <<"EntityName", 1>>, <<"data", 1>>, <<"Reliability", 2>>,
   <<"History", 2>>, <<"Liveliness", 2>>, <<"ReaderDataLifecycle", 2>>,
   <<"Property", 2>>, <<"BinaryProperty", 2>>, <<"ResourceLimits", 3>>,
   <<"PresentationAccessScope", 3>>, <<"DurabilityService", 6>>,
   <<"TypeConsistency", 6>>}

InCell(k, x) == x \in Seq(Int) /\ (k \in AnyLength \/ <<k, Len(x)>> \in CellLengths)

Shaped(s, x) == InCell(Cells(s), x)

LEMMA PowersOfTwo == \A n \in Nat : 2^n \in Nat \ {0}
<1> SUFFICES ASSUME NEW n \in Nat PROVE 2^n \in Nat \ {0}
  OBVIOUS
<1>1. IsFiniteSet(1 .. n) /\ Cardinality(1 .. n) = n
  BY FS_Interval
<1> DEFINE S == SUBSET (1 .. n)
<1>2. IsFiniteSet(S) /\ Cardinality(S) = 2^n
  BY <1>1, FS_SUBSET
<1>3. S # {}
  OBVIOUS
<1> HIDE DEF S
<1>4. Cardinality(S) \in Nat /\ Cardinality(S) # 0
  BY <1>2, <1>3, FS_CardinalityType, FS_EmptySet
<1> QED
  BY <1>2, <1>4

LEMMA NumbersStay == \A n \in Int : Int32(n) \in Int /\ Duration(n) \in Int
<1>1. ASSUME NEW n \in Int, NEW b \in Nat \ {0} PROVE Wrapped(n, b) \in Int
  <2>1. 2^b \in Nat \ {0} /\ 2^(b - 1) \in Int
    BY <1>1, PowersOfTwo
  <2> DEFINE m == n % 2^b
  <2>2. m \in Int
    <3>1. \A k \in Nat \ {0} : n % k \in Int
      OBVIOUS
    <3> QED
      BY <2>1, <3>1
  <2>3. Wrapped(n, b) = IF m >= 2^(b - 1) THEN m - 2^b ELSE m
    BY DEF Wrapped
  <2> HIDE DEF m
  <2> QED
    BY <2>1, <2>2, <2>3
<1> QED
  BY <1>1, WidthAssumption DEF WidthAssumption, Int32, Duration

\* How many fields a policy has, where a setter makes something of them.
LEMMA FieldsOf ==
  ASSUME NEW p, IsPolicy(p)
  PROVE  /\ p.scope[1] = "Reliability" /\ p.kind # "BestEffort" => Len(p.args) = 1
         /\ p.scope[1] = "Durability" => Len(p.args) = 0
         /\ p.scope[1] = "History" /\ p.kind # "KeepAll" => Len(p.args) = 1
         /\ p.scope[1] = "ResourceLimits" => Len(p.args) = 3
         /\ p.scope[1] = "PresentationAccessScope" => Len(p.args) = 2
         /\ p.scope[1] = "Lifespan" => Len(p.args) = 1
         /\ p.scope[1] = "Deadline" => Len(p.args) = 1
         /\ p.scope[1] = "LatencyBudget" => Len(p.args) = 1
         /\ p.scope[1] = "Ownership" => Len(p.args) = 0
         /\ p.scope[1] = "OwnershipStrength" => Len(p.args) = 1
         /\ p.scope[1] = "Liveliness" => Len(p.args) = 1
         /\ p.scope[1] = "TimeBasedFilter" => Len(p.args) = 1
         /\ p.scope[1] = "TransportPriority" => Len(p.args) = 1
         /\ p.scope[1] = "DestinationOrder" => Len(p.args) = 0
         /\ p.scope[1] = "WriterDataLifecycle" => Len(p.args) = 1
         /\ p.scope[1] = "ReaderDataLifecycle" => Len(p.args) = 2
         /\ p.scope[1] = "DurabilityService" => Len(p.args) = 5
         /\ p.scope[1] = "IgnoreLocal" => Len(p.args) = 0
         /\ p.scope[1] = "Userdata" => Len(p.args) = 1
         /\ p.scope[1] = "Groupdata" => Len(p.args) = 1
         /\ p.scope[1] = "Topicdata" => Len(p.args) = 1
         /\ p.scope[1] = "Property" => Len(p.args) = 2
         /\ p.scope[1] = "BinaryProperty" => Len(p.args) = 2
         /\ p.scope[1] = "TypeConsistency" /\ p.kind # "DisallowTypeCoercion" => Len(p.args) = 5
         /\ p.scope[1] = "TypeConsistency" /\ p.kind = "DisallowTypeCoercion" => Len(p.args) = 1
         /\ p.scope[1] = "DataRepresentation" => Len(p.args) = 2
         /\ p.scope[1] = "EntityName" => Len(p.args) = 1
BY DEF IsPolicy, PolicyClasses, DeliveryClasses, OrderingClasses, LifeClasses, ServiceClasses,
       TypeClasses

LEMMA SettersShape ==
  ASSUME NEW p, IsPolicy(p), p.scope \in Scopes
  PROVE  Shaped(p.scope[1], ToC(p))
<1>1. /\ p.args \in Seq(Int) /\ DOMAIN p.args = 1 .. Len(p.args)
      /\ \A i \in 1 .. Len(p.args) : p.args[i] \in Int
  <2>1. p.args \in Seq(Int)
    BY DEF IsPolicy
  <2> QED
    BY <2>1
<1>2. /\ p.scope[1] = "Reliability" /\ p.kind # "BestEffort" => Len(p.args) = 1
      /\ p.scope[1] = "Durability" => Len(p.args) = 0
      /\ p.scope[1] = "History" /\ p.kind # "KeepAll" => Len(p.args) = 1
      /\ p.scope[1] = "ResourceLimits" => Len(p.args) = 3
      /\ p.scope[1] = "PresentationAccessScope" => Len(p.args) = 2
      /\ p.scope[1] = "Lifespan" => Len(p.args) = 1
      /\ p.scope[1] = "Deadline" => Len(p.args) = 1
      /\ p.scope[1] = "LatencyBudget" => Len(p.args) = 1
      /\ p.scope[1] = "Ownership" => Len(p.args) = 0
      /\ p.scope[1] = "OwnershipStrength" => Len(p.args) = 1
      /\ p.scope[1] = "Liveliness" => Len(p.args) = 1
      /\ p.scope[1] = "TimeBasedFilter" => Len(p.args) = 1
      /\ p.scope[1] = "TransportPriority" => Len(p.args) = 1
      /\ p.scope[1] = "DestinationOrder" => Len(p.args) = 0
      /\ p.scope[1] = "WriterDataLifecycle" => Len(p.args) = 1
      /\ p.scope[1] = "ReaderDataLifecycle" => Len(p.args) = 2
      /\ p.scope[1] = "DurabilityService" => Len(p.args) = 5
      /\ p.scope[1] = "IgnoreLocal" => Len(p.args) = 0
      /\ p.scope[1] = "Userdata" => Len(p.args) = 1
      /\ p.scope[1] = "Groupdata" => Len(p.args) = 1
      /\ p.scope[1] = "Topicdata" => Len(p.args) = 1
      /\ p.scope[1] = "Property" => Len(p.args) = 2
      /\ p.scope[1] = "BinaryProperty" => Len(p.args) = 2
      /\ p.scope[1] = "TypeConsistency" /\ p.kind # "DisallowTypeCoercion" => Len(p.args) = 5
      /\ p.scope[1] = "TypeConsistency" /\ p.kind = "DisallowTypeCoercion" => Len(p.args) = 1
      /\ p.scope[1] = "DataRepresentation" => Len(p.args) = 2
      /\ p.scope[1] = "EntityName" => Len(p.args) = 1
  BY FieldsOf
<1>3. CASE p.scope[1] = "Reliability"
  BY <1>1, <1>2, <1>3, NumbersStay DEF ToC, SetReliability, Shaped, Cells, InCell, CellLengths, AnyLength
<1>4. CASE p.scope[1] = "Durability"
  BY <1>1, <1>2, <1>4, NumbersStay DEF ToC, SetDurability, Shaped, Cells, InCell, CellLengths, AnyLength
<1>5. CASE p.scope[1] = "History"
  BY <1>1, <1>2, <1>5, NumbersStay DEF ToC, SetHistory, Shaped, Cells, InCell, CellLengths, AnyLength
<1>6. CASE p.scope[1] = "ResourceLimits"
  BY <1>1, <1>2, <1>6, NumbersStay DEF ToC, SetResourceLimits, Shaped, Cells, InCell, CellLengths, AnyLength
<1>7. CASE p.scope[1] = "PresentationAccessScope"
  BY <1>1, <1>2, <1>7, NumbersStay DEF ToC, SetPresentation, Shaped, Cells, InCell, CellLengths, AnyLength
<1>8. CASE p.scope[1] = "Lifespan"
  BY <1>1, <1>2, <1>8, NumbersStay DEF ToC, SetLifespan, Shaped, Cells, InCell, CellLengths, AnyLength
<1>9. CASE p.scope[1] = "Deadline"
  BY <1>1, <1>2, <1>9, NumbersStay DEF ToC, SetDeadline, Shaped, Cells, InCell, CellLengths, AnyLength
<1>10. CASE p.scope[1] = "LatencyBudget"
  BY <1>1, <1>2, <1>10, NumbersStay DEF ToC, SetLatencyBudget, Shaped, Cells, InCell, CellLengths, AnyLength
<1>11. CASE p.scope[1] = "Ownership"
  BY <1>1, <1>2, <1>11, NumbersStay DEF ToC, SetOwnership, Shaped, Cells, InCell, CellLengths, AnyLength
<1>12. CASE p.scope[1] = "OwnershipStrength"
  BY <1>1, <1>2, <1>12, NumbersStay DEF ToC, SetOwnershipStrength, Shaped, Cells, InCell, CellLengths, AnyLength
<1>13. CASE p.scope[1] = "Liveliness"
  BY <1>1, <1>2, <1>13, NumbersStay DEF ToC, SetLiveliness, Shaped, Cells, InCell, CellLengths, AnyLength
<1>14. CASE p.scope[1] = "TimeBasedFilter"
  BY <1>1, <1>2, <1>14, NumbersStay DEF ToC, SetTimeBasedFilter, Shaped, Cells, InCell, CellLengths, AnyLength
<1>15. CASE p.scope[1] = "Partition"
  BY <1>1, <1>2, <1>15, NumbersStay DEF ToC, SetPartition, Shaped, Cells, InCell, CellLengths, AnyLength
<1>16. CASE p.scope[1] = "TransportPriority"
  BY <1>1, <1>2, <1>16, NumbersStay DEF ToC, SetTransportPriority, Shaped, Cells, InCell, CellLengths, AnyLength
<1>17. CASE p.scope[1] = "DestinationOrder"
  BY <1>1, <1>2, <1>17, NumbersStay DEF ToC, SetDestinationOrder, Shaped, Cells, InCell, CellLengths, AnyLength
<1>18. CASE p.scope[1] = "WriterDataLifecycle"
  BY <1>1, <1>2, <1>18, NumbersStay DEF ToC, SetWriterDataLifecycle, Shaped, Cells, InCell, CellLengths, AnyLength
<1>19. CASE p.scope[1] = "ReaderDataLifecycle"
  BY <1>1, <1>2, <1>19, NumbersStay DEF ToC, SetReaderDataLifecycle, Shaped, Cells, InCell, CellLengths, AnyLength
<1>20. CASE p.scope[1] = "DurabilityService"
  BY <1>1, <1>2, <1>20, NumbersStay DEF ToC, SetDurabilityService, Shaped, Cells, InCell, CellLengths, AnyLength
<1>21. CASE p.scope[1] = "IgnoreLocal"
  BY <1>1, <1>2, <1>21, NumbersStay DEF ToC, SetIgnoreLocal, Shaped, Cells, InCell, CellLengths, AnyLength
<1>22. CASE p.scope[1] = "Userdata"
  BY <1>1, <1>2, <1>22, NumbersStay DEF ToC, SetUserdata, Shaped, Cells, InCell, CellLengths, AnyLength
<1>23. CASE p.scope[1] = "Groupdata"
  BY <1>1, <1>2, <1>23, NumbersStay DEF ToC, SetGroupdata, Shaped, Cells, InCell, CellLengths, AnyLength
<1>24. CASE p.scope[1] = "Topicdata"
  BY <1>1, <1>2, <1>24, NumbersStay DEF ToC, SetTopicdata, Shaped, Cells, InCell, CellLengths, AnyLength
<1>25. CASE p.scope[1] = "Property"
  BY <1>1, <1>2, <1>25, NumbersStay DEF ToC, SetProperty, Shaped, Cells, InCell, CellLengths, AnyLength
<1>26. CASE p.scope[1] = "BinaryProperty"
  BY <1>1, <1>2, <1>26, NumbersStay DEF ToC, SetBinaryProperty, Shaped, Cells, InCell, CellLengths, AnyLength
<1>27. CASE p.scope[1] = "TypeConsistency"
  <2> DEFINE all == <<1>> \o p.args
  <2>1. all \in Seq(Int) /\ Len(all) = 1 + Len(p.args)
    <3>1. <<1>> \in Seq(Int) /\ Len(<<1>>) = 1
      OBVIOUS
    <3> QED
      BY <1>1, <3>1, Joined
  <2>2. ToC(p) = IF p.kind = "DisallowTypeCoercion" THEN <<0, 0, 0, 0, 0, p.args[1]>> ELSE all
    BY <1>27 DEF ToC, SetTypeConsistency
  <2> HIDE DEF all
  <2>3. ToC(p) \in Seq(Int) /\ Len(ToC(p)) = 6
    <3>1. CASE p.kind = "DisallowTypeCoercion"
      <4>1. p.args[1] \in Int
        BY <1>1, <1>2, <1>27, <3>1
      <4>2. \A n \in Int : <<0, 0, 0, 0, 0, n>> \in Seq(Int) /\ Len(<<0, 0, 0, 0, 0, n>>) = 6
        OBVIOUS
      <4> QED
        BY <2>2, <3>1, <4>1, <4>2
    <3>2. CASE p.kind # "DisallowTypeCoercion"
      <4>1. ToC(p) = all
        BY <2>2, <3>2
      <4>2. Len(p.args) = 5
        BY <1>2, <1>27, <3>2
      <4> QED
        BY <2>1, <4>1, <4>2
    <3> QED
      BY <3>1, <3>2
  <2> QED
    BY <1>27, <2>3 DEF Shaped, Cells, InCell, CellLengths
<1>28. CASE p.scope[1] = "DataRepresentation"
  BY <1>1, <1>2, <1>28, NumbersStay DEF ToC, SetDataRepresentation, Shaped, Cells, InCell, CellLengths, AnyLength
<1>29. CASE p.scope[1] = "EntityName"
  BY <1>1, <1>2, <1>29, NumbersStay DEF ToC, SetEntityName, Shaped, Cells, InCell, CellLengths, AnyLength
<1>30. p.scope[1] \in
      {"Reliability", "Durability", "History", "ResourceLimits",
      "PresentationAccessScope", "Lifespan", "Deadline", "LatencyBudget", "Ownership",
      "OwnershipStrength", "Liveliness", "TimeBasedFilter", "Partition",
      "TransportPriority", "DestinationOrder", "WriterDataLifecycle",
      "ReaderDataLifecycle", "DurabilityService", "IgnoreLocal", "Userdata",
      "Groupdata", "Topicdata", "Property", "BinaryProperty", "TypeConsistency",
      "DataRepresentation", "EntityName"}
  <2>1. p.scope[1] \in DOMAIN ScopeRank
    BY ScopesArePairs
  <2> QED
    BY <2>1 DEF ScopeRank, Ranks, ScopeNames
<1> QED
  BY <1>3, <1>4, <1>5, <1>6, <1>7, <1>8, <1>9, <1>10, <1>11, <1>12, <1>13, <1>14,
     <1>15, <1>16, <1>17, <1>18, <1>19, <1>20, <1>21, <1>22, <1>23, <1>24, <1>25,
     <1>26, <1>27, <1>28, <1>29, <1>30

\* How many integers a getter has before it.
LEMMA LengthsRead ==
  ASSUME NEW s, NEW c, Shaped(s, c)
  PROVE  /\ s = "Reliability" => Len(c) = 2
         /\ s = "Durability" => Len(c) = 1
         /\ s = "History" => Len(c) = 2
         /\ s = "ResourceLimits" => Len(c) = 3
         /\ s = "PresentationAccessScope" => Len(c) = 3
         /\ s = "Lifespan" => Len(c) = 1
         /\ s = "Deadline" => Len(c) = 1
         /\ s = "LatencyBudget" => Len(c) = 1
         /\ s = "Ownership" => Len(c) = 1
         /\ s = "OwnershipStrength" => Len(c) = 1
         /\ s = "Liveliness" => Len(c) = 2
         /\ s = "TimeBasedFilter" => Len(c) = 1
         /\ s = "TransportPriority" => Len(c) = 1
         /\ s = "DestinationOrder" => Len(c) = 1
         /\ s = "WriterDataLifecycle" => Len(c) = 1
         /\ s = "ReaderDataLifecycle" => Len(c) = 2
         /\ s = "DurabilityService" => Len(c) = 6
         /\ s = "IgnoreLocal" => Len(c) = 1
         /\ s = "Userdata" => Len(c) = 1
         /\ s = "Groupdata" => Len(c) = 1
         /\ s = "Topicdata" => Len(c) = 1
         /\ s = "TypeConsistency" => Len(c) = 6
         /\ s = "EntityName" => Len(c) = 1
BY DEF Shaped, Cells, InCell, AnyLength, CellLengths

LEMMA ClassesKnown ==
  /\ <<"Reliability", "BestEffort", 0>> \in PolicyClasses
  /\ <<"Reliability", "Reliable", 1>> \in PolicyClasses
  /\ <<"Durability", "Volatile", 0>> \in PolicyClasses
  /\ <<"Durability", "TransientLocal", 0>> \in PolicyClasses
  /\ <<"Durability", "Transient", 0>> \in PolicyClasses
  /\ <<"Durability", "Persistent", 0>> \in PolicyClasses
  /\ <<"History", "KeepAll", 0>> \in PolicyClasses
  /\ <<"History", "KeepLast", 1>> \in PolicyClasses
  /\ <<"ResourceLimits", Blank, 3>> \in PolicyClasses
  /\ <<"PresentationAccessScope", "Instance", 2>> \in PolicyClasses
  /\ <<"PresentationAccessScope", "Topic", 2>> \in PolicyClasses
  /\ <<"PresentationAccessScope", "Group", 2>> \in PolicyClasses
  /\ <<"Lifespan", Blank, 1>> \in PolicyClasses
  /\ <<"Deadline", Blank, 1>> \in PolicyClasses
  /\ <<"LatencyBudget", Blank, 1>> \in PolicyClasses
  /\ <<"Ownership", "Shared", 0>> \in PolicyClasses
  /\ <<"Ownership", "Exclusive", 0>> \in PolicyClasses
  /\ <<"OwnershipStrength", Blank, 1>> \in PolicyClasses
  /\ <<"Liveliness", "Automatic", 1>> \in PolicyClasses
  /\ <<"Liveliness", "ManualByParticipant", 1>> \in PolicyClasses
  /\ <<"Liveliness", "ManualByTopic", 1>> \in PolicyClasses
  /\ <<"TimeBasedFilter", Blank, 1>> \in PolicyClasses
  /\ <<"TransportPriority", Blank, 1>> \in PolicyClasses
  /\ <<"DestinationOrder", "ByReceptionTimestamp", 0>> \in PolicyClasses
  /\ <<"DestinationOrder", "BySourceTimestamp", 0>> \in PolicyClasses
  /\ <<"WriterDataLifecycle", Blank, 1>> \in PolicyClasses
  /\ <<"ReaderDataLifecycle", Blank, 2>> \in PolicyClasses
  /\ <<"DurabilityService", Blank, 5>> \in PolicyClasses
  /\ <<"IgnoreLocal", "Nothing", 0>> \in PolicyClasses
  /\ <<"IgnoreLocal", "Participant", 0>> \in PolicyClasses
  /\ <<"IgnoreLocal", "Process", 0>> \in PolicyClasses
  /\ <<"Userdata", Blank, 1>> \in PolicyClasses
  /\ <<"Groupdata", Blank, 1>> \in PolicyClasses
  /\ <<"Topicdata", Blank, 1>> \in PolicyClasses
  /\ <<"Property", Blank, 2>> \in PolicyClasses
  /\ <<"BinaryProperty", Blank, 2>> \in PolicyClasses
  /\ <<"TypeConsistency", "DisallowTypeCoercion", 1>> \in PolicyClasses
  /\ <<"TypeConsistency", "AllowTypeCoercion", 5>> \in PolicyClasses
  /\ <<"DataRepresentation", Blank, 2>> \in PolicyClasses
  /\ <<"EntityName", Blank, 1>> \in PolicyClasses
BY DEF PolicyClasses, DeliveryClasses, OrderingClasses, LifeClasses, ServiceClasses, TypeClasses

AllPolicies(r) == \A i \in DOMAIN r : IsPolicy(r[i])

LEMMA PolicyMade ==
  ASSUME NEW s, NEW kind, NEW args, args \in Seq(Int),
         <<s, kind, Len(args)>> \in PolicyClasses \/ (s = "Partition" /\ kind = Blank)
  PROVE  IsPolicy(Policy(s, kind, args)) /\ AllPolicies(<<Policy(s, kind, args)>>)
<1> DEFINE p == Policy(s, kind, args)
<1>1. p.args = args /\ p.kind = kind /\ p.scope = <<s, Blank>>
  BY DEF Policy
<1> HIDE DEF p
<1>2. p.scope[1] = s /\ p.scope[2] = Blank
  <2>1. <<s, Blank>>[1] = s /\ <<s, Blank>>[2] = Blank
    OBVIOUS
  <2> QED
    BY <1>1, <2>1
<1>3. IsPolicy(p)
  BY <1>1, <1>2 DEF IsPolicy
<1>4. DOMAIN <<p>> = {1} /\ <<p>>[1] = p
  OBVIOUS
<1> QED
  BY <1>3, <1>4 DEF AllPolicies, p

LEMMA KindsMade ==
  /\ AllPolicies(<<Policy("Reliability", "BestEffort", <<>>)>>)
  /\ AllPolicies(<<Policy("Durability", "Volatile", <<>>)>>)
  /\ AllPolicies(<<Policy("Durability", "TransientLocal", <<>>)>>)
  /\ AllPolicies(<<Policy("Durability", "Transient", <<>>)>>)
  /\ AllPolicies(<<Policy("Durability", "Persistent", <<>>)>>)
  /\ AllPolicies(<<Policy("History", "KeepAll", <<>>)>>)
  /\ AllPolicies(<<Policy("Ownership", "Shared", <<>>)>>)
  /\ AllPolicies(<<Policy("Ownership", "Exclusive", <<>>)>>)
  /\ AllPolicies(<<Policy("DestinationOrder", "ByReceptionTimestamp", <<>>)>>)
  /\ AllPolicies(<<Policy("DestinationOrder", "BySourceTimestamp", <<>>)>>)
  /\ AllPolicies(<<Policy("IgnoreLocal", "Nothing", <<>>)>>)
  /\ AllPolicies(<<Policy("IgnoreLocal", "Participant", <<>>)>>)
  /\ AllPolicies(<<Policy("IgnoreLocal", "Process", <<>>)>>)
  /\ \A a \in Int :
       /\ AllPolicies(<<Policy("Reliability", "Reliable", <<a>>)>>)
       /\ AllPolicies(<<Policy("History", "KeepLast", <<a>>)>>)
       /\ AllPolicies(<<Policy("Liveliness", "Automatic", <<a>>)>>)
       /\ AllPolicies(<<Policy("Liveliness", "ManualByParticipant", <<a>>)>>)
       /\ AllPolicies(<<Policy("Liveliness", "ManualByTopic", <<a>>)>>)
       /\ AllPolicies(<<Policy("TypeConsistency", "DisallowTypeCoercion", <<a>>)>>)
  /\ \A a, b \in Int :
       /\ AllPolicies(<<Policy("PresentationAccessScope", "Instance", <<a, b>>)>>)
       /\ AllPolicies(<<Policy("PresentationAccessScope", "Topic", <<a, b>>)>>)
       /\ AllPolicies(<<Policy("PresentationAccessScope", "Group", <<a, b>>)>>)
       /\ AllPolicies(<<Policy("DataRepresentation", Blank, <<a, b>>)>>)
  /\ \A a, b, c, d, e \in Int :
       AllPolicies(<<Policy("DurabilityService", Blank, <<a, b, c, d, e>>)>>)
<1>1. <<>> \in Seq(Int) /\ Len(<<>>) = 0
  OBVIOUS
<1>2. \A a \in Int : <<a>> \in Seq(Int) /\ Len(<<a>>) = 1
  OBVIOUS
<1>3. \A a, b \in Int : <<a, b>> \in Seq(Int) /\ Len(<<a, b>>) = 2
  OBVIOUS
<1>4. \A a, b, c, d, e \in Int : <<a, b, c, d, e>> \in Seq(Int) /\ Len(<<a, b, c, d, e>>) = 5
  OBVIOUS
<1>5. /\ AllPolicies(<<Policy("Reliability", "BestEffort", <<>>)>>)
      /\ AllPolicies(<<Policy("Durability", "Volatile", <<>>)>>)
      /\ AllPolicies(<<Policy("Durability", "TransientLocal", <<>>)>>)
      /\ AllPolicies(<<Policy("Durability", "Transient", <<>>)>>)
      /\ AllPolicies(<<Policy("Durability", "Persistent", <<>>)>>)
      /\ AllPolicies(<<Policy("History", "KeepAll", <<>>)>>)
      /\ AllPolicies(<<Policy("Ownership", "Shared", <<>>)>>)
      /\ AllPolicies(<<Policy("Ownership", "Exclusive", <<>>)>>)
      /\ AllPolicies(<<Policy("DestinationOrder", "ByReceptionTimestamp", <<>>)>>)
      /\ AllPolicies(<<Policy("DestinationOrder", "BySourceTimestamp", <<>>)>>)
      /\ AllPolicies(<<Policy("IgnoreLocal", "Nothing", <<>>)>>)
      /\ AllPolicies(<<Policy("IgnoreLocal", "Participant", <<>>)>>)
      /\ AllPolicies(<<Policy("IgnoreLocal", "Process", <<>>)>>)
  BY <1>1, PolicyMade, ClassesKnown
<1>6. ASSUME NEW a \in Int
      PROVE  /\ AllPolicies(<<Policy("Reliability", "Reliable", <<a>>)>>)
             /\ AllPolicies(<<Policy("History", "KeepLast", <<a>>)>>)
             /\ AllPolicies(<<Policy("Liveliness", "Automatic", <<a>>)>>)
             /\ AllPolicies(<<Policy("Liveliness", "ManualByParticipant", <<a>>)>>)
             /\ AllPolicies(<<Policy("Liveliness", "ManualByTopic", <<a>>)>>)
             /\ AllPolicies(<<Policy("TypeConsistency", "DisallowTypeCoercion", <<a>>)>>)
  BY <1>2, PolicyMade, ClassesKnown
<1>7. ASSUME NEW a \in Int, NEW b \in Int
      PROVE  /\ AllPolicies(<<Policy("PresentationAccessScope", "Instance", <<a, b>>)>>)
             /\ AllPolicies(<<Policy("PresentationAccessScope", "Topic", <<a, b>>)>>)
             /\ AllPolicies(<<Policy("PresentationAccessScope", "Group", <<a, b>>)>>)
             /\ AllPolicies(<<Policy("DataRepresentation", Blank, <<a, b>>)>>)
  BY <1>3, PolicyMade, ClassesKnown
<1>8. ASSUME NEW a \in Int, NEW b \in Int, NEW c \in Int, NEW d \in Int, NEW e \in Int
      PROVE  AllPolicies(<<Policy("DurabilityService", Blank, <<a, b, c, d, e>>)>>)
  BY <1>4, PolicyMade, ClassesKnown
<1> QED
  BY <1>5, <1>6, <1>7, <1>8

LEMMA GettersMake ==
  ASSUME NEW j \in DOMAIN AllScopes, AllScopes[j] \notin PropertyScopes, NEW c,
         Shaped(AllScopes[j], c)
  PROVE  AllPolicies(FromC(AllScopes[j], c))
<1> DEFINE s == AllScopes[j]
<1> SUFFICES AllPolicies(FromC(s, c))
  OBVIOUS
<1>0. s \in
      {"Reliability", "Durability", "History", "ResourceLimits",
      "PresentationAccessScope", "Lifespan", "Deadline", "LatencyBudget", "Ownership",
      "OwnershipStrength", "Liveliness", "TimeBasedFilter", "Partition",
      "TransportPriority", "DestinationOrder", "WriterDataLifecycle",
      "ReaderDataLifecycle", "DurabilityService", "IgnoreLocal", "Userdata",
      "Groupdata", "Topicdata", "TypeConsistency", "DataRepresentation", "EntityName"}
  <2>1. s \in {AllScopes[k] : k \in 1 .. 27} \ PropertyScopes
    BY ScopesKnown
  <2> QED
    BY <2>1 DEF AllScopes, PropertyScopes
<1> HIDE DEF s
<1>1. c \in Seq(Int) /\ \A i \in 1 .. Len(c) : c[i] \in Int
  <2>1. c \in Seq(Int)
    BY DEF Shaped, InCell
  <2> QED
    BY <2>1
<1>2. /\ s = "Reliability" => Len(c) = 2
      /\ s = "Durability" => Len(c) = 1
      /\ s = "History" => Len(c) = 2
      /\ s = "ResourceLimits" => Len(c) = 3
      /\ s = "PresentationAccessScope" => Len(c) = 3
      /\ s = "Lifespan" => Len(c) = 1
      /\ s = "Deadline" => Len(c) = 1
      /\ s = "LatencyBudget" => Len(c) = 1
      /\ s = "Ownership" => Len(c) = 1
      /\ s = "OwnershipStrength" => Len(c) = 1
      /\ s = "Liveliness" => Len(c) = 2
      /\ s = "TimeBasedFilter" => Len(c) = 1
      /\ s = "TransportPriority" => Len(c) = 1
      /\ s = "DestinationOrder" => Len(c) = 1
      /\ s = "WriterDataLifecycle" => Len(c) = 1
      /\ s = "ReaderDataLifecycle" => Len(c) = 2
      /\ s = "DurabilityService" => Len(c) = 6
      /\ s = "IgnoreLocal" => Len(c) = 1
      /\ s = "Userdata" => Len(c) = 1
      /\ s = "Groupdata" => Len(c) = 1
      /\ s = "Topicdata" => Len(c) = 1
      /\ s = "TypeConsistency" => Len(c) = 6
      /\ s = "EntityName" => Len(c) = 1
  BY LengthsRead DEF s
<1>3. AllPolicies(<<>>)
  BY DEF AllPolicies
<1>4. CASE s = "Reliability"
  <2>1. c[1] \in Int /\ c[2] \in Int
    BY <1>1, <1>2, <1>4
  <2> QED
    BY <1>4, <2>1, KindsMade DEF FromC, GetReliability
<1>5. CASE s = "Durability"
  BY <1>1, <1>2, <1>3, <1>5, KindsMade DEF FromC, GetDurability
<1>6. CASE s = "History"
  <2>1. c[1] \in Int /\ c[2] \in Int
    BY <1>1, <1>2, <1>6
  <2> QED
    BY <1>6, <2>1, KindsMade DEF FromC, GetHistory
<1>7. CASE s = "ResourceLimits"
  BY <1>1, <1>2, <1>3, <1>7, PolicyMade, ClassesKnown DEF FromC, GetResourceLimits
<1>8. CASE s = "PresentationAccessScope"
  <2>1. c[1] \in Int /\ c[2] \in Int /\ c[3] \in Int
    <3>1. Len(c) = 3
      BY <1>2, <1>8
    <3> QED
      BY <1>1, <3>1
  <2> QED
    BY <1>8, <2>1, KindsMade DEF FromC, GetPresentation
<1>9. CASE s = "Lifespan"
  BY <1>1, <1>2, <1>3, <1>9, PolicyMade, ClassesKnown DEF FromC, GetLifespan
<1>10. CASE s = "Deadline"
  BY <1>1, <1>2, <1>3, <1>10, PolicyMade, ClassesKnown DEF FromC, GetDeadline
<1>11. CASE s = "LatencyBudget"
  BY <1>1, <1>2, <1>3, <1>11, PolicyMade, ClassesKnown DEF FromC, GetLatencyBudget
<1>12. CASE s = "Ownership"
  BY <1>1, <1>2, <1>3, <1>12, KindsMade DEF FromC, GetOwnership
<1>13. CASE s = "OwnershipStrength"
  BY <1>1, <1>2, <1>3, <1>13, PolicyMade, ClassesKnown DEF FromC, GetOwnershipStrength
<1>14. CASE s = "Liveliness"
  <2>1. c[1] \in Int /\ c[2] \in Int
    BY <1>1, <1>2, <1>14
  <2> QED
    BY <1>14, <2>1, KindsMade DEF FromC, GetLiveliness
<1>15. CASE s = "TimeBasedFilter"
  BY <1>1, <1>2, <1>3, <1>15, PolicyMade, ClassesKnown DEF FromC, GetTimeBasedFilter
<1>16. CASE s = "Partition"
  BY <1>1, <1>2, <1>3, <1>16, PolicyMade, ClassesKnown DEF FromC, GetPartition
<1>17. CASE s = "TransportPriority"
  BY <1>1, <1>2, <1>3, <1>17, PolicyMade, ClassesKnown DEF FromC, GetTransportPriority
<1>18. CASE s = "DestinationOrder"
  BY <1>1, <1>2, <1>3, <1>18, KindsMade DEF FromC, GetDestinationOrder
<1>19. CASE s = "WriterDataLifecycle"
  BY <1>1, <1>2, <1>3, <1>19, PolicyMade, ClassesKnown DEF FromC, GetWriterDataLifecycle
<1>20. CASE s = "ReaderDataLifecycle"
  BY <1>1, <1>2, <1>3, <1>20, PolicyMade, ClassesKnown DEF FromC, GetReaderDataLifecycle
<1>21. CASE s = "DurabilityService"
  <2> DEFINE history == IF c[2] = 0 THEN c[3] ELSE KeepAllHistory
  <2>1. c[1] \in Int /\ c[3] \in Int /\ c[4] \in Int /\ c[5] \in Int /\ c[6] \in Int
    <3>1. Len(c) = 6
      BY <1>2, <1>21
    <3> QED
      BY <1>1, <3>1
  <2>2. history \in Int
    BY <2>1 DEF KeepAllHistory
  <2>3. FromC(s, c) =
          <<Policy("DurabilityService", Blank, <<c[1], history, c[4], c[5], c[6]>>)>>
    BY <1>21 DEF FromC, GetDurabilityService
  <2> HIDE DEF history
  <2> QED
    <3>1. \A a, b, d, e, f \in Int :
            AllPolicies(<<Policy("DurabilityService", Blank, <<a, b, d, e, f>>)>>)
      BY KindsMade
    <3>2. AllPolicies(<<Policy("DurabilityService", Blank, <<c[1], history, c[4], c[5], c[6]>>)>>)
      BY <2>1, <2>2, <3>1
    <3> QED
      BY <2>3, <3>2
<1>22. CASE s = "IgnoreLocal"
  BY <1>1, <1>2, <1>3, <1>22, KindsMade DEF FromC, GetIgnoreLocal
<1>23. CASE s = "Userdata"
  BY <1>1, <1>2, <1>3, <1>23, PolicyMade, ClassesKnown DEF FromC, GetUserdata
<1>24. CASE s = "Groupdata"
  BY <1>1, <1>2, <1>3, <1>24, PolicyMade, ClassesKnown DEF FromC, GetGroupdata
<1>25. CASE s = "Topicdata"
  BY <1>1, <1>2, <1>3, <1>25, PolicyMade, ClassesKnown DEF FromC, GetTopicdata
<1>26. CASE s = "TypeConsistency"
  <2>1. c[6] \in Int
    BY <1>1, <1>2, <1>26
  <2>2. Tail(c) \in Seq(Int) /\ Len(Tail(c)) = 5
    <3>1. Len(c) = 6
      BY <1>2, <1>26
    <3>2. \A V, x : x \in Seq(V) /\ Len(x) = 6 => Tail(x) \in Seq(V) /\ Len(Tail(x)) = 5
      OBVIOUS
    <3> QED
      BY <1>1, <3>1, <3>2
  <2>3. AllPolicies(<<Policy("TypeConsistency", "AllowTypeCoercion", Tail(c))>>)
    BY <2>2, PolicyMade, ClassesKnown
  <2>4. AllPolicies(<<Policy("TypeConsistency", "DisallowTypeCoercion", <<c[6]>>)>>)
    BY <2>1, KindsMade
  <2> QED
    BY <1>26, <2>3, <2>4 DEF FromC, GetTypeConsistency
<1>27. CASE s = "DataRepresentation"
  <2> DEFINE has(id) == Truth(\E i \in DOMAIN c : c[i] = id)
  <2>1. has(0) \in Int /\ has(2) \in Int
    BY DEF Truth
  <2>2. FromC(s, c) = <<Policy("DataRepresentation", Blank, <<has(0), has(2)>>)>>
    BY <1>27 DEF FromC, GetDataRepresentation
  <2> HIDE DEF has
  <2> QED
    BY <2>1, <2>2, KindsMade
<1>28. CASE s = "EntityName"
  BY <1>1, <1>2, <1>3, <1>28, PolicyMade, ClassesKnown DEF FromC, GetEntityName
<1> QED
  BY <1>0, <1>4, <1>5, <1>6, <1>7, <1>8, <1>9, <1>10, <1>11, <1>12, <1>13, <1>14, <1>15,
     <1>16, <1>17, <1>18, <1>19, <1>20, <1>21, <1>22, <1>23, <1>24, <1>25, <1>26,
     <1>27, <1>28

(***************************************************************************)
(* A C qos has what its setters passed, under the scopes they serve; what  *)
(* a getter reads has the shape it expects, also when another thread has   *)
(* written it, because what shares a class attribute has the same shape.   *)
(***************************************************************************)
Settings(c) ==
  \A s \in DOMAIN c :
    s \in Scopes /\ (s[1] \in PropertyScopes \/ s[2] = Blank) /\ Shaped(s[1], c[s])

Supported(h) ==
  /\ AllPolicies(h.policies)
  /\ \A i \in DOMAIN h.policies : Supports(h.class, h.policies[i].scope)

Steady == {"idle", "creating", "setting", "fetching", "calling", "reading"}

Working(p, e, c, a) ==
  /\ p \in Steady /\ e \in Places \cup {Absent}
  /\ p # "idle" => e \in Places
  /\ p = "creating" => e \in Entities
  /\ p \in {"creating", "setting", "calling", "reading"} => Settings(c)
  /\ p \in {"calling", "reading"} /\ a \in DOMAIN AllScopes => Answers(c, AllScopes[a])

Ready(p, e, a, qos, attributes) ==
  /\ p \in {"fetching", "setting"} => Settings(qos[e])
  /\ p = "reading" => Cells(AllScopes[a]) \in DOMAIN attributes

ThreadsTyped ==
  \A t \in Threads :
    /\ Supported(held[t]) /\ AllPolicies(found[t])
    /\ Working(pc[t], place[t], cq[t], at[t])
    /\ Ready(pc[t], place[t], at[t], native, cells)

FunctionsKept ==
  /\ pc \in [Threads -> Steady]
  /\ place \in [Threads -> Places \cup {Absent}]
  /\ at \in [Threads -> 0 .. Len(AllScopes) + 1]
  /\ DOMAIN cq = Threads /\ DOMAIN native = Places

CTyped ==
  /\ \A e \in Places : native[e] = Absent \/ Settings(native[e])
  /\ \A k \in DOMAIN cells : InCell(k, cells[k])

PolicyInv == FunctionsKept /\ CTyped /\ ThreadsTyped

LEMMA ElementsOf ==
  ASSUME NEW r
  PROVE  AllPolicies(r) <=> \A x \in ToSet(r) : IsPolicy(x)
BY DEF AllPolicies, ToSet

LEMMA PropertiesMake ==
  ASSUME NEW s \in PropertyScopes, NEW c, Settings(c)
  PROVE  AllPolicies(Properties(s, c))
<1> DEFINE K == ToSet(PropertyKeys)
           places == {i \in DOMAIN PropertyKeys : <<s, PropertyKeys[i]>> \in DOMAIN c}
           keys == Chosen(PropertyKeys, places)
           get(k) == IF s = "Property" THEN GetProperty(k, c[<<s, k>>])
                                       ELSE GetBinaryProperty(k, c[<<s, k>>])
           r == [i \in DOMAIN keys |-> get(keys[i])]
<1>1. PropertyKeys \in Seq(K)
  BY QosAssumption DEF QosAssumption
<1>2. Properties(s, c) = r
  BY DEF Properties
<1>3. \A i \in places : <<s, PropertyKeys[i]>> \in DOMAIN c
  OBVIOUS
<1> HIDE DEF K, places
<1>4. PICK m : Picks(keys, m, PropertyKeys, places, Len(PropertyKeys), K)
  BY <1>1, ChosenPicks
<1> HIDE DEF keys
<1>5. DOMAIN keys = 1 .. Len(keys) /\ \A i \in DOMAIN keys : m[i] \in places /\ keys[i] = PropertyKeys[m[i]]
  BY <1>4 DEF Picks
<1>6. ASSUME NEW k, <<s, k>> \in DOMAIN c PROVE IsPolicy(get(k))
  <2>1. <<s, k>>[1] = s
    OBVIOUS
  <2>2. Shaped(s, c[<<s, k>>])
    BY <1>6, <2>1 DEF Settings
  <2>3. c[<<s, k>>] \in Seq(Int) /\ Len(c[<<s, k>>]) = 2
    BY <2>2 DEF Shaped, Cells, InCell, AnyLength, CellLengths, PropertyScopes
  <2>4. <<s, Blank, 2>> \in PolicyClasses
    BY ClassesKnown DEF PropertyScopes
  <2> DEFINE p == get(k)
  <2>5. p.scope = <<s, k>> /\ p.kind = Blank /\ p.args = c[<<s, k>>]
    BY DEF GetProperty, GetBinaryProperty, PropertyScopes
  <2> HIDE DEF p
  <2>6. IsPolicy(p)
    BY <2>1, <2>3, <2>4, <2>5 DEF IsPolicy
  <2> QED
    BY <2>6 DEF p
<1> HIDE DEF get
<1>7. \A i \in DOMAIN r : IsPolicy(r[i])
  BY <1>3, <1>5, <1>6
<1> QED
  BY <1>2, <1>7 DEF AllPolicies

LEMMA QosToCSets ==
  ASSUME NEW q, Good(q), AllPolicies(q)
  PROVE  Settings(QosToC(q))
<1> DEFINE set == Chosen(q, {i \in DOMAIN q : HasEffect(q[i])})
           of(s) == CHOOSE i \in DOMAIN set : set[i].scope = s
<1>1. QosToC(q) = [s \in {set[i].scope : i \in DOMAIN set} |-> ToC(set[of(s)])]
  BY DEF QosToC
<1>2. Good(set) /\ \A x \in ToSet(set) : x \in ToSet(q)
  BY ChosenFrom DEF ToSet
<1>3. \A i \in DOMAIN set : IsPolicy(set[i]) /\ set[i].scope \in Scopes
  BY <1>2, ElementsOf DEF Good, ToSet
<1> HIDE DEF set
<1>4. ASSUME NEW s \in {set[i].scope : i \in DOMAIN set}
      PROVE  s \in Scopes /\ (s[1] \in PropertyScopes \/ s[2] = Blank) /\ Shaped(s[1], ToC(set[of(s)]))
  <2>1. of(s) \in DOMAIN set /\ set[of(s)].scope = s
    OBVIOUS
  <2> DEFINE p == set[of(s)]
  <2>2. IsPolicy(p) /\ p.scope \in Scopes /\ p.scope = s
    BY <1>3, <2>1
  <2> HIDE DEF p
  <2>3. Shaped(s[1], ToC(p))
    BY <2>2, SettersShape
  <2>4. s[1] \in PropertyScopes \/ s[2] = Blank
    BY <2>2 DEF IsPolicy
  <2> QED
    BY <2>2, <2>3, <2>4 DEF p
<1> QED
  BY <1>1, <1>4 DEF Settings

LEMMA SetOverSets ==
  ASSUME NEW c, NEW d, Settings(c), Settings(d)
  PROVE  Settings(SetOver(c, d))
<1> DEFINE o == SetOver(c, d)
<1>1. DOMAIN o = DOMAIN c \cup DOMAIN d
  BY DEF SetOver
<1>2. \A s \in DOMAIN o : (s \in DOMAIN c /\ o[s] = c[s]) \/ (s \in DOMAIN d /\ o[s] = d[s])
  BY DEF SetOver
<1> HIDE DEF o
<1>3. Settings(o)
  BY <1>1, <1>2 DEF Settings
<1> QED
  BY <1>3 DEF o

LEMMA NextScopeAnswers ==
  ASSUME NEW c, NEW i \in 1 .. Len(AllScopes) + 1, NextScope(c, i) \in DOMAIN AllScopes
  PROVE  Answers(c, AllScopes[NextScope(c, i)])
<1> DEFINE answered == {j \in i .. Len(AllScopes) : Answers(c, AllScopes[j])}
<1>1. Len(AllScopes) = 27 /\ DOMAIN AllScopes = 1 .. 27
  BY ScopesKnown
<1>2. answered # {}
  <2> SUFFICES ASSUME answered = {} PROVE FALSE
    OBVIOUS
  <2>1. NextScope(c, i) = Len(AllScopes) + 1
    BY DEF NextScope
  <2> QED
    BY <1>1, <2>1
<1>3. \E m \in answered : \A k \in answered : m <= k
  <2>1. answered \in SUBSET Nat
    BY <1>1
  <2> QED
    BY <1>2, <2>1, LeastNumber
<1>4. Min(answered) \in answered
  BY <1>3, Zenon DEF Min
<1>5. NextScope(c, i) = Min(answered)
  BY <1>2 DEF NextScope
<1> QED
  BY <1>4, <1>5

\* A scope that is no property and has an answer is set under the blank key.
LEMMA AnswerIsSet ==
  ASSUME NEW c, Settings(c), NEW s, s \notin PropertyScopes, Answers(c, s)
  PROVE  <<s, Blank>> \in DOMAIN c /\ Shaped(s, c[<<s, Blank>>])
<1>1. PICK scope \in DOMAIN c : scope[1] = s
  BY DEF Answers
<1>2. scope \in Scopes /\ scope[2] = Blank /\ Shaped(s, c[scope])
  BY <1>1 DEF Settings
<1>3. scope = <<s, Blank>>
  BY <1>1, <1>2, ScopesArePairs
<1> QED
  BY <1>2, <1>3

LEMMA WrittenDown ==
  /\ \A l \in Literals : AllPolicies(l)
  /\ \A e \in Profiles : Good(InFile[e]) /\ AllPolicies(InFile[e])
  /\ \A e \in Entities : Good(Defaults[Kind[e]]) /\ AllPolicies(Defaults[Kind[e]])
<1>1. ASSUME NEW q, NEW class, IsQos(class, q) PROVE Good(q) /\ AllPolicies(q)
  BY <1>1 DEF IsQos, Good, AllPolicies
<1> QED
  BY <1>1, QosAssumption DEF QosAssumption

\* A step of one thread leaves what the others rely on.
LEMMA OthersTyped ==
  ASSUME PolicyInv, FunctionsKept', CTyped', NEW t \in Threads,
         \A u \in Threads \ {t} : held'[u] = held[u] /\ found'[u] = found[u] /\ at'[u] = at[u]
                                  /\ pc'[u] = pc[u] /\ place'[u] = place[u] /\ cq'[u] = cq[u],
         \A e \in Places : Settings(native[e]) => Settings(native'[e]),
         DOMAIN cells \subseteq DOMAIN cells',
         Supported(held'[t]), AllPolicies(found'[t]),
         Working(pc'[t], place'[t], cq'[t], at'[t]),
         Ready(pc'[t], place'[t], at'[t], native', cells')
  PROVE  PolicyInv'
<1>1. ASSUME NEW u \in Threads
      PROVE  /\ Supported(held'[u]) /\ AllPolicies(found'[u])
             /\ Working(pc'[u], place'[u], cq'[u], at'[u])
             /\ Ready(pc'[u], place'[u], at'[u], native', cells')
  <2>1. CASE u = t
    BY <2>1
  <2>2. CASE u # t
    <3>1. /\ Supported(held[u]) /\ AllPolicies(found[u])
          /\ Working(pc[u], place[u], cq[u], at[u])
          /\ Ready(pc[u], place[u], at[u], native, cells)
      BY DEF PolicyInv, ThreadsTyped
    <3>2. Ready(pc[u], place[u], at[u], native', cells')
      BY <3>1 DEF Ready, Working
    <3>3. /\ held'[u] = held[u] /\ found'[u] = found[u] /\ at'[u] = at[u]
          /\ pc'[u] = pc[u] /\ place'[u] = place[u] /\ cq'[u] = cq[u]
      BY <2>2
    <3> QED
      BY <3>1, <3>2, <3>3
  <2> QED
    BY <2>1, <2>2
<1>2. ThreadsTyped'
  BY <1>1 DEF ThreadsTyped
<1> QED
  BY <1>2 DEF PolicyInv

LEMMA ResultTyped ==
  ASSUME PolicyInv, NEW t \in Threads, NEW class, NEW ps, Result(t, class, ps),
         AllPolicies(ps), \A i \in DOMAIN ps : Supports(class, ps[i].scope), DOMAIN held = Threads
  PROVE  PolicyInv'
<1> DEFINE h == [class |-> class, policies |-> ps]
<1>1. /\ held' = [held EXCEPT ![t] = h]
      /\ UNCHANGED <<found, at, pc, place, cq, cells, native>>
  BY DEF Result
<1>2. Supported(h)
  BY DEF Supported
<1> HIDE DEF h
<1>3. held'[t] = h /\ \A u \in Threads \ {t} : held'[u] = held[u]
  BY <1>1
<1>4. FunctionsKept' /\ CTyped'
  BY <1>1 DEF PolicyInv, FunctionsKept, CTyped
<1>5. /\ AllPolicies(found'[t])
      /\ Working(pc'[t], place'[t], cq'[t], at'[t])
      /\ Ready(pc'[t], place'[t], at'[t], native', cells')
  BY <1>1 DEF PolicyInv, ThreadsTyped
<1> QED
  BY <1>1, <1>2, <1>3, <1>4, <1>5, OthersTyped

\* Any Qos takes what a Qos object may have.
LEMMA QosSupports ==
  ASSUME NEW q, Good(q)
  PROVE  \A i \in DOMAIN q : Supports("Qos", q[i].scope)
BY ScopesArePairs DEF Good, Supports

LEMMA OperandsTyped ==
  ASSUME PolicyInv, NEW t \in Threads, NEW q \in Operands(t)
  PROVE  AllPolicies(q)
<1>1. AllPolicies(<<>>)
  BY DEF AllPolicies
<1>2. AllPolicies(held[t].policies)
  BY DEF PolicyInv, ThreadsTyped, Supported
<1> QED
  BY <1>1, <1>2, WrittenDown DEF Operands

LEMMA ChosenTyped ==
  ASSUME NEW q, Good(q), AllPolicies(q), NEW places
  PROVE  AllPolicies(Chosen(q, places))
<1> DEFINE r == Chosen(q, places)
<1>1. \A x \in ToSet(r) : x \in ToSet(q)
  BY ChosenFrom DEF ToSet
<1> HIDE DEF r
<1>2. AllPolicies(r)
  BY <1>1, ElementsOf
<1> QED
  BY <1>2 DEF r

LEMMA NarrowedSupports ==
  ASSUME NEW q, Good(q), NEW class
  PROVE  \A i \in DOMAIN Narrowed(class, q) : Supports(class, Narrowed(class, q)[i].scope)
<1> DEFINE places == {i \in DOMAIN q : Supports(class, q[i].scope)}
           r == Chosen(q, places)
<1>1. \A x \in ToSet(r) : \E k \in DOMAIN q \cap places : x = q[k]
  <2> HIDE DEF places
  <2> QED
    BY ChosenFrom
<1>2. \A x \in ToSet(r) : Supports(class, x.scope)
  BY <1>1
<1>3. Narrowed(class, q) = r
  BY DEF Narrowed
<1> HIDE DEF r
<1>4. \A i \in DOMAIN r : Supports(class, r[i].scope)
  BY <1>2 DEF ToSet
<1> QED
  BY <1>3, <1>4

LEMMA OperationsTyped ==
  ASSUME QosInv, PolicyInv, NEW t \in Threads
  PROVE  /\ \A l \in Literals, base \in Operands(t) : Construct(t, l, base) => PolicyInv'
         /\ \A l \in Literals, q \in Operands(t) : Subtract(t, q, l) => PolicyInv'
         /\ \A q \in Operands(t), class \in Classes : Narrow(t, q, class) => PolicyInv'
<1>0. DOMAIN held = Threads
  BY DEF QosInv
<1>1. ASSUME NEW l \in Literals, NEW base \in Operands(t), Construct(t, l, base) PROVE PolicyInv'
  <2> DEFINE w == WithBase(l, base)
             ps == Sorted(w)
  <2>1. PICK class \in Classes : Consistent(class, ps) /\ Result(t, class, ps)
    BY <1>1 DEF Construct
  <2>2. Good(l) /\ Good(base)
    BY LiteralsAreSound, OperandsAreSound DEF Sound
  <2>3. AllPolicies(l) /\ AllPolicies(base)
    BY OperandsTyped, WrittenDown
  <2>4. Good(w) /\ \A x \in ToSet(w) : x \in ToSet(l) \/ x \in ToSet(base)
    BY <2>2, WithBaseKeeps
  <2> HIDE DEF w
  <2>5. ToSet(ps) = ToSet(w)
    BY <2>4, SortedKeeps
  <2> HIDE DEF ps
  <2>6. AllPolicies(ps)
    BY <2>3, <2>4, <2>5, ElementsOf
  <2>7. \A i \in DOMAIN ps : Supports(class, ps[i].scope)
    BY <2>1 DEF Consistent
  <2> QED
    BY <1>0, <2>1, <2>6, <2>7, ResultTyped
<1>2. ASSUME NEW l \in Literals, NEW q \in Operands(t), Subtract(t, q, l) PROVE PolicyInv'
  <2> DEFINE r == Minus(q, l)
  <2>1. Good(q) /\ AllPolicies(q)
    BY OperandsAreSound, OperandsTyped DEF Sound
  <2>2. Good(r) /\ AllPolicies(r)
    BY <2>1, ChosenFrom, ChosenTyped DEF Minus
  <2>3. Result(t, "Qos", r)
    BY <1>2 DEF Subtract
  <2> HIDE DEF r
  <2> QED
    BY <1>0, <2>2, <2>3, QosSupports, ResultTyped
<1>3. ASSUME NEW q \in Operands(t), NEW class \in Classes, Narrow(t, q, class) PROVE PolicyInv'
  <2> DEFINE r == Narrowed(class, q)
  <2>1. Good(q) /\ AllPolicies(q)
    BY OperandsAreSound, OperandsTyped DEF Sound
  <2>2. AllPolicies(r)
    BY <2>1, ChosenTyped DEF Narrowed
  <2>3. \A i \in DOMAIN r : Supports(class, r[i].scope)
    BY <2>1, NarrowedSupports
  <2>4. Result(t, class, r)
    BY <1>3 DEF Narrow
  <2> HIDE DEF r
  <2> QED
    BY <1>0, <2>2, <2>3, <2>4, ResultTyped
<1> QED
  BY <1>1, <1>2, <1>3

\* A thread that starts or ends a call, or goes on with one, keeps its Qos object.
LEMMA CallTyped ==
  ASSUME QosInv, PolicyInv, CTyped', NEW t \in Threads,
         NEW p, NEW e, NEW c, NEW a, NEW r,
         held' = held, pc' = [pc EXCEPT ![t] = p], place' = [place EXCEPT ![t] = e],
         at' = [at EXCEPT ![t] = a], DOMAIN cq' = Threads, cq'[t] = c, found'[t] = r,
         \A u \in Threads \ {t} : cq'[u] = cq[u] /\ found'[u] = found[u],
         DOMAIN native' = Places,
         \A x \in Places : Settings(native[x]) => Settings(native'[x]),
         DOMAIN cells \subseteq DOMAIN cells',
         a \in 0 .. Len(AllScopes) + 1, AllPolicies(r), Working(p, e, c, a),
         Ready(p, e, a, native', cells')
  PROVE  PolicyInv'
<1>1. DOMAIN pc = Threads /\ DOMAIN place = Threads /\ DOMAIN at = Threads
  BY DEF PolicyInv, FunctionsKept
<1>2. /\ pc'[t] = p /\ place'[t] = e /\ cq'[t] = c /\ at'[t] = a /\ found'[t] = r
      /\ \A u \in Threads \ {t} : held'[u] = held[u] /\ found'[u] = found[u] /\ at'[u] = at[u]
                                  /\ pc'[u] = pc[u] /\ place'[u] = place[u] /\ cq'[u] = cq[u]
  BY <1>1
<1>3. p \in Steady /\ e \in Places \cup {Absent}
  BY DEF Working
<1>4. FunctionsKept'
  <2>1. pc' \in [Threads -> Steady]
    BY <1>3 DEF PolicyInv, FunctionsKept
  <2>2. place' \in [Threads -> Places \cup {Absent}]
    BY <1>3 DEF PolicyInv, FunctionsKept
  <2>3. at' \in [Threads -> 0 .. Len(AllScopes) + 1]
    BY DEF PolicyInv, FunctionsKept
  <2> QED
    BY <2>1, <2>2, <2>3 DEF FunctionsKept
<1>5. Supported(held'[t])
  BY DEF PolicyInv, ThreadsTyped
<1> QED
  BY <1>2, <1>4, <1>5, OthersTyped

\* What a thread has, with the Qos object it works with made into a C qos.
LEMMA ThreadHas ==
  ASSUME QosInv, PolicyInv, NEW t \in Threads
  PROVE  /\ DOMAIN held = Threads /\ DOMAIN found = Threads /\ DOMAIN cq = Threads
         /\ DOMAIN native = Places
         /\ pc[t] \in Steady /\ place[t] \in Places \cup {Absent}
         /\ at[t] \in 0 .. Len(AllScopes) + 1
         /\ pc = [pc EXCEPT ![t] = pc[t]] /\ place = [place EXCEPT ![t] = place[t]]
         /\ at = [at EXCEPT ![t] = at[t]]
         /\ AllPolicies(found[t]) /\ Working(pc[t], place[t], cq[t], at[t])
         /\ Ready(pc[t], place[t], at[t], native, cells)
         /\ Settings(QosToC(held[t].policies))
<1>1. Good(held[t].policies) /\ AllPolicies(held[t].policies)
  BY DEF QosInv, HeldSound, Sound, PolicyInv, ThreadsTyped, Supported
<1>2. Settings(QosToC(held[t].policies))
  BY <1>1, QosToCSets
<1>3. DOMAIN held = Threads /\ DOMAIN found = Threads
  BY DEF QosInv
<1>4. /\ DOMAIN cq = Threads /\ DOMAIN native = Places
      /\ pc \in [Threads -> Steady] /\ place \in [Threads -> Places \cup {Absent}]
      /\ at \in [Threads -> 0 .. Len(AllScopes) + 1]
  BY DEF PolicyInv, FunctionsKept
<1>5. /\ AllPolicies(found[t]) /\ Working(pc[t], place[t], cq[t], at[t])
      /\ Ready(pc[t], place[t], at[t], native, cells)
  BY DEF PolicyInv, ThreadsTyped
<1> QED
  BY <1>2, <1>3, <1>4, <1>5

LEMMA StartsTyped ==
  ASSUME QosInv, PolicyInv, NEW t \in Threads
  PROVE  /\ \A e \in Entities : StartCreate(t, e) \/ StartSet(t, e) => PolicyInv'
         /\ \A e \in Places : StartGet(t, e) => PolicyInv'
<1> DEFINE c == QosToC(held[t].policies)
<1>0. Settings(c)
  BY ThreadHas
<1> HIDE DEF c
<1>1. ASSUME NEW e \in Entities, StartCreate(t, e) PROVE PolicyInv'
  <2>1. /\ held' = held /\ found' = found /\ native' = native /\ cells' = cells /\ at' = at
        /\ pc' = [pc EXCEPT ![t] = "creating"] /\ place' = [place EXCEPT ![t] = e]
        /\ cq' = [cq EXCEPT ![t] = c]
    BY <1>1 DEF StartCreate, c
  <2>2. DOMAIN cq' = Threads /\ cq'[t] = c /\ \A u \in Threads \ {t} : cq'[u] = cq[u]
    BY <2>1, ThreadHas
  <2>3. CTyped'
    BY <2>1 DEF PolicyInv, CTyped
  <2>4. Working("creating", e, c, at[t])
    BY <1>0 DEF Working, Steady, Places
  <2>5. Ready("creating", e, at[t], native', cells')
    BY DEF Ready
  <2>6. at' = [at EXCEPT ![t] = at[t]] /\ at[t] \in 0 .. Len(AllScopes) + 1 /\ AllPolicies(found[t])
    BY <2>1, ThreadHas
  <2> QED
    BY <2>1, <2>2, <2>3, <2>4, <2>5, <2>6, ThreadHas, CallTyped
<1>2. ASSUME NEW e \in Entities, StartSet(t, e) PROVE PolicyInv'
  <2>1. /\ held' = held /\ found' = found /\ native' = native /\ cells' = cells /\ at' = at
        /\ pc' = [pc EXCEPT ![t] = "setting"] /\ place' = [place EXCEPT ![t] = e]
        /\ cq' = [cq EXCEPT ![t] = c]
    BY <1>2 DEF StartSet, c
  <2>2. DOMAIN cq' = Threads /\ cq'[t] = c /\ \A u \in Threads \ {t} : cq'[u] = cq[u]
    BY <2>1, ThreadHas
  <2>3. CTyped'
    BY <2>1 DEF PolicyInv, CTyped
  <2>4. Working("setting", e, c, at[t])
    BY <1>0 DEF Working, Steady, Places
  <2>5. Ready("setting", e, at[t], native', cells')
    BY <1>2, <2>1 DEF Ready, StartSet, PolicyInv, CTyped, Places
  <2>6. at' = [at EXCEPT ![t] = at[t]] /\ at[t] \in 0 .. Len(AllScopes) + 1 /\ AllPolicies(found[t])
    BY <2>1, ThreadHas
  <2> QED
    BY <2>1, <2>2, <2>3, <2>4, <2>5, <2>6, ThreadHas, CallTyped
<1>3. ASSUME NEW e \in Places, StartGet(t, e) PROVE PolicyInv'
  <2>1. /\ held' = held /\ found' = found /\ native' = native /\ cells' = cells /\ at' = at
        /\ pc' = [pc EXCEPT ![t] = "fetching"] /\ place' = [place EXCEPT ![t] = e] /\ cq' = cq
    BY <1>3 DEF StartGet
  <2>2. CTyped'
    BY <2>1 DEF PolicyInv, CTyped
  <2>3. Working("fetching", e, cq[t], at[t])
    BY DEF Working, Steady
  <2>4. Ready("fetching", e, at[t], native', cells')
    BY <1>3, <2>1 DEF Ready, StartGet, PolicyInv, CTyped
  <2>5. at' = [at EXCEPT ![t] = at[t]] /\ at[t] \in 0 .. Len(AllScopes) + 1 /\ AllPolicies(found[t])
    BY <2>1, ThreadHas
  <2> QED
    BY <2>1, <2>2, <2>3, <2>4, <2>5, ThreadHas, CallTyped
<1> QED
  BY <1>1, <1>2, <1>3

\* What an entity gets of a C qos goes over what it has.
LEMMA NativeTyped ==
  ASSUME PolicyInv, NEW e \in Places, NEW c, Settings(c), NEW f,
         f = [native EXCEPT ![e] = c]
  PROVE  /\ DOMAIN f = Places
         /\ \A x \in Places : f[x] = Absent \/ Settings(f[x])
         /\ \A x \in Places : Settings(native[x]) => Settings(f[x])
<1>1. DOMAIN native = Places /\ \A x \in Places : native[x] = Absent \/ Settings(native[x])
  BY DEF PolicyInv, FunctionsKept, CTyped
<1> QED
  BY <1>1

LEMMA DoneTyped ==
  ASSUME QosInv, PolicyInv, CTyped', NEW t \in Threads, Done(t),
         UNCHANGED <<held, at, found, cells>>,
         DOMAIN native' = Places,
         \A x \in Places : Settings(native[x]) => Settings(native'[x])
  PROVE  PolicyInv'
<1>1. /\ pc' = [pc EXCEPT ![t] = "idle"] /\ place' = [place EXCEPT ![t] = Absent]
      /\ cq' = [cq EXCEPT ![t] = NoQos]
  BY DEF Done
<1>2. DOMAIN cq' = Threads /\ cq'[t] = NoQos /\ \A u \in Threads \ {t} : cq'[u] = cq[u]
  BY <1>1, ThreadHas
<1>3. Working("idle", Absent, NoQos, at[t])
  BY DEF Working, Steady
<1>4. Ready("idle", Absent, at[t], native', cells')
  BY DEF Ready
<1>5. at' = [at EXCEPT ![t] = at[t]] /\ at[t] \in 0 .. Len(AllScopes) + 1 /\ AllPolicies(found[t])
  BY ThreadHas
<1> QED
  BY <1>1, <1>2, <1>3, <1>4, <1>5, CallTyped

LEMMA EndsTyped ==
  ASSUME QosInv, PolicyInv, NEW t \in Threads, Create(t) \/ Set(t)
  PROVE  PolicyInv'
<1> DEFINE e == place[t]
<1>0. /\ DOMAIN native = Places /\ \A x \in Places : native[x] = Absent \/ Settings(native[x])
      /\ \A k \in DOMAIN cells : InCell(k, cells[k])
  BY DEF PolicyInv, FunctionsKept, CTyped
<1>1. CASE Create(t)
  <2> DEFINE g == Given(e, cq[t])
             d == QosToC(Defaults[Kind[e]])
  <2>1. /\ pc[t] = "creating" /\ native' = [native EXCEPT ![e] = SetOver(g, d)]
        /\ Done(t) /\ UNCHANGED <<held, at, found, cells>>
    BY <1>1 DEF Create
  <2>2. e \in Entities /\ e \in Places /\ Settings(cq[t])
    BY <2>1, ThreadHas DEF Working
  <2>3. DOMAIN g \subseteq DOMAIN cq[t] /\ \A s \in DOMAIN g : g[s] = cq[t][s]
    BY DEF Given
  <2>4. Settings(d)
    BY <2>2, WrittenDown, QosToCSets
  <2> HIDE DEF g, d, e
  <2>5. Settings(g)
    BY <2>2, <2>3 DEF Settings
  <2>6. Settings(SetOver(g, d))
    BY <2>4, <2>5, SetOverSets
  <2>7. /\ DOMAIN native' = Places
        /\ \A x \in Places : native'[x] = Absent \/ Settings(native'[x])
        /\ \A x \in Places : Settings(native[x]) => Settings(native'[x])
    BY <2>1, <2>2, <2>6, NativeTyped
  <2>8. CTyped'
    BY <1>0, <2>1, <2>7 DEF CTyped
  <2> QED
    BY <2>1, <2>7, <2>8, DoneTyped
<1>2. CASE Set(t)
  <2>1. /\ pc[t] = "setting" /\ Done(t) /\ UNCHANGED <<held, at, found, cells>>
        /\ native' = [native EXCEPT ![e] = SetOver(cq[t], native[e])] \/ native' = native
    BY <1>2 DEF Set
  <2>2. e \in Places /\ Settings(cq[t]) /\ Settings(native[e])
    BY <2>1, ThreadHas DEF Working, Ready
  <2> HIDE DEF e
  <2>3. Settings(SetOver(cq[t], native[e]))
    BY <2>2, SetOverSets
  <2>4. /\ DOMAIN native' = Places
        /\ \A x \in Places : native'[x] = Absent \/ Settings(native'[x])
        /\ \A x \in Places : Settings(native[x]) => Settings(native'[x])
    BY <1>0, <2>1, <2>2, <2>3, NativeTyped
  <2>5. CTyped'
    BY <1>0, <2>1, <2>4 DEF CTyped
  <2> QED
    BY <2>1, <2>4, <2>5, DoneTyped
<1> QED
  BY <1>1, <1>2

LEMMA FetchTyped ==
  ASSUME QosInv, PolicyInv, NEW t \in Threads, Fetch(t)
  PROVE  PolicyInv'
<1> DEFINE e == place[t]
           c == native[e]
           n == NextScope(c, 1)
<1>1. /\ pc[t] = "fetching" /\ held' = held /\ place' = place /\ cells' = cells /\ native' = native
      /\ cq' = [cq EXCEPT ![t] = c] /\ pc' = [pc EXCEPT ![t] = "calling"]
      /\ at' = [at EXCEPT ![t] = n] /\ found' = [found EXCEPT ![t] = <<>>]
  BY DEF Fetch
<1>2. 1 \in 1 .. Len(AllScopes) + 1 /\ Len(AllScopes) = 27
  BY ScopesKnown
<1>3. n \in 0 .. Len(AllScopes) + 1
  <2>1. n \in 1 .. Len(AllScopes) + 1
    BY <1>2, NextScopeFollows
  <2> QED
    BY <1>2, <2>1
<1>4. n \in DOMAIN AllScopes => Answers(c, AllScopes[n])
  BY <1>2, NextScopeAnswers
<1>5. e \in Places /\ Settings(c)
  BY <1>1, ThreadHas DEF Working, Ready
<1>6. place' = [place EXCEPT ![t] = e]
  BY <1>1, ThreadHas
<1> HIDE DEF n, c
<1>7. /\ DOMAIN cq' = Threads /\ cq'[t] = c /\ found'[t] = <<>>
      /\ \A u \in Threads \ {t} : cq'[u] = cq[u] /\ found'[u] = found[u]
  BY <1>1, ThreadHas
<1> HIDE DEF e
<1>8. Working("calling", e, c, n)
  BY <1>4, <1>5 DEF Working, Steady
<1>9. Ready("calling", e, n, native', cells') /\ AllPolicies(<<>>)
  BY DEF Ready, AllPolicies
<1>10. CTyped'
  BY <1>1 DEF PolicyInv, CTyped
<1> QED
  BY <1>1, <1>3, <1>6, <1>7, <1>8, <1>9, <1>10, ThreadHas, CallTyped

LEMMA JoinedTyped ==
  ASSUME NEW a, NEW b, Good(a), Good(b), AllPolicies(a), AllPolicies(b)
  PROVE  AllPolicies(a \o b)
<1> DEFINE r == a \o b
<1>1. ToSet(r) = ToSet(a) \cup ToSet(b)
  BY JoinedKeeps
<1> HIDE DEF r
<1>2. AllPolicies(r)
  BY <1>1, ElementsOf
<1> QED
  BY <1>2 DEF r

\* A getter adds to what was found, and the next one has an answer.
LEMMA GetterTyped ==
  ASSUME QosInv, PolicyInv, NEW t \in Threads, NEW x, at[t] \in DOMAIN AllScopes,
         pc[t] \in {"calling", "reading"}, Good(x), AllPolicies(x),
         held' = held, place' = place, cq' = cq, cells' = cells, native' = native,
         pc' = [pc EXCEPT ![t] = "calling"],
         found' = [found EXCEPT ![t] = found[t] \o x],
         at' = [at EXCEPT ![t] = NextScope(cq[t], at[t] + 1)]
  PROVE  PolicyInv'
<1> DEFINE n == NextScope(cq[t], at[t] + 1)
           r == found[t] \o x
<1>1. at[t] \in 1 .. 27 /\ at[t] + 1 \in 1 .. Len(AllScopes) + 1 /\ Len(AllScopes) = 27
  <2>1. Len(AllScopes) = 27 /\ at[t] \in 1 .. 27
    BY ScopesKnown
  <2>2. \A a \in 1 .. 27 : a + 1 \in 1 .. 27 + 1
    OBVIOUS
  <2> QED
    BY <2>1, <2>2, Zenon
<1>2. n \in 0 .. Len(AllScopes) + 1
  <2>1. n \in at[t] + 1 .. Len(AllScopes) + 1
    BY <1>1, NextScopeFollows
  <2>2. \A a \in 1 .. 27 : \A m \in a + 1 .. 28 : m \in 0 .. 28
    OBVIOUS
  <2>3. Len(AllScopes) + 1 = 28
    BY <1>1
  <2> HIDE DEF n
  <2> QED
    BY <1>1, <2>1, <2>2, <2>3, Zenon
<1>3. n \in DOMAIN AllScopes => Answers(cq[t], AllScopes[n])
  BY <1>1, NextScopeAnswers
<1>4. AllPolicies(r)
  <2>1. Good(found[t])
    BY DEF QosInv, FoundSound, Reading, ReadOf
  <2> QED
    BY <2>1, ThreadHas, JoinedTyped
<1> HIDE DEF n, r
<1>5. place[t] \in Places /\ Settings(cq[t])
  BY ThreadHas DEF Working
<1>6. Working("calling", place[t], cq[t], n)
  BY <1>3, <1>5 DEF Working, Steady
<1>7. Ready("calling", place[t], n, native', cells')
  BY DEF Ready
<1>8. /\ DOMAIN cq' = Threads /\ cq'[t] = cq[t] /\ found'[t] = r
      /\ \A u \in Threads \ {t} : cq'[u] = cq[u] /\ found'[u] = found[u]
  BY ThreadHas DEF r
<1>9. CTyped'
  BY DEF PolicyInv, CTyped
<1>10. place' = [place EXCEPT ![t] = place[t]] /\ at' = [at EXCEPT ![t] = n]
  BY ThreadHas DEF n
<1> QED
  BY <1>2, <1>4, <1>6, <1>7, <1>8, <1>9, <1>10, ThreadHas, CallTyped

LEMMA CallKeepsTypes ==
  ASSUME QosInv, PolicyInv, NEW t \in Threads, Call(t)
  PROVE  PolicyInv'
<1> DEFINE c == cq[t]
           s == AllScopes[at[t]]
           y == c[<<s, Blank>>]
           own == IF s = "DataRepresentation" THEN FromC(s, y) ELSE Properties(s, c)
<1>1. at[t] \in DOMAIN AllScopes /\ pc[t] = "calling"
  <2>1. at[t] \in 0 .. Len(AllScopes) + 1 /\ at[t] # 0 /\ pc[t] = "calling"
    BY DEF QosInv, FoundSound, Reading, Call
  <2>2. at[t] <= Len(AllScopes)
    BY DEF Call
  <2> QED
    BY <2>1, <2>2, ScopesKnown
<1>2. Settings(c) /\ Answers(c, s) /\ place[t] \in Places
  BY <1>1, ThreadHas DEF Working
<1>3. s \notin PropertyScopes => <<s, Blank>> \in DOMAIN c /\ Shaped(s, y)
  BY <1>2, AnswerIsSet
<1>4. CASE s \notin OwnVariables
  <2> DEFINE one == [k \in {Cells(s)} |-> y]
             new == SetOver(one, cells)
  <2>1. /\ cells' = new /\ pc' = [pc EXCEPT ![t] = "reading"]
        /\ held' = held /\ place' = place /\ cq' = cq /\ native' = native /\ at' = at
        /\ found' = found
    BY <1>4 DEF Call
  <2>2. InCell(Cells(s), y)
    BY <1>3, <1>4 DEF OwnVariables, PropertyScopes, Shaped
  <2> HIDE DEF y, s, c
  <2>3. DOMAIN one = {Cells(s)} /\ one[Cells(s)] = y
    OBVIOUS
  <2> HIDE DEF one
  <2>4. /\ DOMAIN new = DOMAIN one \cup DOMAIN cells
        /\ \A k \in DOMAIN new : new[k] = IF k \in DOMAIN one THEN one[k] ELSE cells[k]
    BY DEF SetOver
  <2> HIDE DEF new
  <2>5. Cells(s) \in DOMAIN new /\ DOMAIN cells \subseteq DOMAIN new
    BY <2>3, <2>4
  <2>6. \A k \in DOMAIN new : InCell(k, new[k])
    <3>1. \A k \in DOMAIN cells : InCell(k, cells[k])
      BY DEF PolicyInv, CTyped
    <3>2. ASSUME NEW k \in DOMAIN new PROVE InCell(k, new[k])
      <4>1. CASE k = Cells(s)
        BY <2>2, <2>3, <2>4, <4>1
      <4>2. CASE k # Cells(s)
        BY <2>3, <2>4, <3>1, <4>2
      <4> QED
        BY <4>1, <4>2
    <3> QED
      BY <3>2
  <2>7. CTyped'
    BY <2>1, <2>6 DEF PolicyInv, CTyped
  <2>8. Working("reading", place[t], cq[t], at[t])
    BY <1>2 DEF Working, Steady, c, s
  <2>9. Ready("reading", place[t], at[t], native', cells')
    BY <2>1, <2>5 DEF Ready, s
  <2>10. /\ DOMAIN cq' = Threads /\ cq'[t] = cq[t] /\ found'[t] = found[t]
         /\ \A u \in Threads \ {t} : cq'[u] = cq[u] /\ found'[u] = found[u]
    BY <2>1, ThreadHas
  <2>11. at' = [at EXCEPT ![t] = at[t]] /\ place' = [place EXCEPT ![t] = place[t]]
    BY <2>1, ThreadHas
  <2>12. at[t] \in 0 .. Len(AllScopes) + 1 /\ AllPolicies(found[t])
    BY ThreadHas
  <2>13. DOMAIN native' = Places /\ DOMAIN cells \subseteq DOMAIN cells'
    BY <2>1, <2>5, ThreadHas
  <2>14. \A x \in Places : Settings(native[x]) => Settings(native'[x])
    BY <2>1
  <2>15. held' = held /\ pc' = [pc EXCEPT ![t] = "reading"]
    BY <2>1
  <2> QED
    BY <2>7, <2>8, <2>9, <2>10, <2>11, <2>12, <2>13, <2>14, <2>15, CallTyped
<1>5. CASE s \in OwnVariables
  <2>1. /\ pc' = pc /\ found' = [found EXCEPT ![t] = found[t] \o own]
        /\ at' = [at EXCEPT ![t] = NextScope(cq[t], at[t] + 1)]
        /\ held' = held /\ place' = place /\ cq' = cq /\ native' = native /\ cells' = cells
    BY <1>5 DEF Call
  <2>2. Good(own) /\ AllPolicies(own)
    <3>1. CASE s = "DataRepresentation"
      <4>1. s \notin PropertyScopes
        BY <3>1 DEF PropertyScopes
      <4>2. own = FromC(s, y)
        BY <3>1
      <4> HIDE DEF own, y
      <4>3. AllPolicies(FromC(s, y)) /\ OneOf(FromC(s, y), s) /\ s \in DOMAIN ScopeRank
        BY <1>1, <1>3, <4>1, GettersMake, FromCFinds, ScopesKnown
      <4> HIDE DEF s
      <4> QED
        BY <4>2, <4>3, NoneOrOne DEF ReadOf
    <3>2. CASE s # "DataRepresentation"
      <4>1. s \in PropertyScopes
        BY <1>5, <3>2 DEF OwnVariables, PropertyScopes
      <4>2. own = Properties(s, c)
        BY <3>2
      <4> HIDE DEF s, own, c
      <4> QED
        BY <1>2, <4>1, <4>2, PropertiesFind, PropertiesMake DEF ReadOf
    <3> QED
      BY <3>1, <3>2
  <2> HIDE DEF own
  <2>3. pc' = [pc EXCEPT ![t] = "calling"]
    BY <1>1, <2>1, ThreadHas
  <2> QED
    BY <1>1, <2>1, <2>2, <2>3, GetterTyped
<1> QED
  BY <1>4, <1>5

LEMMA ReadTyped ==
  ASSUME QosInv, PolicyInv, NEW t \in Threads, Read(t)
  PROVE  PolicyInv'
<1> DEFINE s == AllScopes[at[t]]
           y == cells[Cells(s)]
           x == FromC(s, y)
<1>1. at[t] \in DOMAIN AllScopes /\ s \notin PropertyScopes /\ pc[t] = "reading"
  BY DEF QosInv, FoundSound, Reading, Read, OwnVariables, PropertyScopes
<1>2. Shaped(s, y)
  <2>1. Cells(s) \in DOMAIN cells
    BY <1>1, ThreadHas DEF Ready
  <2> QED
    BY <2>1 DEF PolicyInv, CTyped, Shaped
<1>3. AllPolicies(x) /\ OneOf(x, s) /\ s \in DOMAIN ScopeRank
  BY <1>1, <1>2, GettersMake, FromCFinds, ScopesKnown
<1>4. /\ pc' = [pc EXCEPT ![t] = "calling"] /\ found' = [found EXCEPT ![t] = found[t] \o x]
      /\ at' = [at EXCEPT ![t] = NextScope(cq[t], at[t] + 1)]
      /\ held' = held /\ place' = place /\ cq' = cq /\ native' = native /\ cells' = cells
  BY DEF Read
<1> HIDE DEF x
<1>5. Good(x)
  <2> HIDE DEF s
  <2> QED
    BY <1>3, NoneOrOne DEF ReadOf
<1> QED
  BY <1>1, <1>3, <1>4, <1>5, GetterTyped

LEMMA FinishTyped ==
  ASSUME QosInv, PolicyInv, NEW t \in Threads, Finish(t)
  PROVE  PolicyInv'
<1> DEFINE q == Sorted(found[t])
           k == Kind[place[t]]
           h == IF place[t] \in Profiles
                  THEN [class |-> k, policies |-> Narrowed(k, q)]
                  ELSE [class |-> "Qos", policies |-> q]
<1>1. Good(found[t]) /\ AllPolicies(found[t])
  BY ThreadHas DEF QosInv, FoundSound, Reading, ReadOf
<1>2. Good(q) /\ ToSet(q) = ToSet(found[t])
  BY <1>1, SortedKeeps
<1>3. /\ held' = [held EXCEPT ![t] = h] /\ found' = [found EXCEPT ![t] = <<>>]
      /\ at' = [at EXCEPT ![t] = 0] /\ UNCHANGED <<cells, native>>
      /\ pc' = [pc EXCEPT ![t] = "idle"] /\ place' = [place EXCEPT ![t] = Absent]
      /\ cq' = [cq EXCEPT ![t] = NoQos]
  BY DEF Finish, Done
<1> HIDE DEF q, k
<1>4. AllPolicies(q)
  BY <1>1, <1>2, ElementsOf
<1>5. Supported(h)
  <2>1. Supported([class |-> k, policies |-> Narrowed(k, q)])
    <3> DEFINE r == Narrowed(k, q)
    <3>1. AllPolicies(r) /\ \A i \in DOMAIN r : Supports(k, r[i].scope)
      BY <1>2, <1>4, ChosenTyped, NarrowedSupports DEF Narrowed
    <3> HIDE DEF r
    <3>2. Supported([class |-> k, policies |-> r])
      BY <3>1 DEF Supported
    <3> QED
      BY <3>2 DEF r
  <2>2. Supported([class |-> "Qos", policies |-> q])
    BY <1>2, <1>4, QosSupports DEF Supported
  <2> QED
    BY <2>1, <2>2
<1> HIDE DEF h
<1>6. /\ held'[t] = h /\ found'[t] = <<>> /\ at'[t] = 0 /\ pc'[t] = "idle" /\ place'[t] = Absent
      /\ cq'[t] = NoQos /\ DOMAIN cq' = Threads
      /\ \A u \in Threads \ {t} : held'[u] = held[u] /\ found'[u] = found[u] /\ at'[u] = at[u]
                                  /\ pc'[u] = pc[u] /\ place'[u] = place[u] /\ cq'[u] = cq[u]
  BY <1>3, ThreadHas DEF PolicyInv, FunctionsKept
<1>7. FunctionsKept'
  <2>1. "idle" \in Steady /\ 0 \in 0 .. Len(AllScopes) + 1
    BY ScopesKnown DEF Steady
  <2> QED
    BY <1>3, <1>6, <2>1 DEF PolicyInv, FunctionsKept
<1>8. CTyped'
  BY <1>3 DEF PolicyInv, CTyped
<1>9. Working("idle", Absent, NoQos, 0) /\ Ready("idle", Absent, 0, native', cells') /\ AllPolicies(<<>>)
  BY DEF Working, Ready, Steady, AllPolicies
<1> QED
  BY <1>3, <1>5, <1>6, <1>7, <1>8, <1>9, OthersTyped

\* Threads hold Qos objects of their class, policies keep the fields of their class on
\* the way to C and back, and a getter is given what its scope was set to, for any Qos
\* objects the program writes down, entities, profiles and threads.
THEOREM PoliciesAlways == Spec => [](QosInv /\ PolicyInv)
<1>1. Init => PolicyInv
  <2> SUFFICES ASSUME Init PROVE PolicyInv
    OBVIOUS
  <2>1. FunctionsKept
    BY ScopesKnown DEF Init, FunctionsKept, Steady
  <2>2. CTyped
    <3>1. ASSUME NEW e \in Places PROVE native[e] = Absent \/ Settings(native[e])
      <4>1. CASE e \in Entities
        BY <4>1 DEF Init
      <4>2. CASE e \notin Entities
        <5>1. e \in Profiles /\ native[e] = QosToC(InFile[e])
          BY <4>2 DEF Init, Places
        <5> QED
          BY <5>1, WrittenDown, QosToCSets
      <4> QED
        BY <4>1, <4>2
    <3>2. DOMAIN cells = {}
      BY DEF Init
    <3> QED
      BY <3>1, <3>2 DEF CTyped
  <2>3. ThreadsTyped
    <3>1. \A t \in Threads : pc[t] = "idle" /\ place[t] = Absent /\ found[t] = <<>>
                             /\ held[t] = [class |-> "Qos", policies |-> <<>>]
      BY DEF Init
    <3>2. AllPolicies(<<>>) /\ Supported([class |-> "Qos", policies |-> <<>>])
      BY DEF AllPolicies, Supported
    <3>3. \A c, a : Working("idle", Absent, c, a) /\ Ready("idle", Absent, a, native, cells)
      BY DEF Working, Ready, Steady
    <3> QED
      BY <3>1, <3>2, <3>3 DEF ThreadsTyped
  <2> QED
    BY <2>1, <2>2, <2>3 DEF PolicyInv
<1>2. QosInv /\ PolicyInv /\ [Next]_vars => PolicyInv'
  <2> SUFFICES ASSUME QosInv, PolicyInv, [Next]_vars PROVE PolicyInv'
    OBVIOUS
  <2>1. CASE UNCHANGED vars
    BY <2>1 DEF vars, PolicyInv, FunctionsKept, CTyped, ThreadsTyped
  <2>2. CASE Next
    <3>1. PICK t \in Threads :
            \/ \E l \in Literals, base \in Operands(t) : Construct(t, l, base)
            \/ \E l \in Literals, q \in Operands(t) : Subtract(t, q, l)
            \/ \E q \in Operands(t), class \in Classes : Narrow(t, q, class)
            \/ \E e \in Entities : StartCreate(t, e) \/ StartSet(t, e)
            \/ Create(t) \/ Set(t)
            \/ \E e \in Places : StartGet(t, e)
            \/ Fetch(t) \/ Call(t) \/ Read(t) \/ Finish(t)
      BY <2>2 DEF Next
    <3> QED
      BY <3>1, OperationsTyped, StartsTyped, EndsTyped, FetchTyped, CallKeepsTypes, ReadTyped,
         FinishTyped
  <2> QED
    BY <2>1, <2>2
<1> QED
  BY <1>1, <1>2, QosAlways, PTL DEF Spec

\* Type correctness: the Qos objects of qos.py are sorted, hold one policy of a scope,
\* each with the fields of its class, and only what their class supports.
THEOREM QosTypes == Spec => []TypeOK
<1>1. ASSUME NEW q, NEW class, Sound(q), Supported([class |-> class, policies |-> q])
      PROVE  IsQos(class, q)
  <2>1. \A i \in DOMAIN q : IsPolicy(q[i]) /\ q[i].scope \in Scopes /\ Supports(class, q[i].scope)
    BY <1>1 DEF Supported, AllPolicies, Sound, Good
  <2>2. DOMAIN q = 1 .. Len(q) /\ Len(q) \in Nat
    BY <1>1, Lengths DEF Sound
  <2>3. \A i \in 2 .. Len(q) : i - 1 \in DOMAIN q /\ i \in DOMAIN q /\ i - 1 < i
    BY <2>2
  <2>4. \A i \in 2 .. Len(q) : Before(q[i - 1].scope, q[i].scope)
    BY <1>1, <2>3 DEF Sound, Strict
  <2> QED
    BY <1>1, <2>1, <2>4 DEF IsQos, Sound, Good
<1>2. QosInv /\ PolicyInv => TypeOK
  <2> SUFFICES ASSUME QosInv, PolicyInv PROVE TypeOK
    OBVIOUS
  <2>1. ASSUME NEW t \in Threads PROVE IsQos(held[t].class, held[t].policies)
    <3>1. Sound(held[t].policies) /\ Supported(held[t])
      BY DEF QosInv, HeldSound, PolicyInv, ThreadsTyped
    <3>2. Supported([class |-> held[t].class, policies |-> held[t].policies])
      BY <3>1 DEF Supported
    <3> QED
      BY <1>1, <3>1, <3>2
  <2>2. \A t \in Threads : \A i \in DOMAIN found[t] : IsPolicy(found[t][i])
    BY DEF PolicyInv, ThreadsTyped, AllPolicies
  <2> QED
    BY <2>1, <2>2 DEF TypeOK, PolicyInv, FunctionsKept, Steady
<1> QED
  BY <1>2, PoliciesAlways, PTL

(***************************************************************************)
(* Dictionaries.                                                           *)
(***************************************************************************)
LEMMA BytesReadBack ==
  ASSUME NEW f \in Seq(Int), 1 \in DOMAIN f
  PROVE  LET g == [f EXCEPT ![1] = Base64(@)] IN [g EXCEPT ![1] = Unbase64(@)] = f
<1> DEFINE g == [f EXCEPT ![1] = Base64(@)]
           k == [g EXCEPT ![1] = Unbase64(@)]
<1>1. DOMAIN f = 1 .. Len(f) /\ f = [i \in DOMAIN f |-> f[i]] /\ f[1] \in Int
  OBVIOUS
<1>2. DOMAIN g = DOMAIN f /\ g[1] = Base64(f[1]) /\ \A i \in DOMAIN f : i # 1 => g[i] = f[i]
  BY <1>1
<1> HIDE DEF g
<1>3. /\ k = [i \in DOMAIN k |-> k[i]] /\ DOMAIN k = DOMAIN g /\ k[1] = Unbase64(g[1])
      /\ \A i \in DOMAIN g : i # 1 => k[i] = g[i]
  BY <1>2
<1> HIDE DEF k
<1>4. Unbase64(Base64(f[1])) = f[1]
  BY <1>1 DEF Base64, Unbase64
<1>5. \A i \in DOMAIN f : k[i] = f[i]
  BY <1>2, <1>3, <1>4
<1>6. k = f
  BY <1>1, <1>2, <1>3, <1>5
<1> QED
  BY <1>6 DEF k, g

LEMMA HistoryReadBack ==
  ASSUME NEW f \in Seq(Int), 2 \in DOMAIN f
  PROVE  LET h == IF f[2] # KeepAllHistory THEN <<f[2]>> ELSE <<>>
         IN  [[f EXCEPT ![2] = 0] EXCEPT ![2] = HistoryOf(h)] = f
<1> DEFINE h == IF f[2] # KeepAllHistory THEN <<f[2]>> ELSE <<>>
<1>1. HistoryOf(h) = f[2]
  <2>1. CASE f[2] = KeepAllHistory
    BY <2>1 DEF HistoryOf
  <2>2. CASE f[2] # KeepAllHistory
    <3>1. h = <<f[2]>> /\ <<f[2]>> # <<>> /\ <<f[2]>>[1] = f[2]
      BY <2>2
    <3> HIDE DEF h
    <3> QED
      BY <3>1 DEF HistoryOf
  <2> QED
    BY <2>1, <2>2
<1> HIDE DEF h
<1> DEFINE g == [f EXCEPT ![2] = 0]
           k == [g EXCEPT ![2] = HistoryOf(h)]
<1>2. DOMAIN f = 1 .. Len(f) /\ f = [i \in DOMAIN f |-> f[i]]
  OBVIOUS
<1>3. DOMAIN g = DOMAIN f /\ \A i \in DOMAIN f : i # 2 => g[i] = f[i]
  BY <1>2
<1> HIDE DEF g
<1>4. /\ k = [i \in DOMAIN k |-> k[i]] /\ DOMAIN k = DOMAIN g /\ k[2] = f[2]
      /\ \A i \in DOMAIN g : i # 2 => k[i] = g[i]
  BY <1>1, <1>3
<1> HIDE DEF k
<1>5. \A i \in DOMAIN f : k[i] = f[i]
  BY <1>3, <1>4
<1>6. k = f
  BY <1>2, <1>3, <1>4, <1>5
<1> QED
  BY <1>6 DEF k, g, h

LEMMA EntryReadBack ==
  ASSUME NEW q, NEW i \in DOMAIN q, IsPolicy(q[i])
  PROVE  Equal(FromEntry(AsDict(q)[i]), q[i])
<1> DEFINE p == q[i]
           n == p.scope[1]
           f == p.args
           text == IF n \in HasBytes THEN [f EXCEPT ![1] = Base64(@)] ELSE f
           fields == IF n = "DurabilityService" THEN [text EXCEPT ![2] = 0] ELSE text
           h == IF n = "DurabilityService" /\ f[2] # KeepAllHistory THEN <<f[2]>> ELSE <<>>
           v == [key |-> p.scope, kind |-> p.kind, fields |-> fields, history |-> h]
           back == CASE n = "DurabilityService" -> [fields EXCEPT ![2] = HistoryOf(h)]
                     [] n \in {"Userdata", "Topicdata", "Groupdata"} ->
                          [fields EXCEPT ![1] = Unbase64(@)]
                     [] n = "BinaryProperty" -> [fields EXCEPT ![1] = Unbase64(@)]
                     [] OTHER -> fields
<1>1. AsDict(q)[i] = v
  BY DEF AsDict
<1>2. v.key = p.scope /\ v.kind = p.kind /\ v.fields = fields /\ v.history = h
  OBVIOUS
<1>3. f \in Seq(Int) /\ (f # <<>> => DOMAIN f = 1 .. Len(f))
  BY DEF IsPolicy
<1>4. /\ n = "DurabilityService" => Len(f) = 5
      /\ n \in {"Userdata", "Topicdata", "Groupdata"} => Len(f) = 1
      /\ n = "BinaryProperty" => Len(f) = 2
  BY FieldsOf
<1> HIDE DEF v
<1>5. /\ FromEntry(v).scope = p.scope /\ FromEntry(v).kind = p.kind
      /\ FromEntry(v).args = back
  BY <1>2, Zenon DEF FromEntry
<1>6. back = f
  <2>1. CASE n = "DurabilityService"
    <3>1. Len(f) = 5 /\ 2 \in DOMAIN f
      BY <1>3, <1>4, <2>1
    <3>2. text = f
      BY <2>1 DEF HasBytes
    <3>3. fields = [f EXCEPT ![2] = 0] /\ h = IF f[2] # KeepAllHistory THEN <<f[2]>> ELSE <<>>
      BY <2>1, <3>2
    <3>4. back = [fields EXCEPT ![2] = HistoryOf(h)]
      BY <2>1
    <3> HIDE DEF f, fields, h, back
    <3> QED
      BY <1>3, <3>1, <3>3, <3>4, HistoryReadBack
  <2>2. CASE n \in {"Userdata", "Topicdata", "Groupdata", "BinaryProperty"}
    <3>1. 1 \in DOMAIN f
      BY <1>3, <1>4, <2>2
    <3>2. text = [f EXCEPT ![1] = Base64(@)]
      BY <2>2 DEF HasBytes
    <3>3. fields = [f EXCEPT ![1] = Base64(@)]
      BY <2>2, <3>2
    <3>4. back = [fields EXCEPT ![1] = Unbase64(@)]
      BY <2>2
    <3> HIDE DEF f, fields, back
    <3> QED
      BY <1>3, <3>1, <3>3, <3>4, BytesReadBack
  <2>3. CASE n \notin {"DurabilityService", "Userdata", "Topicdata", "Groupdata", "BinaryProperty"}
    <3>1. text = f
      BY <2>3 DEF HasBytes
    <3>2. fields = f
      BY <2>3, <3>1
    <3> QED
      BY <2>3, <3>2
  <2> QED
    BY <2>1, <2>2, <2>3
<1> QED
  BY <1>1, <1>5, <1>6 DEF Equal

\* A Qos made from the dictionary of a Qos equals it, for any Qos objects the program
\* writes down and whatever it computes or reads (qos.py:815-895).
THEOREM DictTheorem == Spec => []DictReadBack
<1>1. ASSUME NEW q, Sound(q), AllPolicies(q)
      PROVE  SameQos(FromDict(AsDict(q)), q)
  <2> DEFINE e == [i \in DOMAIN AsDict(q) |-> FromEntry(AsDict(q)[i])]
  <2>1. DOMAIN AsDict(q) = DOMAIN q
    BY DEF AsDict
  <2>2. \A i \in DOMAIN q : Equal(e[i], q[i])
    BY <1>1, <2>1, EntryReadBack DEF AllPolicies
  <2>3. DOMAIN e = DOMAIN q /\ e = [i \in DOMAIN e |-> e[i]]
    BY <2>1
  <2>4. FromDict(AsDict(q)) = Sorted(e)
    BY DEF FromDict
  <2> HIDE DEF e
  <2>5. DOMAIN q = 1 .. Len(q) /\ Len(q) \in Nat
    BY <1>1, Lengths DEF Sound
  <2> DEFINE U == {e[i] : i \in DOMAIN e}
  <2>6. e \in Seq(U)
    <3>1. \A i \in DOMAIN e : e[i] \in U
      OBVIOUS
    <3> HIDE DEF U
    <3>2. e \in [1 .. Len(q) -> U]
      BY <2>3, <2>5, <3>1
    <3> QED
      BY <2>5, <3>2
  <2>7. Len(e) = Len(q)
    BY <2>3, <2>5, <2>6
  <2>8. \A i \in DOMAIN e : e[i].scope = q[i].scope
    BY <2>2, <2>3 DEF Equal
  <2> HIDE DEF U
  <2>9. Good(e)
    <3>1. \A i \in DOMAIN e : e[i].scope \in Scopes
      BY <1>1, <2>3, <2>8 DEF Sound, Good
    <3> QED
      BY <2>6, <3>1, GoodSequence
  <2>10. Strict(e)
    BY <1>1, <2>3, <2>8 DEF Sound, Strict
  <2>11. Sorted(e) = e
    <3>1. Distinct(e)
      BY <2>9, <2>10, StrictOrder
    <3>2. Sound(Sorted(e)) /\ ToSet(Sorted(e)) = ToSet(e)
      BY <2>9, <3>1, SortedKeeps DEF Sound
    <3> QED
      BY <2>9, <2>10, <3>2, SamePolicies DEF Sound
  <2> QED
    BY <2>2, <2>3, <2>4, <2>7, <2>11 DEF SameQos
<1>2. QosInv /\ PolicyInv => DictReadBack
  BY <1>1 DEF QosInv, HeldSound, PolicyInv, ThreadsTyped, Supported, DictReadBack
<1> QED
  BY <1>2, PoliciesAlways, PTL

\* The classes of the scopes that have several, and the number of their fields.
LEMMA KindsOf ==
  ASSUME NEW p, IsPolicy(p)
  PROVE  /\ p.scope[1] = "Reliability" => \/ p.kind = "BestEffort" /\ Len(p.args) = 0
                                          \/ p.kind = "Reliable" /\ Len(p.args) = 1
         /\ p.scope[1] = "Durability" =>
              p.kind \in {"Volatile", "TransientLocal", "Transient", "Persistent"}
         /\ p.scope[1] = "History" => \/ p.kind = "KeepAll" /\ Len(p.args) = 0
                                      \/ p.kind = "KeepLast" /\ Len(p.args) = 1
         /\ p.scope[1] = "PresentationAccessScope" => p.kind \in {"Instance", "Topic", "Group"}
         /\ p.scope[1] = "Ownership" => p.kind \in {"Shared", "Exclusive"}
         /\ p.scope[1] = "Liveliness" =>
              p.kind \in {"Automatic", "ManualByParticipant", "ManualByTopic"}
         /\ p.scope[1] = "DestinationOrder" =>
              p.kind \in {"ByReceptionTimestamp", "BySourceTimestamp"}
         /\ p.scope[1] = "IgnoreLocal" => p.kind \in {"Nothing", "Participant", "Process"}
         /\ p.scope[1] = "TypeConsistency" =>
              p.kind \in {"DisallowTypeCoercion", "AllowTypeCoercion"}
         /\ p.scope[1] \notin {"Reliability", "Durability", "History", "PresentationAccessScope",
              "Ownership", "Liveliness", "DestinationOrder", "IgnoreLocal", "TypeConsistency"} =>
              p.kind = Blank
BY DEF IsPolicy, PolicyClasses, DeliveryClasses, OrderingClasses, LifeClasses, ServiceClasses,
       TypeClasses

\* Short sequences are what their elements are.
LEMMA ShortSequences ==
  ASSUME NEW b \in Seq(Int)
  PROVE  /\ Len(b) = 0 => b = <<>>
         /\ Len(b) = 1 => b = <<b[1]>> /\ 1 \in DOMAIN b
         /\ Len(b) = 2 => b = <<b[1], b[2]>> /\ 1 \in DOMAIN b /\ 2 \in DOMAIN b
         /\ Len(b) = 3 => b = <<b[1], b[2], b[3]>> /\ DOMAIN b = 1 .. 3
         /\ Len(b) = 5 => b = <<b[1], b[2], b[3], b[4], b[5]>>
OBVIOUS

\* The scopes whose setter passes the fields as they are and whose getter returns them so.
AsTheyAre ==
  {"ResourceLimits", "Lifespan", "Deadline", "LatencyBudget", "OwnershipStrength",
   "TimeBasedFilter", "TransportPriority", "WriterDataLifecycle", "ReaderDataLifecycle",
   "EntityName"}

\* Those that may say nothing.
Emptied == {"Partition", "Userdata", "Groupdata", "Topicdata"}

LEMMA FieldsStay ==
  ASSUME NEW p, Fits(p), p.scope[1] \in AsTheyAre \cup Emptied
  PROVE  ToC(p) = p.args
<1> DEFINE s == p.scope[1]
           a == p.args
<1>1. a \in Seq(Int)
  BY DEF Fits, IsPolicy
<1>2. InRange(s, a) /\ IsPolicy(p)
  BY DEF Fits
<1>3. CASE s \in {"Lifespan", "Deadline", "LatencyBudget", "TimeBasedFilter"}
  <2>1. Len(a) = 1
    BY <1>2, <1>3, FieldsOf
  <2>2. ToC(p) = <<Duration(a[1])>>
    BY <1>3 DEF ToC, SetLifespan, SetDeadline, SetLatencyBudget, SetTimeBasedFilter
  <2> HIDE DEF a
  <2>3. a = <<a[1]>> /\ 1 \in DOMAIN a
    BY <1>1, <2>1, ShortSequences
  <2>4. Duration(a[1]) = a[1]
    BY <1>2, <1>3, <2>3 DEF InRange
  <2> QED
    BY <2>2, <2>3, <2>4 DEF a
<1>4. CASE s \in {"OwnershipStrength", "TransportPriority"}
  <2>1. Len(a) = 1
    BY <1>2, <1>4, FieldsOf
  <2>2. ToC(p) = <<Int32(a[1])>>
    BY <1>4 DEF ToC, SetOwnershipStrength, SetTransportPriority
  <2> HIDE DEF a
  <2>3. a = <<a[1]>> /\ 1 \in DOMAIN a
    BY <1>1, <2>1, ShortSequences
  <2>4. Int32(a[1]) = a[1]
    BY <1>2, <1>4, <2>3 DEF InRange
  <2> QED
    BY <2>2, <2>3, <2>4 DEF a
<1>5. CASE s = "ReaderDataLifecycle"
  <2>1. Len(a) = 2
    BY <1>2, <1>5, FieldsOf
  <2>2. ToC(p) = <<Duration(a[1]), Duration(a[2])>>
    BY <1>5 DEF ToC, SetReaderDataLifecycle
  <2> HIDE DEF a
  <2>3. a = <<a[1], a[2]>> /\ 1 \in DOMAIN a /\ 2 \in DOMAIN a
    BY <1>1, <2>1, ShortSequences
  <2>4. Duration(a[1]) = a[1] /\ Duration(a[2]) = a[2]
    BY <1>2, <1>5, <2>3 DEF InRange
  <2> QED
    BY <2>2, <2>3, <2>4 DEF a
<1>6. CASE s = "ResourceLimits"
  <2>1. Len(a) = 3
    BY <1>2, <1>6, FieldsOf
  <2>2. ToC(p) = [i \in 1 .. 3 |-> Int32(a[i])]
    BY <1>6 DEF ToC, SetResourceLimits
  <2> HIDE DEF a
  <2>3. DOMAIN a = 1 .. 3
    BY <1>1, <2>1
  <2>4. \A i \in 1 .. 3 : Int32(a[i]) = a[i]
    BY <1>2, <1>6, <2>3 DEF InRange
  <2>5. a = [i \in 1 .. 3 |-> a[i]]
    BY <1>1, <2>3
  <2>6. [i \in 1 .. 3 |-> Int32(a[i])] = [i \in 1 .. 3 |-> a[i]]
    BY <2>4
  <2> QED
    BY <2>2, <2>5, <2>6 DEF a
<1>7. CASE s \in {"WriterDataLifecycle", "EntityName"} \cup Emptied
  BY <1>7 DEF ToC, SetWriterDataLifecycle, SetEntityName, SetPartition, SetUserdata, SetGroupdata,
     SetTopicdata, Emptied
<1> QED
  BY <1>3, <1>4, <1>5, <1>6, <1>7 DEF AsTheyAre

\* A setter and the getter of its scope give the policy back, unless it says nothing.
LEMMA FaithfulSetting ==
  ASSUME NEW p, Fits(p), HasEffect(p), p.scope[1] \notin PropertyScopes
  PROVE  FromC(p.scope[1], ToC(p)) = IF SaysNothing(p) THEN <<>> ELSE <<p>>
<1> DEFINE s == p.scope[1]
           a == p.args
           kind == p.kind
<1>1. a \in Seq(Int)
  BY DEF Fits, IsPolicy
<1>2. p = Policy(s, kind, a)
  <2>1. p.scope = <<s, Blank>>
    BY ScopesArePairs DEF Fits, IsPolicy
  <2>2. p = [scope |-> p.scope, kind |-> p.kind, args |-> p.args]
    BY DEF Fits
  <2> QED
    BY <2>1, <2>2 DEF Policy
<1>3. InRange(s, a) /\ IsPolicy(p)
  BY DEF Fits
<1>4. ~SaysNothing(p) \/ s \in Emptied
  BY DEF SaysNothing, Emptied
<1>5. CASE s \in AsTheyAre
  <2>1. ToC(p) = a
    BY <1>5, FieldsStay
  <2>2. kind = Blank
    BY <1>3, <1>5, KindsOf DEF AsTheyAre
  <2>3. \A c : FromC(s, c) = <<Policy(s, Blank, c)>>
    BY <1>5 DEF AsTheyAre, FromC, GetResourceLimits, GetLifespan, GetDeadline, GetLatencyBudget,
       GetOwnershipStrength, GetTimeBasedFilter, GetTransportPriority, GetWriterDataLifecycle,
       GetReaderDataLifecycle, GetEntityName
  <2>4. ~SaysNothing(p)
    BY <1>4, <1>5 DEF AsTheyAre, Emptied
  <2> HIDE DEF s, a, kind
  <2>5. FromC(s, ToC(p)) = <<p>>
    BY <1>2, <2>1, <2>2, <2>3
  <2> QED
    BY <2>4, <2>5 DEF s
<1>6. CASE s \in Emptied
  <2>1. ToC(p) = a
    BY <1>6, FieldsStay
  <2>2. kind = Blank
    BY <1>3, <1>6, KindsOf DEF Emptied
  <2>3. CASE s = "Partition"
    <3>1. SaysNothing(p) <=> a = <<>>
      BY <2>3 DEF SaysNothing
    <3>2. FromC(s, a) = IF Len(a) = 0 THEN <<>> ELSE <<Policy(s, Blank, a)>>
      BY <2>3 DEF FromC, GetPartition
    <3> HIDE DEF s, a, kind
    <3>3. Len(a) = 0 <=> a = <<>>
      BY <1>1, ShortSequences
    <3> QED
      BY <1>2, <2>1, <2>2, <3>1, <3>2, <3>3 DEF s
  <2>4. CASE s # "Partition"
    <3>1. SaysNothing(p) <=> a = <<0>>
      BY <1>6, <2>4 DEF SaysNothing, Emptied
    <3>2. FromC(s, a) = IF a[1] = 0 THEN <<>> ELSE <<Policy(s, Blank, a)>>
      BY <1>6, <2>4 DEF FromC, GetUserdata, GetGroupdata, GetTopicdata, Emptied
    <3>3. Len(a) = 1
      BY <1>3, <1>6, <2>4, FieldsOf DEF Emptied
    <3> HIDE DEF s, a, kind
    <3>4. a = <<a[1]>>
      BY <1>1, <3>3, ShortSequences
    <3>5. a[1] = 0 <=> a = <<0>>
      BY <3>4
    <3> QED
      BY <1>2, <2>1, <2>2, <3>1, <3>2, <3>5 DEF s
  <2> QED
    BY <2>3, <2>4
<1>7. CASE s \in {"Durability", "Ownership", "DestinationOrder", "IgnoreLocal"}
  <2>1. Len(a) = 0
    BY <1>3, <1>7, FieldsOf
  <2>2. a = <<>>
    BY <1>1, <2>1, ShortSequences
  <2>3. CASE s = "Durability"
    <3>1. kind \in {"Volatile", "TransientLocal", "Transient", "Persistent"}
      BY <1>3, <2>3, KindsOf
    <3>2. FromC(s, ToC(p)) = <<Policy(s, kind, <<>>)>>
      BY <2>3, <3>1 DEF ToC, FromC, SetDurability, GetDurability
    <3> QED
      BY <1>2, <1>4, <2>2, <2>3, <3>2 DEF Emptied
  <2>4. CASE s = "Ownership"
    <3>1. kind \in {"Shared", "Exclusive"}
      BY <1>3, <2>4, KindsOf
    <3>2. FromC(s, ToC(p)) = <<Policy(s, kind, <<>>)>>
      BY <2>4, <3>1 DEF ToC, FromC, SetOwnership, GetOwnership
    <3> QED
      BY <1>2, <1>4, <2>2, <2>4, <3>2 DEF Emptied
  <2>5. CASE s = "DestinationOrder"
    <3>1. kind \in {"ByReceptionTimestamp", "BySourceTimestamp"}
      BY <1>3, <2>5, KindsOf
    <3>2. FromC(s, ToC(p)) = <<Policy(s, kind, <<>>)>>
      BY <2>5, <3>1 DEF ToC, FromC, SetDestinationOrder, GetDestinationOrder
    <3> QED
      BY <1>2, <1>4, <2>2, <2>5, <3>2 DEF Emptied
  <2>6. CASE s = "IgnoreLocal"
    <3>1. kind \in {"Nothing", "Participant", "Process"}
      BY <1>3, <2>6, KindsOf
    <3>2. FromC(s, ToC(p)) = <<Policy(s, kind, <<>>)>>
      BY <2>6, <3>1 DEF ToC, FromC, SetIgnoreLocal, GetIgnoreLocal
    <3> QED
      BY <1>2, <1>4, <2>2, <2>6, <3>2 DEF Emptied
  <2> QED
    BY <1>7, <2>3, <2>4, <2>5, <2>6
<1>8. CASE s = "Reliability"
  <2>1. \/ kind = "BestEffort" /\ Len(a) = 0
        \/ kind = "Reliable" /\ Len(a) = 1
    BY <1>3, <1>8, KindsOf
  <2>2. ToC(p) = IF kind = "BestEffort" THEN <<0, 0>> ELSE <<1, Duration(a[1])>>
    BY <1>8 DEF ToC, SetReliability
  <2>3. \A c : /\ c[1] = 0 => FromC(s, c) = <<Policy(s, "BestEffort", <<>>)>>
               /\ c[1] # 0 => FromC(s, c) = <<Policy(s, "Reliable", <<c[2]>>)>>
    BY <1>8 DEF FromC, GetReliability
  <2>4. ~SaysNothing(p)
    BY <1>4, <1>8 DEF Emptied
  <2> HIDE DEF s, a, kind
  <2>5. CASE kind = "BestEffort"
    <3>1. a = <<>>
      BY <1>1, <2>1, <2>5, ShortSequences
    <3>2. ToC(p)[1] = 0
      BY <2>2, <2>5
    <3>3. FromC(s, ToC(p)) = <<Policy(s, kind, <<>>)>>
      BY <2>3, <2>5, <3>2
    <3> QED
      BY <1>2, <2>4, <3>1, <3>3 DEF s
  <2>6. CASE kind = "Reliable"
    <3>1. a = <<a[1]>> /\ 1 \in DOMAIN a
      BY <1>1, <2>1, <2>6, ShortSequences
    <3>2. Duration(a[1]) = a[1]
      BY <1>3, <1>8, <3>1 DEF InRange
    <3>3. ToC(p) = <<1, a[1]>>
      BY <2>2, <2>6, <3>2
    <3>4. FromC(s, ToC(p)) = <<Policy(s, kind, <<a[1]>>)>>
      BY <2>3, <2>6, <3>3
    <3> QED
      BY <1>2, <2>4, <3>1, <3>4 DEF s
  <2> QED
    BY <2>1, <2>5, <2>6
<1>9. CASE s = "History"
  <2>1. \/ kind = "KeepAll" /\ Len(a) = 0
        \/ kind = "KeepLast" /\ Len(a) = 1
    BY <1>3, <1>9, KindsOf
  <2>2. ToC(p) = IF kind = "KeepAll" THEN <<1, 0>> ELSE <<0, Int32(a[1])>>
    BY <1>9 DEF ToC, SetHistory
  <2>3. \A c : /\ c[1] = 1 => FromC(s, c) = <<Policy(s, "KeepAll", <<>>)>>
               /\ c[1] # 1 => FromC(s, c) = <<Policy(s, "KeepLast", <<c[2]>>)>>
    BY <1>9 DEF FromC, GetHistory
  <2>4. ~SaysNothing(p)
    BY <1>4, <1>9 DEF Emptied
  <2> HIDE DEF s, a, kind
  <2>5. CASE kind = "KeepAll"
    <3>1. a = <<>>
      BY <1>1, <2>1, <2>5, ShortSequences
    <3>2. ToC(p)[1] = 1
      BY <2>2, <2>5
    <3>3. FromC(s, ToC(p)) = <<Policy(s, kind, <<>>)>>
      BY <2>3, <2>5, <3>2
    <3> QED
      BY <1>2, <2>4, <3>1, <3>3 DEF s
  <2>6. CASE kind = "KeepLast"
    <3>1. a = <<a[1]>> /\ 1 \in DOMAIN a
      BY <1>1, <2>1, <2>6, ShortSequences
    <3>2. Int32(a[1]) = a[1]
      BY <1>3, <1>9, <3>1 DEF InRange
    <3>3. ToC(p) = <<0, a[1]>>
      BY <2>2, <2>6, <3>2
    <3>4. FromC(s, ToC(p)) = <<Policy(s, kind, <<a[1]>>)>>
      BY <2>3, <2>6, <3>3
    <3> QED
      BY <1>2, <2>4, <3>1, <3>4 DEF s
  <2> QED
    BY <2>1, <2>5, <2>6
<1>10. CASE s = "PresentationAccessScope"
  <2>1. kind \in {"Instance", "Topic", "Group"} /\ Len(a) = 2
    BY <1>3, <1>10, KindsOf, FieldsOf
  <2> DEFINE k == CASE kind = "Instance" -> 0 [] kind = "Topic" -> 1 [] OTHER -> 2
  <2>2. ToC(p) = <<k, a[1], a[2]>>
    BY <1>10 DEF ToC, SetPresentation
  <2>3. \A c : FromC(s, c) =
          <<Policy(s, CASE c[1] = 0 -> "Instance" [] c[1] = 1 -> "Topic" [] OTHER -> "Group",
                   <<c[2], c[3]>>)>>
    BY <1>10 DEF FromC, GetPresentation
  <2>4. ~SaysNothing(p)
    BY <1>4, <1>10 DEF Emptied
  <2> HIDE DEF s, a, kind
  <2>5. a = <<a[1], a[2]>>
    BY <1>1, <2>1, ShortSequences
  <2>6. (CASE k = 0 -> "Instance" [] k = 1 -> "Topic" [] OTHER -> "Group") = kind
    BY <2>1
  <2> HIDE DEF k
  <2>7. FromC(s, ToC(p)) = <<Policy(s, kind, <<a[1], a[2]>>)>>
    BY <2>2, <2>3, <2>6
  <2> QED
    BY <1>2, <2>4, <2>5, <2>7 DEF s
<1>11. CASE s = "Liveliness"
  <2>1. kind \in {"Automatic", "ManualByParticipant", "ManualByTopic"} /\ Len(a) = 1
    BY <1>3, <1>11, KindsOf, FieldsOf
  <2> DEFINE k == CASE kind = "Automatic" -> 0 [] kind = "ManualByParticipant" -> 1 [] OTHER -> 2
  <2>2. ToC(p) = <<k, Duration(a[1])>>
    BY <1>11 DEF ToC, SetLiveliness
  <2>3. \A c : FromC(s, c) =
          <<Policy(s, CASE c[1] = 0 -> "Automatic" [] c[1] = 1 -> "ManualByParticipant"
                        [] OTHER -> "ManualByTopic",
                   <<c[2]>>)>>
    BY <1>11 DEF FromC, GetLiveliness
  <2>4. ~SaysNothing(p)
    BY <1>4, <1>11 DEF Emptied
  <2> HIDE DEF s, a, kind
  <2>5. a = <<a[1]>> /\ 1 \in DOMAIN a
    BY <1>1, <2>1, ShortSequences
  <2>6. (CASE k = 0 -> "Automatic" [] k = 1 -> "ManualByParticipant" [] OTHER -> "ManualByTopic")
          = kind
    BY <2>1
  <2>7. Duration(a[1]) = a[1]
    BY <1>3, <1>11, <2>5 DEF InRange
  <2> HIDE DEF k
  <2>8. FromC(s, ToC(p)) = <<Policy(s, kind, <<a[1]>>)>>
    BY <2>2, <2>3, <2>6, <2>7
  <2> QED
    BY <1>2, <2>4, <2>5, <2>8 DEF s
<1>12. CASE s = "TypeConsistency"
  <2>1. kind \in {"DisallowTypeCoercion", "AllowTypeCoercion"}
    BY <1>3, <1>12, KindsOf
  <2>2. ToC(p) = IF kind = "DisallowTypeCoercion" THEN <<0, 0, 0, 0, 0, a[1]>> ELSE <<1>> \o a
    BY <1>12 DEF ToC, SetTypeConsistency
  <2>3. \A c : FromC(s, c) = <<IF c[1] = 0 THEN Policy(s, "DisallowTypeCoercion", <<c[6]>>)
                               ELSE Policy(s, "AllowTypeCoercion", Tail(c))>>
    BY <1>12 DEF FromC, GetTypeConsistency
  <2>4. ~SaysNothing(p)
    BY <1>4, <1>12 DEF Emptied
  <2>5. kind = "DisallowTypeCoercion" => Len(a) = 1
    BY <1>3, <1>12, FieldsOf
  <2>6. kind # "DisallowTypeCoercion" => Len(a) = 5
    BY <1>3, <1>12, FieldsOf
  <2> HIDE DEF s, a, kind
  <2>7. CASE kind = "DisallowTypeCoercion"
    <3>1. a = <<a[1]>>
      BY <1>1, <2>5, <2>7, ShortSequences
    <3>2. ToC(p) = <<0, 0, 0, 0, 0, a[1]>>
      BY <2>2, <2>7
    <3>3. FromC(s, ToC(p)) = <<Policy(s, kind, <<a[1]>>)>>
      BY <2>3, <2>7, <3>2
    <3> QED
      BY <1>2, <2>4, <3>1, <3>3 DEF s
  <2>8. CASE kind = "AllowTypeCoercion"
    <3>1. a = <<a[1], a[2], a[3], a[4], a[5]>>
      BY <1>1, <2>6, <2>8, ShortSequences
    <3>2. <<1>> \in Seq(Int) /\ Len(<<1>>) = 1 /\ <<1>>[1] = 1
      OBVIOUS
    <3>3. (<<1>> \o a)[1] = 1 /\ Tail(<<1>> \o a) = a
      <4> DEFINE j == <<1>> \o a
      <4>1. /\ j \in Seq(Int) /\ Len(j) = Len(a) + 1
            /\ \A i \in 1 .. Len(<<1>>) : j[i] = <<1>>[i]
            /\ \A i \in 1 .. Len(a) : j[Len(<<1>>) + i] = a[i]
        BY <1>1, <3>2, Joined, JoinedElements
      <4> HIDE DEF j
      <4>2. \A x \in Seq(Int) : Len(x) > 0 =>
              /\ Tail(x) \in Seq(Int) /\ Len(Tail(x)) = Len(x) - 1
              /\ \A i \in 1 .. Len(x) - 1 : Tail(x)[i] = x[i + 1]
        OBVIOUS
      <4>3. Len(a) \in Nat
        BY <1>1
      <4>4. /\ Tail(j) \in Seq(Int) /\ Len(Tail(j)) = Len(a)
            /\ \A i \in 1 .. Len(a) : Tail(j)[i] = a[i]
        BY <3>2, <4>1, <4>2, <4>3
      <4>5. Tail(j) = a
        BY <1>1, <4>4, SameSequence
      <4> QED
        BY <3>2, <4>1, <4>5 DEF j
    <3>4. ToC(p) = <<1>> \o a
      BY <2>2, <2>8
    <3>5. ToC(p)[1] # 0 /\ Tail(ToC(p)) = a
      BY <3>3, <3>4
    <3>6. FromC(s, ToC(p)) = <<Policy(s, kind, a)>>
      BY <2>3, <2>8, <3>5
    <3> QED
      BY <1>2, <2>4, <3>6 DEF s
  <2> QED
    BY <2>1, <2>7, <2>8
<1>13. CASE s = "DurabilityService"
  <2>1. kind = Blank /\ Len(a) = 5
    BY <1>3, <1>13, KindsOf, FieldsOf
  <2> DEFINE all == a[2] = KeepAllHistory
  <2>2. ToC(p) = <<Duration(a[1]), IF all THEN 1 ELSE 0, IF all THEN 0 ELSE Int32(a[2]),
                   Int32(a[3]), Int32(a[4]), Int32(a[5])>>
    BY <1>13 DEF ToC, SetDurabilityService
  <2>3. \A c : FromC(s, c) = <<Policy(s, Blank,
          <<c[1], IF c[2] = 0 THEN c[3] ELSE KeepAllHistory, c[4], c[5], c[6]>>)>>
    BY <1>13 DEF FromC, GetDurabilityService
  <2>4. ~SaysNothing(p)
    BY <1>4, <1>13 DEF Emptied
  <2> HIDE DEF s, a, kind
  <2>5. a = <<a[1], a[2], a[3], a[4], a[5]>>
    BY <1>1, <2>1, ShortSequences
  <2>6. /\ Duration(a[1]) = a[1] /\ Int32(a[2]) = a[2] /\ Int32(a[3]) = a[3]
        /\ Int32(a[4]) = a[4] /\ Int32(a[5]) = a[5]
    BY <1>3, <1>13 DEF InRange
  <2> DEFINE c == <<a[1], IF all THEN 1 ELSE 0, IF all THEN 0 ELSE a[2], a[3], a[4], a[5]>>
  <2>7. ToC(p) = c
    BY <2>2, <2>6
  <2>8. /\ c[1] = a[1] /\ c[4] = a[3] /\ c[5] = a[4] /\ c[6] = a[5]
        /\ (IF c[2] = 0 THEN c[3] ELSE KeepAllHistory) = a[2]
    BY DEF c
  <2> HIDE DEF c
  <2>9. FromC(s, c) = <<Policy(s, Blank, <<a[1], a[2], a[3], a[4], a[5]>>)>>
    BY <2>3, <2>8
  <2> QED
    BY <1>2, <2>1, <2>4, <2>5, <2>7, <2>9 DEF s
<1>14. CASE s = "DataRepresentation"
  <2>1. kind = Blank /\ Len(a) = 2
    BY <1>3, <1>14, KindsOf, FieldsOf
  <2>2. ToC(p) = (IF a[1] = 1 THEN <<0>> ELSE <<>>) \o (IF a[2] = 1 THEN <<2>> ELSE <<>>)
    BY <1>14 DEF ToC, SetDataRepresentation
  <2>3. \A c : FromC(s, c) = <<Policy(s, Blank,
          <<Truth(\E i \in DOMAIN c : c[i] = 0), Truth(\E i \in DOMAIN c : c[i] = 2)>>)>>
    BY <1>14 DEF FromC, GetDataRepresentation
  <2>4. ~SaysNothing(p)
    BY <1>4, <1>14 DEF Emptied
  <2> HIDE DEF s, a, kind
  <2>5. a = <<a[1], a[2]>> /\ 1 \in DOMAIN a /\ 2 \in DOMAIN a
    BY <1>1, <2>1, ShortSequences
  <2>6. a[1] \in {0, 1} /\ a[2] \in {0, 1}
    BY <1>3, <1>14, <2>5 DEF InRange
  <2> DEFINE c == ToC(p)
  <2>7. /\ Truth(\E i \in DOMAIN c : c[i] = 0) = a[1]
        /\ Truth(\E i \in DOMAIN c : c[i] = 2) = a[2]
    <3>1. CASE a[1] = 1 /\ a[2] = 1
      <4>1. c = <<0>> \o <<2>>
        BY <2>2, <3>1
      <4>2. DOMAIN (<<0>> \o <<2>>) = 1 .. 2 /\ (<<0>> \o <<2>>)[1] = 0 /\ (<<0>> \o <<2>>)[2] = 2
        OBVIOUS
      <4> HIDE DEF c
      <4>3. (\E i \in DOMAIN c : c[i] = 0) /\ (\E i \in DOMAIN c : c[i] = 2)
        BY <4>1, <4>2
      <4> QED
        BY <3>1, <4>3 DEF Truth
    <3>2. CASE a[1] = 1 /\ a[2] = 0
      <4>1. c = <<0>>
        BY <2>2, <3>2
      <4> HIDE DEF c
      <4> QED
        BY <3>2, <4>1 DEF Truth
    <3>3. CASE a[1] = 0 /\ a[2] = 1
      <4>1. c = <<2>>
        BY <2>2, <3>3
      <4> HIDE DEF c
      <4> QED
        BY <3>3, <4>1 DEF Truth
    <3>4. CASE a[1] = 0 /\ a[2] = 0
      <4>1. c = <<>>
        BY <2>2, <3>4
      <4> HIDE DEF c
      <4> QED
        BY <3>4, <4>1 DEF Truth
    <3> QED
      BY <2>6, <3>1, <3>2, <3>3, <3>4
  <2> HIDE DEF c
  <2>8. FromC(s, c) = <<Policy(s, Blank, <<a[1], a[2]>>)>>
    BY <2>3, <2>7
  <2> QED
    BY <1>2, <2>1, <2>4, <2>5, <2>8 DEF s, c
<1>15. s \in AsTheyAre \cup Emptied \cup
        {"Durability", "Ownership", "DestinationOrder", "IgnoreLocal", "Reliability", "History",
         "PresentationAccessScope", "Liveliness", "TypeConsistency", "DurabilityService",
         "DataRepresentation"}
  <2>1. s \in DOMAIN ScopeRank
    BY ScopesArePairs DEF Fits
  <2> QED
    BY <2>1 DEF ScopeRank, Ranks, ScopeNames, AsTheyAre, Emptied, PropertyScopes
<1> QED
  BY <1>5, <1>6, <1>7, <1>8, <1>9, <1>10, <1>11, <1>12, <1>13, <1>14, <1>15

(***************************************************************************)
(* A C qos is made of a Qos when it has what the setters pass for its      *)
(* policies and nothing else.                                              *)
(***************************************************************************)
Made(c, q) ==
  /\ Sound(q)
  /\ \A x \in ToSet(q) : Fits(x) /\ HasEffect(x) /\ x.scope \in DOMAIN c /\ c[x.scope] = ToC(x)
  /\ \A s \in DOMAIN c : \E x \in ToSet(q) : x.scope = s

LEMMA OneOfScope ==
  ASSUME NEW q, Sound(q), NEW x \in ToSet(q), NEW y \in ToSet(q), x.scope = y.scope
  PROVE  x = y
<1>1. PICK i \in DOMAIN q : q[i] = x
  BY DEF ToSet
<1>2. PICK j \in DOMAIN q : q[j] = y
  BY DEF ToSet
<1>3. Distinct(q)
  BY StrictOrder DEF Sound
<1> QED
  BY <1>1, <1>2, <1>3 DEF Distinct

\* qos_to_cqos makes a C qos of what has an effect.
LEMMA MadeOfQos ==
  ASSUME NEW q, Sound(q), AllFit(q)
  PROVE  Made(QosToC(q), Chosen(q, {i \in DOMAIN q : HasEffect(q[i])}))
<1> DEFINE places == {i \in DOMAIN q : HasEffect(q[i])}
           set == Chosen(q, places)
           of(s) == CHOOSE i \in DOMAIN set : set[i].scope = s
           c == QosToC(q)
<1>1. c = [s \in {set[i].scope : i \in DOMAIN set} |-> ToC(set[of(s)])]
  BY DEF QosToC
<1>2. \A k \in DOMAIN q \cap places : HasEffect(q[k])
  OBVIOUS
<1> HIDE DEF places, c
<1>3. Sound(set) /\ \A x : x \in ToSet(set) <=> \E k \in DOMAIN q \cap places : x = q[k]
  BY ChosenFrom DEF Sound
<1> HIDE DEF set
<1>4. \A x \in ToSet(set) : Fits(x) /\ HasEffect(x)
  BY <1>2, <1>3 DEF AllFit, ToSet
<1>5. DOMAIN c = {set[i].scope : i \in DOMAIN set}
  BY <1>1
<1>6. \A s \in DOMAIN c : of(s) \in DOMAIN set /\ set[of(s)].scope = s /\ c[s] = ToC(set[of(s)])
  <2> SUFFICES ASSUME NEW s \in DOMAIN c
               PROVE  of(s) \in DOMAIN set /\ set[of(s)].scope = s /\ c[s] = ToC(set[of(s)])
    OBVIOUS
  <2>1. \E i \in DOMAIN set : set[i].scope = s
    BY <1>5
  <2>2. of(s) \in DOMAIN set /\ set[of(s)].scope = s
    BY <2>1
  <2> QED
    BY <1>1, <1>5, <2>2
<1> HIDE DEF of
<1>7. \A s \in DOMAIN c : set[of(s)] \in ToSet(set) /\ set[of(s)].scope = s
  BY <1>6 DEF ToSet
<1>8. \A x \in ToSet(set) : x.scope \in DOMAIN c
  BY <1>5 DEF ToSet
<1>9. \A x \in ToSet(set) : c[x.scope] = ToC(x)
  <2> SUFFICES ASSUME NEW x \in ToSet(set) PROVE c[x.scope] = ToC(x)
    OBVIOUS
  <2> DEFINE y == set[of(x.scope)]
  <2>1. y \in ToSet(set) /\ y.scope = x.scope /\ c[x.scope] = ToC(y)
    BY <1>6, <1>7, <1>8
  <2> HIDE DEF y
  <2>2. x = y
    BY <1>3, <2>1, OneOfScope
  <2> QED
    BY <2>1, <2>2
<1>10. Made(c, set)
  BY <1>3, <1>4, <1>7, <1>8, <1>9 DEF Made
<1> QED
  BY <1>10 DEF c, set, places

LEMMA MadeOver ==
  ASSUME NEW c, NEW d, NEW q, NEW r, Made(c, q), Made(d, r)
  PROVE  Made(SetOver(c, d), Plus(r, q))
<1> DEFINE o == SetOver(c, d)
           sum == Plus(r, q)
<1>1. DOMAIN o = DOMAIN c \cup DOMAIN d
  BY DEF SetOver
<1>2. \A s \in DOMAIN o : o[s] = IF s \in DOMAIN c THEN c[s] ELSE d[s]
  BY DEF SetOver
<1>3. /\ Sound(sum)
      /\ \A x : x \in ToSet(sum) <=>
           \/ x \in ToSet(q)
           \/ x \in ToSet(r) /\ \A i \in DOMAIN q : q[i].scope # x.scope
  BY SumOf DEF Made
<1> HIDE DEF o, sum
<1>4. \A x \in ToSet(sum) : \/ x \in ToSet(q)
                            \/ x \in ToSet(r) /\ \A y \in ToSet(q) : y.scope # x.scope
  BY <1>3 DEF ToSet
<1>5. \A x : x \in ToSet(q) => x \in ToSet(sum)
  BY <1>3
<1>6. \A x \in ToSet(r) : (\A y \in ToSet(q) : y.scope # x.scope) => x \in ToSet(sum)
  BY <1>3 DEF ToSet
<1>7. ASSUME NEW x \in ToSet(sum)
      PROVE  Fits(x) /\ HasEffect(x) /\ x.scope \in DOMAIN o /\ o[x.scope] = ToC(x)
  <2>1. CASE x \in ToSet(q)
    BY <1>1, <1>2, <2>1 DEF Made
  <2>2. CASE x \in ToSet(r) /\ \A y \in ToSet(q) : y.scope # x.scope
    <3>1. x.scope \notin DOMAIN c
      BY <2>2 DEF Made
    <3> QED
      BY <1>1, <1>2, <2>2, <3>1 DEF Made
  <2> QED
    BY <1>4, <2>1, <2>2
<1>8. ASSUME NEW s \in DOMAIN o PROVE \E x \in ToSet(sum) : x.scope = s
  <2>1. CASE s \in DOMAIN c
    BY <1>5, <2>1 DEF Made
  <2>2. CASE s \notin DOMAIN c
    <3>1. PICK x \in ToSet(r) : x.scope = s
      BY <1>1, <2>2 DEF Made
    <3>2. \A y \in ToSet(q) : y.scope # s
      BY <2>2 DEF Made
    <3> QED
      BY <1>6, <3>1, <3>2
  <2> QED
    BY <2>1, <2>2
<1>9. Made(o, sum)
  BY <1>3, <1>7, <1>8 DEF Made
<1> QED
  BY <1>9 DEF o, sum

LEMMA NarrowedTo ==
  ASSUME NEW class, NEW q, Sound(q)
  PROVE  /\ Sound(Narrowed(class, q))
         /\ \A x : x \in ToSet(Narrowed(class, q)) <=> x \in ToSet(q) /\ Supports(class, x.scope)
<1> DEFINE places == {i \in DOMAIN q : Supports(class, q[i].scope)}
<1>1. Narrowed(class, q) = Chosen(q, places)
  BY DEF Narrowed
<1>2. \A k \in DOMAIN q : k \in places <=> Supports(class, q[k].scope)
  OBVIOUS
<1> HIDE DEF places
<1>3. /\ Sound(Chosen(q, places))
      /\ \A x : x \in ToSet(Chosen(q, places)) <=> \E k \in DOMAIN q \cap places : x = q[k]
  BY ChosenFrom DEF Sound
<1>4. \A x : x \in ToSet(q) <=> \E k \in DOMAIN q : x = q[k]
  BY DEF ToSet
<1> QED
  BY <1>1, <1>2, <1>3, <1>4

LEMMA MadeGiven ==
  ASSUME NEW c, NEW q, Made(c, q), NEW e
  PROVE  Made(Given(e, c), Narrowed(Kind[e], q))
<1> DEFINE g == Given(e, c)
           n == Narrowed(Kind[e], q)
<1>1. DOMAIN g = {s \in DOMAIN c : Supports(Kind[e], s)} /\ \A s \in DOMAIN g : g[s] = c[s]
  BY DEF Given
<1>2. /\ Sound(n)
      /\ \A x : x \in ToSet(n) <=> x \in ToSet(q) /\ Supports(Kind[e], x.scope)
  BY NarrowedTo DEF Made
<1> HIDE DEF g, n
<1>3. \A x \in ToSet(n) : Fits(x) /\ HasEffect(x) /\ x.scope \in DOMAIN g /\ g[x.scope] = ToC(x)
  BY <1>1, <1>2 DEF Made
<1>4. \A s \in DOMAIN g : \E x \in ToSet(n) : x.scope = s
  BY <1>1, <1>2 DEF Made
<1>5. Made(g, n)
  BY <1>2, <1>3, <1>4 DEF Made
<1> QED
  BY <1>5 DEF g, n

\* A name has the rank of its place.
LEMMA RankIsPlace ==
  ASSUME NEW names, \A i, j \in DOMAIN names : names[i] = names[j] => i = j,
         NEW i \in DOMAIN names
  PROVE  Ranks(names)[names[i]] = i /\ names[i] \in DOMAIN Ranks(names)
<1>1. DOMAIN Ranks(names) = {names[k] : k \in DOMAIN names}
  BY DEF Ranks
<1>2. Ranks(names)[names[i]] = CHOOSE k \in DOMAIN names : names[k] = names[i]
  BY DEF Ranks
<1> QED
  BY <1>1, <1>2

LEMMA NamesInOrder ==
  /\ ScopeNames \in Seq(DOMAIN ScopeRank) /\ Len(ScopeNames) = 27
  /\ DOMAIN ScopeNames = 1 .. 27
  /\ \A i \in 1 .. 27 : ScopeRank[ScopeNames[i]] = i /\ ScopeNames[i] \in DOMAIN ScopeRank
  /\ \A s \in DOMAIN ScopeRank : \E i \in 1 .. 27 : ScopeNames[i] = s
<1>1. DOMAIN ScopeNames = 1 .. 27 /\ Len(ScopeNames) = 27
  BY DEF ScopeNames
<1>2. \A i, j \in 1 .. 27 : ScopeNames[i] = ScopeNames[j] => i = j
  BY DEF ScopeNames
<1>3. \A i \in 1 .. 27 : ScopeRank[ScopeNames[i]] = i /\ ScopeNames[i] \in DOMAIN ScopeRank
  BY <1>1, <1>2, RankIsPlace DEF ScopeRank
<1>4. \A s \in DOMAIN ScopeRank : \E i \in 1 .. 27 : ScopeNames[i] = s
  BY <1>1 DEF ScopeRank, Ranks
<1>5. ScopeNames \in Seq(DOMAIN ScopeRank)
  <2> DEFINE S == DOMAIN ScopeRank
  <2>1. \A i \in 1 .. 27 : ScopeNames[i] \in S
    BY <1>3
  <2> HIDE DEF S
  <2>2. ScopeNames = [i \in 1 .. 27 |-> ScopeNames[i]]
    BY DEF ScopeNames
  <2>3. [i \in 1 .. 27 |-> ScopeNames[i]] \in Seq(S)
    BY <2>1
  <2> QED
    BY <2>2, <2>3 DEF S
<1> QED
  BY <1>1, <1>3, <1>4, <1>5

LEMMA KeysInOrder ==
  \A i \in DOMAIN PropertyKeys : KeyRank[PropertyKeys[i]] = i + 1
<1> DEFINE K == ToSet(PropertyKeys)
           U == K \cup {Blank}
           none == <<Blank>>
           all == none \o PropertyKeys
<1>0. PropertyKeys \in Seq(K) /\ Blank \notin K
      /\ \A i, j \in DOMAIN PropertyKeys : i # j => PropertyKeys[i] # PropertyKeys[j]
  BY QosAssumption DEF QosAssumption, IsInjective
<1>a. \A i \in DOMAIN PropertyKeys : PropertyKeys[i] # Blank
  BY <1>0 DEF ToSet
<1> HIDE DEF K
<1>1. PropertyKeys \in Seq(U)
  BY <1>0
<1>2. none \in Seq(U) /\ Len(none) = 1 /\ none[1] = Blank
  OBVIOUS
<1>b. DOMAIN PropertyKeys = 1 .. Len(PropertyKeys) /\ Len(PropertyKeys) \in Nat
  BY <1>0
<1> HIDE DEF none, U
<1>3. /\ DOMAIN all = 1 .. Len(none) + Len(PropertyKeys)
      /\ \A i \in 1 .. Len(none) : all[i] = none[i]
      /\ \A i \in 1 .. Len(PropertyKeys) : all[Len(none) + i] = PropertyKeys[i]
  <2> DEFINE t == PropertyKeys
  <2>1. none \in Seq(U) /\ t \in Seq(U)
    BY <1>1, <1>2
  <2> HIDE DEF t
  <2>2. /\ DOMAIN (none \o t) = 1 .. Len(none) + Len(t)
        /\ \A i \in 1 .. Len(none) : (none \o t)[i] = none[i]
        /\ \A i \in 1 .. Len(t) : (none \o t)[Len(none) + i] = t[i]
    BY <2>1, JoinedElements
  <2> QED
    BY <2>2 DEF t
<1>4. KeyRank = Ranks(all)
  BY DEF KeyRank, none
<1> HIDE DEF all
<1>5. all[1] = Blank /\ \A i \in DOMAIN PropertyKeys : i + 1 \in DOMAIN all /\ all[i + 1] = PropertyKeys[i]
  <2>1. \A i \in 1 .. Len(PropertyKeys) : 1 + i = i + 1 /\ i + 1 \in 1 .. 1 + Len(PropertyKeys)
    BY <1>b
  <2> QED
    BY <1>2, <1>3, <1>b, <2>1
<1>6. \A i \in DOMAIN all : i = 1 \/ \E k \in DOMAIN PropertyKeys : i = k + 1
  <2>1. \A i \in 1 .. 1 + Len(PropertyKeys) : i = 1 \/ (i - 1 \in 1 .. Len(PropertyKeys) /\ i = (i - 1) + 1)
    BY <1>b
  <2> QED
    BY <1>2, <1>3, <1>b, <2>1
<1>7. ASSUME NEW i \in DOMAIN all, NEW j \in DOMAIN all, all[i] = all[j] PROVE i = j
  <2>1. CASE i = 1
    BY <1>5, <1>6, <1>7, <1>a, <2>1
  <2>2. CASE j = 1
    BY <1>5, <1>6, <1>7, <1>a, <2>2
  <2>3. CASE i # 1 /\ j # 1
    <3>1. PICK k \in DOMAIN PropertyKeys : i = k + 1
      BY <1>6, <2>3
    <3>2. PICK l \in DOMAIN PropertyKeys : j = l + 1
      BY <1>6, <2>3
    <3> QED
      BY <1>0, <1>5, <1>7, <3>1, <3>2
  <2> QED
    BY <2>1, <2>2, <2>3
<1> QED
  BY <1>4, <1>5, <1>7, RankIsPlace

\* What the property getters return: in the order of the names, each policy that was set.
LEMMA PropertiesAre ==
  ASSUME NEW c, NEW q, Made(c, q), NEW s \in PropertyScopes
  PROVE  /\ Strict(Properties(s, c))
         /\ \A x : x \in ToSet(Properties(s, c)) <=> x \in ToSet(q) /\ x.scope[1] = s
<1> DEFINE K == ToSet(PropertyKeys)
           places == {i \in DOMAIN PropertyKeys : <<s, PropertyKeys[i]>> \in DOMAIN c}
           keys == Chosen(PropertyKeys, places)
           get(k) == IF s = "Property" THEN GetProperty(k, c[<<s, k>>])
                                       ELSE GetBinaryProperty(k, c[<<s, k>>])
           r == [i \in DOMAIN keys |-> get(keys[i])]
<1>1. PropertyKeys \in Seq(K) /\ DOMAIN PropertyKeys = 1 .. Len(PropertyKeys)
  BY QosAssumption DEF QosAssumption
<1>2. Properties(s, c) = r
  BY DEF Properties
<1>3. \A i : i \in places <=> i \in DOMAIN PropertyKeys /\ <<s, PropertyKeys[i]>> \in DOMAIN c
  OBVIOUS
<1>4. \A k \in K : \E i \in DOMAIN PropertyKeys : PropertyKeys[i] = k
  BY DEF ToSet
<1> HIDE DEF K, places
<1>5. PICK m : Picks(keys, m, PropertyKeys, places, Len(PropertyKeys), K)
  BY <1>1, ChosenPicks
<1> HIDE DEF keys
<1>6. /\ DOMAIN keys = 1 .. Len(keys) /\ Len(keys) \in Nat
      /\ \A i \in DOMAIN keys : m[i] \in places /\ keys[i] = PropertyKeys[m[i]]
      /\ \A i, j \in DOMAIN keys : i < j => m[i] < m[j]
  BY <1>5 DEF Picks
<1>7. \A k \in places : \E i \in DOMAIN keys : m[i] = k
  BY <1>1, <1>3, <1>5, <1>6 DEF Picks
<1>8. ASSUME NEW x \in ToSet(q), x.scope[1] = s
      PROVE  \E i \in DOMAIN keys : x = get(keys[i])
  <2>1. Fits(x) /\ x.scope \in DOMAIN c /\ c[x.scope] = ToC(x)
    BY DEF Made
  <2>2. x.scope = <<s, x.scope[2]>> /\ x.scope[2] \in K
    <3>1. x.scope = <<x.scope[1], x.scope[2]>>
      BY <2>1, ScopesArePairs DEF Fits
    <3> QED
      BY <1>8, <2>1, <3>1 DEF Fits, K
  <2> DEFINE k == x.scope[2]
  <2>3. x.kind = Blank
    BY <1>8, <2>1, KindsOf DEF Fits, PropertyScopes
  <2>4. ToC(x) = x.args
    BY <1>8 DEF ToC, SetProperty, SetBinaryProperty, PropertyScopes
  <2>5. get(k) = [scope |-> <<s, k>>, kind |-> Blank, args |-> c[<<s, k>>]]
    BY DEF GetProperty, GetBinaryProperty, PropertyScopes
  <2> HIDE DEF k, get
  <2>6. x.scope = <<s, k>> /\ k \in K
    BY <2>2 DEF k
  <2>7. x = get(k)
    <3>1. c[<<s, k>>] = x.args
      BY <2>1, <2>4, <2>6
    <3>2. x = [scope |-> x.scope, kind |-> x.kind, args |-> x.args]
      BY <2>1 DEF Fits
    <3> QED
      BY <2>3, <2>5, <2>6, <3>1, <3>2
  <2>8. PICK i \in DOMAIN PropertyKeys : PropertyKeys[i] = k
    BY <1>4, <2>6
  <2>9. i \in places
    BY <1>3, <2>1, <2>6, <2>8
  <2>10. PICK j \in DOMAIN keys : m[j] = i
    BY <1>7, <2>9
  <2> QED
    BY <1>6, <2>7, <2>8, <2>10
<1>9. ASSUME NEW i \in DOMAIN keys
      PROVE  get(keys[i]) \in ToSet(q) /\ get(keys[i]).scope = <<s, keys[i]>>
  <2>1. get(keys[i]).scope = <<s, keys[i]>>
    BY DEF GetProperty, GetBinaryProperty, PropertyScopes
  <2>2. <<s, keys[i]>> \in DOMAIN c
    BY <1>3, <1>6
  <2>3. PICK x \in ToSet(q) : x.scope = <<s, keys[i]>>
    BY <2>2 DEF Made
  <2> HIDE DEF get
  <2>4. x.scope[1] = s
    BY <2>3
  <2>5. PICK j \in DOMAIN keys : x = get(keys[j])
    BY <1>8, <2>4
  <2>6. keys[j] = keys[i]
    <3>1. get(keys[j]).scope = <<s, keys[j]>>
      BY DEF get, GetProperty, GetBinaryProperty, PropertyScopes
    <3> QED
      BY <2>3, <2>5, <3>1
  <2> QED
    BY <2>1, <2>5, <2>6
<1> HIDE DEF get
<1>10. DOMAIN r = DOMAIN keys /\ \A i \in DOMAIN keys : r[i] = get(keys[i])
  OBVIOUS
<1> HIDE DEF r
<1>11. \A x : x \in ToSet(r) <=> \E i \in DOMAIN keys : x = get(keys[i])
  BY <1>10 DEF ToSet
<1>12. \A i \in DOMAIN keys : get(keys[i]).scope[1] = s
  BY <1>9
<1>13. Strict(r)
  <2> SUFFICES ASSUME NEW i \in DOMAIN keys, NEW j \in DOMAIN keys, i < j
               PROVE  Before(r[i].scope, r[j].scope)
    BY <1>10 DEF Strict
  <2>1. r[i].scope = <<s, keys[i]>> /\ r[j].scope = <<s, keys[j]>>
    BY <1>9, <1>10
  <2>2. m[i] < m[j] /\ m[i] \in DOMAIN PropertyKeys /\ m[j] \in DOMAIN PropertyKeys
    BY <1>3, <1>6
  <2>3. KeyRank[keys[i]] = m[i] + 1 /\ KeyRank[keys[j]] = m[j] + 1
    BY <1>6, <2>2, KeysInOrder
  <2>4. m[i] \in Nat /\ m[j] \in Nat
    BY <1>1, <2>2
  <2>5. KeyRank[keys[i]] < KeyRank[keys[j]]
    BY <2>2, <2>3, <2>4
  <2> QED
    BY <2>1, <2>5 DEF Before
<1>14. \A x : x \in ToSet(r) <=> x \in ToSet(q) /\ x.scope[1] = s
  BY <1>8, <1>9, <1>11, <1>12
<1> QED
  BY <1>2, <1>13, <1>14

\* The answer to a scope: what the qos has of it that says something.
LEMMA AnswerIs ==
  ASSUME NEW c, NEW q, Made(c, q), NEW s \in DOMAIN ScopeRank
  PROVE  /\ ReadOf(Answer(s, c), {s}) /\ Strict(Answer(s, c))
         /\ \A x : x \in ToSet(Answer(s, c)) <=>
              x \in ToSet(q) /\ x.scope[1] = s /\ ~SaysNothing(x)
<1>1. CASE s \in PropertyScopes
  <2>1. Answer(s, c) = Properties(s, c)
    BY <1>1 DEF Answer
  <2>2. \A x : x.scope[1] = s => ~SaysNothing(x)
    BY <1>1 DEF SaysNothing, PropertyScopes
  <2> QED
    BY <1>1, <2>1, <2>2, PropertiesFind, PropertiesAre
<1>2. CASE s \notin PropertyScopes /\ <<s, Blank>> \in DOMAIN c
  <2>1. Answer(s, c) = FromC(s, c[<<s, Blank>>])
    BY <1>2 DEF Answer
  <2>2. PICK p \in ToSet(q) : p.scope = <<s, Blank>>
    BY <1>2 DEF Made
  <2>3. Fits(p) /\ HasEffect(p) /\ c[<<s, Blank>>] = ToC(p) /\ p.scope[1] = s
    BY <2>2 DEF Made
  <2>4. FromC(s, ToC(p)) = IF SaysNothing(p) THEN <<>> ELSE <<p>>
    BY <1>2, <2>3, FaithfulSetting
  <2>5. Answer(s, c) = IF SaysNothing(p) THEN <<>> ELSE <<p>>
    BY <2>1, <2>3, <2>4
  <2>6. \A x \in ToSet(q) : x.scope[1] = s => x = p
    <3> SUFFICES ASSUME NEW x \in ToSet(q), x.scope[1] = s PROVE x = p
      OBVIOUS
    <3>1. Fits(x)
      BY DEF Made
    <3>2. x.scope = <<x.scope[1], x.scope[2]>>
      BY <3>1, ScopesArePairs DEF Fits
    <3>3. x.scope = <<s, Blank>>
      BY <1>2, <3>1, <3>2 DEF Fits, IsPolicy
    <3> QED
      BY <2>2, <3>3, OneOfScope DEF Made
  <2>7. OneOf(Answer(s, c), s)
    <3>1. \A y : <<y>>[1] = y
      OBVIOUS
    <3> QED
      BY <2>2, <2>5, <3>1 DEF OneOf
  <2>8. ReadOf(Answer(s, c), {s})
    BY <2>7, NoneOrOne
  <2>9. Strict(Answer(s, c)) /\ \A x : x \in ToSet(Answer(s, c)) <=> x = p /\ ~SaysNothing(p)
    <3>1. CASE SaysNothing(p)
      <4>1. Answer(s, c) = <<>>
        BY <2>5, <3>1
      <4> QED
        BY <3>1, <4>1 DEF Strict, ToSet
    <3>2. CASE ~SaysNothing(p)
      <4>1. Answer(s, c) = <<p>>
        BY <2>5, <3>2
      <4>2. DOMAIN <<p>> = {1} /\ <<p>>[1] = p
        OBVIOUS
      <4> QED
        BY <3>2, <4>1, <4>2 DEF Strict, ToSet
    <3> QED
      BY <3>1, <3>2
  <2> QED
    BY <2>3, <2>6, <2>8, <2>9
<1>3. CASE s \notin PropertyScopes /\ <<s, Blank>> \notin DOMAIN c
  <2>1. Answer(s, c) = <<>>
    BY <1>3 DEF Answer
  <2>2. ASSUME NEW x \in ToSet(q), x.scope[1] = s PROVE FALSE
    <3>1. Fits(x) /\ x.scope \in DOMAIN c
      BY DEF Made
    <3>2. x.scope = <<x.scope[1], x.scope[2]>>
      BY <3>1, ScopesArePairs DEF Fits
    <3>3. x.scope = <<s, Blank>>
      BY <1>3, <2>2, <3>1, <3>2 DEF Fits, IsPolicy
    <3> QED
      BY <1>3, <3>1, <3>3
  <2>3. Strict(<<>>) /\ ToSet(<<>>) = {}
    BY DEF Strict, ToSet
  <2> QED
    BY <2>1, <2>2, <2>3, EmptyIsSound
<1> QED
  BY <1>1, <1>2, <1>3

LEMMA StrictJoined ==
  ASSUME NEW a, NEW b, Good(a), Good(b), Strict(a), Strict(b),
         \A i \in DOMAIN a, j \in DOMAIN b : Before(a[i].scope, b[j].scope)
  PROVE  Strict(a \o b)
<1> DEFINE U == ToSet(a) \cup ToSet(b)
<1>1. a \in Seq(U) /\ b \in Seq(U)
  BY GoodWithin
<1> HIDE DEF U
<1>2. /\ DOMAIN (a \o b) = 1 .. Len(a) + Len(b)
      /\ \A i \in 1 .. Len(a) : (a \o b)[i] = a[i]
      /\ \A i \in 1 .. Len(b) : (a \o b)[Len(a) + i] = b[i]
  BY <1>1, JoinedElements
<1> DEFINE r == a \o b
<1>3. DOMAIN a = 1 .. Len(a) /\ DOMAIN b = 1 .. Len(b) /\ Len(a) \in Nat /\ Len(b) \in Nat
  BY Lengths
<1>4. /\ DOMAIN r = 1 .. Len(a) + Len(b)
      /\ \A i \in 1 .. Len(a) : r[i] = a[i]
      /\ \A i \in Len(a) + 1 .. Len(a) + Len(b) : i - Len(a) \in 1 .. Len(b) /\ r[i] = b[i - Len(a)]
  <2>1. \A i \in Len(a) + 1 .. Len(a) + Len(b) : i - Len(a) \in 1 .. Len(b) /\ Len(a) + (i - Len(a)) = i
    BY <1>3
  <2> HIDE DEF r
  <2> QED
    BY <1>2, <2>1 DEF r
<1> HIDE DEF r
<1>5. \A i \in DOMAIN r : i \in 1 .. Len(a) \/ i \in Len(a) + 1 .. Len(a) + Len(b)
  BY <1>3, <1>4
<1>6. Strict(r)
  <2> SUFFICES ASSUME NEW i \in DOMAIN r, NEW j \in DOMAIN r, i < j
               PROVE  Before(r[i].scope, r[j].scope)
    BY DEF Strict
  <2>1. CASE i \in 1 .. Len(a) /\ j \in 1 .. Len(a)
    BY <1>3, <1>4, <2>1 DEF Strict
  <2>2. CASE i \in 1 .. Len(a) /\ j \in Len(a) + 1 .. Len(a) + Len(b)
    <3>1. r[i] = a[i] /\ r[j] = b[j - Len(a)] /\ j - Len(a) \in 1 .. Len(b)
      BY <1>4, <2>2
    <3> QED
      BY <1>3, <2>2, <3>1
  <2>3. CASE i \in Len(a) + 1 .. Len(a) + Len(b) /\ j \in Len(a) + 1 .. Len(a) + Len(b)
    <3>1. i - Len(a) < j - Len(a)
      BY <1>3, <2>3
    <3>2. r[i] = b[i - Len(a)] /\ r[j] = b[j - Len(a)] /\ i - Len(a) \in 1 .. Len(b) /\ j - Len(a) \in 1 .. Len(b)
      BY <1>4, <2>3
    <3> QED
      BY <1>3, <3>1, <3>2 DEF Strict
  <2>4. ~(i \in Len(a) + 1 .. Len(a) + Len(b) /\ j \in 1 .. Len(a))
    BY <1>3
  <2> QED
    BY <1>5, <2>1, <2>2, <2>3, <2>4
<1> QED
  BY <1>6 DEF r

\* What a C qos says of all its scopes is sorted and is all it was made of that says something.
LEMMA AllAnswersAre ==
  ASSUME NEW c, NEW q, Made(c, q)
  PROVE  /\ Sound(AllAnswers(c))
         /\ \A x : x \in ToSet(AllAnswers(c)) <=> x \in ToSet(q) /\ ~SaysNothing(x)
<1> DEFINE ans == [i \in DOMAIN ScopeNames |-> Answer(ScopeNames[i], c)]
           U == ToSet(q)
           names(n) == {ScopeNames[j] : j \in 1 .. n}
<1>1. AllAnswers(c) = FlattenSeq(ans)
  BY DEF AllAnswers
<1>2. ASSUME NEW i \in 1 .. 27
      PROVE  /\ ScopeNames[i] \in DOMAIN ScopeRank /\ ScopeRank[ScopeNames[i]] = i
             /\ ans[i] = Answer(ScopeNames[i], c)
             /\ ReadOf(ans[i], {ScopeNames[i]}) /\ Strict(ans[i])
             /\ \A x : x \in ToSet(ans[i]) <=>
                  x \in U /\ x.scope[1] = ScopeNames[i] /\ ~SaysNothing(x)
  <2>1. ScopeNames[i] \in DOMAIN ScopeRank /\ ScopeRank[ScopeNames[i]] = i /\ i \in DOMAIN ScopeNames
    BY NamesInOrder
  <2>2. ans[i] = Answer(ScopeNames[i], c)
    BY <2>1
  <2> HIDE DEF ans, U
  <2> QED
    BY <2>1, <2>2, AnswerIs DEF U
<1>3. DOMAIN ans = 1 .. 27 /\ ans = [i \in 1 .. 27 |-> ans[i]]
  BY NamesInOrder
<1> HIDE DEF ans
<1>4. \A i \in 1 .. 27 : Good(ans[i]) /\ ToSet(ans[i]) \subseteq U
  BY <1>2 DEF ReadOf
<1> HIDE DEF U
<1>5. ans \in [1 .. 27 -> Seq(U)]
  <2>1. \A i \in 1 .. 27 : ans[i] \in Seq(U)
    BY <1>4, GoodWithin
  <2> QED
    BY <1>3, <2>1
<1>6. PICK flat : Joins(flat, ans, 27, U) /\ FlattenSeq(ans) = flat[27]
  <2> DEFINE N == 27
  <2>1. N \in Nat /\ ans \in [1 .. N -> Seq(U)]
    BY <1>5
  <2> HIDE DEF N
  <2>2. \E flat : Joins(flat, ans, N, U) /\ FlattenSeq(ans) = flat[N]
    BY <2>1, FlattenSteps
  <2> QED
    BY <2>2 DEF N
<1>7. flat[0] = <<>> /\ \A n \in 1 .. 27 : flat[n] = flat[n - 1] \o ans[n]
  BY <1>6 DEF Joins
<1> DEFINE T == {n \in 0 .. 27 :
                   /\ ReadOf(flat[n], names(n)) /\ Strict(flat[n])
                   /\ \A x : x \in ToSet(flat[n]) <=>
                        x \in U /\ x.scope[1] \in names(n) /\ ~SaysNothing(x)}
<1>8. 0 \in T
  <2>1. names(0) = {}
    OBVIOUS
  <2> HIDE DEF names
  <2>2. ReadOf(flat[0], names(0)) /\ Strict(flat[0]) /\ ToSet(flat[0]) = {}
    BY <1>7, EmptyIsSound DEF Sound, ToSet
  <2> QED
    BY <2>1, <2>2
<1>9. ASSUME NEW n \in 0 .. 26, n \in T PROVE n + 1 \in T
  <2> DEFINE a == flat[n]
             b == ans[n + 1]
             s == ScopeNames[n + 1]
  <2>1. /\ ReadOf(a, names(n)) /\ Strict(a)
        /\ \A x : x \in ToSet(a) <=> x \in U /\ x.scope[1] \in names(n) /\ ~SaysNothing(x)
    BY <1>9
  <2>2. n + 1 \in 1 .. 27 /\ (n + 1) - 1 = n
    OBVIOUS
  <2>3. /\ s \in DOMAIN ScopeRank /\ ScopeRank[s] = n + 1
        /\ ReadOf(b, {s}) /\ Strict(b)
        /\ \A x : x \in ToSet(b) <=> x \in U /\ x.scope[1] = s /\ ~SaysNothing(x)
    BY <1>2, <2>2
  <2>4. flat[n + 1] = a \o b
    BY <1>7, <2>2
  <2>5. \A x \in names(n) : ScopeRank[x] \in Nat /\ ScopeRank[x] < n + 1
    <3>1. \A j \in 1 .. n : j \in 1 .. 27 /\ j \in Nat /\ j < n + 1
      OBVIOUS
    <3>2. \A j \in 1 .. n : ScopeRank[ScopeNames[j]] = j
      BY <3>1, NamesInOrder
    <3> QED
      BY <3>1, <3>2
  <2>6. names(n + 1) = names(n) \cup {s}
    <3>1. \A j : j \in 1 .. n + 1 <=> j \in 1 .. n \/ j = n + 1
      OBVIOUS
    <3> QED
      BY <3>1
  <2> HIDE DEF names, a, b, s, T
  <2>7. s \notin names(n)
    BY <2>3, <2>5
  <2>8. ReadOf(a \o b, names(n) \cup {s})
    BY <2>1, <2>3, <2>7, FoundMore
  <2>9. Strict(a \o b)
    <3>1. \A i \in DOMAIN a, j \in DOMAIN b : Before(a[i].scope, b[j].scope)
      BY <2>1, <2>3, <2>5 DEF ReadOf, Before
    <3> QED
      BY <2>1, <2>3, <3>1, StrictJoined DEF ReadOf
  <2>10. ToSet(a \o b) = ToSet(a) \cup ToSet(b)
    BY <2>1, <2>3, JoinedKeeps DEF ReadOf
  <2>11. \A x : x \in ToSet(a \o b) <=>
           x \in U /\ x.scope[1] \in names(n + 1) /\ ~SaysNothing(x)
    BY <2>1, <2>3, <2>6, <2>10
  <2>12. n + 1 \in 0 .. 27
    OBVIOUS
  <2>13. ReadOf(flat[n + 1], names(n + 1)) /\ Strict(flat[n + 1])
    BY <2>4, <2>6, <2>8, <2>9
  <2>14. \A x : x \in ToSet(flat[n + 1]) <=>
           x \in U /\ x.scope[1] \in names(n + 1) /\ ~SaysNothing(x)
    BY <2>4, <2>11
  <2> QED
    BY <2>12, <2>13, <2>14 DEF T
<1> HIDE DEF T
<1>10. 27 \in T
  <2>1. 27 \in Nat /\ 27 \in 0 .. 27 /\ 0 .. 27 - 1 = 0 .. 26
    OBVIOUS
  <2>2. 0 .. 27 \subseteq T
    BY <1>8, <1>9, <2>1, IntervalInduction
  <2> QED
    BY <2>1, <2>2
<1>11. \A x \in U : x.scope[1] \in names(27)
  <2> SUFFICES ASSUME NEW x \in U PROVE x.scope[1] \in names(27)
    OBVIOUS
  <2>1. x.scope[1] \in DOMAIN ScopeRank
    BY ScopesArePairs DEF Made, Fits, U
  <2>2. PICK i \in 1 .. 27 : ScopeNames[i] = x.scope[1]
    BY <2>1, NamesInOrder
  <2> QED
    BY <2>2
<1> HIDE DEF names
<1>12. /\ ReadOf(flat[27], names(27)) /\ Strict(flat[27])
       /\ \A x : x \in ToSet(flat[27]) <=> x \in U /\ x.scope[1] \in names(27) /\ ~SaysNothing(x)
  BY <1>10 DEF T
<1> QED
  BY <1>1, <1>6, <1>11, <1>12 DEF ReadOf, Sound, U

LEMMA SaysOf ==
  ASSUME NEW c, NEW q, Made(c, q), c # Absent, NEW e
  PROVE  /\ Sound(Says(e, c))
         /\ \A x : x \in ToSet(Says(e, c)) <=>
              x \in ToSet(q) /\ ~SaysNothing(x) /\ Supports(Kind[e], x.scope)
<1>1. Says(e, c) = Narrowed(Kind[e], AllAnswers(c))
  BY DEF Says
<1> QED
  BY <1>1, AllAnswersAre, NarrowedTo

LEMMA OverlaidOf ==
  ASSUME NEW e, NEW q, NEW old, Sound(q), Sound(old)
  PROVE  /\ Sound(Overlaid(e, q, old))
         /\ \A x : x \in ToSet(Overlaid(e, q, old)) <=>
              /\ ~SaysNothing(x)
              /\ \/ x \in ToSet(q) /\ Supports(Kind[e], x.scope) /\ ~NoVersion(x)
                 \/ /\ x \in ToSet(old)
                    /\ \A y \in ToSet(q) : Supports(Kind[e], y.scope) /\ ~NoVersion(y) =>
                         y.scope # x.scope
<1> DEFINE supported == Narrowed(Kind[e], q)
           versions == {i \in DOMAIN supported : ~NoVersion(supported[i])}
           new == Chosen(supported, versions)
           sum == Plus(old, new)
           speaking == {i \in DOMAIN sum : ~SaysNothing(sum[i])}
           r == Chosen(sum, speaking)
<1>1. Overlaid(e, q, old) = r
  BY DEF Overlaid
<1>2. /\ Sound(supported)
      /\ \A x : x \in ToSet(supported) <=> x \in ToSet(q) /\ Supports(Kind[e], x.scope)
  BY NarrowedTo
<1> HIDE DEF supported
<1>3. \A x : x \in ToSet(supported) /\ ~NoVersion(x) <=>
        \E k \in DOMAIN supported \cap versions : x = supported[k]
  BY DEF ToSet
<1> HIDE DEF versions
<1>4. Sound(new) /\ \A x : x \in ToSet(new) <=> x \in ToSet(supported) /\ ~NoVersion(x)
  BY <1>2, <1>3, ChosenFrom DEF Sound
<1> HIDE DEF new
<1>5. /\ Sound(sum)
      /\ \A x : x \in ToSet(sum) <=>
           \/ x \in ToSet(new)
           \/ x \in ToSet(old) /\ \A i \in DOMAIN new : new[i].scope # x.scope
  BY <1>4, SumOf
<1> HIDE DEF sum
<1>6. \A x : x \in ToSet(sum) /\ ~SaysNothing(x) <=> \E k \in DOMAIN sum \cap speaking : x = sum[k]
  BY DEF ToSet
<1> HIDE DEF speaking
<1>7. Sound(r) /\ \A x : x \in ToSet(r) <=> x \in ToSet(sum) /\ ~SaysNothing(x)
  BY <1>5, <1>6, ChosenFrom DEF Sound
<1> HIDE DEF r
<1>8. \A x : (\A i \in DOMAIN new : new[i].scope # x.scope) <=>
             \A y \in ToSet(new) : y.scope # x.scope
  BY DEF ToSet
<1> QED
  BY <1>1, <1>2, <1>4, <1>5, <1>7, <1>8

\* Of a policy that fits, the one without an effect is a DataRepresentation of no version.
LEMMA EffectOf ==
  ASSUME NEW x, Fits(x)
  PROVE  HasEffect(x) <=> ~NoVersion(x)
<1>1. CASE x.scope[1] = "DataRepresentation"
  <2> DEFINE a == x.args
  <2>1. a \in Seq(Int) /\ Len(a) = 2
    BY <1>1, FieldsOf DEF Fits, IsPolicy
  <2>2. InRange("DataRepresentation", a)
    BY <1>1 DEF Fits
  <2>3. HasEffect(x) <=>
          (IF a[1] = 1 THEN <<0>> ELSE <<>>) \o (IF a[2] = 1 THEN <<2>> ELSE <<>>) # <<>>
    BY <1>1 DEF HasEffect, SetDataRepresentation
  <2>4. NoVersion(x) <=> a = <<0, 0>>
    BY <1>1 DEF NoVersion
  <2> HIDE DEF a
  <2>5. a = <<a[1], a[2]>> /\ 1 \in DOMAIN a /\ 2 \in DOMAIN a
    BY <2>1, ShortSequences
  <2>6. a[1] \in {0, 1} /\ a[2] \in {0, 1}
    BY <2>2, <2>5 DEF InRange
  <2>7. a = <<0, 0>> <=> a[1] = 0 /\ a[2] = 0
    BY <2>5
  <2>8. <<0>> \o <<2>> # <<>> /\ <<0>> \o <<>> # <<>> /\ <<>> \o <<2>> # <<>> /\ <<>> \o <<>> = <<>>
    OBVIOUS
  <2>9. CASE a[1] = 1 /\ a[2] = 1
    BY <2>3, <2>4, <2>7, <2>8, <2>9
  <2>10. CASE a[1] = 1 /\ a[2] = 0
    BY <2>3, <2>4, <2>7, <2>8, <2>10
  <2>11. CASE a[1] = 0 /\ a[2] = 1
    BY <2>3, <2>4, <2>7, <2>8, <2>11
  <2>12. CASE a[1] = 0 /\ a[2] = 0
    BY <2>3, <2>4, <2>7, <2>8, <2>12
  <2> QED
    BY <2>6, <2>9, <2>10, <2>11, <2>12
<1>2. CASE x.scope[1] # "DataRepresentation"
  BY <1>2 DEF HasEffect, NoVersion
<1> QED
  BY <1>1, <1>2

\* The part of q that has an effect.
LEMMA EffectiveOf ==
  ASSUME NEW q, Sound(q)
  PROVE  LET r == Chosen(q, {i \in DOMAIN q : HasEffect(q[i])})
         IN  Sound(r) /\ \A x : x \in ToSet(r) <=> x \in ToSet(q) /\ HasEffect(x)
<1> DEFINE places == {i \in DOMAIN q : HasEffect(q[i])}
<1>1. \A x : x \in ToSet(q) /\ HasEffect(x) <=> \E k \in DOMAIN q \cap places : x = q[k]
  BY DEF ToSet
<1> HIDE DEF places
<1>2. /\ Sound(Chosen(q, places))
      /\ \A x : x \in ToSet(Chosen(q, places)) <=> \E k \in DOMAIN q \cap places : x = q[k]
  BY ChosenFrom DEF Sound
<1> QED
  BY <1>1, <1>2 DEF places

\* What dds_create_... leaves says what the policies say over the defaults.
LEMMA Created ==
  ASSUME NEW e, NEW q, NEW d, Sound(q), AllFit(q), Sound(d), AllFit(d),
         \A x \in ToSet(d) : HasEffect(x) /\ Supports(Kind[e], x.scope),
         NEW c, c = SetOver(Given(e, QosToC(q)), QosToC(d)), c # Absent
  PROVE  /\ \E m : Made(c, m) /\ \A x \in ToSet(m) : Supports(Kind[e], x.scope)
         /\ Says(e, c) = Overlaid(e, q, d)
<1> DEFINE h == Chosen(q, {i \in DOMAIN q : HasEffect(q[i])})
           b == Chosen(d, {i \in DOMAIN d : HasEffect(d[i])})
           n == Narrowed(Kind[e], h)
           m == Plus(b, n)
<1>1. /\ Sound(h) /\ Made(QosToC(q), h)
      /\ \A x : x \in ToSet(h) <=> x \in ToSet(q) /\ HasEffect(x)
  BY MadeOfQos, EffectiveOf
<1>2. /\ Sound(b) /\ Made(QosToC(d), b)
      /\ \A x : x \in ToSet(b) <=> x \in ToSet(d)
  BY MadeOfQos, EffectiveOf
<1> HIDE DEF h, b
<1>3. /\ Sound(n) /\ Made(Given(e, QosToC(q)), n)
      /\ \A x : x \in ToSet(n) <=> x \in ToSet(h) /\ Supports(Kind[e], x.scope)
  BY <1>1, NarrowedTo, MadeGiven
<1> HIDE DEF n
<1>4. Made(c, m)
  BY <1>2, <1>3, MadeOver
<1>5. \A x : x \in ToSet(m) <=>
        \/ x \in ToSet(n)
        \/ x \in ToSet(b) /\ \A i \in DOMAIN n : n[i].scope # x.scope
  BY <1>2, <1>3, SumOf
<1> HIDE DEF m
<1>6. \A x : (\A i \in DOMAIN n : n[i].scope # x.scope) <=> \A y \in ToSet(n) : y.scope # x.scope
  BY DEF ToSet
<1>7. \A x \in ToSet(m) : Supports(Kind[e], x.scope)
  BY <1>2, <1>3, <1>5
<1>8. /\ Sound(Says(e, c))
      /\ \A x : x \in ToSet(Says(e, c)) <=> x \in ToSet(m) /\ ~SaysNothing(x)
  BY <1>4, <1>7, SaysOf
<1>9. \A x : x \in ToSet(n) <=>
        x \in ToSet(q) /\ Supports(Kind[e], x.scope) /\ ~NoVersion(x)
  BY <1>1, <1>3, EffectOf DEF AllFit
<1>10. /\ Sound(Overlaid(e, q, d))
       /\ \A x : x \in ToSet(Overlaid(e, q, d)) <=>
            /\ ~SaysNothing(x)
            /\ \/ x \in ToSet(q) /\ Supports(Kind[e], x.scope) /\ ~NoVersion(x)
               \/ /\ x \in ToSet(d)
                  /\ \A y \in ToSet(q) : Supports(Kind[e], y.scope) /\ ~NoVersion(y) =>
                       y.scope # x.scope
  BY OverlaidOf
<1>11. \A x : x \in ToSet(Says(e, c)) <=> x \in ToSet(Overlaid(e, q, d))
  BY <1>2, <1>5, <1>6, <1>8, <1>9, <1>10
<1>12. Says(e, c) = Overlaid(e, q, d)
  BY <1>8, <1>10, <1>11, SamePolicies
<1> QED
  BY <1>4, <1>7, <1>12

\* What dds_set_qos leaves says what the policies say over what was said before.
LEMMA Changed ==
  ASSUME NEW e, NEW q, Sound(q), AllFit(q), NEW old, NEW m, Made(old, m), old # Absent,
         \A x \in ToSet(m) : Supports(Kind[e], x.scope),
         \A s \in DOMAIN QosToC(q) : Supports(Kind[e], s),
         NEW c, c = SetOver(QosToC(q), old), c # Absent
  PROVE  /\ \E n : Made(c, n) /\ \A x \in ToSet(n) : Supports(Kind[e], x.scope)
         /\ Says(e, c) = Overlaid(e, q, Says(e, old))
<1> DEFINE h == Chosen(q, {i \in DOMAIN q : HasEffect(q[i])})
           n == Plus(m, h)
           before == Says(e, old)
<1>1. /\ Sound(h) /\ Made(QosToC(q), h)
      /\ \A x : x \in ToSet(h) <=> x \in ToSet(q) /\ HasEffect(x)
  BY MadeOfQos, EffectiveOf
<1> HIDE DEF h
<1>2. Made(c, n)
  BY <1>1, MadeOver
<1>3. \A x : x \in ToSet(n) <=>
        \/ x \in ToSet(h)
        \/ x \in ToSet(m) /\ \A i \in DOMAIN h : h[i].scope # x.scope
  BY <1>1, SumOf DEF Made
<1> HIDE DEF n
<1>4. \A x : (\A i \in DOMAIN h : h[i].scope # x.scope) <=> \A y \in ToSet(h) : y.scope # x.scope
  BY DEF ToSet
<1>5. \A x \in ToSet(h) : Supports(Kind[e], x.scope)
  BY <1>1 DEF Made
<1>6. \A x \in ToSet(n) : Supports(Kind[e], x.scope)
  BY <1>3, <1>5
<1>7. /\ Sound(before)
      /\ \A x : x \in ToSet(before) <=> x \in ToSet(m) /\ ~SaysNothing(x)
  BY SaysOf
<1>8. /\ Sound(Says(e, c))
      /\ \A x : x \in ToSet(Says(e, c)) <=> x \in ToSet(n) /\ ~SaysNothing(x)
  BY <1>2, <1>6, SaysOf
<1> HIDE DEF before
<1>9. \A x : x \in ToSet(h) <=>
        x \in ToSet(q) /\ Supports(Kind[e], x.scope) /\ ~NoVersion(x)
  BY <1>1, <1>5, EffectOf DEF AllFit
<1>10. /\ Sound(Overlaid(e, q, before))
       /\ \A x : x \in ToSet(Overlaid(e, q, before)) <=>
            /\ ~SaysNothing(x)
            /\ \/ x \in ToSet(q) /\ Supports(Kind[e], x.scope) /\ ~NoVersion(x)
               \/ /\ x \in ToSet(before)
                  /\ \A y \in ToSet(q) : Supports(Kind[e], y.scope) /\ ~NoVersion(y) =>
                       y.scope # x.scope
  BY <1>7, OverlaidOf
<1>11. \A x : x \in ToSet(Says(e, c)) <=> x \in ToSet(Overlaid(e, q, before))
  BY <1>3, <1>4, <1>7, <1>8, <1>9, <1>10
<1>12. Says(e, c) = Overlaid(e, q, before)
  BY <1>8, <1>10, <1>11, SamePolicies
<1> QED
  BY <1>2, <1>6, <1>12 DEF before

(***************************************************************************)
(* What the register needs besides policies that fit: one thread at a      *)
(* time calls get_qos, because the class attributes are shared; and no C   *)
(* qos is taken for no C qos.                                              *)
(***************************************************************************)
OneGetter == \A t, u \in Getters : t = u

AbsentIsNoQos == \A c : Settings(c) => c # Absent

(***************************************************************************)
(* Every place has no C qos or one that is made of a Qos, for an entity    *)
(* one that it supports.  A get_qos has read what its C qos says of the    *)
(* scopes before at, and the class attribute it is about to read has what  *)
(* its own C call left there.                                              *)
(***************************************************************************)
Suits(e, q) == e \in Entities => \A x \in ToSet(q) : Supports(Kind[e], x.scope)

Content(e, c) == \E q : Made(c, q) /\ Suits(e, q)

Told(q, a, r) ==
  \A x : x \in ToSet(r) <=> x \in ToSet(q) /\ x.scope[1] \in ReadBefore(a) /\ ~SaysNothing(x)

Heard(e, c, a, r) == \E q : Made(c, q) /\ Suits(e, q) /\ Told(q, a, r)

ThreadFaithful(t) ==
  /\ AllFit(held[t].policies)
  /\ pc[t] \in {"creating", "setting"} =>
       place[t] \in Entities /\ cq[t] = QosToC(held[t].policies)
  /\ pc[t] = "creating" =>
       native[place[t]] = Absent /\ \A u \in Threads \ {t} : place[u] # place[t]
  /\ pc[t] \in {"fetching", "calling", "reading"} => t \in Getters
  /\ pc[t] \in {"calling", "reading"} => Heard(place[t], cq[t], at[t], found[t])
  /\ pc[t] = "reading" =>
       LET s == AllScopes[at[t]] IN cells[Cells(s)] = cq[t][<<s, Blank>>]

RegInv ==
  /\ native = [e \in Places |-> native[e]]
  /\ \A e \in Places : native[e] = Absent \/ Content(e, native[e])
  /\ \A t \in Threads : ThreadFaithful(t)

\* The scopes passed over have nothing to say.
LEMMA Skipping ==
  ASSUME NEW c, NEW q, Made(c, q), NEW i \in 1 .. Len(AllScopes) + 1
  PROVE  \A x \in ToSet(q) :
           x.scope[1] \in ReadBefore(NextScope(c, i)) <=> x.scope[1] \in ReadBefore(i)
<1> DEFINE answered == {j \in i .. Len(AllScopes) : Answers(c, AllScopes[j])}
           n == NextScope(c, i)
<1>1. Len(AllScopes) = 27 /\ i \in 1 .. 28
  BY ScopesKnown
<1>2. n \in i .. 28
  <2>1. n \in i .. Len(AllScopes) + 1
    BY NextScopeFollows
  <2> QED
    BY <1>1, <2>1
<1>3. \A j \in i .. 27 : j < n => ~Answers(c, AllScopes[j])
  <2>1. n = IF answered = {} THEN Len(AllScopes) + 1 ELSE Min(answered)
    BY DEF NextScope
  <2>2. \A j \in answered : n <= j
    <3>1. CASE answered = {}
      BY <3>1
    <3>2. CASE answered # {}
      <4>1. answered \in SUBSET Nat
        BY <1>1
      <4> HIDE DEF answered
      <4>2. \E m \in answered : \A k \in answered : m <= k
        BY <3>2, <4>1, LeastNumber
      <4>3. Min(answered) \in answered /\ \A k \in answered : Min(answered) <= k
        BY <4>2 DEF Min
      <4> QED
        BY <2>1, <3>2, <4>3
    <3> QED
      BY <3>1, <3>2
  <2>3. \A j \in i .. 27 : Answers(c, AllScopes[j]) => j \in answered
    BY <1>1
  <2> HIDE DEF answered, n
  <2>4. \A j \in i .. 27 : j < n => ~(n <= j)
    BY <1>1, <1>2
  <2> QED
    BY <2>2, <2>3, <2>4
<1> HIDE DEF n
<1> SUFFICES ASSUME NEW x \in ToSet(q)
             PROVE  x.scope[1] \in ReadBefore(n) <=> x.scope[1] \in ReadBefore(i)
  BY DEF n
<1>4. Answers(c, x.scope[1])
  BY DEF Made, Answers
<1>5. \A j \in 1 .. i - 1 : j \in 1 .. n - 1
  BY <1>1, <1>2
<1>6. \A j \in 1 .. n - 1 : j \in 1 .. i - 1 \/ (j \in i .. 27 /\ j < n)
  BY <1>1, <1>2
<1> QED
  BY <1>3, <1>4, <1>5, <1>6 DEF ReadBefore

\* A get_qos begins having heard nothing, and hears the answer to one scope at a time.
LEMMA HeardNothing ==
  ASSUME NEW e, NEW c, Content(e, c)
  PROVE  Heard(e, c, NextScope(c, 1), <<>>)
<1>1. PICK q : Made(c, q) /\ Suits(e, q)
  BY DEF Content
<1>2. 1 \in 1 .. Len(AllScopes) + 1
  BY ScopesKnown
<1>3. ReadBefore(1) = {}
  BY DEF ReadBefore
<1>4. \A x \in ToSet(q) : x.scope[1] \notin ReadBefore(NextScope(c, 1))
  BY <1>1, <1>2, <1>3, Skipping
<1>5. ToSet(<<>>) = {}
  BY DEF ToSet
<1>6. Told(q, NextScope(c, 1), <<>>)
  BY <1>4, <1>5 DEF Told
<1> QED
  BY <1>1, <1>6 DEF Heard

LEMMA HeardMore ==
  ASSUME NEW e, NEW c, NEW a \in DOMAIN AllScopes, NEW r, Good(r), Heard(e, c, a, r)
  PROVE  Heard(e, c, NextScope(c, a + 1), r \o Answer(AllScopes[a], c))
<1>0. a \in Nat /\ a >= 1
  <2>1. Len(AllScopes) = 27 /\ DOMAIN AllScopes = 1 .. Len(AllScopes)
    BY ScopesKnown
  <2>2. a \in 1 .. Len(AllScopes)
    BY <2>1
  <2> QED
    BY <2>1, <2>2
<1> DEFINE s == AllScopes[a]
           x == Answer(s, c)
           n == NextScope(c, a + 1)
<1>1. PICK q : Made(c, q) /\ Suits(e, q) /\ Told(q, a, r)
  BY DEF Heard
<1>2. s \in DOMAIN ScopeRank /\ a \in 1 .. 27 /\ a + 1 \in 1 .. Len(AllScopes) + 1
  BY ScopesKnown
<1> HIDE DEF s
<1>3. /\ Good(x)
      /\ \A y : y \in ToSet(x) <=> y \in ToSet(q) /\ y.scope[1] = s /\ ~SaysNothing(y)
  BY <1>1, <1>2, AnswerIs DEF ReadOf
<1> HIDE DEF x
<1>4. ToSet(r \o x) = ToSet(r) \cup ToSet(x)
  BY <1>3, JoinedKeeps
<1>5. ReadBefore(a + 1) = ReadBefore(a) \cup {s}
  <2>1. /\ \A j \in 1 .. (a + 1) - 1 : j \in 1 .. a - 1 \/ j = a
        /\ \A j \in 1 .. a - 1 : j \in 1 .. (a + 1) - 1
        /\ a \in 1 .. (a + 1) - 1
    <3> HIDE DEF n, x
    <3> QED
      BY <1>0
  <2> QED
    BY <2>1, Zenon DEF ReadBefore, s
<1>6. \A y \in ToSet(q) : y.scope[1] \in ReadBefore(n) <=> y.scope[1] \in ReadBefore(a + 1)
  BY <1>1, <1>2, Skipping
<1> HIDE DEF n
<1>7. Told(q, n, r \o x)
  BY <1>1, <1>3, <1>4, <1>5, <1>6 DEF Told
<1>8. Heard(e, c, n, r \o x)
  BY <1>1, <1>7 DEF Heard
<1> QED
  BY <1>8 DEF n, x, s

\* At the end it has heard what its C qos says.
LEMMA HeardAll ==
  ASSUME NEW e \in Places, NEW c, c # Absent, NEW a, a > Len(AllScopes), a \in 0 .. Len(AllScopes) + 1,
         NEW r, Good(r), Distinct(r), Heard(e, c, a, r)
  PROVE  /\ Says(e, c) = IF e \in Profiles THEN Narrowed(Kind[e], Sorted(r)) ELSE Sorted(r)
         /\ AllFit(Says(e, c))
<1>1. PICK q : Made(c, q) /\ Suits(e, q) /\ Told(q, a, r)
  BY DEF Heard
<1>2. a = 28 /\ a - 1 = 27
  BY ScopesKnown
<1>3. \A s \in DOMAIN ScopeRank : s \in ReadBefore(a)
  <2>1. \A s \in DOMAIN ScopeRank : \E j \in 1 .. 27 : AllScopes[j] = s
    BY DEF AllScopes, ScopeRank, Ranks, ScopeNames
  <2> QED
    BY <1>2, <2>1 DEF ReadBefore
<1>4. \A x \in ToSet(q) : x.scope[1] \in ReadBefore(a)
  BY <1>1, <1>3, ScopesArePairs DEF Made, Fits
<1>5. /\ Sound(Sorted(r))
      /\ \A x : x \in ToSet(Sorted(r)) <=> x \in ToSet(q) /\ ~SaysNothing(x)
  BY <1>1, <1>4, SortedKeeps DEF Told, Sound
<1>6. Sorted(r) = AllAnswers(c)
  <2>1. /\ Sound(AllAnswers(c))
        /\ \A x : x \in ToSet(AllAnswers(c)) <=> x \in ToSet(q) /\ ~SaysNothing(x)
    BY <1>1, AllAnswersAre
  <2>2. \A x : x \in ToSet(Sorted(r)) <=> x \in ToSet(AllAnswers(c))
    BY <1>5, <2>1
  <2>3. ToSet(Sorted(r)) = ToSet(AllAnswers(c))
    BY <2>2
  <2> QED
    BY <1>5, <2>1, <2>3, SamePolicies
<1>7. /\ Sound(Says(e, c))
      /\ \A x : x \in ToSet(Says(e, c)) <=>
           x \in ToSet(q) /\ ~SaysNothing(x) /\ Supports(Kind[e], x.scope)
  BY <1>1, SaysOf
<1>8. Says(e, c) = Narrowed(Kind[e], Sorted(r))
  BY <1>6 DEF Says
<1>9. ASSUME e \notin Profiles PROVE Says(e, c) = Sorted(r)
  <2>1. \A x \in ToSet(q) : Supports(Kind[e], x.scope)
    BY <1>1, <1>9 DEF Places, Suits
  <2>2. \A x : x \in ToSet(Says(e, c)) <=> x \in ToSet(Sorted(r))
    BY <1>5, <1>7, <2>1
  <2>3. ToSet(Says(e, c)) = ToSet(Sorted(r))
    BY <2>2
  <2> QED
    BY <1>5, <1>7, <2>3, SamePolicies
<1>10. AllFit(Says(e, c))
  BY <1>1, <1>7 DEF AllFit, Made
<1> QED
  BY <1>8, <1>9, <1>10

\* A C qos that is made of a Qos is typed.
LEMMA MadeSets ==
  ASSUME NEW c, NEW q, Made(c, q)
  PROVE  Settings(c)
<1> SUFFICES ASSUME NEW s \in DOMAIN c
             PROVE  s \in Scopes /\ (s[1] \in PropertyScopes \/ s[2] = Blank) /\ Shaped(s[1], c[s])
  BY DEF Settings
<1>1. PICK x \in ToSet(q) : x.scope = s
  BY DEF Made
<1>2. Fits(x) /\ c[s] = ToC(x)
  BY <1>1 DEF Made
<1>3. IsPolicy(x) /\ x.scope \in Scopes
  BY <1>2 DEF Fits
<1>4. Shaped(x.scope[1], ToC(x))
  BY <1>3, SettersShape
<1>5. x.scope[1] \in PropertyScopes \/ x.scope[2] = Blank
  BY <1>3 DEF IsPolicy
<1> QED
  BY <1>1, <1>2, <1>3, <1>4, <1>5

\* The threads that did nothing stay faithful, if their entity and their attribute are left alone.
LEMMA OthersFaithful ==
  ASSUME RegInv, NEW t \in Threads,
         \A u \in Threads \ {t} : held'[u] = held[u] /\ found'[u] = found[u] /\ at'[u] = at[u]
                                  /\ pc'[u] = pc[u] /\ place'[u] = place[u] /\ cq'[u] = cq[u],
         native' = [e \in Places |-> native'[e]],
         \A e \in Places : native'[e] = Absent \/ Content(e, native'[e]),
         \A u \in Threads \ {t} : pc[u] = "creating" =>
           native'[place[u]] = native[place[u]] /\ place'[t] # place[u],
         \A u \in Threads \ {t} : pc[u] = "reading" =>
           LET k == Cells(AllScopes[at[u]]) IN cells'[k] = cells[k],
         ThreadFaithful(t)'
  PROVE  RegInv'
<1> SUFFICES ASSUME NEW u \in Threads \ {t}
             PROVE  ThreadFaithful(u)'
  BY DEF RegInv
<1>1. ThreadFaithful(u)
  BY DEF RegInv
<1>2. ASSUME pc[u] = "creating"
      PROVE  native'[place'[u]] = Absent /\ \A v \in Threads \ {u} : place'[v] # place'[u]
  <2>1. native[place[u]] = Absent /\ \A v \in Threads \ {u} : place[v] # place[u]
    BY <1>1, <1>2 DEF ThreadFaithful
  <2> QED
    BY <1>2, <2>1
<1>3. ASSUME pc[u] = "reading"
      PROVE  LET s == AllScopes[at'[u]] IN cells'[Cells(s)] = cq'[u][<<s, Blank>>]
  BY <1>1, <1>3 DEF ThreadFaithful
<1> QED
  BY <1>1, <1>2, <1>3 DEF ThreadFaithful

\* An entity under creation is not one that has a C qos.
LEMMA NotBeingMade ==
  ASSUME PolicyInv, RegInv, NEW u \in Threads, pc[u] = "creating"
  PROVE  /\ place[u] \in Entities /\ place[u] # Absent
         /\ native[place[u]] = Absent
         /\ \A v \in Threads \ {u} : place[v] # place[u]
<1>1. ThreadFaithful(u)
  BY DEF RegInv
<1> QED
  BY <1>1, QosAssumption DEF ThreadFaithful

\* Operations on Qos objects have results that fit.
LEMMA OperationFaithful ==
  ASSUME QosInv, PolicyInv, RegInv, NEW t \in Threads, NEW class, NEW ps, pc[t] = "idle",
         Result(t, class, ps), AllFit(ps)
  PROVE  RegInv'
<1>1. DOMAIN held = Threads
  BY ThreadHas
<1>2. /\ held'[t].policies = ps
      /\ \A u \in Threads \ {t} : held'[u] = held[u]
      /\ UNCHANGED <<pc, place, cq, at, found, cells, native>>
  BY <1>1 DEF Result
<1>3. ThreadFaithful(t)'
  BY <1>2 DEF ThreadFaithful
<1>4. \A u \in Threads \ {t} : pc[u] = "creating" => place[t] # place[u]
  BY NotBeingMade
<1> QED
  BY <1>2, <1>3, <1>4, OthersFaithful DEF RegInv

LEMMA OperationsFaithful ==
  ASSUME QosInv, PolicyInv, RegInv, PoliciesFit, NEW t \in Threads
  PROVE  /\ \A l \in Literals, base \in Operands(t) : Construct(t, l, base) => RegInv'
         /\ \A l \in Literals, q \in Operands(t) : Subtract(t, q, l) => RegInv'
         /\ \A q \in Operands(t), class \in Classes : Narrow(t, q, class) => RegInv'
<1>1. \A q \in Operands(t) : Sound(q) /\ AllFit(q)
  <2>1. AllFit(<<>>)
    BY DEF AllFit, ToSet
  <2>2. AllFit(held[t].policies)
    BY DEF RegInv, ThreadFaithful
  <2>3. \A l \in Literals : AllFit(l)
    BY DEF PoliciesFit
  <2>4. \A q \in Operands(t) : Sound(q)
    BY OperandsAreSound
  <2> QED
    BY <2>1, <2>2, <2>3, <2>4 DEF Operands
<1>2. \A l \in Literals : Sound(l) /\ AllFit(l)
  BY LiteralsAreSound DEF PoliciesFit
<1>3. ASSUME NEW l \in Literals, NEW base \in Operands(t), Construct(t, l, base)
      PROVE  RegInv'
  <2>1. Good(l) /\ Good(base)
    BY <1>1, <1>2 DEF Sound
  <2>2. Good(WithBase(l, base)) /\ \A x \in ToSet(WithBase(l, base)) : x \in ToSet(l) \/ x \in ToSet(base)
    BY <2>1, WithBaseKeeps
  <2>3. ToSet(Sorted(WithBase(l, base))) = ToSet(WithBase(l, base))
    BY <2>2, SortedKeeps
  <2>4. AllFit(Sorted(WithBase(l, base)))
    BY <1>1, <1>2, <2>2, <2>3 DEF AllFit
  <2>5. PICK class \in Classes : Result(t, class, Sorted(WithBase(l, base)))
    BY <1>3 DEF Construct
  <2>6. pc[t] = "idle"
    BY <1>3 DEF Construct, MayWork
  <2> QED
    BY <2>4, <2>5, <2>6, OperationFaithful
<1>4. ASSUME NEW l \in Literals, NEW q \in Operands(t), Subtract(t, q, l)
      PROVE  RegInv'
  <2>1. \A x \in ToSet(Minus(q, l)) : x \in ToSet(q)
    <3> DEFINE kept == {i \in DOMAIN q : ~ContainsPolicy(l, q[i])}
    <3>1. Good(q)
      BY <1>1 DEF Sound
    <3> HIDE DEF kept
    <3>2. \A x \in ToSet(Chosen(q, kept)) : \E k \in DOMAIN q : x = q[k]
      BY <3>1, ChosenFrom
    <3>3. \A k \in DOMAIN q : q[k] \in ToSet(q)
      BY DEF ToSet
    <3> QED
      BY <3>2, <3>3 DEF Minus, kept
  <2>2. AllFit(Minus(q, l))
    BY <1>1, <2>1 DEF AllFit
  <2>3. pc[t] = "idle" /\ Result(t, "Qos", Minus(q, l))
    BY <1>4 DEF Subtract, MayWork
  <2> QED
    BY <2>2, <2>3, OperationFaithful
<1>5. ASSUME NEW q \in Operands(t), NEW class \in Classes, Narrow(t, q, class)
      PROVE  RegInv'
  <2>1. \A x \in ToSet(Narrowed(class, q)) : x \in ToSet(q)
    BY <1>1, NarrowedTo
  <2>2. AllFit(Narrowed(class, q))
    BY <1>1, <2>1 DEF AllFit
  <2>3. pc[t] = "idle" /\ Result(t, class, Narrowed(class, q))
    BY <1>5 DEF Narrow, MayWork
  <2> QED
    BY <2>2, <2>3, OperationFaithful
<1> QED
  BY <1>3, <1>4, <1>5

\* Beginning a call.
LEMMA StartsFaithful ==
  ASSUME QosInv, PolicyInv, RegInv, NEW t \in Threads
  PROVE  /\ \A e \in Entities : StartCreate(t, e) \/ StartSet(t, e) => RegInv'
         /\ \A e \in Places : StartGet(t, e) => RegInv'
<1>1. /\ DOMAIN pc = Threads /\ DOMAIN place = Threads /\ DOMAIN cq = Threads
  BY DEF PolicyInv, FunctionsKept
<1>2. AllFit(held[t].policies)
  BY DEF RegInv, ThreadFaithful
<1>3. ASSUME NEW e \in Entities, StartCreate(t, e) \/ StartSet(t, e)
      PROVE  RegInv'
  <2>1. /\ UNCHANGED <<held, at, found, cells, native>>
        /\ pc'[t] \in {"creating", "setting"} /\ place'[t] = e /\ cq'[t] = QosToC(held[t].policies)
        /\ \A u \in Threads \ {t} : pc'[u] = pc[u] /\ place'[u] = place[u] /\ cq'[u] = cq[u]
    BY <1>1, <1>3 DEF StartCreate, StartSet
  <2>2. pc'[t] = "creating" => native[e] = Absent /\ \A u \in Threads : place[u] # e
    BY <1>1, <1>3 DEF StartCreate, StartSet
  <2>3. \A u \in Threads \ {t} : pc[u] = "creating" => place[u] # e
    BY <1>3, NotBeingMade DEF StartCreate, StartSet
  <2>4. ThreadFaithful(t)'
    BY <1>2, <2>1, <2>2 DEF ThreadFaithful
  <2> QED
    BY <2>1, <2>3, <2>4, OthersFaithful DEF RegInv
<1>4. ASSUME NEW e \in Places, StartGet(t, e)
      PROVE  RegInv'
  <2>1. /\ UNCHANGED <<held, cq, at, found, cells, native>>
        /\ pc'[t] = "fetching" /\ place'[t] = e
        /\ \A u \in Threads \ {t} : pc'[u] = pc[u] /\ place'[u] = place[u]
    BY <1>1, <1>4 DEF StartGet
  <2>2. native[e] # Absent /\ t \in Getters
    BY <1>4 DEF StartGet
  <2>3. \A u \in Threads \ {t} : pc[u] = "creating" => place[u] # e
    BY <2>2, NotBeingMade
  <2>4. ThreadFaithful(t)'
    BY <1>2, <2>1, <2>2 DEF ThreadFaithful
  <2> QED
    BY <2>1, <2>3, <2>4, OthersFaithful DEF RegInv
<1> QED
  BY <1>3, <1>4

\* The defaults of an entity are a Qos of its kind.
LEMMA DefaultsAreSound ==
  ASSUME NEW e \in Entities
  PROVE  Sound(Defaults[Kind[e]]) /\ \A x \in ToSet(Defaults[Kind[e]]) : Supports(Kind[e], x.scope)
<1> DEFINE d == Defaults[Kind[e]]
<1>1. IsQos(Kind[e], d)
  BY QosAssumption DEF QosAssumption
<1> HIDE DEF d
<1>2. /\ Good(d) /\ \A i \in 2 .. Len(d) : Before(d[i - 1].scope, d[i].scope)
      /\ \A i \in DOMAIN d : Supports(Kind[e], d[i].scope)
  BY <1>1 DEF IsQos, Good
<1>3. Sound(d)
  BY <1>2, StrictOrder DEF Sound
<1>4. \A x \in ToSet(d) : Supports(Kind[e], x.scope)
  BY <1>2 DEF ToSet
<1> QED
  BY <1>3, <1>4 DEF d

\* What a creation or a call of set_qos puts into its entity: a write of the register.
Laid(t) ==
  LET e == place[t]
  IN  /\ e \in Entities
      /\ DOMAIN native = Places
      /\ native' = [x \in Places |-> native'[x]]
      /\ \A x \in Places \ {e} : native'[x] = native[x]
      /\ native'[e] # Absent /\ Content(e, native'[e])
      /\ Says(e, native'[e]) = Overlaid(e, held[t].policies, Says(e, native[e]))

LEMMA CreateLays ==
  ASSUME QosInv, PolicyInv, RegInv, PoliciesFit, AbsentIsNoQos, NEW t \in Threads, Create(t)
  PROVE  Laid(t) /\ \A u \in Threads \ {t} : place[u] # place[t]
<1> DEFINE e == place[t]
           q == held[t].policies
           d == Defaults[Kind[e]]
           c == SetOver(Given(e, QosToC(q)), QosToC(d))
<1>1. pc[t] = "creating" /\ ThreadFaithful(t) /\ DOMAIN native = Places
  BY ThreadHas DEF Create, RegInv
<1>2. /\ e \in Entities /\ cq[t] = QosToC(q) /\ AllFit(q) /\ native[e] = Absent
      /\ \A u \in Threads \ {t} : place[u] # e
  BY <1>1 DEF ThreadFaithful
<1>3. native' = [native EXCEPT ![e] = c]
  BY <1>2 DEF Create
<1>4. /\ native'[e] = c /\ \A x \in Places \ {e} : native'[x] = native[x]
      /\ native' = [x \in Places |-> native'[x]]
  BY <1>1, <1>2, <1>3 DEF Places
<1>5. Sound(q)
  BY DEF QosInv, HeldSound
<1>6. AllFit(d) /\ \A x \in ToSet(d) : HasEffect(x)
  BY <1>2 DEF PoliciesFit
<1>7. Sound(d) /\ \A x \in ToSet(d) : Supports(Kind[e], x.scope)
  BY <1>2, DefaultsAreSound
<1> HIDE DEF e, q, d
<1>8. c # Absent
  <2>1. \E m : Made(QosToC(q), m)
    BY <1>2, <1>5, MadeOfQos
  <2>2. \E m : Made(Given(e, QosToC(q)), m)
    BY <2>1, MadeGiven
  <2>3. \E m : Made(QosToC(d), m)
    BY <1>6, <1>7, MadeOfQos
  <2>4. \E m : Made(c, m)
    BY <2>2, <2>3, MadeOver
  <2> QED
    BY <2>4, MadeSets DEF AbsentIsNoQos
<1> HIDE DEF c
<1>9. /\ \E m : Made(c, m) /\ \A x \in ToSet(m) : Supports(Kind[e], x.scope)
      /\ Says(e, c) = Overlaid(e, q, d)
  BY <1>2, <1>5, <1>6, <1>7, <1>8, Created DEF c
<1>10. Content(e, c)
  BY <1>9 DEF Content, Suits
<1>11. Says(e, native[e]) = d
  BY <1>2 DEF Says, d
<1>12. Says(e, native'[e]) = Overlaid(e, q, Says(e, native[e]))
  BY <1>4, <1>9, <1>11
<1> QED
  BY <1>1, <1>2, <1>4, <1>8, <1>10, <1>12 DEF Laid, e, q

LEMMA SetLays ==
  ASSUME QosInv, PolicyInv, RegInv, AbsentIsNoQos, NEW t \in Threads, Set(t), native' # native
  PROVE  Laid(t)
<1> DEFINE e == place[t]
           q == held[t].policies
           old == native[e]
           c == SetOver(QosToC(q), old)
<1>1. /\ pc[t] = "setting" /\ ThreadFaithful(t) /\ DOMAIN native = Places
      /\ Ready(pc[t], place[t], at[t], native, cells)
  BY ThreadHas DEF Set, RegInv
<1>2. e \in Entities /\ cq[t] = QosToC(q) /\ AllFit(q) /\ Settings(old)
  BY <1>1 DEF ThreadFaithful, Ready, Places
<1>3. /\ native' = [native EXCEPT ![e] = c]
      /\ \A s \in DOMAIN QosToC(q) : Supports(Kind[e], s)
  BY <1>2 DEF Set
<1>4. /\ native'[e] = c /\ \A x \in Places \ {e} : native'[x] = native[x]
      /\ native' = [x \in Places |-> native'[x]]
  BY <1>1, <1>2, <1>3 DEF Places
<1>5. Sound(q)
  BY DEF QosInv, HeldSound
<1>6. old # Absent
  BY <1>2 DEF AbsentIsNoQos
<1>7. Content(e, old)
  BY <1>2, <1>6 DEF RegInv, Places
<1>8. PICK m : Made(old, m) /\ \A x \in ToSet(m) : Supports(Kind[e], x.scope)
  BY <1>2, <1>7 DEF Content, Suits
<1> HIDE DEF e, q, old
<1>9. c # Absent
  <2>1. \E r : Made(QosToC(q), r)
    BY <1>2, <1>5, MadeOfQos
  <2>2. \E r : Made(c, r)
    BY <1>8, <2>1, MadeOver
  <2> QED
    BY <2>2, MadeSets DEF AbsentIsNoQos
<1> HIDE DEF c
<1>10. /\ \E n : Made(c, n) /\ \A x \in ToSet(n) : Supports(Kind[e], x.scope)
       /\ Says(e, c) = Overlaid(e, q, Says(e, old))
  BY <1>2, <1>3, <1>5, <1>6, <1>8, <1>9, Changed DEF c
<1>11. Content(e, c)
  BY <1>10 DEF Content, Suits
<1>12. native[e] = old
  BY DEF old, e
<1>13. Says(e, native'[e]) = Overlaid(e, q, Says(e, native[e]))
  BY <1>4, <1>10, <1>12
<1> QED
  BY <1>1, <1>2, <1>4, <1>9, <1>11, <1>13 DEF Laid, e, q

LEMMA EndsFaithful ==
  ASSUME QosInv, PolicyInv, RegInv, PoliciesFit, AbsentIsNoQos, NEW t \in Threads,
         Create(t) \/ Set(t)
  PROVE  RegInv'
<1>1. /\ DOMAIN pc = Threads /\ DOMAIN place = Threads /\ DOMAIN cq = Threads
  BY DEF PolicyInv, FunctionsKept
<1>2. /\ UNCHANGED <<held, at, found, cells>>
      /\ pc'[t] = "idle" /\ place'[t] = Absent
      /\ \A u \in Threads \ {t} : pc'[u] = pc[u] /\ place'[u] = place[u] /\ cq'[u] = cq[u]
  BY <1>1 DEF Create, Set, Done
<1>3. ThreadFaithful(t)'
  BY <1>2 DEF ThreadFaithful, RegInv
<1>4. native' = native \/ Laid(t)
  BY CreateLays, SetLays
<1>5. /\ \A x \in Places : native'[x] = Absent \/ Content(x, native'[x])
      /\ native' = [x \in Places |-> native'[x]]
  BY <1>4 DEF Laid, RegInv
<1>6. ASSUME NEW u \in Threads \ {t}, pc[u] = "creating"
      PROVE  native'[place[u]] = native[place[u]] /\ place'[t] # place[u]
  <2>1. place[u] \in Entities /\ place[u] # Absent /\ place[t] # place[u]
    BY <1>6, NotBeingMade
  <2> QED
    BY <1>2, <1>4, <2>1 DEF Laid, Places
<1> QED
  BY <1>2, <1>3, <1>5, <1>6, OthersFaithful

LEMMA FetchFaithful ==
  ASSUME QosInv, PolicyInv, RegInv, AbsentIsNoQos, NEW t \in Threads, Fetch(t)
  PROVE  RegInv'
<1> DEFINE e == place[t]
           c == native[e]
<1>1. /\ DOMAIN pc = Threads /\ DOMAIN at = Threads
      /\ DOMAIN cq = Threads /\ DOMAIN found = Threads
  BY DEF PolicyInv, FunctionsKept, QosInv
<1>2. pc[t] = "fetching" /\ ThreadFaithful(t)
  BY DEF Fetch, RegInv
<1>3. Settings(c) /\ e \in Places
  BY <1>2, ThreadHas DEF Ready, Working
<1>4. Content(e, c)
  BY <1>3 DEF RegInv, AbsentIsNoQos
<1>5. Heard(e, c, NextScope(c, 1), <<>>)
  <2> HIDE DEF e, c
  <2> QED
    BY <1>4, HeardNothing
<1>6. /\ UNCHANGED <<held, place, cells, native>>
      /\ pc'[t] = "calling" /\ cq'[t] = c /\ at'[t] = NextScope(c, 1) /\ found'[t] = <<>>
      /\ \A u \in Threads \ {t} : /\ pc'[u] = pc[u] /\ cq'[u] = cq[u]
                                  /\ at'[u] = at[u] /\ found'[u] = found[u]
  BY <1>1 DEF Fetch
<1>7. ThreadFaithful(t)'
  BY <1>2, <1>5, <1>6 DEF ThreadFaithful
<1>8. \A u \in Threads \ {t} : pc[u] = "creating" => place[t] # place[u]
  BY NotBeingMade
<1> QED
  BY <1>6, <1>7, <1>8, OthersFaithful DEF RegInv

\* Where a get_qos is in its scopes, and that what is set there is a whole setting.
LEMMA InTheMiddle ==
  ASSUME QosInv, PolicyInv, RegInv, NEW t \in Threads, pc[t] \in {"calling", "reading"}
  PROVE  /\ place[t] \in Places /\ Settings(cq[t]) /\ t \in Getters
         /\ Heard(place[t], cq[t], at[t], found[t])
         /\ at[t] \in 0 .. Len(AllScopes) + 1 /\ at[t] # 0
         /\ Good(found[t]) /\ Distinct(found[t])
         /\ AllFit(held[t].policies)
<1>1. ThreadFaithful(t)
  BY DEF RegInv
<1>2. Working(pc[t], place[t], cq[t], at[t]) /\ at[t] \in 0 .. Len(AllScopes) + 1
  BY ThreadHas
<1>3. Reading(pc[t], at[t], found[t])
  BY DEF QosInv, FoundSound
<1> QED
  BY <1>1, <1>2, <1>3 DEF ThreadFaithful, Working, Reading, ReadOf

\* A getter that has its answer: the get_qos has heard of one more scope.
LEMMA GetterFaithful ==
  ASSUME QosInv, PolicyInv, RegInv, NEW t \in Threads, pc[t] \in {"calling", "reading"},
         at[t] \in DOMAIN AllScopes,
         NEW x, x = Answer(AllScopes[at[t]], cq[t]),
         UNCHANGED <<held, place, cq, native, cells>>,
         pc'[t] = "calling",
         found'[t] = found[t] \o x,
         at'[t] = NextScope(cq[t], at[t] + 1),
         \A u \in Threads \ {t} : pc'[u] = pc[u] /\ at'[u] = at[u] /\ found'[u] = found[u]
  PROVE  RegInv'
<1> DEFINE e == place[t]
           c == cq[t]
           a == at[t]
           r == found[t]
<1>1. t \in Getters /\ Good(r) /\ Heard(e, c, a, r) /\ AllFit(held[t].policies)
  BY InTheMiddle
<1>2. Heard(e, c, NextScope(c, a + 1), r \o Answer(AllScopes[a], c))
  <2>1. a \in DOMAIN AllScopes
    OBVIOUS
  <2> HIDE DEF e, c, a, r
  <2> QED
    BY <1>1, <2>1, HeardMore
<1>3. ThreadFaithful(t)'
  BY <1>1, <1>2 DEF ThreadFaithful
<1>4. \A u \in Threads \ {t} : pc[u] = "creating" => place[t] # place[u]
  BY NotBeingMade
<1> QED
  BY <1>3, <1>4, OthersFaithful DEF RegInv

LEMMA CallFaithful ==
  ASSUME QosInv, PolicyInv, RegInv, OneGetter, NEW t \in Threads, Call(t)
  PROVE  RegInv'
<1> DEFINE c == cq[t]
           a == at[t]
           s == AllScopes[a]
           own == IF s = "DataRepresentation" THEN FromC(s, c[<<s, Blank>>]) ELSE Properties(s, c)
<1>1. pc[t] = "calling" /\ a <= Len(AllScopes) /\ UNCHANGED <<held, place, cq, native>>
  BY DEF Call
<1>2. /\ Settings(c) /\ t \in Getters /\ a \in 0 .. Len(AllScopes) + 1 /\ a # 0
      /\ Heard(place[t], c, a, found[t]) /\ AllFit(held[t].policies)
  BY <1>1, InTheMiddle
<1>3. a \in DOMAIN AllScopes
  <2>1. Len(AllScopes) = 27 /\ DOMAIN AllScopes = 1 .. 27
    BY ScopesKnown
  <2> HIDE DEF a
  <2> QED
    BY <1>1, <1>2, <2>1
<1>4. DOMAIN pc = Threads /\ DOMAIN at = Threads /\ DOMAIN found = Threads
  BY DEF PolicyInv, FunctionsKept, QosInv
<1>5. CASE s \in OwnVariables
  <2>1. /\ UNCHANGED <<pc, cells>>
        /\ found' = [found EXCEPT ![t] = @ \o own]
        /\ at' = [at EXCEPT ![t] = NextScope(c, @ + 1)]
    BY <1>5 DEF Call
  <2>2. own = Answer(s, c)
    <3>1. CASE s \in PropertyScopes
      BY <3>1 DEF Answer, PropertyScopes
    <3>2. CASE s \notin PropertyScopes
      <4>1. s = "DataRepresentation"
        BY <1>5, <3>2 DEF OwnVariables, PropertyScopes
      <4>2. Answers(c, s)
        BY <1>1, <1>3, ThreadHas DEF Working
      <4>3. <<s, Blank>> \in DOMAIN c
        BY <1>2, <3>2, <4>2, AnswerIsSet
      <4> QED
        BY <3>2, <4>1, <4>3 DEF Answer
    <3> QED
      BY <3>1, <3>2
  <2>3. /\ pc'[t] = "calling" /\ found'[t] = found[t] \o own /\ at'[t] = NextScope(c, a + 1)
        /\ \A u \in Threads \ {t} : pc'[u] = pc[u] /\ at'[u] = at[u] /\ found'[u] = found[u]
    BY <1>1, <1>4, <2>1
  <2>4. pc[t] \in {"calling", "reading"} /\ UNCHANGED <<held, place, cq, native, cells>>
    BY <1>1, <2>1
  <2>5. own = Answer(AllScopes[at[t]], cq[t])
    BY <2>2
  <2> HIDE DEF own
  <2> QED
    BY <1>3, <2>3, <2>4, <2>5, GetterFaithful
<1>6. CASE s \notin OwnVariables
  <2>1. /\ cells' = SetOver([k \in {Cells(s)} |-> c[<<s, Blank>>]], cells)
        /\ pc' = [pc EXCEPT ![t] = "reading"]
        /\ UNCHANGED <<at, found>>
    BY <1>6 DEF Call
  <2>2. cells'[Cells(s)] = c[<<s, Blank>>]
    BY <2>1 DEF SetOver
  <2>3. pc'[t] = "reading" /\ \A u \in Threads \ {t} : pc'[u] = pc[u]
    BY <1>4, <2>1
  <2>4. ThreadFaithful(t)'
    BY <1>1, <1>2, <2>1, <2>2, <2>3 DEF ThreadFaithful
  <2>5. \A u \in Threads \ {t} : pc[u] # "reading"
    BY <1>2 DEF RegInv, ThreadFaithful, OneGetter
  <2>6. \A u \in Threads \ {t} : pc[u] = "creating" => place[t] # place[u]
    BY NotBeingMade
  <2> QED
    BY <1>1, <2>1, <2>3, <2>4, <2>5, <2>6, OthersFaithful DEF RegInv
<1> QED
  BY <1>5, <1>6

LEMMA ReadFaithful ==
  ASSUME QosInv, PolicyInv, RegInv, NEW t \in Threads, Read(t)
  PROVE  RegInv'
<1> DEFINE c == cq[t]
           a == at[t]
           s == AllScopes[a]
           x == FromC(s, cells[Cells(s)])
<1>1. /\ pc[t] = "reading" /\ UNCHANGED <<held, place, cq, cells, native>>
      /\ found' = [found EXCEPT ![t] = @ \o x]
      /\ pc' = [pc EXCEPT ![t] = "calling"]
      /\ at' = [at EXCEPT ![t] = NextScope(c, @ + 1)]
  BY DEF Read
<1>2. a \in DOMAIN AllScopes /\ s \notin OwnVariables
  BY <1>1 DEF QosInv, FoundSound, Reading
<1>3. Settings(c)
  BY <1>1, InTheMiddle
<1>4. cells[Cells(s)] = c[<<s, Blank>>]
  BY <1>1 DEF RegInv, ThreadFaithful
<1>5. x = Answer(s, c)
  <2>1. s \notin PropertyScopes
    BY <1>2 DEF OwnVariables, PropertyScopes
  <2>2. Answers(c, s)
    BY <1>1, <1>2, ThreadHas DEF Working
  <2>3. <<s, Blank>> \in DOMAIN c
    BY <1>3, <2>1, <2>2, AnswerIsSet
  <2> QED
    BY <1>4, <2>1, <2>3 DEF Answer
<1>6. DOMAIN pc = Threads /\ DOMAIN at = Threads /\ DOMAIN found = Threads
  BY DEF PolicyInv, FunctionsKept, QosInv
<1>7. /\ pc'[t] = "calling" /\ found'[t] = found[t] \o x /\ at'[t] = NextScope(c, a + 1)
      /\ \A u \in Threads \ {t} : pc'[u] = pc[u] /\ at'[u] = at[u] /\ found'[u] = found[u]
  BY <1>1, <1>6
<1> QED
  BY <1>1, <1>2, <1>5, <1>7, GetterFaithful

\* get_qos returns what its C qos says.
LEMMA FinishReturns ==
  ASSUME QosInv, PolicyInv, RegInv, AbsentIsNoQos, NEW t \in Threads, Finish(t)
  PROVE  /\ held'[t].policies = Says(place[t], cq[t]) /\ AllFit(held'[t].policies)
         /\ \A u \in Threads \ {t} : held'[u] = held[u]
<1> DEFINE e == place[t]
           c == cq[t]
           a == at[t]
           r == found[t]
<1>1. pc[t] = "calling" /\ a > Len(AllScopes) /\ DOMAIN held = Threads
  BY DEF Finish, QosInv
<1>2. /\ e \in Places /\ Settings(c) /\ Heard(e, c, a, r) /\ a \in 0 .. Len(AllScopes) + 1
      /\ Good(r) /\ Distinct(r)
  BY <1>1, InTheMiddle
<1>3. /\ held'[t] = IF e \in Profiles
                      THEN [class |-> Kind[e], policies |-> Narrowed(Kind[e], Sorted(r))]
                      ELSE [class |-> "Qos", policies |-> Sorted(r)]
      /\ \A u \in Threads \ {t} : held'[u] = held[u]
  BY <1>1 DEF Finish
<1> HIDE DEF e, c, a, r
<1>4. c # Absent
  BY <1>2 DEF AbsentIsNoQos
<1>5. /\ Says(e, c) = IF e \in Profiles THEN Narrowed(Kind[e], Sorted(r)) ELSE Sorted(r)
      /\ AllFit(Says(e, c))
  BY <1>1, <1>2, <1>4, HeardAll
<1>6. held'[t].policies = Says(e, c)
  BY <1>3, <1>5
<1> QED
  BY <1>3, <1>5, <1>6 DEF e, c

LEMMA FinishFaithful ==
  ASSUME QosInv, PolicyInv, RegInv, AbsentIsNoQos, NEW t \in Threads, Finish(t)
  PROVE  RegInv'
<1>1. /\ DOMAIN pc = Threads /\ DOMAIN place = Threads /\ DOMAIN cq = Threads
      /\ DOMAIN found = Threads /\ DOMAIN at = Threads
  BY DEF PolicyInv, FunctionsKept, QosInv
<1>2. /\ UNCHANGED <<cells, native>>
      /\ pc'[t] = "idle" /\ place'[t] = Absent
      /\ \A u \in Threads \ {t} : /\ pc'[u] = pc[u] /\ place'[u] = place[u] /\ cq'[u] = cq[u]
                                  /\ found'[u] = found[u] /\ at'[u] = at[u]
  BY <1>1 DEF Finish, Done
<1>3. AllFit(held'[t].policies) /\ \A u \in Threads \ {t} : held'[u] = held[u]
  BY FinishReturns
<1>4. ThreadFaithful(t)'
  BY <1>2, <1>3 DEF ThreadFaithful
<1>5. \A u \in Threads \ {t} : pc[u] = "creating" => place'[t] # place[u]
  BY <1>2, NotBeingMade
<1> QED
  BY <1>2, <1>3, <1>4, <1>5, OthersFaithful DEF RegInv

LEMMA FaithfulAtFirst ==
  ASSUME Init, PoliciesFit
  PROVE  RegInv
<1>1. ASSUME NEW e \in Places PROVE native[e] = Absent \/ Content(e, native[e])
  <2>1. CASE e \in Entities
    BY <1>1, <2>1 DEF Init
  <2>2. CASE e \notin Entities
    <3>1. e \in Profiles /\ native[e] = QosToC(InFile[e])
      BY <1>1, <2>2 DEF Init, Places
    <3>2. Sound(InFile[e]) /\ AllFit(InFile[e])
      <4> DEFINE q == InFile[e]
      <4>1. IsQos("Qos", q) /\ AllFit(q)
        BY <3>1, QosAssumption DEF QosAssumption, PoliciesFit
      <4> HIDE DEF q
      <4>2. Good(q) /\ \A i \in 2 .. Len(q) : Before(q[i - 1].scope, q[i].scope)
        BY <4>1 DEF IsQos, Good
      <4>3. Sound(q)
        BY <4>2, StrictOrder DEF Sound
      <4> QED
        BY <4>1, <4>3 DEF q
    <3>3. \E q : Made(QosToC(InFile[e]), q)
      BY <3>2, MadeOfQos
    <3> QED
      BY <2>2, <3>1, <3>3 DEF Content, Suits
  <2> QED
    BY <2>1, <2>2
<1>2. ASSUME NEW t \in Threads PROVE ThreadFaithful(t)
  <2>1. held[t].policies = <<>> /\ pc[t] = "idle"
    BY <1>2 DEF Init
  <2>2. AllFit(<<>>)
    BY DEF AllFit, ToSet
  <2> QED
    BY <2>1, <2>2 DEF ThreadFaithful
<1>3. native = [e \in Places |-> native[e]]
  BY DEF Init
<1> QED
  BY <1>1, <1>2, <1>3 DEF RegInv

LEMMA StepFaithful ==
  ASSUME OneGetter, PoliciesFit, AbsentIsNoQos, QosInv, PolicyInv, RegInv, [Next]_vars
  PROVE  RegInv'
<1>1. ASSUME UNCHANGED vars PROVE RegInv'
  BY <1>1 DEF vars, RegInv, ThreadFaithful
<1>2. ASSUME NEW t \in Threads,
             \/ \E l \in Literals, base \in Operands(t) : Construct(t, l, base)
             \/ \E l \in Literals, q \in Operands(t) : Subtract(t, q, l)
             \/ \E q \in Operands(t), class \in Classes : Narrow(t, q, class)
      PROVE  RegInv'
  BY <1>2, OperationsFaithful
<1>3. ASSUME NEW t \in Threads,
             \/ \E e \in Entities : StartCreate(t, e) \/ StartSet(t, e)
             \/ \E e \in Places : StartGet(t, e)
      PROVE  RegInv'
  BY <1>3, StartsFaithful
<1>4. ASSUME NEW t \in Threads, Create(t) \/ Set(t) PROVE RegInv'
  BY <1>4, EndsFaithful
<1>5. ASSUME NEW t \in Threads, Fetch(t) PROVE RegInv'
  BY <1>5, FetchFaithful
<1>6. ASSUME NEW t \in Threads, Call(t) PROVE RegInv'
  BY <1>6, CallFaithful
<1>7. ASSUME NEW t \in Threads, Read(t) PROVE RegInv'
  BY <1>7, ReadFaithful
<1>8. ASSUME NEW t \in Threads, Finish(t) PROVE RegInv'
  BY <1>8, FinishFaithful
<1> QED
  BY <1>1, <1>2, <1>3, <1>4, <1>5, <1>6, <1>7, <1>8 DEF Next

\* The call of a thread in the register changes when it changes what it does.
NoCall == [place |-> Absent, taken |-> Absent]

LEMMA OneCall ==
  ASSUME NEW t \in Threads,
         \A u \in Threads \ {t} : pc'[u] = pc[u] /\ place'[u] = place[u] /\ cq'[u] = cq[u]
  PROVE  /\ InGet' = [InGet EXCEPT ![t] = InGet'[t]]
         /\ InGet'[t] = InGet[t] => InGet' = InGet
<1>1. \A u \in Threads \ {t} : InGet'[u] = InGet[u]
  BY DEF InGet
<1>2. DOMAIN InGet = Threads /\ DOMAIN InGet' = Threads
  BY DEF InGet
<1>3. InGet' = [u \in Threads |-> InGet'[u]] /\ InGet = [u \in Threads |-> InGet[u]]
  BY DEF InGet
<1> QED
  BY <1>1, <1>2, <1>3

LEMMA CallsOf ==
  ASSUME NEW t \in Threads
  PROVE  /\ pc[t] \notin {"fetching", "calling", "reading"} => InGet[t] = NoCall
         /\ pc[t] = "fetching" => InGet[t] = [place |-> place[t], taken |-> Absent]
         /\ pc[t] \in {"calling", "reading"} => InGet[t] = [place |-> place[t], taken |-> cq[t]]
         /\ pc'[t] \notin {"fetching", "calling", "reading"} => InGet'[t] = NoCall
         /\ pc'[t] = "fetching" => InGet'[t] = [place |-> place'[t], taken |-> Absent]
         /\ pc'[t] \in {"calling", "reading"} => InGet'[t] = [place |-> place'[t], taken |-> cq'[t]]
BY DEF InGet, NoCall

LEMMA Writes ==
  ASSUME PoliciesFit, AbsentIsNoQos, QosInv, PolicyInv, RegInv, NEW t \in Threads,
         Create(t) \/ Set(t)
  PROVE  (Register!Write(t, place[t]) /\ place[t] \in Places) \/ UNCHANGED Register!regVars
<1> DEFINE e == place[t]
<1>1. /\ DOMAIN pc = Threads /\ DOMAIN place = Threads /\ DOMAIN cq = Threads
  BY DEF PolicyInv, FunctionsKept
<1>2. /\ held' = held /\ pc[t] \in {"creating", "setting"} /\ pc'[t] = "idle"
      /\ \A u \in Threads \ {t} : pc'[u] = pc[u] /\ place'[u] = place[u] /\ cq'[u] = cq[u]
  BY <1>1 DEF Create, Set, Done
<1>3. InGet[t] = NoCall /\ InGet' = InGet
  BY <1>2, CallsOf, OneCall
<1>4. Policies' = Policies /\ Policies[t] = held[t].policies
  BY <1>2 DEF Policies
<1>5. CASE native' = native
  BY <1>3, <1>4, <1>5 DEF Register!regVars
<1>6. CASE native' # native
  <2>1. Laid(t)
    BY <1>6, CreateLays, SetLays
  <2>2. /\ e \in Places /\ native' = [x \in Places |-> native'[x]]
        /\ native = [x \in Places |-> native[x]]
        /\ \A x \in Places \ {e} : native'[x] = native[x]
        /\ native'[e] # Absent
        /\ Says(e, native'[e]) = Overlaid(e, Policies[t], Says(e, native[e]))
    BY <1>4, <2>1 DEF Laid, RegInv, Places
  <2>3. native'[e] # native[e]
    <3> SUFFICES ASSUME native'[e] = native[e] PROVE native' = native
      BY <1>6
    <3>1. \A x \in Places : native'[x] = native[x]
      BY <2>2
    <3>2. [x \in Places |-> native'[x]] = [x \in Places |-> native[x]]
      BY <3>1
    <3> QED
      BY <2>2, <3>2
  <2> QED
    BY <1>3, <1>4, <2>2, <2>3 DEF Register!Write, Register!Idle, NoCall
<1> QED
  BY <1>5, <1>6

LEMMA Begins ==
  ASSUME QosInv, PolicyInv, NEW t \in Threads, NEW e \in Places, StartGet(t, e)
  PROVE  Register!Begin(t, e)
<1>1. DOMAIN pc = Threads /\ DOMAIN place = Threads
  BY DEF PolicyInv, FunctionsKept
<1>2. /\ UNCHANGED <<held, cq, native>> /\ native[e] # Absent
      /\ pc[t] = "idle" /\ pc'[t] = "fetching" /\ place'[t] = e
      /\ \A u \in Threads \ {t} : pc'[u] = pc[u] /\ place'[u] = place[u]
  BY <1>1 DEF StartGet
<1>3. InGet[t] = NoCall /\ InGet'[t] = [place |-> e, taken |-> Absent]
  BY <1>2, CallsOf
<1>4. InGet' = [InGet EXCEPT ![t] = InGet'[t]]
  BY <1>2, OneCall
<1>5. \A x : [NoCall EXCEPT !.place = x] = [place |-> x, taken |-> Absent]
  BY DEF NoCall
<1>6. InGet' = [InGet EXCEPT ![t].place = e]
  <2>1. DOMAIN InGet = Threads
    BY DEF InGet
  <2> QED
    BY <1>3, <1>4, <1>5, <2>1
<1>7. Policies' = Policies
  BY <1>2 DEF Policies
<1> QED
  BY <1>2, <1>3, <1>6, <1>7 DEF Register!Begin, Register!Idle, NoCall

LEMMA Takes ==
  ASSUME QosInv, PolicyInv, NEW t \in Threads, Fetch(t)
  PROVE  Register!Take(t)
<1> DEFINE e == place[t]
<1>1. DOMAIN pc = Threads /\ DOMAIN cq = Threads
  BY DEF PolicyInv, FunctionsKept
<1>2. /\ UNCHANGED <<held, place, native>>
      /\ pc[t] = "fetching" /\ pc'[t] = "calling" /\ cq'[t] = native[e]
      /\ \A u \in Threads \ {t} : pc'[u] = pc[u] /\ cq'[u] = cq[u]
  BY <1>1 DEF Fetch
<1>3. e \in Places /\ e # Absent
  BY <1>2, ThreadHas, QosAssumption DEF Working, Places, QosAssumption
<1>4. InGet[t] = [place |-> e, taken |-> Absent] /\ InGet'[t] = [place |-> e, taken |-> native[e]]
  BY <1>2, CallsOf
<1>5. InGet' = [InGet EXCEPT ![t] = InGet'[t]]
  BY <1>2, OneCall
<1>6. InGet' = [InGet EXCEPT ![t].taken = native[InGet[t].place]]
  <2>1. DOMAIN InGet = Threads
    BY DEF InGet
  <2>2. \A x, y, z : [[place |-> x, taken |-> y] EXCEPT !.taken = z] = [place |-> x, taken |-> z]
    OBVIOUS
  <2>3. native[InGet[t].place] = native[e]
    BY <1>4
  <2> QED
    BY <1>4, <1>5, <2>1, <2>2, <2>3
<1>7. Policies' = Policies
  BY <1>2 DEF Policies
<1>8. InGet[t].place # Absent /\ InGet[t].taken = Absent
  BY <1>3, <1>4
<1> QED
  BY <1>2, <1>6, <1>7, <1>8 DEF Register!Take

LEMMA Returns ==
  ASSUME AbsentIsNoQos, QosInv, PolicyInv, RegInv, NEW t \in Threads, Finish(t)
  PROVE  Register!Return(t)
<1>1. /\ DOMAIN pc = Threads /\ DOMAIN place = Threads /\ DOMAIN cq = Threads
  BY DEF PolicyInv, FunctionsKept
<1>2. /\ native' = native /\ pc[t] = "calling" /\ pc'[t] = "idle"
      /\ \A u \in Threads \ {t} : pc'[u] = pc[u] /\ place'[u] = place[u] /\ cq'[u] = cq[u]
  BY <1>1 DEF Finish, Done
<1>3. Settings(cq[t])
  BY <1>2, InTheMiddle
<1>4. InGet[t] = [place |-> place[t], taken |-> cq[t]] /\ InGet'[t] = NoCall
  BY <1>2, CallsOf
<1>5. InGet' = [InGet EXCEPT ![t] = NoCall]
  BY <1>2, <1>4, OneCall
<1>6. InGet[t].taken # Absent /\ InGet[t].place = place[t] /\ InGet[t].taken = cq[t]
  BY <1>3, <1>4 DEF AbsentIsNoQos
<1>7. /\ held'[t].policies = Says(place[t], cq[t])
      /\ \A u \in Threads \ {t} : held'[u] = held[u]
  BY FinishReturns
<1>8. /\ Policies'[t] = Says(InGet[t].place, InGet[t].taken)
      /\ \A u \in Threads \ {t} : Policies'[u] = Policies[u]
  BY <1>6, <1>7 DEF Policies
<1> QED
  BY <1>2, <1>5, <1>6, <1>8 DEF Register!Return, Register!Idle, NoCall

LEMMA Works ==
  ASSUME QosInv, PolicyInv, NEW t \in Threads, pc[t] = "idle", NEW class, NEW ps,
         Result(t, class, ps)
  PROVE  Register!Work(t)
<1>1. DOMAIN held = Threads
  BY ThreadHas
<1>2. UNCHANGED <<pc, place, cq, native>> /\ \A u \in Threads \ {t} : held'[u] = held[u]
  BY <1>1 DEF Result
<1>3. InGet' = InGet /\ InGet[t] = NoCall
  BY <1>2, OneCall, CallsOf DEF InGet
<1>4. \A u \in Threads \ {t} : Policies'[u] = Policies[u]
  BY <1>2 DEF Policies
<1> QED
  BY <1>2, <1>3, <1>4 DEF Register!Work, Register!Idle, NoCall

LEMMA Hidden ==
  ASSUME QosInv, PolicyInv, NEW t \in Threads,
         \/ \E e \in Entities : StartCreate(t, e) \/ StartSet(t, e)
         \/ Call(t)
         \/ Read(t)
  PROVE  UNCHANGED Register!regVars
<1>1. DOMAIN pc = Threads /\ DOMAIN place = Threads /\ DOMAIN cq = Threads
  BY DEF PolicyInv, FunctionsKept
<1>2. UNCHANGED <<held, native>>
  BY DEF StartCreate, StartSet, Call, Read
<1>3. \A u \in Threads \ {t} : pc'[u] = pc[u] /\ place'[u] = place[u] /\ cq'[u] = cq[u]
  BY <1>1 DEF StartCreate, StartSet, Call, Read
<1>4. InGet'[t] = InGet[t]
  <2>1. CASE \E e \in Entities : StartCreate(t, e) \/ StartSet(t, e)
    <3>1. pc[t] = "idle" /\ pc'[t] \in {"creating", "setting"}
      BY <1>1, <2>1 DEF StartCreate, StartSet
    <3> QED
      BY <3>1, CallsOf
  <2>2. CASE Call(t) \/ Read(t)
    <3>1. /\ pc[t] \in {"calling", "reading"} /\ pc'[t] \in {"calling", "reading"}
          /\ place'[t] = place[t] /\ cq'[t] = cq[t]
      BY <1>1, <2>2 DEF Call, Read
    <3> QED
      BY <3>1, CallsOf
  <2> QED
    BY <2>1, <2>2
<1>5. InGet' = InGet /\ Policies' = Policies
  BY <1>2, <1>3, <1>4, OneCall DEF Policies
<1> QED
  BY <1>2, <1>5 DEF Register!regVars

LEMMA StepIsRegistered ==
  ASSUME PoliciesFit, AbsentIsNoQos, QosInv, PolicyInv, RegInv, [Next]_vars
  PROVE  [Register!RegNext]_(Register!regVars)
<1>1. ASSUME UNCHANGED vars PROVE UNCHANGED Register!regVars
  BY <1>1 DEF vars, Register!regVars, InGet, Policies
<1>2. ASSUME NEW t \in Threads,
             \/ \E l \in Literals, base \in Operands(t) : Construct(t, l, base)
             \/ \E l \in Literals, q \in Operands(t) : Subtract(t, q, l)
             \/ \E q \in Operands(t), class \in Classes : Narrow(t, q, class)
      PROVE  Register!Work(t)
  <2>1. pc[t] = "idle" /\ \E class, ps : Result(t, class, ps)
    BY <1>2 DEF Construct, Subtract, Narrow, MayWork
  <2> QED
    BY <2>1, Works
<1>3. ASSUME NEW t \in Threads,
             \/ \E e \in Entities : StartCreate(t, e) \/ StartSet(t, e)
             \/ Call(t)
             \/ Read(t)
      PROVE  UNCHANGED Register!regVars
  BY <1>3, Hidden
<1>4. ASSUME NEW t \in Threads, Create(t) \/ Set(t)
      PROVE  (Register!Write(t, place[t]) /\ place[t] \in Places) \/ UNCHANGED Register!regVars
  BY <1>4, Writes
<1>5. ASSUME NEW t \in Threads, NEW e \in Places, StartGet(t, e) PROVE Register!Begin(t, e)
  BY <1>5, Begins
<1>6. ASSUME NEW t \in Threads, Fetch(t) PROVE Register!Take(t)
  BY <1>6, Takes
<1>7. ASSUME NEW t \in Threads, Finish(t) PROVE Register!Return(t)
  BY <1>7, Returns
<1> QED
  BY <1>1, <1>2, <1>3, <1>4, <1>5, <1>6, <1>7 DEF Next, Register!RegNext

(* get_qos and set_qos implement one register per entity, as long as one   *)
(* thread at a time calls get_qos (core.py:418-465, qos.py:1077-1097): a   *)
(* creation or a set_qos lays its policies over those of its entity in one *)
(* step or changes nothing, and a get_qos, which fetches a C qos and then  *)
(* asks one scope after the other for its part, through class attributes   *)
(* that every Qos shares, returns what its entity said at one moment of    *)
(* the call.                                                               *)
THEOREM RegisterTheorem ==
  ASSUME OneGetter, PoliciesFit, AbsentIsNoQos
  PROVE  Spec => ImplementsRegister
<1>1. Init => Register!RegInit
  BY DEF Init, InGet, Register!RegInit, Register!Idle
<1>2. Init => RegInv
  BY FaithfulAtFirst
<1>3. QosInv /\ PolicyInv /\ RegInv /\ [Next]_vars => RegInv'
  BY StepFaithful
<1>4. QosInv /\ PolicyInv /\ RegInv /\ [Next]_vars => [Register!RegNext]_(Register!regVars)
  BY StepIsRegistered
<1>5. Spec => [](QosInv /\ PolicyInv)
  BY PoliciesAlways
<1> QED
  BY <1>1, <1>2, <1>3, <1>4, <1>5, PTL DEF Spec, ImplementsRegister, Register!RegSpec
=============================================================================
