------------------------ MODULE EntityLifetimeProofs ------------------------
(***************************************************************************)
(* Proofs about EntityLifetime, for any set of objects, classes, program   *)
(* threads and DDS threads: the inductive invariant LifetimeInv, hence     *)
(* KeepaliveSound, and the refinement of LinkedLifetime.                   *)
(***************************************************************************)
EXTENDS EntityLifetime, TLAPS

(***************************************************************************)
(* Everything above a usable object is usable: its keepalive references    *)
(* reach every ancestor of its native entity.                              *)
(***************************************************************************)
LEMMA AncestorsLive ==
  ASSUME TypeOK, RefsAreLive, Provenance, KeepaliveHeld, ObjAssumption,
         NEW o \in Tracked, phase[o] = "live", NEW a \in above[o]
  PROVE  phase[a] = "live"
<1> USE DEF TypeOK, ObjAssumption, ConditionKinds, GroupKinds, EndpointKinds
<1>0. o \in Obj /\ Kind[o] \notin {"waitset", "guardcondition"} /\ ~Adrift(o) /\ ~OnAdrift(o)
  BY DEF Tracked
<1>1. ASSUME NEW x \in Obj, phase[x] = "live",
             Kind[x] \in {"topic", "subscriber", "publisher"}
      PROVE  above[x] = {par[x]} /\ par[x] \in refs[x] /\ phase[par[x]] = "live"
  <2>1. par[x] # NoObj /\ Kind[par[x]] = "participant" /\ par[x] \in Obj
        /\ phase[par[x]] # "unborn" /\ above[x] = {par[x]} \cup above[par[x]]
    BY <1>1 DEF Provenance, ParentKinds
  <2>2. above[par[x]] = {}
    BY <2>1 DEF Provenance, ParentKinds
  <2>3. par[x] \in refs[x]
    BY <1>1 DEF KeepaliveHeld
  <2> QED BY <2>1, <2>2, <2>3 DEF RefsAreLive
<1>2. ASSUME NEW x \in Obj, phase[x] = "live", Kind[x] \in EndpointKinds
      PROVE  \A b \in above[x] : phase[b] = "live"
  <2>1. topicOf[x] \in Obj /\ topicOf[x] \in refs[x] /\ Kind[topicOf[x]] = "topic"
        /\ above[topicOf[x]] \subseteq above[x] /\ phase[topicOf[x]] = "live"
    BY <1>2 DEF Provenance, KeepaliveHeld, RefsAreLive
  <2>2. par[x] \in Obj /\ above[x] = {par[x]} \cup above[par[x]]
        /\ Kind[par[x]] \in GroupKinds \cup {"participant"} /\ phase[par[x]] # "unborn"
    BY <1>2 DEF Provenance, ParentKinds, EndpointKinds, GroupKinds
  <2>3. CASE Kind[par[x]] = "participant"
    <3>1. above[par[x]] = {}
      BY <2>2, <2>3 DEF Provenance, ParentKinds
    <3>2. above[topicOf[x]] = {par[topicOf[x]]} /\ phase[par[topicOf[x]]] = "live"
      BY <1>1, <2>1
    <3> QED BY <3>1, <3>2, <2>1, <2>2
  <2>4. CASE Kind[par[x]] \in GroupKinds
    <3>1. phase[par[x]] = "live"
      BY <1>2, <2>2, <2>4 DEF KeepaliveHeld, RefsAreLive
    <3>2. above[par[x]] = {par[par[x]]} /\ phase[par[par[x]]] = "live"
      BY <1>1, <2>2, <2>4, <3>1 DEF GroupKinds
    <3> QED BY <2>2, <3>1, <3>2
  <2> QED BY <2>2, <2>3, <2>4
<1>3. ASSUME NEW x \in Obj, phase[x] = "live", Kind[x] = "builtinreader", ~Adrift(x)
      PROVE  \A b \in above[x] : phase[b] = "live"
  <2>1. par[x] \in Obj /\ above[x] = {par[x]} \cup above[par[x]]
        /\ Kind[par[x]] = "subscriber"
    BY <1>3 DEF Provenance, ParentKinds, Adrift
  <2>2. phase[par[x]] = "live"
    BY <1>3, <2>1 DEF KeepaliveHeld, RefsAreLive
  <2> QED BY <1>1, <2>1, <2>2
<1>4. CASE Kind[o] = "participant"
  BY <1>0, <1>4 DEF Provenance, ParentKinds
<1>5. CASE Kind[o] \in {"topic", "subscriber", "publisher"}
  BY <1>0, <1>1, <1>5
<1>6. CASE Kind[o] \in EndpointKinds
  BY <1>0, <1>2, <1>6
<1>7. CASE Kind[o] = "builtinreader"
  BY <1>0, <1>3, <1>7
<1>8. CASE Kind[o] \in ConditionKinds
  <2>1. /\ par[o] \in Obj /\ Kind[par[o]] \in {"reader", "builtinreader"}
        /\ above[o] = {par[o]} \cup above[par[o]] /\ ~Adrift(par[o])
    BY <1>0, <1>8 DEF Provenance, ParentKinds, OnAdrift
  <2>2. phase[par[o]] = "live"
    BY <1>0, <1>8, <2>1 DEF KeepaliveHeld, RefsAreLive
  <2>3. \A b \in above[par[o]] : phase[b] = "live"
    BY <1>2, <1>3, <2>1, <2>2
  <2> QED BY <2>1, <2>2, <2>3
<1> QED BY <1>0, <1>4, <1>5, <1>6, <1>7, <1>8 DEF Kinds

\* What an object hangs from settles whether its keepalive reaches the top.
LEMMA TrackedKept ==
  ASSUME ObjAssumption, NEW x \in Obj, par'[x] = par[x],
         par[x] \in Obj => par'[par[x]] = par[par[x]], par[x] \in Obj \cup {NoObj}
  PROVE  x \in Tracked' <=> x \in Tracked
  BY DEF Tracked, OnAdrift, Adrift, ObjAssumption

\* The object a tracked one is made from is tracked.
LEMMA ParentTracked ==
  ASSUME ObjAssumption, TypeOK, Provenance, NEW x \in Obj, phase[x] # "unborn",
         par[x] # NoObj, ~OnAdrift(x)
  PROVE  par[x] \in Tracked
<1>1. /\ par[x] \in Obj /\ phase[par[x]] # "unborn"
      /\ Kind[par[x]] \in {"participant", "subscriber", "publisher", "reader", "builtinreader"}
  BY DEF Provenance, ParentKinds, TypeOK
<1>2. ~Adrift(par[x])
  BY DEF OnAdrift
<1>3. ~OnAdrift(par[x])
  <2>1. par[par[x]] # NoObj => Kind[par[par[x]]] \in ParentKinds(Kind[par[x]])
    BY <1>1 DEF Provenance
  <2>2. par[par[x]] # NoObj => Kind[par[par[x]]] # "builtinreader"
    BY <1>1, <2>1 DEF ParentKinds, ConditionKinds
  <2> QED BY <2>2 DEF OnAdrift, Adrift
<1> QED BY <1>1, <1>2, <1>3 DEF Tracked

-----------------------------------------------------------------------------
(* The initial state and the constructors. *)

LEMMA InitLifetime == ASSUME ObjAssumption, Init PROVE LifetimeInv
  BY DEF ObjAssumption, Init, LifetimeInv, TypeOK, Phases, RefsAreLive, AppIsLive,
         LiveIsRegistered, FramesSound, Provenance, KeepaliveHeld, NextIsCondition,
         KeepaliveSound, Tracked

\* A new native entity hangs below entities that exist, from live arguments.
LEMMA CreateNativeLifetime ==
  ASSUME ObjAssumption, LifetimeInv, NEW t \in Threads, ctor[t] = NoObj,
         NEW o \in Obj, NEW p \in app \cup {NoObj}, NEW tp \in app \cup {NoObj},
         CreateNative(t, o, p, tp),
         implicit' = implicit \/ (implicit' = implicit \cup {o}
                                   /\ Kind[o] = "readcondition")
  PROVE  LifetimeInv'
<1> USE DEF ObjAssumption, LifetimeInv
<1>1. /\ phase[o] = "unborn" /\ o # NoObj
      /\ phase' = [phase EXCEPT ![o] = "created"]
      /\ par' = [par EXCEPT ![o] = p]
      /\ topicOf' = [topicOf EXCEPT ![o] = tp]
      /\ native' = native \cup {o}
      /\ above' = [above EXCEPT ![o] = IF p = NoObj THEN {} ELSE {p} \cup above[p]]
      /\ ctor' = [ctor EXCEPT ![t] = o]
      /\ UNCHANGED <<refs, nextCond, registry, app, fin, cbEnt, cbStep, cbHeld>>
      /\ p = NoObj => Kind[o] = "participant"
      /\ p # NoObj => p \in Obj /\ Kind[p] \in ParentKinds(Kind[o]) /\ phase[p] = "live"
      /\ tp = NoObj => Kind[o] \notin EndpointKinds
      /\ tp # NoObj => /\ tp \in Obj /\ Kind[tp] = "topic" /\ phase[tp] = "live"
                       /\ above[tp] \subseteq {p} \cup above[p]
  BY DEF CreateNative, TypeOK, AppIsLive
<1>2. \A x \in Obj : x # o => phase'[x] = phase[x] /\ par'[x] = par[x]
                              /\ topicOf'[x] = topicOf[x] /\ above'[x] = above[x]
  BY <1>1 DEF TypeOK
<1>3. phase'[o] = "created" /\ par'[o] = p /\ topicOf'[o] = tp
      /\ above'[o] = IF p = NoObj THEN {} ELSE {p} \cup above[p]
  BY <1>1 DEF TypeOK
<1>4. \A x \in Obj : phase[x] = "live" <=> phase'[x] = "live"
  BY <1>1, <1>2, <1>3
<1>5. TypeOK'
  <2>1. p \in Obj \cup {NoObj} /\ tp \in Obj \cup {NoObj}
    BY <1>1
  <2>2. above' \in [Obj -> SUBSET Obj]
    BY <1>1 DEF TypeOK
  <2>3. phase' \in [Obj -> Phases]
    BY <1>1 DEF TypeOK, Phases
  <2> QED BY <1>1, <2>1, <2>2, <2>3 DEF TypeOK
<1>6. RefsAreLive' /\ AppIsLive'
  BY <1>1, <1>4 DEF RefsAreLive, AppIsLive, TypeOK
<1>7. LiveIsRegistered'
  BY <1>1, <1>2, <1>3 DEF LiveIsRegistered
<1>8. FramesSound'
  <2> SUFFICES ASSUME NEW u \in Threads, ctor'[u] # NoObj
               PROVE  /\ phase'[ctor'[u]] \in {"created", "registered"}
                      /\ ~OnAdrift(ctor[u])' => ctor'[u] \in native'
                      /\ par'[ctor'[u]] # NoObj => phase'[par'[ctor'[u]]] = "live"
                      /\ topicOf'[ctor'[u]] # NoObj
                           => phase'[topicOf'[ctor'[u]]] = "live"
                      /\ \A v \in Threads : ctor'[v] = ctor'[u] => v = u
    BY DEF FramesSound
  <2>1. \A v \in Threads : v # t => ctor'[v] = ctor[v] /\ ctor[v] # o
    BY <1>1 DEF FramesSound, TypeOK
  <2>2. ctor'[t] = o
    BY <1>1 DEF TypeOK
  <2>3. CASE u = t
    BY <2>1, <2>2, <2>3, <1>1, <1>3, <1>4
  <2>4. CASE u # t
    <3>1. ctor'[u] = ctor[u] /\ ctor[u] # o /\ ctor[u] \in Obj
      BY <2>1, <2>4 DEF TypeOK
    <3>2. par'[ctor[u]] = par[ctor[u]] /\ topicOf'[ctor[u]] = topicOf[ctor[u]]
          /\ phase'[ctor[u]] = phase[ctor[u]]
      BY <3>1, <1>2
    <3>3. par[ctor[u]] # NoObj => phase'[par[ctor[u]]] = "live"
      BY <3>1, <1>4 DEF FramesSound, TypeOK
    <3>4. topicOf[ctor[u]] # NoObj => phase'[topicOf[ctor[u]]] = "live"
      BY <3>1, <1>4 DEF FramesSound, TypeOK
    <3>5. OnAdrift(ctor[u])' <=> OnAdrift(ctor[u])
      <4>1. par[ctor[u]] # NoObj => par[ctor[u]] \in Obj /\ par[ctor[u]] # o
        BY <3>1, <1>1 DEF FramesSound, TypeOK
      <4> QED BY <3>1, <3>2, <4>1, <1>2 DEF OnAdrift, Adrift
    <3> QED BY <3>1, <3>2, <3>3, <3>4, <3>5, <2>1, <2>2, <1>1 DEF FramesSound
  <2> QED BY <2>3, <2>4
<1>9. Provenance'
  <2> SUFFICES ASSUME NEW x \in Obj, phase'[x] # "unborn"
               PROVE
    /\ par'[x] = NoObj => Kind[x] = "participant" /\ above'[x] = {}
    /\ par'[x] # NoObj => /\ phase'[par'[x]] # "unborn"
                          /\ Kind[par'[x]] \in ParentKinds(Kind[x])
                          /\ above'[x] = {par'[x]} \cup above'[par'[x]]
    /\ Kind[x] \in EndpointKinds =>
         /\ topicOf'[x] # NoObj /\ phase'[topicOf'[x]] # "unborn"
         /\ Kind[topicOf'[x]] = "topic"
         /\ above'[topicOf'[x]] \subseteq above'[x]
    BY DEF Provenance
  <2>1. CASE x = o
    <3>1. p # NoObj => p # o /\ phase'[p] # "unborn" /\ above'[p] = above[p]
      BY <1>1, <1>2
    <3>2. tp # NoObj => tp # o /\ phase'[tp] # "unborn" /\ above'[tp] = above[tp]
      BY <1>1, <1>2
    <3>3. Kind[o] \in EndpointKinds => p # NoObj
      BY <1>1 DEF EndpointKinds
    <3> QED BY <2>1, <3>1, <3>2, <3>3, <1>1, <1>3
  <2>2. CASE x # o
    <3>1. phase[x] # "unborn" /\ par'[x] = par[x] /\ topicOf'[x] = topicOf[x]
          /\ above'[x] = above[x]
      BY <2>2, <1>2
    <3>2. par[x] # NoObj => par[x] \in Obj /\ par[x] # o /\ phase[par[x]] # "unborn"
                            /\ phase'[par[x]] # "unborn" /\ above'[par[x]] = above[par[x]]
      BY <3>1, <1>1, <1>2 DEF Provenance, TypeOK
    <3>3. Kind[x] \in EndpointKinds =>
            topicOf[x] \in Obj /\ topicOf[x] # o /\ phase'[topicOf[x]] # "unborn"
            /\ above'[topicOf[x]] = above[topicOf[x]]
      BY <3>1, <1>1, <1>2 DEF Provenance, TypeOK
    <3> QED BY <3>1, <3>2, <3>3 DEF Provenance
  <2> QED BY <2>1, <2>2
<1>10. KeepaliveHeld'
  BY <1>1, <1>2, <1>3 DEF KeepaliveHeld
<1>11. NextIsCondition'
  BY <1>1, <1>2, <1>3 DEF NextIsCondition, TypeOK
<1>12. KeepaliveSound'
  <2> SUFFICES ASSUME NEW x \in Tracked', phase'[x] = "live" PROVE x \in native'
    BY DEF KeepaliveSound
  <2>1. x \in Obj /\ x # o /\ phase[x] = "live"
    BY <1>3, <1>4 DEF Tracked
  <2>2. par[x] \in Obj => par[x] # o
    BY <2>1, <1>1 DEF Provenance
  <2>3. x \in Tracked
    BY <2>1, <2>2, <1>2, TrackedKept DEF TypeOK
  <2> QED BY <2>1, <2>3, <1>1 DEF KeepaliveSound
<1> QED BY <1>5, <1>6, <1>7, <1>8, <1>9, <1>10, <1>11, <1>12

LEMMA RegisterLifetime ==
  ASSUME ObjAssumption, LifetimeInv, NEW t \in Threads, Register(t)
  PROVE  LifetimeInv'
<1> USE DEF ObjAssumption, LifetimeInv
<1> DEFINE o == ctor[t]
<1>1. /\ o \in Obj /\ phase[o] = "created"
      /\ phase' = [phase EXCEPT ![o] = "registered"]
      /\ registry' = registry \cup {o}
      /\ UNCHANGED <<par, topicOf, refs, nextCond, native, above, app, ctor,
                     implicit, fin, cbEnt, cbStep, cbHeld>>
  BY DEF Register
<1> HIDE DEF o
<1>2. \A x \in Obj : phase'[x] = IF x = o THEN "registered" ELSE phase[x]
  BY <1>1 DEF TypeOK
<1>3. TypeOK'
  BY <1>1 DEF TypeOK, Phases
<1>4. RefsAreLive' /\ AppIsLive' /\ LiveIsRegistered' /\ NextIsCondition'
  BY <1>1, <1>2 DEF RefsAreLive, AppIsLive, LiveIsRegistered, NextIsCondition, TypeOK
<1>5. FramesSound'
  BY <1>1, <1>2 DEF FramesSound, TypeOK, OnAdrift, Adrift
<1>6. Provenance'
  BY <1>1, <1>2 DEF Provenance, TypeOK
<1>7. KeepaliveHeld' /\ KeepaliveSound'
  BY <1>1, <1>2 DEF KeepaliveHeld, KeepaliveSound, Tracked, OnAdrift, Adrift
<1> QED BY <1>3, <1>4, <1>5, <1>6, <1>7

\* The finished object gets its keepalive references from live arguments, which
\* the registry finds, and read_next replaces a condition only.
LEMMA FinishLifetime ==
  ASSUME ObjAssumption, LifetimeInv, NEW t \in Threads, FinishConstruct(t)
  PROVE  LifetimeInv'
<1> USE DEF ObjAssumption, LifetimeInv
<1> DEFINE o == ctor[t]
           r == par[o]
           kept == [refs EXCEPT ![o] = Keepalive(o, registry)]
<1>1. /\ o \in Obj /\ o # NoObj /\ phase[o] = "registered"
      /\ ~OnAdrift(o) => o \in native
      /\ r # NoObj => r \in Obj /\ phase[r] = "live" /\ r \in registry
      /\ topicOf[o] # NoObj => topicOf[o] \in Obj /\ phase[topicOf[o]] = "live"
      /\ \A u \in Threads : ctor[u] = o => u = t
  BY DEF FinishConstruct, FramesSound, TypeOK, LiveIsRegistered
<1>2. /\ UNCHANGED <<par, topicOf, registry, native, above, implicit, cbEnt,
                     cbStep, cbHeld>>
      /\ ctor' = [ctor EXCEPT ![t] = NoObj]
      /\ nextCond' = IF o \in implicit THEN [nextCond EXCEPT ![r] = o] ELSE nextCond
      /\ refs' = IF o \in implicit
                 THEN [kept EXCEPT ![r] = (@ \ {nextCond[r]}) \cup {o}] ELSE kept
      /\ app' = IF o \in implicit THEN app ELSE app \cup {o}
      /\ Release(t, {o}, "live")
  BY DEF FinishConstruct
<1>3. o \in implicit => r \in Obj /\ Kind[o] = "readcondition"
                        /\ Kind[r] \in {"reader", "builtinreader"} /\ r # o
  BY <1>1 DEF NextIsCondition, Provenance, ParentKinds, ConditionKinds, TypeOK
<1>4. Keepalive(o, registry) \subseteq Obj
      /\ \A x \in Keepalive(o, registry) : x = o \/ phase[x] = "live"
  <2>1. \A x \in Keepalive(o, registry) : x \in Obj /\ x \in {r, topicOf[o], o}
    BY DEF Keepalive
  <2> QED BY <2>1, <1>1 DEF TypeOK
<1>5. refs' \in [Obj -> SUBSET Obj]
  <2>1. kept \in [Obj -> SUBSET Obj]
    BY <1>1, <1>4 DEF TypeOK
  <2> HIDE DEF kept
  <2> QED BY <1>1, <1>2, <1>3, <2>1
<1>6. \A x \in Obj : refs'[x] = IF o \in implicit /\ x = r
                               THEN (refs[r] \ {nextCond[r]}) \cup {o}
                               ELSE IF x = o THEN Keepalive(o, registry) ELSE refs[x]
  BY <1>1, <1>2, <1>3 DEF TypeOK
<1>7. \A u \in Threads : ctor'[u] = IF u = t THEN NoObj ELSE ctor[u]
  BY <1>2 DEF TypeOK
<1>8. /\ \A x \in Obj : phase'[x] = IF x = o THEN "live"
                                ELSE IF x \in Lost THEN "finalizing" ELSE phase[x]
      /\ fin' = [fin EXCEPT ![t] = (@ \cup Lost) \ {o}]
  BY <1>2 DEF Release
<1>9. \A x \in Obj : x \in Lost <=> phase[x] = "live" /\ ~Referenced(x)'
  BY DEF Lost
<1> HIDE DEF kept
<1>10. phase' \in [Obj -> Phases] /\ fin' \in [AllThreads -> SUBSET Obj]
  <2>1. Lost \subseteq Obj
    BY DEF Lost
  <2>2. phase' = [x \in Obj |-> IF x \in {o} THEN "live"
                                ELSE IF x \in Lost THEN "finalizing" ELSE phase[x]]
    BY <1>2 DEF Release
  <2> QED BY <1>8, <2>1, <2>2 DEF TypeOK, Phases
<1>11. \A x \in Obj : \A y \in refs'[x] : y \in Obj /\ phase'[y] = "live"
  <2> SUFFICES ASSUME NEW x \in Obj, NEW y \in refs'[x]
               PROVE  y \in Obj /\ phase'[y] = "live"
    OBVIOUS
  <2>1. y \in Obj
    BY <1>5
  <2>2. y = o \/ phase[y] = "live"
    BY <1>4, <1>6, <1>1, <1>3 DEF RefsAreLive
  <2>3. Referenced(y)'
    BY DEF Referenced
  <2> QED BY <2>1, <2>2, <2>3, <1>8, <1>9
<1>12. \A x \in app' : x \in Obj /\ phase'[x] = "live"
  <2> SUFFICES ASSUME NEW x \in app'
               PROVE  x \in Obj /\ phase'[x] = "live"
    OBVIOUS
  <2>1. x \in Obj /\ (x = o \/ phase[x] = "live")
    BY <1>1, <1>2 DEF AppIsLive, TypeOK
  <2>2. Referenced(x)'
    BY DEF Referenced, Rooted
  <2> QED BY <2>1, <2>2, <1>8, <1>9
<1>13. TypeOK'
  <2>1. nextCond' \in [Obj -> Obj \cup {NoObj}]
    BY <1>1, <1>2, <1>3 DEF TypeOK
  <2>2. app' \subseteq Obj /\ ctor' \in [Threads -> Obj \cup {NoObj}]
    BY <1>1, <1>2 DEF TypeOK
  <2> QED BY <1>2, <1>5, <1>10, <2>1, <2>2 DEF TypeOK
<1>14. RefsAreLive' /\ AppIsLive'
  BY <1>11, <1>12 DEF RefsAreLive, AppIsLive
<1>15. LiveIsRegistered'
  BY <1>1, <1>2, <1>8 DEF LiveIsRegistered
<1>16. FramesSound'
  <2> SUFFICES ASSUME NEW u \in Threads, ctor'[u] # NoObj
               PROVE  /\ phase'[ctor'[u]] \in {"created", "registered"}
                      /\ ~OnAdrift(ctor[u])' => ctor'[u] \in native'
                      /\ par'[ctor'[u]] # NoObj => phase'[par'[ctor'[u]]] = "live"
                      /\ topicOf'[ctor'[u]] # NoObj
                           => phase'[topicOf'[ctor'[u]]] = "live"
                      /\ \A v \in Threads : ctor'[v] = ctor'[u] => v = u
    BY DEF FramesSound
  <2>1. u # t /\ ctor'[u] = ctor[u] /\ ctor[u] \in Obj /\ ctor[u] # o
    BY <1>1, <1>7 DEF TypeOK
  <2>2. \A x \in Obj : x \in {par[ctor[u]], topicOf[ctor[u]]} => Referenced(x)'
    BY <2>1, <1>2 DEF Referenced, Rooted, FrameRefs
  <2>3. par[ctor[u]] # NoObj => phase'[par[ctor[u]]] = "live"
    BY <2>1, <2>2, <1>8, <1>9 DEF FramesSound, TypeOK
  <2>4. topicOf[ctor[u]] # NoObj => phase'[topicOf[ctor[u]]] = "live"
    BY <2>1, <2>2, <1>8, <1>9 DEF FramesSound, TypeOK
  <2>5. phase'[ctor[u]] \in {"created", "registered"}
    BY <2>1, <1>8, <1>9 DEF FramesSound
  <2>6. \A v \in Threads : ctor'[v] = ctor'[u] => v = u
    BY <2>1, <1>7 DEF FramesSound
  <2>7. OnAdrift(ctor[u])' <=> OnAdrift(ctor[u])
    BY <1>2 DEF OnAdrift, Adrift
  <2> QED BY <2>1, <2>3, <2>4, <2>5, <2>6, <2>7, <1>2 DEF FramesSound
<1>17. Provenance'
  <2>1. \A x \in Obj : phase'[x] = "unborn" <=> phase[x] = "unborn"
    BY <1>1, <1>8, <1>9
  <2> QED BY <1>2, <2>1 DEF Provenance, TypeOK
<1>18. KeepaliveHeld'
  <2> SUFFICES ASSUME NEW x \in Obj, phase'[x] = "live"
               PROVE
    /\ Kind[x] \in {"topic", "subscriber", "publisher"} \cup ConditionKinds
         => par[x] \in refs'[x]
    /\ Kind[x] \in EndpointKinds => topicOf[x] \in refs'[x]
    /\ Kind[x] \in EndpointKinds \cup {"builtinreader"} /\ Kind[par[x]] \in GroupKinds
         => par[x] \in refs'[x]
    BY <1>2 DEF KeepaliveHeld
  <2>1. CASE x = o
    <3>1. Kind[o] # "participant" => r # NoObj
      BY <1>1 DEF Provenance, TypeOK
    <3>2. Kind[o] \in EndpointKinds => topicOf[o] # NoObj
      BY <1>1 DEF Provenance, TypeOK
    <3>3. refs'[o] = Keepalive(o, registry)
      BY <1>1, <1>3, <1>6
    <3> QED BY <2>1, <3>1, <3>2, <3>3, <1>1 DEF Keepalive, EndpointKinds, ConditionKinds
  <2>2. CASE x # o
    <3>1. phase[x] = "live"
      BY <2>2, <1>8
    <3>2. CASE o \in implicit /\ x = r
      <4>1. nextCond[r] # NoObj => Kind[nextCond[r]] = "readcondition"
        BY <3>2, <1>3 DEF NextIsCondition
      <4>2. /\ Kind[x] \in EndpointKinds => Kind[topicOf[x]] = "topic" /\ topicOf[x] # NoObj
            /\ par[x] # NoObj
        BY <3>1, <3>2, <1>3 DEF Provenance, EndpointKinds
      <4>3. /\ Kind[x] \in EndpointKinds => topicOf[x] # nextCond[r]
            /\ Kind[par[x]] \in GroupKinds => par[x] # nextCond[r]
        BY <4>1, <4>2 DEF GroupKinds
      <4> QED BY <2>2, <3>1, <3>2, <4>3, <1>3, <1>6
              DEF KeepaliveHeld, ConditionKinds
    <3>3. CASE ~(o \in implicit /\ x = r)
      BY <2>2, <3>1, <3>3, <1>6 DEF KeepaliveHeld
    <3> QED BY <3>2, <3>3
  <2> QED BY <2>1, <2>2
<1>19. NextIsCondition'
  <2>1. \A c \in implicit' : Kind[c] = "readcondition" /\ phase'[c] # "unborn"
    BY <1>1, <1>2, <1>8 DEF NextIsCondition, TypeOK
  <2>2. \A x \in Obj : nextCond'[x] # NoObj => Kind[nextCond'[x]] = "readcondition"
    BY <1>2, <1>3 DEF NextIsCondition, TypeOK
  <2> QED BY <2>1, <2>2 DEF NextIsCondition
<1>20. KeepaliveSound'
  <2>1. Tracked' = Tracked
    BY <1>2 DEF Tracked, OnAdrift, Adrift
  <2>2. o \in Tracked => o \in native
    BY <1>1 DEF Tracked
  <2> QED BY <2>1, <2>2, <1>2, <1>8 DEF KeepaliveSound, Tracked
<1> QED BY <1>13, <1>14, <1>15, <1>16, <1>17, <1>18, <1>19, <1>20

-----------------------------------------------------------------------------
(* Steps that only take references away. *)

(***************************************************************************)
(* A step that drops references and retires the objects that lose their    *)
(* last one preserves the invariant, if it leaves alone what the keepalive *)
(* fields hold and deletes no native entity of an object still in use.     *)
(***************************************************************************)
LEMMA ShrinkLifetime ==
  ASSUME ObjAssumption, LifetimeInv, TypeOK',
         UNCHANGED <<par, topicOf, above, ctor, implicit>>,
         app' \subseteq app,
         \A x \in Obj : refs'[x] \subseteq refs[x],
         \A x \in Obj : phase'[x] = "live" /\ Kind[x] # "waitset" => refs'[x] = refs[x],
         \A x \in Obj : phase'[x] = "live" => phase[x] = "live",
         \A x \in Obj : phase[x] = "live" /\ Referenced(x)' => phase'[x] = "live",
         \A x \in Obj : phase[x] \in {"created", "registered"} => phase'[x] = phase[x],
         \A x \in Obj : phase'[x] \in {"created", "registered"} => phase'[x] = phase[x],
         \A x \in Obj : phase'[x] = "unborn" <=> phase[x] = "unborn",
         \A x \in registry \ registry' : phase'[x] \notin {"registered", "live"},
         \A x \in native \ native' : phase'[x] # "live" \/ x \notin Tracked,
         \A u \in Threads : ctor[u] \in native \ native' => OnAdrift(ctor[u]),
         \A x \in Obj : nextCond'[x] \in {nextCond[x], NoObj}
  PROVE  LifetimeInv'
<1> USE DEF ObjAssumption, LifetimeInv
<1>1. RefsAreLive'
  <2> SUFFICES ASSUME NEW x \in Obj, NEW y \in refs'[x] PROVE phase'[y] = "live"
    BY DEF RefsAreLive
  <2>1. y \in Obj /\ phase[y] = "live"
    BY DEF RefsAreLive, TypeOK
  <2>2. Referenced(y)'
    BY DEF Referenced
  <2> QED BY <2>1, <2>2
<1>2. AppIsLive'
  <2> SUFFICES ASSUME NEW x \in app' PROVE phase'[x] = "live"
    BY DEF AppIsLive
  <2>1. x \in Obj /\ phase[x] = "live"
    BY DEF AppIsLive, TypeOK
  <2>2. Referenced(x)'
    BY DEF Referenced, Rooted
  <2> QED BY <2>1, <2>2
<1>3. LiveIsRegistered'
  BY DEF LiveIsRegistered, TypeOK
<1>4. FramesSound'
  <2> SUFFICES ASSUME NEW u \in Threads, ctor[u] # NoObj
               PROVE  /\ phase'[ctor[u]] \in {"created", "registered"}
                      /\ ~OnAdrift(ctor[u]) => ctor[u] \in native'
                      /\ par[ctor[u]] # NoObj => phase'[par[ctor[u]]] = "live"
                      /\ topicOf[ctor[u]] # NoObj => phase'[topicOf[ctor[u]]] = "live"
                      /\ \A v \in Threads : ctor[v] = ctor[u] => v = u
    BY DEF FramesSound, OnAdrift, Adrift
  <2>1. /\ ctor[u] \in Obj /\ phase[ctor[u]] \in {"created", "registered"}
        /\ ~OnAdrift(ctor[u]) => ctor[u] \in native
    BY DEF FramesSound, TypeOK
  <2>2. \A x \in Obj : x \in {par[ctor[u]], topicOf[ctor[u]]} => Referenced(x)'
    BY <2>1 DEF Referenced, Rooted, FrameRefs
  <2>3. par[ctor[u]] # NoObj => phase'[par[ctor[u]]] = "live"
    BY <2>1, <2>2 DEF FramesSound, TypeOK
  <2>4. topicOf[ctor[u]] # NoObj => phase'[topicOf[ctor[u]]] = "live"
    BY <2>1, <2>2 DEF FramesSound, TypeOK
  <2>5. \A v \in Threads : ctor[v] = ctor[u] => v = u
    BY DEF FramesSound
  <2> QED BY <2>1, <2>3, <2>4, <2>5
<1>5. Provenance'
  BY DEF Provenance, TypeOK
<1>6. KeepaliveHeld'
  BY DEF KeepaliveHeld, EndpointKinds, ConditionKinds
<1>7. NextIsCondition'
  BY DEF NextIsCondition, TypeOK
<1>8. KeepaliveSound'
  <2>1. Tracked' = Tracked
    BY DEF Tracked, OnAdrift, Adrift
  <2> QED BY <2>1 DEF KeepaliveSound, Tracked
<1> QED BY <1>1, <1>2, <1>3, <1>4, <1>5, <1>6, <1>7, <1>8

\* What Release does to the phases, for the steps below.
LEMMA ReleasePhases ==
  ASSUME TypeOK, NEW t \in AllThreads, NEW S \in SUBSET Obj, Release(t, S, "dead")
  PROVE  /\ phase' \in [Obj -> Phases] /\ fin' \in [AllThreads -> SUBSET Obj]
         /\ \A x \in Obj : phase'[x] = "live" => phase[x] = "live" /\ x \notin S
         /\ \A x \in Obj : phase[x] = "live" /\ Referenced(x)' /\ x \notin S
                            => phase'[x] = "live"
         /\ \A x \in Obj : phase[x] # "live" /\ x \notin S => phase'[x] = phase[x]
         /\ \A x \in Obj : phase'[x] \in {phase[x], "dead", "finalizing"}
         /\ \A x \in S : phase'[x] = "dead"
         /\ \A x \in Obj : phase[x] # "live" /\ phase[x] # "dead" /\ phase'[x] = "dead"
                            => x \in S
<1>1. /\ phase' = [x \in Obj |-> IF x \in S THEN "dead"
                                 ELSE IF x \in Lost THEN "finalizing" ELSE phase[x]]
      /\ fin' = [fin EXCEPT ![t] = (@ \cup Lost) \ S]
  BY DEF Release
<1>2. /\ Lost \subseteq Obj
      /\ \A x \in Obj : x \in Lost <=> phase[x] = "live" /\ ~Referenced(x)'
  BY DEF Lost
<1>3. phase' \in [Obj -> Phases] /\ fin' \in [AllThreads -> SUBSET Obj]
  BY <1>1, <1>2 DEF TypeOK, Phases
<1> QED BY <1>1, <1>2, <1>3

LEMMA DetachLifetime ==
  ASSUME ObjAssumption, LifetimeInv, NEW t \in Threads, Detach(t)
  PROVE  LifetimeInv'
<1> USE DEF LifetimeInv
<1>1. PICK w \in app : \E e \in refs[w] :
        Kind[w] = "waitset" /\ refs' = [refs EXCEPT ![w] = @ \ {e}]
  BY DEF Detach
<1>2. PICK e \in refs[w] : refs' = [refs EXCEPT ![w] = @ \ {e}]
  BY <1>1
<1>3. /\ UNCHANGED <<par, topicOf, nextCond, registry, native, above, app,
                     ctor, implicit, cbEnt, cbStep, cbHeld>>
      /\ t \in AllThreads /\ Release(t, {}, "dead")
  BY DEF Detach, AllThreads
<1>4. /\ phase' \in [Obj -> Phases] /\ fin' \in [AllThreads -> SUBSET Obj]
      /\ \A x \in Obj : phase'[x] = "live" => phase[x] = "live"
      /\ \A x \in Obj : phase[x] = "live" /\ Referenced(x)' => phase'[x] = "live"
      /\ \A x \in Obj : phase[x] # "live" => phase'[x] = phase[x]
      /\ \A x \in Obj : phase'[x] \in {phase[x], "dead", "finalizing"}
  BY <1>3, ReleasePhases
<1>5. TypeOK'
  BY <1>2, <1>3, <1>4 DEF TypeOK
<1>6. \A x \in Obj : /\ refs'[x] \subseteq refs[x]
                     /\ Kind[x] # "waitset" => refs'[x] = refs[x]
  BY <1>1, <1>2 DEF TypeOK
<1> QED BY <1>3, <1>4, <1>5, <1>6, ShrinkLifetime

LEMMA DropLifetime ==
  ASSUME ObjAssumption, LifetimeInv, NEW t \in Threads, Drop(t)
  PROVE  LifetimeInv'
<1> USE DEF LifetimeInv
<1>1. /\ UNCHANGED <<par, topicOf, refs, nextCond, registry, native, above, ctor, implicit, cbEnt, cbStep, cbHeld>>
      /\ app' \subseteq app /\ t \in AllThreads /\ Release(t, {}, "dead")
  BY DEF Drop, AllThreads
<1>2. /\ phase' \in [Obj -> Phases] /\ fin' \in [AllThreads -> SUBSET Obj]
      /\ \A x \in Obj : phase'[x] = "live" => phase[x] = "live"
      /\ \A x \in Obj : phase[x] = "live" /\ Referenced(x)' => phase'[x] = "live"
      /\ \A x \in Obj : phase[x] # "live" => phase'[x] = phase[x]
      /\ \A x \in Obj : phase'[x] \in {phase[x], "dead", "finalizing"}
  BY <1>1, ReleasePhases
<1>3. TypeOK'
  BY <1>1, <1>2 DEF TypeOK
<1> QED BY <1>1, <1>2, <1>3, ShrinkLifetime

LEMMA LeaveFunctionLifetime ==
  ASSUME ObjAssumption, LifetimeInv, NEW d \in DdsThreads, LeaveFunction(d)
  PROVE  LifetimeInv'
<1> USE DEF LifetimeInv
<1>1. /\ UNCHANGED <<par, topicOf, refs, nextCond, registry, native, above, app, ctor, implicit, cbEnt>>
      /\ cbStep' = [cbStep EXCEPT ![d] = "returning"]
      /\ cbHeld' = [cbHeld EXCEPT ![d] = NoObj]
      /\ d \in AllThreads /\ Release(d, {}, "dead")
  BY DEF LeaveFunction, AllThreads
<1>2. /\ phase' \in [Obj -> Phases] /\ fin' \in [AllThreads -> SUBSET Obj]
      /\ \A x \in Obj : phase'[x] = "live" => phase[x] = "live"
      /\ \A x \in Obj : phase[x] = "live" /\ Referenced(x)' => phase'[x] = "live"
      /\ \A x \in Obj : phase[x] # "live" => phase'[x] = phase[x]
      /\ \A x \in Obj : phase'[x] \in {phase[x], "dead", "finalizing"}
  BY <1>1, ReleasePhases
<1>3. TypeOK'
  BY <1>1, <1>2 DEF TypeOK
<1> QED BY <1>1, <1>2, <1>3, ShrinkLifetime

\* dds_delete takes natives below an object that is being finalized; no usable
\* object is there, because everything above a usable object is usable.
LEMMA EndDeleteLifetime ==
  ASSUME ObjAssumption, LifetimeInv, NEW t \in AllThreads, EndDelete(t)
  PROVE  LifetimeInv'
<1> USE DEF LifetimeInv
<1>1. PICK o \in fin[t] :
        /\ phase[o] = "deleting"
        /\ native' = native \ Subtree(o)
        /\ nextCond' = [nextCond EXCEPT ![o] = NoObj]
        /\ refs' = [refs EXCEPT ![o] = {}]
        /\ Release(t, {o}, "dead")
  BY DEF EndDelete
<1>2. UNCHANGED <<par, topicOf, registry, above, app, ctor, implicit, cbEnt,
                  cbStep, cbHeld>>
  BY DEF EndDelete
<1>3. o \in Obj /\ {o} \in SUBSET Obj
  BY DEF TypeOK
<1>4. /\ phase' \in [Obj -> Phases] /\ fin' \in [AllThreads -> SUBSET Obj]
      /\ \A x \in Obj : phase'[x] = "live" => phase[x] = "live" /\ x \notin {o}
      /\ \A x \in Obj : phase[x] = "live" /\ Referenced(x)' /\ x \notin {o}
                         => phase'[x] = "live"
      /\ \A x \in Obj : phase[x] # "live" /\ x \notin {o} => phase'[x] = phase[x]
      /\ \A x \in Obj : phase'[x] \in {phase[x], "dead", "finalizing"}
      /\ \A x \in {o} : phase'[x] = "dead"
  BY <1>1, <1>3, ReleasePhases
<1>5. TypeOK'
  BY <1>1, <1>2, <1>3, <1>4 DEF TypeOK
<1>6. \A x \in native \ native' : x \in Obj /\ (x = o \/ o \in above[x])
  BY <1>1 DEF Subtree, TypeOK
<1>7. \A x \in native \ native' : phase[x] = "live" => x \notin Tracked
  BY <1>1, <1>6, AncestorsLive
<1>8. \A u \in Threads : ctor[u] \in native \ native' => OnAdrift(ctor[u])
  <2> SUFFICES ASSUME NEW u \in Threads, ctor[u] \in native \ native', ~OnAdrift(ctor[u])
               PROVE  FALSE
    OBVIOUS
  <2>1. /\ ctor[u] \in Obj /\ ctor[u] # NoObj /\ o \in above[ctor[u]]
        /\ phase[ctor[u]] \in {"created", "registered"}
    BY <1>1, <1>6 DEF FramesSound, ObjAssumption
  <2>2. /\ par[ctor[u]] \in Obj /\ phase[par[ctor[u]]] = "live"
        /\ par[ctor[u]] \in Tracked
        /\ above[ctor[u]] = {par[ctor[u]]} \cup above[par[ctor[u]]]
    BY <2>1, ParentTracked DEF FramesSound, Provenance, TypeOK
  <2>3. \A a \in above[par[ctor[u]]] : phase[a] = "live"
    BY <2>2, AncestorsLive
  <2> QED BY <1>1, <2>1, <2>2, <2>3
<1>9. \A x \in Obj : /\ refs'[x] = IF x = o THEN {} ELSE refs[x]
                     /\ nextCond'[x] \in {nextCond[x], NoObj}
  BY <1>1 DEF TypeOK
<1>10. /\ \A x \in Obj : refs'[x] \subseteq refs[x]
       /\ \A x \in Obj : phase'[x] = "live" /\ Kind[x] # "waitset" => refs'[x] = refs[x]
  BY <1>4, <1>9
<1>11. /\ \A x \in Obj : phase'[x] = "live" => phase[x] = "live"
       /\ \A x \in Obj : phase[x] = "live" /\ Referenced(x)' => phase'[x] = "live"
       /\ \A x \in Obj : phase[x] \in {"created", "registered"} => phase'[x] = phase[x]
       /\ \A x \in Obj : phase'[x] \in {"created", "registered"} => phase'[x] = phase[x]
       /\ \A x \in Obj : phase'[x] = "unborn" <=> phase[x] = "unborn"
  BY <1>1, <1>4
<1>12. /\ \A x \in registry \ registry' : phase'[x] \notin {"registered", "live"}
       /\ \A x \in native \ native' : phase'[x] # "live" \/ x \notin Tracked
  BY <1>2, <1>4, <1>6, <1>7
<1> QED BY <1>2, <1>5, <1>8, <1>9, <1>10, <1>11, <1>12, ShrinkLifetime

\* The collector takes a set nothing references into, and leaves the natives.
LEMMA CollectLifetime ==
  ASSUME ObjAssumption, LifetimeInv, NEW t \in AllThreads, Collect(t)
  PROVE  LifetimeInv'
<1> USE DEF LifetimeInv
<1>1. PICK G \in SUBSET Obj :
        /\ \A x \in G : phase[x] = "live"
        /\ Closed(G)
        /\ registry' = registry \ G
        /\ nextCond' = [x \in Obj |-> IF x \in G THEN NoObj ELSE nextCond[x]]
        /\ refs' = [x \in Obj |-> IF x \in G THEN {} ELSE refs[x]]
        /\ Release(t, G, "dead")
  <2>1. PICK G \in SUBSET {o \in Obj : phase[o] = "live"} :
          /\ Closed(G)
          /\ registry' = registry \ G
          /\ nextCond' = [x \in Obj |-> IF x \in G THEN NoObj ELSE nextCond[x]]
          /\ refs' = [x \in Obj |-> IF x \in G THEN {} ELSE refs[x]]
          /\ Release(t, G, "dead")
    BY DEF Collect
  <2>2. G \in SUBSET Obj /\ \A x \in G : phase[x] = "live"
    OBVIOUS
  <2> QED BY <2>1, <2>2
<1>2. UNCHANGED <<par, topicOf, native, above, app, ctor, implicit, cbEnt,
                  cbStep, cbHeld>>
  BY DEF Collect
<1>3. \A x \in G : ~Referenced(x)'
  <2> SUFFICES ASSUME NEW x \in G PROVE ~Referenced(x)'
    OBVIOUS
  <2>1. ~Rooted(x) /\ \A y \in Obj \ G : x \notin refs[y]
    BY <1>1 DEF Closed
  <2>2. ~Rooted(x)'
    BY <2>1, <1>2 DEF Rooted, FrameRefs
  <2>3. \A y \in Obj : x \notin refs'[y]
    BY <1>1, <2>1
  <2> QED BY <2>2, <2>3 DEF Referenced
<1>4. /\ phase' \in [Obj -> Phases] /\ fin' \in [AllThreads -> SUBSET Obj]
      /\ \A x \in Obj : phase'[x] = "live" => phase[x] = "live" /\ x \notin G
      /\ \A x \in Obj : phase[x] = "live" /\ Referenced(x)' /\ x \notin G
                         => phase'[x] = "live"
      /\ \A x \in Obj : phase[x] # "live" /\ x \notin G => phase'[x] = phase[x]
      /\ \A x \in Obj : phase'[x] \in {phase[x], "dead", "finalizing"}
      /\ \A x \in G : phase'[x] = "dead"
  BY <1>1, ReleasePhases
<1>5. TypeOK'
  BY <1>1, <1>2, <1>4 DEF TypeOK
<1>6. /\ \A x \in Obj : refs'[x] \subseteq refs[x]
      /\ \A x \in Obj : phase'[x] = "live" /\ Kind[x] # "waitset" => refs'[x] = refs[x]
      /\ \A x \in Obj : nextCond'[x] \in {nextCond[x], NoObj}
  BY <1>1, <1>4
<1>7. /\ \A x \in Obj : phase'[x] = "live" => phase[x] = "live"
      /\ \A x \in Obj : phase[x] = "live" /\ Referenced(x)' => phase'[x] = "live"
      /\ \A x \in Obj : phase[x] \in {"created", "registered"} => phase'[x] = phase[x]
      /\ \A x \in Obj : phase'[x] \in {"created", "registered"} => phase'[x] = phase[x]
      /\ \A x \in Obj : phase'[x] = "unborn" <=> phase[x] = "unborn"
  BY <1>1, <1>3, <1>4
<1>8. \A x \in registry \ registry' : phase'[x] \notin {"registered", "live"}
  BY <1>1, <1>4
<1> QED BY <1>2, <1>5, <1>6, <1>7, <1>8, ShrinkLifetime

-----------------------------------------------------------------------------
(* Steps that add a reference to a usable object, and the callbacks. *)

\* Attach, SetTopicFilter and LookUp add references to objects the program
\* holds, or finds live in the registry.
LEMMA GrowLifetime ==
  ASSUME ObjAssumption, LifetimeInv, TypeOK',
         UNCHANGED <<phase, par, topicOf, nextCond, registry, native, above, ctor,
                     implicit>>,
         \A x \in app' : x \in app \/ phase[x] = "live",
         \A x \in Obj : refs[x] \subseteq refs'[x],
         \A x \in Obj : \A y \in refs'[x] : y \in refs[x] \/ phase[y] = "live"
  PROVE  LifetimeInv'
<1> USE DEF LifetimeInv
<1>1. RefsAreLive' /\ AppIsLive'
  BY DEF RefsAreLive, AppIsLive
<1>2. LiveIsRegistered' /\ NextIsCondition' /\ KeepaliveSound'
  BY DEF LiveIsRegistered, NextIsCondition, KeepaliveSound, Tracked, OnAdrift, Adrift
<1>3. FramesSound'
  BY DEF FramesSound, OnAdrift, Adrift
<1>4. Provenance'
  BY DEF Provenance
<1>5. KeepaliveHeld'
  BY DEF KeepaliveHeld
<1> QED BY <1>1, <1>2, <1>3, <1>4, <1>5

LEMMA AttachLifetime ==
  ASSUME ObjAssumption, LifetimeInv, NEW t \in Threads, Attach(t)
  PROVE  LifetimeInv'
<1> USE DEF LifetimeInv
<1>1. PICK w \in app, e \in app : refs' = [refs EXCEPT ![w] = @ \cup {e}]
  BY DEF Attach
<1>2. UNCHANGED <<phase, par, topicOf, nextCond, registry, native, above, app, ctor, implicit, fin, cbEnt, cbStep, cbHeld>>
  BY DEF Attach
<1>3. w \in Obj /\ e \in Obj /\ phase[e] = "live"
  BY DEF TypeOK, AppIsLive
<1>4. TypeOK'
  BY <1>1, <1>2, <1>3 DEF TypeOK
<1>5. \A x \in Obj : refs'[x] = IF x = w THEN refs[w] \cup {e} ELSE refs[x]
  BY <1>1, <1>3 DEF TypeOK
<1> QED BY <1>2, <1>3, <1>4, <1>5, GrowLifetime

LEMMA SetTopicFilterLifetime ==
  ASSUME ObjAssumption, LifetimeInv, NEW t \in Threads, SetTopicFilter(t)
  PROVE  LifetimeInv'
<1> USE DEF LifetimeInv
<1>1. PICK o \in app : refs' = [refs EXCEPT ![o] = @ \cup {o}]
  BY DEF SetTopicFilter
<1>2. UNCHANGED <<phase, par, topicOf, nextCond, registry, native, above, app, ctor, implicit, fin, cbEnt, cbStep, cbHeld>>
  BY DEF SetTopicFilter
<1>3. o \in Obj /\ phase[o] = "live"
  BY DEF TypeOK, AppIsLive
<1>4. TypeOK'
  BY <1>1, <1>2, <1>3 DEF TypeOK
<1>5. \A x \in Obj : refs'[x] = IF x = o THEN refs[o] \cup {o} ELSE refs[x]
  BY <1>1, <1>3 DEF TypeOK
<1> QED BY <1>2, <1>3, <1>4, <1>5, GrowLifetime

LEMMA LookUpLifetime ==
  ASSUME ObjAssumption, LifetimeInv, NEW t \in Threads, LookUp(t)
  PROVE  LifetimeInv'
<1> USE DEF LifetimeInv
<1>1. PICK x \in registry : phase[x] = "live" /\ app' = app \cup {x}
  BY DEF LookUp
<1>2. UNCHANGED <<phase, par, topicOf, refs, nextCond, registry, native, above,
                  ctor, implicit, fin, cbEnt, cbStep, cbHeld>>
  BY DEF LookUp
<1>3. TypeOK'
  BY <1>1, <1>2 DEF TypeOK
<1> QED BY <1>1, <1>2, <1>3, GrowLifetime

LEMMA BeginDeleteLifetime ==
  ASSUME ObjAssumption, LifetimeInv, NEW t \in AllThreads, BeginDelete(t)
  PROVE  LifetimeInv'
<1> USE DEF LifetimeInv
<1>1. PICK o \in fin[t] : /\ phase[o] = "finalizing"
                          /\ registry' = registry \ {o}
                          /\ phase' = [phase EXCEPT ![o] = "deleting"]
  BY DEF BeginDelete
<1>2. UNCHANGED <<par, topicOf, refs, nextCond, native, above, app, ctor,
                  implicit, fin, cbEnt, cbStep, cbHeld>>
  BY DEF BeginDelete
<1>3. o \in Obj
  BY DEF TypeOK
<1>4. TypeOK'
  BY <1>1, <1>2, <1>3 DEF TypeOK, Phases
<1>5. \A x \in Obj : phase'[x] = IF x = o THEN "deleting" ELSE phase[x]
  BY <1>1, <1>3 DEF TypeOK
<1>6. /\ \A x \in Obj : refs'[x] \subseteq refs[x]
      /\ \A x \in Obj : phase'[x] = "live" /\ Kind[x] # "waitset" => refs'[x] = refs[x]
      /\ \A x \in Obj : nextCond'[x] \in {nextCond[x], NoObj}
  BY <1>2
<1>7. /\ \A x \in Obj : phase'[x] = "live" => phase[x] = "live"
      /\ \A x \in Obj : phase[x] = "live" /\ Referenced(x)' => phase'[x] = "live"
      /\ \A x \in Obj : phase[x] \in {"created", "registered"} => phase'[x] = phase[x]
      /\ \A x \in Obj : phase'[x] \in {"created", "registered"} => phase'[x] = phase[x]
      /\ \A x \in Obj : phase'[x] = "unborn" <=> phase[x] = "unborn"
  BY <1>1, <1>5
<1>8. /\ \A x \in registry \ registry' : phase'[x] \notin {"registered", "live"}
      /\ native' = native /\ app' \subseteq app
  BY <1>1, <1>2, <1>3, <1>5
<1> QED BY <1>2, <1>4, <1>6, <1>7, <1>8, ShrinkLifetime

\* Listeners and callbacks touch nothing the invariant relates.
LEMMA CallbackLifetime ==
  ASSUME ObjAssumption, LifetimeInv,
         \E d \in DdsThreads : EnterCallback(d) \/ ResolveEntity(d) \/ LeaveCallback(d)
  PROVE  LifetimeInv'
<1> USE DEF LifetimeInv
<1>1. UNCHANGED <<phase, par, topicOf, refs, nextCond, registry, native, above, app,
                  ctor, implicit, fin>>
  BY DEF EnterCallback, ResolveEntity, LeaveCallback
<1>2. /\ cbEnt' \in [DdsThreads -> Obj \cup {NoObj}]
      /\ cbHeld' \in [DdsThreads -> Obj \cup {NoObj}]
      /\ cbStep' \in [DdsThreads -> {"idle", "entered", "running", "returning"}]
  BY DEF EnterCallback, ResolveEntity, LeaveCallback, TypeOK
<1>3. TypeOK'
  BY <1>1, <1>2 DEF TypeOK
<1> QED BY <1>1, <1>3, GrowLifetime

\* A step that changes nothing.
LEMMA StutterLifetime ==
  ASSUME ObjAssumption, LifetimeInv, UNCHANGED vars
  PROVE  LifetimeInv'
<1> USE DEF LifetimeInv
<1>1. TypeOK'
  BY DEF TypeOK, vars
<1> QED BY <1>1, GrowLifetime DEF vars

-----------------------------------------------------------------------------
(* The theorems. *)

LEMMA StepLifetime ==
  ASSUME ObjAssumption, LifetimeInv, [Next]_vars
  PROVE  LifetimeInv'
<1>1. ASSUME NEW t \in Threads, Construct(t) \/ NextCondition(t)
      PROVE  LifetimeInv'
  <2>1. ctor[t] = NoObj
    BY <1>1 DEF Construct, NextCondition, Idle
  <2>2. CASE Construct(t)
    <3>1. PICK o \in Obj, p \in app \cup {NoObj}, tp \in app \cup {NoObj} :
            CreateNative(t, o, p, tp)
      BY <2>2 DEF Construct
    <3>2. implicit' = implicit
      BY <2>2 DEF Construct
    <3> QED BY <2>1, <3>1, <3>2, CreateNativeLifetime
  <2>3. CASE NextCondition(t)
    <3>1. PICK r \in app, c \in Obj :
            /\ Kind[c] = "readcondition" /\ CreateNative(t, c, r, NoObj)
            /\ implicit' = implicit \cup {c}
      BY <2>3 DEF NextCondition
    <3>2. r \in app \cup {NoObj} /\ NoObj \in app \cup {NoObj}
      OBVIOUS
    <3> QED BY <2>1, <3>1, <3>2, CreateNativeLifetime
  <2> QED BY <1>1, <2>2, <2>3
<1>2. ASSUME NEW t \in Threads, Register(t)
      PROVE  LifetimeInv'
  BY <1>2, RegisterLifetime
<1>3. ASSUME NEW t \in Threads, FinishConstruct(t)
      PROVE  LifetimeInv'
  BY <1>3, FinishLifetime
<1>4. ASSUME NEW t \in Threads, Attach(t) \/ Detach(t) \/ SetTopicFilter(t)
      PROVE  LifetimeInv'
  BY <1>4, AttachLifetime, DetachLifetime, SetTopicFilterLifetime
<1>5. ASSUME NEW t \in Threads, LookUp(t) \/ Drop(t)
      PROVE  LifetimeInv'
  BY <1>5, LookUpLifetime, DropLifetime
<1>6. ASSUME NEW t \in AllThreads, BeginDelete(t) \/ EndDelete(t)
      PROVE  LifetimeInv'
  BY <1>6, BeginDeleteLifetime, EndDeleteLifetime
<1>7. ASSUME NEW t \in AllThreads, Collect(t)
      PROVE  LifetimeInv'
  BY <1>7, CollectLifetime
<1>8. ASSUME NEW d \in DdsThreads, LeaveFunction(d)
      PROVE  LifetimeInv'
  BY <1>8, LeaveFunctionLifetime
<1>9. CASE \E d \in DdsThreads : EnterCallback(d) \/ ResolveEntity(d) \/ LeaveCallback(d)
  BY <1>9, CallbackLifetime
<1>10. CASE UNCHANGED vars
  BY <1>10, StutterLifetime
<1> QED BY <1>1, <1>2, <1>3, <1>4, <1>5, <1>6, <1>7, <1>8, <1>9, <1>10
        DEF Next, AllThreads

(***************************************************************************)
(* The inductive invariant holds in every reachable state: fields, program *)
(* variables and constructor frames reference usable objects only, and a   *)
(* usable object holds what keeps its native entity (core.py Entity).      *)
(***************************************************************************)
THEOREM Lifetime == Spec => []LifetimeInv
<1>1. Init => LifetimeInv
  BY InitLifetime, ObjAssumption
<1>2. LifetimeInv /\ [Next]_vars => LifetimeInv'
  BY StepLifetime, ObjAssumption
<1> QED BY <1>1, <1>2, PTL DEF Spec

(***************************************************************************)
(* The variables keep their types (TypeOK).                                *)
(***************************************************************************)
THEOREM TypesAlways == Spec => []TypeOK
<1>1. LifetimeInv => TypeOK
  BY DEF LifetimeInv
<1> QED BY <1>1, Lifetime, PTL

(***************************************************************************)
(* The native entity behind an object the program can still use is never   *)
(* deleted, for any number of entities, program threads and DDS threads:   *)
(* the references the constructors keep are enough (core.py, sub.py,       *)
(* pub.py, topic.py, builtin.py).  This holds for every object whose class *)
(* keeps what it was made from, and for the conditions on it; Tracked says *)
(* which do not.                                                           *)
(***************************************************************************)
THEOREM KeepaliveAlways == Spec => []KeepaliveSound
<1>1. LifetimeInv => KeepaliveSound
  BY DEF LifetimeInv
<1> QED BY <1>1, Lifetime, PTL

-----------------------------------------------------------------------------
(* A callback finds the entity. *)

(***************************************************************************)
(* A listener callback for an entity whose object is complete and not      *)
(* being finalized passes that object to the user's function, never None   *)
(* (core.py Listener `call`, Entity.get_entity).                           *)
(***************************************************************************)
THEOREM CallbackTheorem == Spec => CallbackFindsEntity
<1> DEFINE Found ==
      \A d \in DdsThreads :
        cbStep[d] = "entered" /\ cbStep'[d] = "running" /\ phase[cbEnt[d]] = "live"
          => cbHeld'[d] = cbEnt[d]
<1>1. ASSUME LifetimeInv, [Next]_vars
      PROVE  [Found]_vars
  <2> SUFFICES ASSUME Next, NEW d \in DdsThreads, cbStep[d] = "entered",
                      cbStep'[d] = "running", phase[cbEnt[d]] = "live"
               PROVE  cbHeld'[d] = cbEnt[d]
    BY <1>1
  <2>1. TypeOK /\ LiveIsRegistered
    BY <1>1 DEF LifetimeInv
  <2>2. cbStep' # cbStep
    OBVIOUS
  <2>3. ASSUME NEW e \in DdsThreads, ResolveEntity(e)
        PROVE  cbHeld'[d] = cbEnt[d]
    <3>1. e = d
      BY <2>1, <2>3 DEF ResolveEntity, TypeOK
    <3>2. cbHeld'[d] = IF cbEnt[d] \in registry THEN cbEnt[d] ELSE NoObj
      BY <2>1, <2>3, <3>1 DEF ResolveEntity, TypeOK
    <3>3. cbEnt[d] \in Obj => cbEnt[d] \in registry
      BY <2>1 DEF LiveIsRegistered
    <3>4. cbEnt[d] \in Obj \cup {NoObj}
      BY <2>1 DEF TypeOK
    <3> QED BY <3>2, <3>3, <3>4
  <2>4. ASSUME NEW e \in DdsThreads,
               EnterCallback(e) \/ LeaveFunction(e) \/ LeaveCallback(e)
        PROVE  FALSE
    <3>1. cbStep'[e] \in {"entered", "returning", "idle"}
          /\ (e # d => cbStep'[d] = cbStep[d])
      BY <2>1, <2>4 DEF EnterCallback, LeaveFunction, LeaveCallback, TypeOK
    <3> QED BY <3>1
  <2>5. ASSUME NEW t \in Threads, Construct(t) \/ NextCondition(t) \/ Register(t)
                                  \/ FinishConstruct(t)
        PROVE  cbStep' = cbStep
    BY <2>5 DEF Construct, NextCondition, CreateNative, Register, FinishConstruct
  <2>6. ASSUME NEW t \in Threads, Attach(t) \/ Detach(t) \/ SetTopicFilter(t)
                                  \/ LookUp(t) \/ Drop(t)
        PROVE  cbStep' = cbStep
    BY <2>6 DEF Attach, Detach, SetTopicFilter, LookUp, Drop
  <2>7. ASSUME NEW t \in AllThreads, BeginDelete(t) \/ EndDelete(t) \/ Collect(t)
        PROVE  cbStep' = cbStep
    BY <2>7 DEF BeginDelete, EndDelete, Collect
  <2> QED BY <2>2, <2>3, <2>4, <2>5, <2>6, <2>7 DEF Next, AllThreads
<1> QED BY <1>1, Lifetime, PTL DEF Spec, CallbackFindsEntity

-----------------------------------------------------------------------------
(* Every step is a step of the contract, or a stutter. *)

\* A step after which no more objects are usable, and that takes no native
\* entity of an object still in use, is LetGo or Reclaim.
LEMMA ShrinkContract ==
  ASSUME native' \subseteq native, par' = par,
         \A x \in Obj : phase'[x] = "live" => phase[x] = "live",
         \A x \in native \ native' : phase[x] = "live" => x \notin Tracked
  PROVE  [Contract!Next]_(Contract!vars)
<1>1. Tracked' = Tracked
  BY DEF Tracked, OnAdrift, Adrift
<1>2. Usable' \subseteq Usable
  BY <1>1 DEF Usable, Tracked
<1>3. (native \ native') \cap Usable = {}
  BY DEF Usable
<1>4. Contract!Reclaim
  BY <1>2, <1>3 DEF Contract!Reclaim
<1> QED BY <1>4 DEF Contract!Next

\* Creating a native entity is Make.
LEMMA CreateContract ==
  ASSUME ObjAssumption, LifetimeInv, NEW o \in Obj, phase[o] = "unborn",
         phase' = [phase EXCEPT ![o] = "created"], native' = native \cup {o},
         \A x \in Obj : x # o => par'[x] = par[x]
  PROVE  [Contract!Next]_(Contract!vars)
<1> USE DEF LifetimeInv
<1>1. \A x \in Obj : phase'[x] = "live" <=> phase[x] = "live"
  BY DEF TypeOK
<1>2. \A x \in Obj : phase[x] = "live" => (x \in Tracked' <=> x \in Tracked)
  <2> SUFFICES ASSUME NEW x \in Obj, phase[x] = "live" PROVE x \in Tracked' <=> x \in Tracked
    OBVIOUS
  <2>1. x # o /\ (par[x] \in Obj => par[x] # o) /\ par[x] \in Obj \cup {NoObj}
    BY DEF Provenance, TypeOK, ObjAssumption
  <2> QED BY <2>1, TrackedKept
<1>3. Usable' = Usable
  BY <1>1, <1>2 DEF Usable, Tracked
<1>4. CASE o \notin native
  <2>1. Contract!Make(o)
    BY <1>3, <1>4 DEF Contract!Make
  <2> QED BY <2>1 DEF Contract!Next
<1>5. CASE o \in native
  BY <1>3, <1>5 DEF Contract!vars
<1> QED BY <1>4, <1>5

\* Finishing a constructor is Publish.
LEMMA FinishContract ==
  ASSUME ObjAssumption, LifetimeInv, NEW t \in Threads, FinishConstruct(t)
  PROVE  [Contract!Next]_(Contract!vars)
<1> USE DEF LifetimeInv
<1> DEFINE o == ctor[t]
<1>1. /\ o \in Obj /\ o # NoObj /\ (o \in Tracked => o \in native)
      /\ native' = native /\ par' = par /\ Release(t, {o}, "live")
  BY DEF FinishConstruct, FramesSound, TypeOK, ObjAssumption, Tracked
<1>2. \A x \in Obj : phase'[x] = IF x = o THEN "live"
                               ELSE IF x \in Lost THEN "finalizing" ELSE phase[x]
  BY <1>1 DEF Release
<1>3. Tracked' = Tracked
  BY <1>1 DEF Tracked, OnAdrift, Adrift
<1>4. Usable' \subseteq Usable \cup {o} /\ (o \in Usable' <=> o \in Tracked)
  BY <1>1, <1>2, <1>3 DEF Usable, Tracked
<1> HIDE DEF o
<1>5. CASE o \in Tracked
  <2>1. Contract!Publish(o)
    BY <1>1, <1>4, <1>5 DEF Contract!Publish
  <2> QED BY <1>1, <2>1 DEF Contract!Next
<1>6. CASE o \notin Tracked
  <2>1. Contract!LetGo
    BY <1>1, <1>4, <1>6 DEF Contract!LetGo
  <2> QED BY <2>1 DEF Contract!Next
<1> QED BY <1>5, <1>6

\* dds_delete is Reclaim: what it takes is below an object in destruction.
LEMMA EndDeleteContract ==
  ASSUME ObjAssumption, LifetimeInv, NEW t \in AllThreads, EndDelete(t)
  PROVE  [Contract!Next]_(Contract!vars)
<1> USE DEF LifetimeInv
<1>1. PICK o \in fin[t] : /\ phase[o] = "deleting"
                          /\ native' = native \ Subtree(o)
                          /\ Release(t, {o}, "dead")
  BY DEF EndDelete
<1>2. {o} \in SUBSET Obj
  BY DEF TypeOK
<1>3. \A x \in Obj : phase'[x] = "live" => phase[x] = "live"
  BY <1>1, <1>2, ReleasePhases
<1>4. \A x \in native \ native' : x \in Obj /\ (x = o \/ o \in above[x])
  BY <1>1 DEF Subtree, TypeOK
<1>5. \A x \in native \ native' : phase[x] = "live" => x \notin Tracked
  BY <1>1, <1>4, AncestorsLive
<1>6. native' \subseteq native /\ par' = par
  BY <1>1 DEF EndDelete
<1> QED BY <1>3, <1>5, <1>6, ShrinkContract

\* The other steps leave the natives alone and make nothing usable.
LEMMA OtherContract ==
  ASSUME LifetimeInv,
         \/ \E t \in Threads : Register(t) \/ Attach(t) \/ Detach(t)
              \/ SetTopicFilter(t) \/ LookUp(t) \/ Drop(t)
         \/ \E t \in AllThreads : BeginDelete(t) \/ Collect(t)
         \/ \E d \in DdsThreads : EnterCallback(d) \/ ResolveEntity(d)
              \/ LeaveFunction(d) \/ LeaveCallback(d)
         \/ UNCHANGED vars
  PROVE  [Contract!Next]_(Contract!vars)
<1>1. TypeOK
  BY DEF LifetimeInv
<1>2. ASSUME NEW t \in AllThreads, NEW S \in SUBSET Obj, Release(t, S, "dead")
      PROVE  \A x \in Obj : phase'[x] = "live" => phase[x] = "live"
  BY <1>1, <1>2, ReleasePhases
<1>3. native' = native /\ par' = par
  BY DEF Register, Attach, Detach, SetTopicFilter, LookUp, Drop,
         BeginDelete, Collect, EnterCallback, ResolveEntity, LeaveFunction,
         LeaveCallback, vars
<1>4. ASSUME NEW t \in AllThreads, Collect(t)
      PROVE  \A x \in Obj : phase'[x] = "live" => phase[x] = "live"
  <2>1. PICK G \in SUBSET {o \in Obj : phase[o] = "live"} : Release(t, G, "dead")
    BY <1>4 DEF Collect
  <2>2. G \in SUBSET Obj
    OBVIOUS
  <2> QED BY <2>1, <2>2, <1>2
<1>5. ASSUME NEW t \in AllThreads, Release(t, {}, "dead")
      PROVE  \A x \in Obj : phase'[x] = "live" => phase[x] = "live"
  <2>1. {} \in SUBSET Obj
    OBVIOUS
  <2> QED BY <1>2, <1>5, <2>1
<1>6. ASSUME NEW t \in Threads, Register(t) \/ Attach(t) \/ SetTopicFilter(t) \/ LookUp(t)
      PROVE  \A x \in Obj : phase'[x] = "live" => phase[x] = "live"
  BY <1>1, <1>6 DEF Register, Attach, SetTopicFilter, LookUp, TypeOK
<1>7. ASSUME NEW t \in Threads, Detach(t) \/ Drop(t)
      PROVE  \A x \in Obj : phase'[x] = "live" => phase[x] = "live"
  BY <1>5, <1>7 DEF Detach, Drop, AllThreads
<1>8. ASSUME NEW t \in AllThreads, BeginDelete(t)
      PROVE  \A x \in Obj : phase'[x] = "live" => phase[x] = "live"
  BY <1>1, <1>8 DEF BeginDelete, TypeOK
<1>9. ASSUME NEW d \in DdsThreads, LeaveFunction(d)
      PROVE  \A x \in Obj : phase'[x] = "live" => phase[x] = "live"
  BY <1>5, <1>9 DEF LeaveFunction, AllThreads
<1>10. ASSUME UNCHANGED vars \/ \E d \in DdsThreads :
                EnterCallback(d) \/ ResolveEntity(d) \/ LeaveCallback(d)
       PROVE  \A x \in Obj : phase'[x] = "live" => phase[x] = "live"
  BY <1>10 DEF EnterCallback, ResolveEntity, LeaveCallback, vars
<1>11. \A x \in Obj : phase'[x] = "live" => phase[x] = "live"
  BY <1>4, <1>6, <1>7, <1>8, <1>9, <1>10
<1> QED BY <1>3, <1>11, ShrinkContract

(***************************************************************************)
(* The binding implements LinkedLifetime: natives appear before their      *)
(* objects and are only deleted when no usable (and tracked) object needs  *)
(* them.                                                                   *)
(***************************************************************************)
THEOREM Refinement == Spec => ImplementsContract
<1>1. Init => Contract!Init
  BY DEF Init, Contract!Init, Usable, Tracked
<1>2. ASSUME LifetimeInv, [Next]_vars
      PROVE  [Contract!Next]_(Contract!vars)
  <2>1. TypeOK
    BY <1>2 DEF LifetimeInv
  <2>2. ASSUME NEW t \in Threads, Construct(t) \/ NextCondition(t)
        PROVE  [Contract!Next]_(Contract!vars)
    <3>1. PICK o \in Obj : /\ phase[o] = "unborn"
                           /\ phase' = [phase EXCEPT ![o] = "created"]
                           /\ native' = native \cup {o}
                           /\ \E p : par' = [par EXCEPT ![o] = p]
      BY <2>2 DEF Construct, NextCondition, CreateNative
    <3>2. \A x \in Obj : x # o => par'[x] = par[x]
      BY <2>1, <3>1 DEF TypeOK
    <3> QED BY <1>2, <3>1, <3>2, CreateContract, ObjAssumption
  <2>3. ASSUME NEW t \in Threads, FinishConstruct(t)
        PROVE  [Contract!Next]_(Contract!vars)
    BY <1>2, <2>3, FinishContract, ObjAssumption
  <2>4. ASSUME NEW t \in AllThreads, EndDelete(t)
        PROVE  [Contract!Next]_(Contract!vars)
    BY <1>2, <2>4, EndDeleteContract, ObjAssumption
  <2> QED BY <1>2, <2>2, <2>3, <2>4, OtherContract DEF Next, AllThreads
<1> QED BY <1>1, <1>2, Lifetime, PTL DEF Spec, ImplementsContract, Contract!Spec
=============================================================================
