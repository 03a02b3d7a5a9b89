--------------------------- MODULE EntityLifetime ---------------------------
(***************************************************************************)
(* The lifetime of Python entity objects and of the native DDS entities    *)
(* behind them: cyclonedds/core.py (Entity, its registry, ReadCondition,   *)
(* QueryCondition, GuardCondition, WaitSet), and the constructors in       *)
(* domain.py, topic.py, sub.py, pub.py and builtin.py.                     *)
(*                                                                         *)
(* Three actors touch the same objects: program threads, which construct   *)
(* and drop entities; DDS receive threads, which run listener callbacks    *)
(* and look the entity up in Entity._entities; and the cyclic garbage      *)
(* collector, which runs inside any of them.  CPython frees an object when *)
(* its reference count reaches zero (__del__ runs first, then the object's *)
(* fields are released); objects in reference cycles wait for the          *)
(* collector, which clears their weak references BEFORE it runs __del__.   *)
(*                                                                         *)
(* The C library is external: handles are unique, dds_delete removes the   *)
(* entity with everything below it and waits for the callbacks that run on *)
(* them, and no callback starts on an entity that is being deleted.        *)
(***************************************************************************)
EXTENDS FiniteSets

CONSTANTS
  Obj,          \* Python entity objects, each constructed at most once
  Kind,         \* the class of each object (one of Kinds)
  Listened,     \* the objects constructed with a Listener
  Threads,      \* program threads
  DdsThreads,   \* DDS receive threads, which run the callbacks
  NoObj         \* Python's None

Kinds == {"participant", "topic", "subscriber", "publisher", "reader", "writer",
          "builtinreader", "readcondition", "querycondition", "guardcondition",
          "waitset"}

Phases == {"unborn", "created", "registered", "live", "finalizing", "deleting",
           "dead"}

ASSUME ObjAssumption ==
  /\ NoObj \notin Obj
  /\ \A o \in Obj : Kind[o] \in Kinds
  /\ Listened \subseteq Obj
  /\ Threads \cap DdsThreads = {}

VARIABLES
  phase,     \* where each object is in its life (Phases)
  par,       \* the entity it was constructed from (NoObj: none)
  topicOf,   \* the topic of a reader or writer
  refs,      \* strong references held in the object's fields
  nextCond,  \* DataReader._next_condition
  registry,  \* Entity._entities: the objects the weak dictionary still finds
  native,    \* native entities that exist
  above,     \* native ancestors of an entity, fixed when it is created
  app,       \* objects the program's own variables reference
  ctor,      \* per program thread: the object under construction, or NoObj
  implicit,  \* conditions made by read_next / take_next, not by the program
  fin,       \* per thread: the objects it is finalizing
  cbEnt,     \* per DDS thread: the entity its callback is for, or NoObj
  cbStep,    \* per DDS thread: "idle", "entered", "running", "returning"
  cbHeld     \* per DDS thread: the object get_entity gave the callback

vars == <<phase, par, topicOf, refs, nextCond, registry, native, above, app, ctor, implicit, fin, cbEnt, cbStep, cbHeld>>

AllThreads == Threads \cup DdsThreads

-----------------------------------------------------------------------------
(* What a constructor takes and what the object keeps. *)

GroupKinds == {"subscriber", "publisher"}
EndpointKinds == {"reader", "writer"}
ConditionKinds == {"readcondition", "querycondition"}

\* The objects a constructor of class k accepts as its first argument.  A
\* condition takes any reader, a BuiltinDataReader too.
ParentKinds(k) ==
  {pk \in {"participant", "subscriber", "publisher", "reader", "builtinreader"} :
     \/ pk = "participant" /\ k \notin {"participant"} \cup ConditionKinds
     \/ pk = "subscriber" /\ k \in {"reader", "builtinreader"}
     \/ pk = "publisher" /\ k = "writer"
     \/ pk \in {"reader", "builtinreader"} /\ k \in ConditionKinds}

\* The classes whose native entities invoke listener callbacks.
CallbackKinds == {"topic", "subscriber", "reader", "writer", "builtinreader"}

\* Mutants of Keepalive: one forgets the topic of an endpoint, one the reader
\* of a condition, one stores the None that get_entity may return, one forgets
\* the subscriber of a built-in reader.
KeepaliveNoTopic(o, reg) ==
  {x \in reg : x = par[o] /\ (Kind[o] \in EndpointKinds => Kind[x] \in GroupKinds)}

KeepaliveNoReader(o, reg) ==
  {x \in reg : x \in {par[o], topicOf[o]} /\ Kind[o] \notin ConditionKinds}

KeepaliveNone(o, reg) == {par[o], topicOf[o]}

KeepaliveNoSubscriber(o, reg) ==
  {x \in reg : x \in {par[o], topicOf[o]} /\ Kind[o] # "builtinreader"}

\* The references the finished object holds on what it was made from.
\* Subscriber, Publisher and Topic keep self.participant; a reader or writer
\* keeps its topic and self.subscriber / self.publisher, which get_entity
\* cannot find (None) when the C library made it implicitly; a condition
\* keeps its reader; WaitSet and GuardCondition keep nothing.  A
\* QueryCondition's filter closure and a BuiltinDataReader's _next_condition
\* refer back to the object itself.
Keepalive(o, reg) ==
  {x \in Obj :
     \/ x = par[o] /\ x \in reg /\ Kind[o] \in {"topic", "subscriber", "publisher"}
     \/ x = par[o] /\ x \in reg /\ Kind[x] \in GroupKinds
        /\ Kind[o] \in EndpointKinds \cup {"builtinreader"}
     \/ x = par[o] /\ Kind[o] \in ConditionKinds
     \/ x = topicOf[o] /\ Kind[o] \in EndpointKinds
     \/ x = o /\ Kind[o] \in {"builtinreader", "querycondition"}}

-----------------------------------------------------------------------------
(* Reference counting. *)

\* A constructor's frame holds the object and the arguments.
FrameRefs(o) == IF o = NoObj THEN {} ELSE {o, par[o], topicOf[o]}

\* What running code references.
Rooted(x) ==
  \/ x \in app
  \/ \E t \in Threads : x \in FrameRefs(ctor[t])
  \/ \E d \in DdsThreads : cbHeld[d] = x

Referenced(x) == Rooted(x) \/ \E y \in Obj : x \in refs[y]

\* The objects that a step leaves without a reference.
Lost == {x \in Obj : phase[x] = "live" /\ ~Referenced(x)'}

\* The objects S (maybe none) enter phase p, and thread t starts to finalize
\* what lost its last reference.
Release(t, S, p) ==
  /\ phase' = [x \in Obj |-> IF x \in S THEN p
                             ELSE IF x \in Lost THEN "finalizing" ELSE phase[x]]
  /\ fin' = [fin EXCEPT ![t] = (@ \cup Lost) \ S]

\* Finalizing happens inside whatever the thread was doing.
NotFinalizing(t) == fin[t] = {}
Idle(t) == ctor[t] = NoObj /\ NotFinalizing(t)

Init ==
  /\ phase = [o \in Obj |-> "unborn"]
  /\ par = [o \in Obj |-> NoObj]
  /\ topicOf = [o \in Obj |-> NoObj]
  /\ refs = [o \in Obj |-> {}]
  /\ nextCond = [o \in Obj |-> NoObj]
  /\ registry = {}
  /\ native = {}
  /\ above = [o \in Obj |-> {}]
  /\ app = {}
  /\ ctor = [t \in Threads |-> NoObj]
  /\ implicit = {}
  /\ fin = [t \in AllThreads |-> {}]
  /\ cbEnt = [d \in DdsThreads |-> NoObj]
  /\ cbStep = [d \in DdsThreads |-> "idle"]
  /\ cbHeld = [d \in DdsThreads |-> NoObj]

-----------------------------------------------------------------------------
(* Constructors. *)

\* The dds_create_* call: the native entity exists, with its listener
\* installed, before Python has registered the object.  The C library refuses
\* a parent or topic that is gone, and a topic of another participant.
CreateNative(t, o, p, tp) ==
  /\ phase[o] = "unborn"
  /\ IF p = NoObj THEN Kind[o] = "participant"
                  ELSE p \in native /\ Kind[p] \in ParentKinds(Kind[o])
  /\ IF tp = NoObj THEN Kind[o] \notin EndpointKinds
                   ELSE /\ Kind[o] \in EndpointKinds
                        /\ Kind[tp] = "topic" /\ tp \in native
                        /\ above[tp] \subseteq {p} \cup above[p]
  /\ phase' = [phase EXCEPT ![o] = "created"]
  /\ par' = [par EXCEPT ![o] = p]
  /\ topicOf' = [topicOf EXCEPT ![o] = tp]
  /\ native' = native \cup {o}
  /\ above' = [above EXCEPT ![o] = IF p = NoObj THEN {} ELSE {p} \cup above[p]]
  /\ ctor' = [ctor EXCEPT ![t] = o]
  /\ UNCHANGED <<refs, nextCond, registry, app, fin, cbEnt, cbStep, cbHeld>>

\* The program calls a constructor with objects it holds.
Construct(t) ==
  /\ Idle(t)
  /\ \E o \in Obj, p \in app \cup {NoObj}, tp \in app \cup {NoObj} :
       CreateNative(t, o, p, tp)
  /\ UNCHANGED implicit

\* read_next / take_next: the first call makes a condition of its own.
NextCondition(t) ==
  /\ Idle(t)
  /\ \E r \in app, c \in Obj :
       /\ Kind[r] = "reader" /\ nextCond[r] = NoObj
       /\ Kind[c] = "readcondition"
       /\ CreateNative(t, c, r, NoObj)
       /\ implicit' = implicit \cup {c}

\* Mutant of Register: the object is never put in Entity._entities.
RegisterUnlisted(t) ==
  /\ NotFinalizing(t)
  /\ ctor[t] \in Obj /\ phase[ctor[t]] = "created"
  /\ phase' = [phase EXCEPT ![ctor[t]] = "registered"]
  /\ UNCHANGED <<par, topicOf, refs, nextCond, registry, native, above, app, ctor, implicit, fin, cbEnt, cbStep, cbHeld>>

\* Entity.__init__: self._entities[ref] = self, then self._listener = listener.
Register(t) ==
  /\ NotFinalizing(t)
  /\ ctor[t] \in Obj /\ phase[ctor[t]] = "created"
  /\ phase' = [phase EXCEPT ![ctor[t]] = "registered"]
  /\ registry' = registry \cup {ctor[t]}
  /\ UNCHANGED <<par, topicOf, refs, nextCond, native, above, app, ctor,
                 implicit, fin, cbEnt, cbStep, cbHeld>>

\* The rest of the constructor fills the keepalive fields and returns; the
\* frame lets go of the arguments.  read_next stores the condition in
\* _next_condition, where it may replace one another thread just stored.
FinishConstruct(t) ==
  /\ NotFinalizing(t)
  /\ ctor[t] \in Obj /\ phase[ctor[t]] = "registered"
  /\ UNCHANGED <<par, topicOf, registry, native, above, implicit, cbEnt,
                 cbStep, cbHeld>>
  /\ ctor' = [ctor EXCEPT ![t] = NoObj]
  /\ LET o == ctor[t]
         r == par[o]
         kept == [refs EXCEPT ![o] = Keepalive(o, registry)]
     IN  /\ IF o \in implicit
            THEN /\ nextCond' = [nextCond EXCEPT ![r] = o]
                 /\ refs' = [kept EXCEPT ![r] = (@ \ {nextCond[r]}) \cup {o}]
                 /\ UNCHANGED app
            ELSE /\ app' = app \cup {o}
                 /\ refs' = kept
                 /\ UNCHANGED nextCond
         /\ Release(t, {o}, "live")

-----------------------------------------------------------------------------
(* What the program does with the objects it holds. *)

\* WaitSet.attach keeps the entity in self.attached; detach forgets it.
Attach(t) ==
  /\ Idle(t)
  /\ \E w \in app, e \in app :
       /\ Kind[w] = "waitset" /\ e \notin refs[w]
       /\ w \in native /\ e \in native
       /\ refs' = [refs EXCEPT ![w] = @ \cup {e}]
  /\ UNCHANGED <<phase, par, topicOf, nextCond, registry, native, above, app, ctor, implicit, fin, cbEnt, cbStep, cbHeld>>

Detach(t) ==
  /\ Idle(t)
  /\ UNCHANGED <<par, topicOf, nextCond, registry, native, above, app, ctor,
                 implicit, cbEnt, cbStep, cbHeld>>
  /\ \E w \in app : \E e \in refs[w] :
       /\ Kind[w] = "waitset" /\ w \in native /\ e \in native
       /\ refs' = [refs EXCEPT ![w] = @ \ {e}]
  /\ Release(t, {}, "dead")

\* Topic.set_topic_filter: the closure stored in _topic_filter captures self.
SetTopicFilter(t) ==
  /\ Idle(t)
  /\ \E o \in app :
       /\ Kind[o] = "topic" /\ o \notin refs[o]
       /\ refs' = [refs EXCEPT ![o] = @ \cup {o}]
  /\ UNCHANGED <<phase, par, topicOf, nextCond, registry, native, above, app, ctor, implicit, fin, cbEnt, cbStep, cbHeld>>

\* get_children finds what was made from o, except endpoints made from a
\* participant: those hang below an implicit subscriber or publisher.
Children(o) ==
  {x \in native : par[x] = o /\ (Kind[o] = "participant" =>
                    Kind[x] \notin EndpointKinds \cup {"builtinreader"})}

\* get_parent, get_participant, get_subscriber..., get_children: the program
\* gets an object back from the registry.  (An object another thread is just
\* finalizing is left out: see the README.)
LookUp(t) ==
  /\ Idle(t)
  /\ \E o \in app, x \in registry \ app :
       /\ phase[x] = "live"
       /\ {o, x} \subseteq native
       /\ x \in above[o] \cup Children(o)
       /\ app' = app \cup {x}
  /\ UNCHANGED <<phase, par, topicOf, refs, nextCond, registry, native, above,
                 ctor, implicit, fin, cbEnt, cbStep, cbHeld>>

\* The program drops its last own reference to an object.
Drop(t) ==
  /\ Idle(t)
  /\ UNCHANGED <<par, topicOf, refs, nextCond, registry, native, above, ctor,
                 implicit, cbEnt, cbStep, cbHeld>>
  /\ \E o \in app : app' = app \ {o}
  /\ Release(t, {}, "dead")

-----------------------------------------------------------------------------
(* Entity.__del__ by reference counting, and the collector. *)

\* The native entity o and everything below it.
Subtree(o) == {x \in native : x = o \/ o \in above[x]}

\* Mutant of BeginDelete: the early return of __del__ has its test inverted.
BeginDeleteInverted(t) ==
  /\ \E o \in fin[t] :
       /\ phase[o] = "finalizing" /\ o \notin registry
       /\ phase' = [phase EXCEPT ![o] = "deleting"]
  /\ UNCHANGED <<par, topicOf, refs, nextCond, registry, native, above, app, ctor, implicit, fin, cbEnt, cbStep, cbHeld>>

\* __del__ finds the object registered, takes it out and calls dds_delete.
\* (The interpreter lock is released for the call.)
BeginDelete(t) ==
  /\ \E o \in fin[t] :
       /\ phase[o] = "finalizing" /\ o \in registry
       /\ registry' = registry \ {o}
       /\ phase' = [phase EXCEPT ![o] = "deleting"]
  /\ UNCHANGED <<par, topicOf, refs, nextCond, native, above, app, ctor,
                 implicit, fin, cbEnt, cbStep, cbHeld>>

\* dds_delete returns once no callback runs below o; then the object is freed
\* and releases what its fields reference.
EndDelete(t) ==
  /\ UNCHANGED <<par, topicOf, registry, above, app, ctor, implicit, cbEnt,
                 cbStep, cbHeld>>
  /\ \E o \in fin[t] :
       /\ phase[o] = "deleting"
       /\ \A d \in DdsThreads : cbEnt[d] \notin Subtree(o)
       /\ native' = native \ Subtree(o)
       /\ nextCond' = [nextCond EXCEPT ![o] = NoObj]
       /\ refs' = [refs EXCEPT ![o] = {}]
       /\ Release(t, {o}, "dead")

\* A closed set: nothing outside G references into it.  The collector works by
\* generation, so it may take any such set, not only the largest.
Closed(G) ==
  /\ G # {}
  /\ \A x \in G : /\ phase[x] = "live"
                  /\ ~Rooted(x)
                  /\ \A y \in Obj \ G : x \notin refs[y]

\* The cyclic collector clears the weak references to G, so that __del__ finds
\* `self._ref not in self._entities` and returns without dds_delete; then the
\* objects are gone.  Objects outside G that only G referenced are released in
\* the usual way.
Collect(t) ==
  /\ UNCHANGED <<par, topicOf, native, above, app, ctor, implicit, cbEnt,
                 cbStep, cbHeld>>
  /\ \E G \in SUBSET {o \in Obj : phase[o] = "live"} :
       /\ Closed(G)
       /\ registry' = registry \ G
       /\ nextCond' = [x \in Obj |-> IF x \in G THEN NoObj ELSE nextCond[x]]
       /\ refs' = [x \in Obj |-> IF x \in G THEN {} ELSE refs[x]]
       /\ Release(t, G, "dead")

-----------------------------------------------------------------------------
(* Listener callbacks, on a DDS receive thread. *)

\* The C library calls the listener of the entity or of one of its ancestors.
EnterCallback(d) ==
  /\ cbStep[d] = "idle"
  /\ \E o \in native :
       /\ Kind[o] \in CallbackKinds
       /\ ({o} \cup above[o]) \cap Listened # {}
       /\ \A x \in {o} \cup above[o] : phase[x] # "deleting"
       /\ cbEnt' = [cbEnt EXCEPT ![d] = o]
  /\ cbStep' = [cbStep EXCEPT ![d] = "entered"]
  /\ UNCHANGED <<phase, par, topicOf, refs, nextCond, registry, native, above,
                 app, ctor, implicit, fin, cbHeld>>

\* `call` passes Entity.get_entity(handle) to the user's function: the
\* registered object, or None.
ResolveEntity(d) ==
  /\ cbStep[d] = "entered"
  /\ cbHeld' = [cbHeld EXCEPT ![d] = IF cbEnt[d] \in registry THEN cbEnt[d] ELSE NoObj]
  /\ cbStep' = [cbStep EXCEPT ![d] = "running"]
  /\ UNCHANGED <<phase, par, topicOf, refs, nextCond, registry, native, above,
                 app, ctor, implicit, fin, cbEnt>>

\* The user's function returns and its argument is released, still inside the
\* callback.
LeaveFunction(d) ==
  /\ cbStep[d] = "running" /\ NotFinalizing(d)
  /\ cbStep' = [cbStep EXCEPT ![d] = "returning"]
  /\ cbHeld' = [cbHeld EXCEPT ![d] = NoObj]
  /\ UNCHANGED <<par, topicOf, refs, nextCond, registry, native, above, app,
                 ctor, implicit, cbEnt>>
  /\ Release(d, {}, "dead")

LeaveCallback(d) ==
  /\ cbStep[d] = "returning" /\ NotFinalizing(d)
  /\ cbStep' = [cbStep EXCEPT ![d] = "idle"]
  /\ cbEnt' = [cbEnt EXCEPT ![d] = NoObj]
  /\ UNCHANGED <<phase, par, topicOf, refs, nextCond, registry, native, above,
                 app, ctor, implicit, fin, cbHeld>>

-----------------------------------------------------------------------------
Next ==
  \/ \E t \in Threads : \/ Construct(t) \/ NextCondition(t)
                        \/ Register(t) \/ FinishConstruct(t)
                        \/ Attach(t) \/ Detach(t) \/ SetTopicFilter(t)
                        \/ LookUp(t) \/ Drop(t)
  \/ \E t \in AllThreads : BeginDelete(t) \/ EndDelete(t)
  \/ \E t \in Threads : Collect(t)
  \/ \E d \in DdsThreads : cbStep[d] # "idle" /\ Collect(d)
  \/ \E d \in DdsThreads : \/ EnterCallback(d) \/ ResolveEntity(d)
                           \/ LeaveFunction(d) \/ LeaveCallback(d)

\* Threads that are inside a constructor, a destructor or a callback go on;
\* what the program decides to do, and when the collector runs, is free.
Fairness ==
  /\ \A t \in Threads : WF_vars(Register(t)) /\ WF_vars(FinishConstruct(t))
  /\ \A t \in AllThreads : WF_vars(BeginDelete(t)) /\ WF_vars(EndDelete(t))
  /\ \A d \in DdsThreads : /\ WF_vars(ResolveEntity(d))
                           /\ WF_vars(LeaveFunction(d))
                           /\ WF_vars(LeaveCallback(d))

Spec == Init /\ [][Next]_vars
FairSpec == Spec /\ Fairness

-----------------------------------------------------------------------------
(* Properties. *)

TypeOK ==
  /\ phase \in [Obj -> Phases]
  /\ par \in [Obj -> Obj \cup {NoObj}]
  /\ topicOf \in [Obj -> Obj \cup {NoObj}]
  /\ refs \in [Obj -> SUBSET Obj]
  /\ nextCond \in [Obj -> Obj \cup {NoObj}]
  /\ registry \subseteq Obj
  /\ native \subseteq Obj
  /\ above \in [Obj -> SUBSET Obj]
  /\ app \subseteq Obj
  /\ ctor \in [Threads -> Obj \cup {NoObj}]
  /\ implicit \subseteq Obj
  /\ fin \in [AllThreads -> SUBSET Obj]
  /\ cbEnt \in [DdsThreads -> Obj \cup {NoObj}]
  /\ cbStep \in [DdsThreads -> {"idle", "entered", "running", "returning"}]
  /\ cbHeld \in [DdsThreads -> Obj \cup {NoObj}]

\* A BuiltinDataReader made from a participant: its self.subscriber is the
\* implicit one, which get_entity cannot find, so it keeps nothing.
Adrift(o) ==
  Kind[o] = "builtinreader" /\ par[o] # NoObj /\ Kind[par[o]] = "participant"

\* A condition on such a reader.
OnAdrift(o) == par[o] # NoObj /\ Adrift(par[o])

\* The objects that keep what they were made from, up to the participant.
\* WaitSet and GuardCondition do not, nor does what hangs from a participant
\* by an adrift reader: their natives do go away under usable objects.
Tracked ==
  {o \in Obj : Kind[o] \notin {"waitset", "guardcondition"} /\ ~Adrift(o) /\ ~OnAdrift(o)}

\* The native entity of an object the program can still reach is never gone:
\* the keepalive references of the constructors are enough, in whatever order
\* the program, callbacks and the collector drop objects (core.py Entity).
KeepaliveSound == \A o \in Tracked : phase[o] = "live" => o \in native

\* The same promise as a refinement: every step of the binding is a step, or a
\* stutter, of the abstract lifetime contract.
Usable == {o \in Tracked : phase[o] = "live"}
Contract == INSTANCE LinkedLifetime
              WITH Entity <- Obj, usable <- Usable, native <- native
ImplementsContract == Contract!Spec

\* A callback for an entity whose object is complete and not being finalized
\* is given that object, not None (Listener `call` closures, get_entity).
CallbackFindsEntity ==
  [][\A d \in DdsThreads :
       cbStep[d] = "entered" /\ cbStep'[d] = "running" /\ phase[cbEnt[d]] = "live"
         => cbHeld'[d] = cbEnt[d]]_vars

\* A thread is inside dds_delete of an entity whose callback it is itself in.
SelfWait(d) == \E o \in fin[d] : phase[o] = "deleting" /\ cbEnt[d] \in Subtree(o)

\* Once the last reference is gone, dds_delete takes effect, unless a callback
\* is deleting the entity it was called for (Entity.__del__).
DeletionCompletes ==
  \A o \in Obj : phase[o] = "finalizing"
                   ~> (o \notin native \/ \E d \in DdsThreads : SelfWait(d))

\* core.py:128 says the native entity's lifetime is linked to the object's: no
\* native entity is left once its object is gone.
NoOrphan == \A o \in native : phase[o] # "dead"

-----------------------------------------------------------------------------
(* The inductive invariant behind KeepaliveSound. *)

\* A field never references an object that is being finalized or is gone.
RefsAreLive == \A o \in Obj : \A x \in refs[o] : phase[x] = "live"

\* The program's variables reference usable objects.
AppIsLive == \A o \in app : phase[o] = "live"

\* A usable object is in Entity._entities, so that self.participant,
\* self.subscriber and self.publisher find it in a constructor.
LiveIsRegistered == \A o \in Obj : phase[o] \in {"registered", "live"} => o \in registry

\* An object under construction has one constructor, arguments that its frame
\* keeps alive and, unless it is a condition on an adrift reader, its native
\* entity.
FramesSound ==
  \A t \in Threads : ctor[t] # NoObj =>
    /\ phase[ctor[t]] \in {"created", "registered"}
    /\ ~OnAdrift(ctor[t]) => ctor[t] \in native
    /\ par[ctor[t]] # NoObj => phase[par[ctor[t]]] = "live"
    /\ topicOf[ctor[t]] # NoObj => phase[topicOf[ctor[t]]] = "live"
    /\ \A u \in Threads : ctor[u] = ctor[t] => u = t

\* Where a native entity hangs follows from what it was constructed from.
Provenance ==
  \A o \in Obj : phase[o] # "unborn" =>
    /\ par[o] = NoObj => Kind[o] = "participant" /\ above[o] = {}
    /\ par[o] # NoObj => /\ phase[par[o]] # "unborn"
                         /\ Kind[par[o]] \in ParentKinds(Kind[o])
                         /\ above[o] = {par[o]} \cup above[par[o]]
    /\ Kind[o] \in EndpointKinds =>
         /\ topicOf[o] # NoObj /\ phase[topicOf[o]] # "unborn"
         /\ Kind[topicOf[o]] = "topic"
         /\ above[topicOf[o]] \subseteq above[o]

\* A usable object still holds its keepalive references.
KeepaliveHeld ==
  \A o \in Obj : phase[o] = "live" =>
    /\ Kind[o] \in {"topic", "subscriber", "publisher"} \cup ConditionKinds
         => par[o] \in refs[o]
    /\ Kind[o] \in EndpointKinds => topicOf[o] \in refs[o]
    /\ Kind[o] \in EndpointKinds \cup {"builtinreader"} /\ Kind[par[o]] \in GroupKinds
         => par[o] \in refs[o]

\* _next_condition is a read condition, and read_next makes nothing else.
NextIsCondition ==
  /\ \A r \in Obj : nextCond[r] # NoObj => Kind[nextCond[r]] = "readcondition"
  /\ \A c \in implicit : Kind[c] = "readcondition" /\ phase[c] # "unborn"

\* The inductive strengthening of KeepaliveSound: what a usable object needs is
\* referenced, what is referenced is usable, and only natives of unusable
\* objects are deleted.
LifetimeInv ==
  /\ TypeOK
  /\ RefsAreLive
  /\ AppIsLive
  /\ LiveIsRegistered
  /\ FramesSound
  /\ Provenance
  /\ KeepaliveHeld
  /\ NextIsCondition
  /\ KeepaliveSound
=============================================================================
