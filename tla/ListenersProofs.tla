-------------------------- MODULE ListenersProofs --------------------------
(***************************************************************************)
(* The invariants of Listeners for any number of listeners, entities,      *)
(* callbacks, functions and receive threads.                               *)
(***************************************************************************)
EXTENDS Listeners, TLAPS

(***************************************************************************)
(* The inductive invariant.                                                *)
(***************************************************************************)
\* The program reaches no listener set_listener made, an entity keeps the one it
\* retains alive, and no other entity retains the same copy.
OwnershipSound ==
  /\ known \cap owned = {}
  /\ \A e \in Ent : retained[e] # NoListener => e \in open /\ retained[e] \in made \ gone
  /\ \A e, f \in Ent : retained[e] \in owned /\ retained[f] = retained[e] => e = f

\* The three layers of a copy agree: an attribute is set where there is a function
\* object, and the C field points to it.
CopiesSound ==
  \A l \in owned : /\ struct[l] = object[l]
                   /\ \A ev \in Event : attr[l][ev] = NoFn <=> object[l][ev] = 0

\* What the program thread is in the middle of: a merge of two listeners it knows,
\* or a set_listener on the listener its entity retains.
TaskSound ==
  /\ task.op = "idle" => task = NoTask
  /\ task.op = "copy" => /\ task.src \in known /\ task.src # task.dst
                         /\ task.dst # NoListener
                         /\ task.todo \subseteq Functors(task.src)
                         /\ task.ent = NoEnt => task.dst \in known
  /\ task.op = "install" => task.ent # NoEnt /\ task.todo = {}
  /\ task.ent # NoEnt => task.ent \in open /\ task.dst = retained[task.ent]

\* Between two calls of set_listener C has installed what the entity's listener
\* says, if that is a copy, nothing of another listener, and nothing without one.
InstalledSound ==
  \A e \in Ent : task.ent # e =>
    /\ retained[e] \in owned => installed[e] = Snapshot(retained[e])
    /\ \A ev \in Event : installed[e][ev] # Unset =>
         retained[e] # NoListener /\ installed[e][ev].lst = retained[e]

\* A callback that has started was installed, and dds_set_listener waits for it.
CallsSound ==
  \A d \in DdsThreads : cb[d].step = "entered" =>
    /\ cb[d].ent \in open
    /\ cb[d].fn = installed[cb[d].ent][cb[d].ev]
    /\ cb[d].fn # Unset

\* set_listener has copied what is not left to do, and the rest comes from its
\* argument.
GoalSound ==
  task.ent # NoEnt /\ task.src # NoListener /\ task.dst \in owned =>
    \A ev \in Event :
      task.goal[ev] = IF ev \in task.todo THEN attr[task.src][ev] ELSE attr[task.dst][ev]

ListenersInv ==
  /\ TypeOK /\ OwnershipSound /\ CopiesSound /\ TaskSound
  /\ InstalledSound /\ CallsSound /\ GoalSound

(***************************************************************************)
(* Each action preserves it.                                               *)
(***************************************************************************)
LEMMA InitHolds == Init => ListenersInv
BY ListenersAssumption DEF ListenersAssumption, Init, ListenersInv, TypeOK, OwnershipSound, CopiesSound, TaskSound, InstalledSound, CallsSound, GoalSound, Idle, NoTask, NoCall, Unset, FnObject, FnOrNone, Snapshot, Functors, Dispatch, listenerVars, entityVars

\* What dds_set_listener copies has the type of what C calls.
LEMMA SnapshotType ==
  ASSUME TypeOK, NEW l \in Lst \cup {NoListener}
  PROVE  Snapshot(l) \in [Event -> FnObject \cup {Unset}]
BY ListenersAssumption DEF ListenersAssumption, TypeOK, Snapshot, FnObject, Unset

LEMMA NewListenerKeeps ==
  ASSUME ListenersInv, NewListener
  PROVE  ListenersInv'
<1> USE ListenersAssumption DEF ListenersAssumption, ListenersInv
<1>1. TypeOK'
  BY NewListener DEF NewListener, Construct, Idle, listenerVars, entityVars, TypeOK, FnObject, FnOrNone, NoTask, NoCall, Unset
<1>2. OwnershipSound'
  BY NewListener DEF NewListener, Construct, Idle, listenerVars, entityVars, TypeOK, OwnershipSound, TaskSound, NoTask
<1>3. CopiesSound'
  BY NewListener DEF NewListener, Construct, Idle, listenerVars, entityVars, TypeOK, OwnershipSound, CopiesSound, TaskSound, Functors, NoTask, FnOrNone
<1>4. TaskSound'
  BY NewListener DEF NewListener, Construct, Idle, listenerVars, entityVars, TypeOK, OwnershipSound, TaskSound, NoTask, Functors
<1>5. InstalledSound'
  BY NewListener DEF NewListener, Construct, Idle, listenerVars, entityVars, TypeOK, OwnershipSound, TaskSound, InstalledSound, Snapshot, Unset, NoTask, FnObject
<1>6. CallsSound'
  BY NewListener DEF NewListener, Construct, Idle, listenerVars, entityVars, TypeOK, OwnershipSound, CallsSound, Unset, NoCall
<1>7. GoalSound'
  BY NewListener DEF NewListener, Construct, Idle, listenerVars, entityVars, TypeOK, OwnershipSound, CopiesSound, TaskSound, InstalledSound, GoalSound, Functors, NoTask, Dispatch, Snapshot, Unset
<1> QED
  BY <1>1, <1>2, <1>3, <1>4, <1>5, <1>6, <1>7

LEMMA SetOnKeeps ==
  ASSUME ListenersInv, SetOn
  PROVE  ListenersInv'
<1> USE ListenersAssumption DEF ListenersAssumption, ListenersInv
<1>a. PICK l \in known, ev \in Event :
        /\ UnsetFn(l, ev) \/ \E f \in Fn : Set(l, ev, f)
        /\ task = NoTask
        /\ UNCHANGED <<made, gone, known, owned, open, retained, installed, task, cb>>
  BY DEF SetOn, entityVars, Idle
<1>1. TypeOK'
  <2>1. CASE UnsetFn(l, ev)
    BY <1>a, <2>1 DEF UnsetFn, Cleared, TypeOK, FnObject, FnOrNone, NoTask, NoCall, Unset
  <2>2. ASSUME NEW f \in Fn, Set(l, ev, f) PROVE TypeOK'
    BY <1>a, <2>2 DEF Set, TypeOK, FnObject, FnOrNone, NoTask, NoCall, Unset
  <2> QED
    BY <1>a, <2>1, <2>2
<1>2. OwnershipSound'
  BY <1>a DEF UnsetFn, Cleared, Set, TypeOK, OwnershipSound, TaskSound, NoTask
<1>3. CopiesSound'
  <2>1. CASE UnsetFn(l, ev)
    BY <1>a, <2>1 DEF UnsetFn, Cleared, TypeOK, OwnershipSound, CopiesSound, TaskSound, Functors, NoTask, FnOrNone
  <2>2. ASSUME NEW f \in Fn, Set(l, ev, f) PROVE CopiesSound'
    BY <1>a, <2>2 DEF Set, TypeOK, OwnershipSound, CopiesSound, TaskSound, Functors, NoTask, FnOrNone
  <2> QED
    BY <1>a, <2>1, <2>2
<1>4. TaskSound'
  BY <1>a DEF UnsetFn, Cleared, Set, TypeOK, OwnershipSound, TaskSound, NoTask, Functors
<1>5. InstalledSound'
  <2>1. CASE UnsetFn(l, ev)
    BY <1>a, <2>1 DEF UnsetFn, Cleared, TypeOK, OwnershipSound, TaskSound, InstalledSound, Snapshot, Unset, NoTask, FnObject
  <2>2. ASSUME NEW f \in Fn, Set(l, ev, f) PROVE InstalledSound'
    BY <1>a, <2>2 DEF Set, TypeOK, OwnershipSound, TaskSound, InstalledSound, Snapshot, Unset, NoTask, FnObject
  <2> QED
    BY <1>a, <2>1, <2>2
<1>6. CallsSound'
  BY <1>a DEF UnsetFn, Cleared, Set, TypeOK, OwnershipSound, CallsSound, Unset, NoCall
<1>7. GoalSound'
  BY <1>a DEF UnsetFn, Cleared, Set, TypeOK, OwnershipSound, CopiesSound, TaskSound, InstalledSound, GoalSound, Functors, NoTask, Dispatch, Snapshot, Unset
<1> QED
  BY <1>1, <1>2, <1>3, <1>4, <1>5, <1>6, <1>7

LEMMA ResetKeeps ==
  ASSUME ListenersInv, Reset
  PROVE  ListenersInv'
<1> USE ListenersAssumption DEF ListenersAssumption, ListenersInv
<1>1. TypeOK'
  BY Reset DEF Reset, Idle, listenerVars, entityVars, TypeOK, FnObject, FnOrNone, NoTask, NoCall, Unset
<1>2. OwnershipSound'
  BY Reset DEF Reset, Idle, listenerVars, entityVars, TypeOK, OwnershipSound, TaskSound, NoTask
<1>3. CopiesSound'
  BY Reset DEF Reset, Idle, listenerVars, entityVars, TypeOK, OwnershipSound, CopiesSound, TaskSound, Functors, NoTask, FnOrNone
<1>4. TaskSound'
  BY Reset DEF Reset, Idle, listenerVars, entityVars, TypeOK, OwnershipSound, TaskSound, NoTask, Functors
<1>5. InstalledSound'
  BY Reset DEF Reset, Idle, listenerVars, entityVars, TypeOK, OwnershipSound, TaskSound, InstalledSound, Snapshot, Unset, NoTask, FnObject
<1>6. CallsSound'
  BY Reset DEF Reset, Idle, listenerVars, entityVars, TypeOK, OwnershipSound, CallsSound, Unset, NoCall
<1>7. GoalSound'
  BY Reset DEF Reset, Idle, listenerVars, entityVars, TypeOK, OwnershipSound, CopiesSound, TaskSound, InstalledSound, GoalSound, Functors, NoTask, Dispatch, Snapshot, Unset
<1> QED
  BY <1>1, <1>2, <1>3, <1>4, <1>5, <1>6, <1>7

LEMMA BeginMergeKeeps ==
  ASSUME ListenersInv, BeginMerge
  PROVE  ListenersInv'
<1> USE ListenersAssumption DEF ListenersAssumption, ListenersInv
<1>a. PICK l \in known, k \in known :
        /\ k # l
        /\ task' = [op |-> "copy", ent |-> NoEnt, src |-> k, dst |-> l, todo |-> Functors(k),
                    goal |-> [ev \in Event |-> NoFn]]
        /\ task = NoTask
        /\ UNCHANGED <<made, gone, known, owned, attr, object, struct, open, retained, installed, cb>>
  BY DEF BeginMerge, NoTask, Idle, listenerVars, entityVars
<1>1. TypeOK'
  BY <1>a DEF TypeOK, FnOrNone, Functors
<1>2. OwnershipSound'
  BY <1>a DEF TypeOK, OwnershipSound, TaskSound, NoTask
<1>3. CopiesSound'
  BY <1>a DEF TypeOK, OwnershipSound, CopiesSound, TaskSound, Functors, NoTask, FnOrNone
<1>4. TaskSound'
  BY <1>a DEF TypeOK, OwnershipSound, TaskSound, NoTask, Functors
<1>5. InstalledSound'
  BY <1>a DEF TypeOK, OwnershipSound, TaskSound, InstalledSound, Snapshot, Unset, NoTask, FnObject
<1>6. CallsSound'
  BY <1>a DEF TypeOK, OwnershipSound, CallsSound, Unset, NoCall
<1>7. GoalSound'
  BY <1>a DEF TypeOK, OwnershipSound, CopiesSound, TaskSound, InstalledSound, GoalSound, Functors, NoTask, Dispatch, Snapshot, Unset
<1> QED
  BY <1>1, <1>2, <1>3, <1>4, <1>5, <1>6, <1>7

LEMMA CopyOneKeeps ==
  ASSUME ListenersInv, CopyOne
  PROVE  ListenersInv'
<1> USE ListenersAssumption DEF ListenersAssumption, ListenersInv
<1>a. PICK ev \in task.todo :
        /\ task.op = "copy"
        /\ Set(task.dst, ev, attr[task.src][ev])
        /\ task' = [task EXCEPT !.todo = @ \ {ev}]
        /\ UNCHANGED <<made, gone, known, owned, open, retained, installed, cb>>
  BY DEF CopyOne, entityVars
<1>b. task.dst \in Lst /\ task.src \in Lst /\ ev \in Event /\ attr[task.src][ev] \in Fn
  BY <1>a DEF TypeOK, TaskSound, Functors, FnOrNone
<1>1. TypeOK'
  <2>1. attr' \in [Lst -> [Event -> FnOrNone]]
    BY <1>a, <1>b DEF Set, TypeOK, FnOrNone
  <2>2. object[task.dst][ev] \in 0 .. MaxSets /\ object[task.dst][ev] < MaxSets
    BY <1>a, <1>b DEF Set, TypeOK
  <2>3. object[task.dst][ev] + 1 \in 0 .. MaxSets
    BY <2>2
  <2>4. object' \in [Lst -> [Event -> 0 .. MaxSets]]
    BY <1>a, <1>b, <2>3 DEF Set, TypeOK
  <2>5. struct' \in [Lst -> [Event -> 0 .. MaxSets]]
    BY <1>a, <1>b, <2>3 DEF Set, TypeOK
  <2>6. task' \in [op : {"idle", "copy", "install"}, ent : Ent \cup {NoEnt},
               src : Lst \cup {NoListener}, dst : Lst \cup {NoListener},
               todo : SUBSET Event, goal : [Event -> FnOrNone]]
    BY <1>a DEF TypeOK
  <2> QED
    BY <1>a, <2>1, <2>4, <2>5, <2>6 DEF TypeOK
<1>2. OwnershipSound'
  BY <1>a, <1>b DEF Set, TypeOK, OwnershipSound, TaskSound, NoTask
<1>3. CopiesSound'
  <2> SUFFICES ASSUME NEW l \in owned
               PROVE  /\ struct'[l] = object'[l]
                      /\ \A x \in Event : attr'[l][x] = NoFn <=> object'[l][x] = 0
    BY <1>a DEF CopiesSound
  <2>1. CASE l # task.dst
    BY <1>a, <1>b, <2>1 DEF Set, TypeOK, CopiesSound
  <2>2. CASE l = task.dst
    <3>1. struct[l] = object[l] /\ object[l] \in [Event -> 0 .. MaxSets]
      BY <1>b, <2>2 DEF TypeOK, CopiesSound
    <3>2. object'[l] = [object[l] EXCEPT ![ev] = @ + 1] /\ struct'[l] = [struct[l] EXCEPT ![ev] = object[l][ev] + 1]
      BY <1>a, <1>b, <2>2 DEF Set, TypeOK
    <3>3. attr'[l] = [attr[l] EXCEPT ![ev] = attr[task.src][ev]] /\ attr[l] \in [Event -> FnOrNone]
      BY <1>a, <1>b, <2>2 DEF Set, TypeOK
    <3> QED
      BY <1>b, <2>2, <3>1, <3>2, <3>3 DEF CopiesSound
  <2> QED
    BY <2>1, <2>2
<1>4. TaskSound'
  BY <1>a, <1>b DEF Set, TypeOK, OwnershipSound, TaskSound, NoTask, Functors
<1>5. InstalledSound'
  BY <1>a, <1>b DEF Set, TypeOK, OwnershipSound, TaskSound, InstalledSound, Snapshot, Unset, NoTask, FnObject
<1>6. CallsSound'
  BY <1>a, <1>b DEF Set, TypeOK, OwnershipSound, CallsSound, Unset, NoCall
<1>7. GoalSound'
  BY <1>a, <1>b DEF Set, TypeOK, OwnershipSound, CopiesSound, TaskSound, InstalledSound, GoalSound, Functors, NoTask, Dispatch, Snapshot, Unset
<1> QED
  BY <1>1, <1>2, <1>3, <1>4, <1>5, <1>6, <1>7

LEMMA EndCopyKeeps ==
  ASSUME ListenersInv, EndCopy
  PROVE  ListenersInv'
<1> USE ListenersAssumption DEF ListenersAssumption, ListenersInv
<1>1. TypeOK'
  <2>1. CASE task.ent = NoEnt
    BY EndCopy, <2>1 DEF EndCopy, TypeOK, FnOrNone, NoTask, listenerVars, entityVars
  <2>2. CASE task.ent # NoEnt
    <3> DEFINE T == [op : {"idle", "copy", "install"}, ent : Ent \cup {NoEnt},
                     src : Lst \cup {NoListener}, dst : Lst \cup {NoListener},
                     todo : SUBSET Event, goal : [Event -> FnOrNone]]
    <3>1. /\ task' = [task EXCEPT !.op = "install"]
          /\ UNCHANGED <<listenerVars, entityVars, cb>>
      BY EndCopy, <2>2 DEF EndCopy
    <3>2. \A x \in T : [x EXCEPT !.op = "install"] \in T
      OBVIOUS
    <3>3. task \in T
      BY DEF TypeOK
    <3>4. task' \in T
      BY <3>1, <3>2, <3>3
    <3> QED
      BY <3>1, <3>4 DEF TypeOK, listenerVars, entityVars
  <2> QED
    BY <2>1, <2>2
<1>2. OwnershipSound'
  BY EndCopy DEF EndCopy, Idle, listenerVars, entityVars, TypeOK, OwnershipSound, TaskSound, NoTask
<1>3. CopiesSound'
  BY EndCopy DEF EndCopy, Idle, listenerVars, entityVars, TypeOK, OwnershipSound, CopiesSound, TaskSound, Functors, NoTask, FnOrNone
<1>4. TaskSound'
  BY EndCopy DEF EndCopy, Idle, listenerVars, entityVars, TypeOK, OwnershipSound, TaskSound, NoTask, Functors
<1>5. InstalledSound'
  BY EndCopy DEF EndCopy, Idle, listenerVars, entityVars, TypeOK, OwnershipSound, TaskSound, InstalledSound, Snapshot, Unset, NoTask, FnObject
<1>6. CallsSound'
  BY EndCopy DEF EndCopy, Idle, listenerVars, entityVars, TypeOK, OwnershipSound, CallsSound, Unset, NoCall
<1>7. GoalSound'
  BY EndCopy DEF EndCopy, Idle, listenerVars, entityVars, TypeOK, OwnershipSound, CopiesSound, TaskSound, InstalledSound, GoalSound, Functors, NoTask, Dispatch, Snapshot, Unset
<1> QED
  BY <1>1, <1>2, <1>3, <1>4, <1>5, <1>6, <1>7

LEMMA DropKeeps ==
  ASSUME ListenersInv, Drop
  PROVE  ListenersInv'
<1> USE ListenersAssumption DEF ListenersAssumption, ListenersInv
<1>1. TypeOK'
  BY Drop DEF Drop, Idle, listenerVars, entityVars, TypeOK, FnObject, FnOrNone, NoTask, NoCall, Unset
<1>2. OwnershipSound'
  BY Drop DEF Drop, Idle, listenerVars, entityVars, TypeOK, OwnershipSound, TaskSound, NoTask
<1>3. CopiesSound'
  BY Drop DEF Drop, Idle, listenerVars, entityVars, TypeOK, OwnershipSound, CopiesSound, TaskSound, Functors, NoTask, FnOrNone
<1>4. TaskSound'
  BY Drop DEF Drop, Idle, listenerVars, entityVars, TypeOK, OwnershipSound, TaskSound, NoTask, Functors
<1>5. InstalledSound'
  BY Drop DEF Drop, Idle, listenerVars, entityVars, TypeOK, OwnershipSound, TaskSound, InstalledSound, Snapshot, Unset, NoTask, FnObject
<1>6. CallsSound'
  BY Drop DEF Drop, Idle, listenerVars, entityVars, TypeOK, OwnershipSound, CallsSound, Unset, NoCall
<1>7. GoalSound'
  BY Drop DEF Drop, Idle, listenerVars, entityVars, TypeOK, OwnershipSound, CopiesSound, TaskSound, InstalledSound, GoalSound, Functors, NoTask, Dispatch, Snapshot, Unset
<1> QED
  BY <1>1, <1>2, <1>3, <1>4, <1>5, <1>6, <1>7

LEMMA CollectKeeps ==
  ASSUME ListenersInv, Collect
  PROVE  ListenersInv'
<1> USE ListenersAssumption DEF ListenersAssumption, ListenersInv
<1>1. TypeOK'
  BY Collect DEF Collect, Idle, listenerVars, entityVars, TypeOK, FnObject, FnOrNone, NoTask, NoCall, Unset
<1>2. OwnershipSound'
  BY Collect DEF Collect, Idle, listenerVars, entityVars, TypeOK, OwnershipSound, TaskSound, NoTask
<1>3. CopiesSound'
  BY Collect DEF Collect, Idle, listenerVars, entityVars, TypeOK, OwnershipSound, CopiesSound, TaskSound, Functors, NoTask, FnOrNone
<1>4. TaskSound'
  BY Collect DEF Collect, Idle, listenerVars, entityVars, TypeOK, OwnershipSound, TaskSound, NoTask, Functors
<1>5. InstalledSound'
  BY Collect DEF Collect, Idle, listenerVars, entityVars, TypeOK, OwnershipSound, TaskSound, InstalledSound, Snapshot, Unset, NoTask, FnObject
<1>6. CallsSound'
  BY Collect DEF Collect, Idle, listenerVars, entityVars, TypeOK, OwnershipSound, CallsSound, Unset, NoCall
<1>7. GoalSound'
  BY Collect DEF Collect, Idle, listenerVars, entityVars, TypeOK, OwnershipSound, CopiesSound, TaskSound, InstalledSound, GoalSound, Functors, NoTask, Dispatch, Snapshot, Unset
<1> QED
  BY <1>1, <1>2, <1>3, <1>4, <1>5, <1>6, <1>7

LEMMA CreateEntityKeeps ==
  ASSUME ListenersInv, CreateEntity
  PROVE  ListenersInv'
<1> USE ListenersAssumption DEF ListenersAssumption, ListenersInv
<1>a. PICK e \in Ent \ open, l \in known \cup {NoListener} :
        /\ open' = open \cup {e}
        /\ retained' = [retained EXCEPT ![e] = l]
        /\ installed' = [installed EXCEPT ![e] = Snapshot(l)]
        /\ task = NoTask
        /\ UNCHANGED <<made, gone, known, owned, attr, object, struct, task, cb>>
  BY DEF CreateEntity, Idle, listenerVars
<1>1. TypeOK'
  <2>1. Snapshot(l) \in [Event -> FnObject \cup {Unset}]
    BY <1>a, SnapshotType DEF TypeOK
  <2> QED
    BY <1>a, <2>1 DEF TypeOK, NoTask
<1>2. OwnershipSound'
  BY <1>a DEF TypeOK, OwnershipSound, TaskSound, NoTask
<1>3. CopiesSound'
  BY <1>a DEF TypeOK, OwnershipSound, CopiesSound, TaskSound, Functors, NoTask, FnOrNone
<1>4. TaskSound'
  BY <1>a DEF TypeOK, OwnershipSound, TaskSound, NoTask, Functors
<1>5. InstalledSound'
  BY <1>a DEF TypeOK, OwnershipSound, TaskSound, InstalledSound, Snapshot, Unset, NoTask, FnObject
<1>6. CallsSound'
  BY <1>a DEF TypeOK, OwnershipSound, CallsSound, Unset, NoCall
<1>7. GoalSound'
  BY <1>a DEF TypeOK, OwnershipSound, CopiesSound, TaskSound, InstalledSound, GoalSound, Functors, NoTask, Dispatch, Snapshot, Unset
<1> QED
  BY <1>1, <1>2, <1>3, <1>4, <1>5, <1>6, <1>7

LEMMA GetListenerKeeps ==
  ASSUME ListenersInv, GetListener
  PROVE  ListenersInv'
<1> USE ListenersAssumption DEF ListenersAssumption, ListenersInv
<1>1. TypeOK'
  BY GetListener DEF GetListener, Construct, Idle, listenerVars, entityVars, TypeOK, FnObject, FnOrNone, NoTask, NoCall, Unset
<1>2. OwnershipSound'
  BY GetListener DEF GetListener, Construct, Idle, listenerVars, entityVars, TypeOK, OwnershipSound, TaskSound, NoTask
<1>3. CopiesSound'
  BY GetListener DEF GetListener, Construct, Idle, listenerVars, entityVars, TypeOK, OwnershipSound, CopiesSound, TaskSound, Functors, NoTask, FnOrNone
<1>4. TaskSound'
  BY GetListener DEF GetListener, Construct, Idle, listenerVars, entityVars, TypeOK, OwnershipSound, TaskSound, NoTask, Functors
<1>5. InstalledSound'
  BY GetListener DEF GetListener, Construct, Idle, listenerVars, entityVars, TypeOK, OwnershipSound, TaskSound, InstalledSound, Snapshot, Unset, NoTask, FnObject
<1>6. CallsSound'
  BY GetListener DEF GetListener, Construct, Idle, listenerVars, entityVars, TypeOK, OwnershipSound, CallsSound, Unset, NoCall
<1>7. GoalSound'
  BY GetListener DEF GetListener, Construct, Idle, listenerVars, entityVars, TypeOK, OwnershipSound, CopiesSound, TaskSound, InstalledSound, GoalSound, Functors, NoTask, Dispatch, Snapshot, Unset
<1> QED
  BY <1>1, <1>2, <1>3, <1>4, <1>5, <1>6, <1>7

LEMMA SetListenerKeeps ==
  ASSUME ListenersInv, SetListener
  PROVE  ListenersInv'
<1> USE ListenersAssumption DEF ListenersAssumption, ListenersInv
<1>a. PICK e \in open, l \in known :
        /\ LET goal == [ev \in Event |-> IF ev \in Functors(l) THEN attr[l][ev] ELSE Dispatch(e)[ev]]
               begin(op, dst, todo) ==
                 task' = [op |-> op, ent |-> e, src |-> l, dst |-> dst, todo |-> todo, goal |-> goal]
           IN  \/ /\ retained[e] \notin {l, NoListener}
                  /\ begin("copy", retained[e], Functors(l))
                  /\ UNCHANGED <<made, owned, attr, object, struct, retained>>
               \/ /\ retained[e] = l
                  /\ begin("install", l, {})
                  /\ UNCHANGED <<made, owned, attr, object, struct, retained>>
               \/ /\ retained[e] = NoListener
                  /\ \E n \in Lst : /\ Construct(n, attr[l])
                                    /\ owned' = owned \cup {n}
                                    /\ retained' = [retained EXCEPT ![e] = n]
                                    /\ begin("install", n, {})
        /\ task = NoTask
        /\ UNCHANGED <<gone, known, open, installed, cb>>
  BY DEF SetListener, Idle
<1> DEFINE goal == [ev \in Event |-> IF ev \in Functors(l) THEN attr[l][ev] ELSE Dispatch(e)[ev]]
           begun(op, dst, todo) ==
             [op |-> op, ent |-> e, src |-> l, dst |-> dst, todo |-> todo, goal |-> goal]
<1>b. goal \in [Event -> FnOrNone]
  <2>1. attr[l] \in [Event -> FnOrNone]
    BY <1>a DEF TypeOK
  <2>2. Dispatch(e) \in [Event -> FnOrNone]
    <3>1. installed[e] \in [Event -> FnObject \cup {Unset}] /\ attr \in [Lst -> [Event -> FnOrNone]]
      BY <1>a DEF TypeOK
    <3>2. \A x \in FnObject : x.lst \in Lst
      BY DEF FnObject
    <3>3. NoFn \in FnOrNone
      BY DEF FnOrNone
    <3> QED
      BY <3>1, <3>2, <3>3 DEF Dispatch
  <2> QED
    BY <2>1, <2>2
<1>1. CASE /\ retained[e] \notin {l, NoListener}
           /\ task' = begun("copy", retained[e], Functors(l))
           /\ UNCHANGED <<made, owned, attr, object, struct, retained>>
  <2>1. TypeOK'
    BY <1>a, <1>b, <1>1 DEF TypeOK, FnObject, FnOrNone, NoTask, NoCall, Unset, Functors
  <2>2. OwnershipSound'
    BY <1>a, <1>b, <1>1 DEF TypeOK, OwnershipSound, TaskSound, NoTask
  <2>3. CopiesSound'
    BY <1>a, <1>b, <1>1 DEF TypeOK, OwnershipSound, CopiesSound, TaskSound, Functors, NoTask, FnOrNone
  <2>4. TaskSound'
    BY <1>a, <1>b, <1>1 DEF TypeOK, OwnershipSound, TaskSound, NoTask, Functors
  <2>5. InstalledSound'
    <3> SUFFICES ASSUME NEW f \in Ent, f # e
                 PROVE  /\ retained'[f] \in owned' => installed[f] = Snapshot(retained[f])'
                        /\ \A ev \in Event : installed[f][ev] # Unset =>
                             retained'[f] # NoListener /\ installed[f][ev].lst = retained'[f]
      BY <1>a, <1>1 DEF InstalledSound
    <3> QED
      BY <1>a, <1>1 DEF InstalledSound, NoTask, Snapshot
  <2>6. CallsSound'
    BY <1>a, <1>b, <1>1 DEF TypeOK, OwnershipSound, CallsSound, Unset, NoCall
  <2>7. GoalSound'
    <3> SUFFICES ASSUME retained[e] \in owned, NEW ev \in Event
                 PROVE  goal[ev] = IF ev \in Functors(l) THEN attr[l][ev] ELSE attr[retained[e]][ev]
      BY <1>a, <1>1 DEF GoalSound
    <3>1. e \in Ent /\ installed[e] = Snapshot(retained[e]) /\ retained[e] \in Lst /\ retained[e] # NoListener
      BY <1>a DEF NoTask, InstalledSound, TypeOK
    <3>2. Dispatch(e)[ev] = attr[retained[e]][ev]
      BY <3>1 DEF Dispatch, Snapshot, Unset, CopiesSound, TypeOK
    <3> QED
      BY <3>2
  <2> QED
    BY <2>1, <2>2, <2>3, <2>4, <2>5, <2>6, <2>7
<1>2. CASE /\ retained[e] = l
           /\ task' = begun("install", l, {})
           /\ UNCHANGED <<made, owned, attr, object, struct, retained>>
  <2>1. TypeOK'
    BY <1>a, <1>b, <1>2 DEF TypeOK, FnObject, FnOrNone, NoTask, NoCall, Unset
  <2>2. OwnershipSound'
    BY <1>a, <1>b, <1>2 DEF TypeOK, OwnershipSound, TaskSound, NoTask
  <2>3. CopiesSound'
    BY <1>a, <1>b, <1>2 DEF TypeOK, OwnershipSound, CopiesSound, TaskSound, Functors, NoTask, FnOrNone
  <2>4. TaskSound'
    BY <1>a, <1>b, <1>2 DEF TypeOK, OwnershipSound, TaskSound, NoTask, Functors
  <2>5. InstalledSound'
    <3> SUFFICES ASSUME NEW f \in Ent, f # e
                 PROVE  /\ retained'[f] \in owned' => installed[f] = Snapshot(retained[f])'
                        /\ \A ev \in Event : installed[f][ev] # Unset =>
                             retained'[f] # NoListener /\ installed[f][ev].lst = retained'[f]
      BY <1>a, <1>2 DEF InstalledSound
    <3> QED
      BY <1>a, <1>2 DEF InstalledSound, NoTask, Snapshot
  <2>6. CallsSound'
    BY <1>a, <1>b, <1>2 DEF TypeOK, OwnershipSound, CallsSound, Unset, NoCall
  <2>7. GoalSound'
    BY <1>a, <1>b, <1>2 DEF TypeOK, OwnershipSound, CopiesSound, TaskSound, InstalledSound, GoalSound, Functors, NoTask, Dispatch, Snapshot, Unset
  <2> QED
    BY <2>1, <2>2, <2>3, <2>4, <2>5, <2>6, <2>7
<1>3. ASSUME NEW n \in Lst, retained[e] = NoListener, Construct(n, attr[l]),
             owned' = owned \cup {n}, retained' = [retained EXCEPT ![e] = n],
             task' = begun("install", n, {})
      PROVE  ListenersInv'
  <2>1. TypeOK'
    BY <1>a, <1>b, <1>3 DEF Construct, TypeOK, FnObject, FnOrNone, NoTask, NoCall, Unset
  <2>2. OwnershipSound'
    BY <1>a, <1>b, <1>3 DEF Construct, TypeOK, OwnershipSound, TaskSound, NoTask
  <2>3. CopiesSound'
    BY <1>a, <1>b, <1>3 DEF Construct, TypeOK, OwnershipSound, CopiesSound, TaskSound, Functors, NoTask, FnOrNone
  <2>4. TaskSound'
    BY <1>a, <1>b, <1>3 DEF Construct, TypeOK, OwnershipSound, TaskSound, NoTask, Functors
  <2>5. InstalledSound'
    <3>1. \A f \in Ent : f # e => retained'[f] = retained[f] /\ installed'[f] = installed[f] /\ retained[f] # n
      BY <1>a, <1>3 DEF Construct, TypeOK, OwnershipSound
    <3>2. \A x \in Lst : x # n => struct'[x] = struct[x]
      BY <1>3 DEF Construct, TypeOK
    <3>3. \A f \in Ent : f # e /\ retained[f] \in Lst => Snapshot(retained[f])' = Snapshot(retained[f])
      BY <3>1, <3>2 DEF Snapshot
    <3>4. task'.ent = e /\ task.ent = NoEnt /\ owned' = owned \cup {n} /\ owned \subseteq Lst
      BY <1>a, <1>3 DEF NoTask, TypeOK
    <3>5. ASSUME NEW f \in Ent, f # e
          PROVE  /\ retained'[f] \in owned' => installed'[f] = Snapshot(retained[f])'
                 /\ \A ev \in Event : installed'[f][ev] # Unset =>
                      retained'[f] # NoListener /\ installed'[f][ev].lst = retained'[f]
      BY <3>1, <3>3, <3>4, <3>5 DEF InstalledSound
    <3> QED
      BY <3>4, <3>5 DEF InstalledSound
  <2>6. CallsSound'
    BY <1>a, <1>b, <1>3 DEF Construct, TypeOK, OwnershipSound, CallsSound, Unset, NoCall
  <2>7. GoalSound'
    <3>1. \A ev \in Event : installed[e][ev] = Unset
      <4>1. task.ent = NoEnt /\ e \in Ent
        BY <1>a DEF NoTask, TypeOK
      <4>2. \A f \in Ent, ev \in Event :
              f # task.ent /\ retained[f] = NoListener => installed[f][ev] = Unset
        BY DEF InstalledSound
      <4> QED
        BY <1>3, <4>1, <4>2, ListenersAssumption DEF ListenersAssumption
    <3>2. \A ev \in Event : goal[ev] = attr[l][ev]
      BY <3>1 DEF Dispatch, Functors
    <3>3. attr'[n] = attr[l]
      BY <1>a, <1>3 DEF Construct, TypeOK
    <3> QED
      BY <1>3, <3>2, <3>3 DEF GoalSound
  <2> QED
    BY <2>1, <2>2, <2>3, <2>4, <2>5, <2>6, <2>7
<1> QED
  BY <1>a, <1>1, <1>2, <1>3

LEMMA RemoveListenerKeeps ==
  ASSUME ListenersInv, RemoveListener
  PROVE  ListenersInv'
<1> USE ListenersAssumption DEF ListenersAssumption, ListenersInv
<1>a. PICK e \in open :
        /\ retained' = [retained EXCEPT ![e] = NoListener]
        /\ task' = [op |-> "install", ent |-> e, src |-> NoListener, dst |-> NoListener,
                    todo |-> {}, goal |-> [ev \in Event |-> NoFn]]
        /\ task = NoTask
        /\ UNCHANGED <<made, gone, known, owned, attr, object, struct, open, installed, cb>>
  BY DEF RemoveListener, NoTask, Idle, listenerVars
<1>b. e \in Ent
  BY <1>a DEF TypeOK
<1>1. TypeOK'
  BY <1>a, <1>b DEF TypeOK, FnObject, FnOrNone, NoTask, NoCall, Unset
<1>2. OwnershipSound'
  BY <1>a, <1>b DEF TypeOK, OwnershipSound, TaskSound, NoTask
<1>3. CopiesSound'
  BY <1>a, <1>b DEF TypeOK, OwnershipSound, CopiesSound, TaskSound, Functors, NoTask, FnOrNone
<1>4. TaskSound'
  BY <1>a, <1>b DEF TypeOK, OwnershipSound, TaskSound, NoTask, Functors
<1>5. InstalledSound'
  <2> SUFFICES ASSUME NEW f \in Ent, f # e
               PROVE  /\ retained[f] \in owned => installed[f] = Snapshot(retained[f])
                      /\ \A ev \in Event : installed[f][ev] # Unset =>
                           retained[f] # NoListener /\ installed[f][ev].lst = retained[f]
    BY <1>a, <1>b DEF InstalledSound, Snapshot, TypeOK
  <2> QED
    BY <1>a DEF InstalledSound, NoTask
<1>6. CallsSound'
  BY <1>a, <1>b DEF TypeOK, OwnershipSound, CallsSound, Unset, NoCall
<1>7. GoalSound'
  BY <1>a, <1>b DEF TypeOK, OwnershipSound, CopiesSound, TaskSound, InstalledSound, GoalSound, Functors, NoTask, Dispatch, Snapshot, Unset
<1> QED
  BY <1>1, <1>2, <1>3, <1>4, <1>5, <1>6, <1>7

LEMMA InstallKeeps ==
  ASSUME ListenersInv, Install
  PROVE  ListenersInv'
<1> USE ListenersAssumption DEF ListenersAssumption, ListenersInv
<1>a. /\ task.op = "install"
      /\ \A d \in DdsThreads : cb[d].ent # task.ent
      /\ installed' = [installed EXCEPT ![task.ent] = Snapshot(task.dst)]
      /\ task' = NoTask
      /\ UNCHANGED <<made, gone, known, owned, attr, object, struct, open, retained, cb>>
  BY DEF Install, listenerVars
<1>b. task.ent \in Ent /\ task.ent \in open /\ task.dst = retained[task.ent]
  BY <1>a DEF TypeOK, TaskSound
<1>1. TypeOK'
  <2>1. Snapshot(task.dst) \in [Event -> FnObject \cup {Unset}]
    BY <1>a, SnapshotType DEF TypeOK
  <2>2. NoTask \in [op : {"idle", "copy", "install"}, ent : Ent \cup {NoEnt},
               src : Lst \cup {NoListener}, dst : Lst \cup {NoListener},
               todo : SUBSET Event, goal : [Event -> FnOrNone]]
    BY DEF NoTask, FnOrNone
  <2> QED
    BY <1>a, <2>1, <2>2 DEF TypeOK
<1>2. OwnershipSound'
  BY <1>a, <1>b DEF TypeOK, OwnershipSound, TaskSound, NoTask
<1>3. CopiesSound'
  BY <1>a, <1>b DEF TypeOK, OwnershipSound, CopiesSound, TaskSound, Functors, NoTask, FnOrNone
<1>4. TaskSound'
  BY <1>a, <1>b DEF TypeOK, OwnershipSound, TaskSound, NoTask, Functors
<1>5. InstalledSound'
  <2> SUFFICES ASSUME NEW e \in Ent
               PROVE  /\ retained[e] \in owned => installed'[e] = Snapshot(retained[e])
                      /\ \A ev \in Event : installed'[e][ev] # Unset =>
                           retained[e] # NoListener /\ installed'[e][ev].lst = retained[e]
    BY <1>a DEF InstalledSound, Snapshot
  <2>1. CASE e = task.ent
    BY <1>a, <1>b, <2>1 DEF TypeOK, Snapshot, Unset
  <2>2. CASE e # task.ent
    BY <1>a, <1>b, <2>2 DEF TypeOK, InstalledSound
  <2> QED
    BY <2>1, <2>2
<1>6. CallsSound'
  BY <1>a, <1>b DEF TypeOK, OwnershipSound, CallsSound, Unset, NoCall
<1>7. GoalSound'
  BY <1>a, <1>b DEF TypeOK, OwnershipSound, CopiesSound, TaskSound, InstalledSound, GoalSound, Functors, NoTask, Dispatch, Snapshot, Unset
<1> QED
  BY <1>1, <1>2, <1>3, <1>4, <1>5, <1>6, <1>7

LEMMA CallbackKeeps ==
  ASSUME ListenersInv, NEW d \in DdsThreads, EnterCallback(d) \/ RunCallback(d) \/ LeaveCallback(d)
  PROVE  ListenersInv'
<1> USE ListenersAssumption DEF ListenersAssumption, ListenersInv, listenerVars, entityVars
<1>1. ASSUME EnterCallback(d) PROVE TypeOK' /\ CallsSound'
  <2>1. PICK e \in open, ev \in Event :
          /\ cb[d].step = "idle"
          /\ installed[e][ev] # Unset
          /\ cb' = [cb EXCEPT ![d] = [step |-> "entered", ent |-> e, ev |-> ev,
                                      fn |-> installed[e][ev]]]
    BY <1>1 DEF EnterCallback
  <2>2. e \in Ent /\ installed[e][ev] \in FnObject \cup {Unset}
    BY <2>1 DEF TypeOK
  <2>3. TypeOK'
    BY <1>1, <2>1, <2>2 DEF EnterCallback, TypeOK
  <2>4. CallsSound'
    BY <1>1, <2>1, <2>2 DEF EnterCallback, TypeOK, CallsSound
  <2> QED
    BY <2>3, <2>4
<1>2. ASSUME RunCallback(d) \/ LeaveCallback(d) PROVE TypeOK' /\ CallsSound'
  <2>1. PICK call \in [step : {"idle", "running"}, ent : Ent \cup {NoEnt}, ev : Event,
                       fn : FnObject \cup {Unset}] : cb' = [cb EXCEPT ![d] = call]
    <3>1. CASE RunCallback(d)
      <4>1. cb[d].ent \in Ent \cup {NoEnt}
        BY DEF TypeOK
      <4>2. NoCall \in [step : {"idle", "running"}, ent : Ent \cup {NoEnt}, ev : Event,
                       fn : FnObject \cup {Unset}]
        BY DEF NoCall
      <4>3. [NoCall EXCEPT !.step = "running", !.ent = cb[d].ent]
              \in [step : {"idle", "running"}, ent : Ent \cup {NoEnt}, ev : Event,
                   fn : FnObject \cup {Unset}]
        BY <4>1, <4>2
      <4> QED
        BY <3>1, <4>3 DEF RunCallback
    <3>2. CASE LeaveCallback(d)
      BY <3>2 DEF LeaveCallback, NoCall
    <3> QED
      BY <1>2, <3>1, <3>2
  <2>2. UNCHANGED <<open, installed>>
    BY <1>2 DEF RunCallback, LeaveCallback
  <2>3. TypeOK'
    BY <1>2, <2>1 DEF RunCallback, LeaveCallback, TypeOK
  <2>4. CallsSound'
    BY <2>1, <2>2 DEF TypeOK, CallsSound
  <2> QED
    BY <2>3, <2>4
<1>3. UNCHANGED <<made, gone, known, owned, attr, object, struct, open, retained, installed, task>>
  BY DEF EnterCallback, RunCallback, LeaveCallback
<1>4. OwnershipSound' /\ CopiesSound' /\ TaskSound' /\ InstalledSound' /\ GoalSound'
  BY <1>3 DEF OwnershipSound, CopiesSound, TaskSound, InstalledSound, GoalSound, Functors, Snapshot, NoTask
<1> QED
  BY <1>1, <1>2, <1>4

LEMMA StutterKeeps ==
  ASSUME ListenersInv, UNCHANGED vars
  PROVE  ListenersInv'
BY DEF ListenersInv, vars, TypeOK, OwnershipSound, CopiesSound, TaskSound, InstalledSound, CallsSound, GoalSound, Functors, Snapshot, NoTask

(***************************************************************************)
(* The theorems.                                                           *)
(***************************************************************************)
\* The inductive invariant holds in every state: about every operation on
\* listeners, interleaved with callbacks.
THEOREM ListenersAlways == Spec => []ListenersInv
<1>1. ListenersInv /\ [Next]_vars => ListenersInv'
  BY NewListenerKeeps, SetOnKeeps, ResetKeeps, BeginMergeKeeps, CopyOneKeeps, EndCopyKeeps,
     DropKeeps, CollectKeeps, CreateEntityKeeps, GetListenerKeeps, SetListenerKeeps,
     RemoveListenerKeeps, InstallKeeps, CallbackKeeps, StutterKeeps
     DEF Next
<1> QED
  BY InitHolds, <1>1, PTL DEF Spec

\* Every variable of Listeners keeps its type.
THEOREM ListenerTypes == Spec => []TypeOK
BY ListenersAlways, PTL DEF ListenersInv

\* Outside set_listener, C calls exactly what a copied listener has, and nothing
\* that was freed.
THEOREM InstalledTheorem == Spec => []OwnedIsInstalled
<1>1. ListenersInv => OwnedIsInstalled
  BY ListenersAssumption DEF ListenersAssumption, ListenersInv, OwnedIsInstalled, TypeOK,
     InstalledSound, CopiesSound, OwnershipSound, Snapshot, Unset, Functors, Alive
<1> QED
  BY ListenersAlways, <1>1, PTL

\* A callback that C has started through a copied listener finds its function
\* object alive outside set_listener.
THEOREM StartedTheorem == Spec => []StartedIsAlive
<1>1. ListenersInv => StartedIsAlive
  BY ListenersAssumption DEF ListenersAssumption, ListenersInv, StartedIsAlive, TypeOK,
     InstalledSound, CallsSound, CopiesSound, OwnershipSound, Snapshot, Unset, Functors, Alive
<1> QED
  BY ListenersAlways, <1>1, PTL

\* An entity without a listener makes no calls.
THEOREM SilenceTheorem == Spec => []RemovedIsSilent
<1>1. ListenersInv => RemovedIsSilent
  BY DEF ListenersInv, RemovedIsSilent, InstalledSound
<1> QED
  BY ListenersAlways, <1>1, PTL

\* set_listener leaves the callbacks that its argument does not set.
THEOREM MergeTheorem == Spec => MergeKeepsOthers
<1> DEFINE Kept ==
      \A e \in Ent :
        task.op = "install" /\ task.ent = e /\ task.src # NoListener
        /\ task' = NoTask /\ retained[e] \in owned
          => Dispatch(e)' = task.goal
<1>1. ASSUME ListenersInv, [Next]_vars, NEW e \in Ent, task.op = "install", task.ent = e,
             task.src # NoListener, task' = NoTask, retained[e] \in owned
      PROVE  Dispatch(e)' = task.goal
  <2>1. Install
    <3>1. task.op \notin {"idle", "copy"} /\ task' # task
      BY <1>1 DEF NoTask
    <3>2. ~Idle
      BY <3>1 DEF Idle, NoTask
    <3>3. ~(NewListener \/ SetOn \/ Reset \/ BeginMerge \/ Drop \/ CreateEntity
            \/ GetListener \/ SetListener \/ RemoveListener)
      BY <3>2 DEF NewListener, SetOn, Reset, BeginMerge, Drop, CreateEntity, GetListener,
         SetListener, RemoveListener
    <3>4. ~CopyOne /\ ~EndCopy
      BY <3>1 DEF CopyOne, EndCopy
    <3>5. ~Collect /\ ~UNCHANGED vars
      BY <3>1 DEF Collect, vars
    <3>6. ASSUME NEW d \in DdsThreads PROVE ~(EnterCallback(d) \/ RunCallback(d) \/ LeaveCallback(d))
      BY <3>1 DEF EnterCallback, RunCallback, LeaveCallback
    <3> QED
      BY <1>1, <3>3, <3>4, <3>5, <3>6 DEF Next
  <2>2. installed'[e] = Snapshot(retained[e]) /\ UNCHANGED <<attr, struct>>
    BY <1>1, <2>1 DEF Install, ListenersInv, TypeOK, TaskSound, listenerVars
  <2>3. \A ev \in Event : Dispatch(e)'[ev] = attr[retained[e]][ev]
    BY <1>1, <2>2, ListenersAssumption DEF ListenersAssumption, Dispatch, Snapshot, Unset,
       ListenersInv, TypeOK, CopiesSound, OwnershipSound
  <2>4. \A ev \in Event : task.goal[ev] = attr[retained[e]][ev]
    BY <1>1 DEF ListenersInv, TaskSound, GoalSound, OwnershipSound, TypeOK
  <2>5. task.goal \in [Event -> FnOrNone]
    BY <1>1 DEF ListenersInv, TypeOK
  <2> QED
    BY <2>3, <2>4, <2>5 DEF Dispatch
<1>2. ASSUME ListenersInv, [Next]_vars
      PROVE  [Kept]_vars
  BY <1>1, <1>2
<1> QED
  BY ListenersAlways, <1>2, PTL DEF MergeKeepsOthers, Spec
=============================================================================
