----------------------------- MODULE Listeners -----------------------------
(***************************************************************************)
(* Listener objects and the callbacks C makes through them: class Listener *)
(* and Entity.get_listener / set_listener in cyclonedds/core.py.           *)
(*                                                                         *)
(* A Listener has three layers.  The attribute on_x holds the user's       *)
(* function; self._on_x holds a ctypes function object made for it, whose  *)
(* body calls the attribute; the C listener struct holds the address of    *)
(* that object.  dds_set_listener and the constructors copy the struct     *)
(* into the entity, and from then on C calls the address it copied.        *)
(* Replacing self._on_x frees the object the address belongs to.           *)
(*                                                                         *)
(* One program thread works on listeners; DDS receive threads call back at *)
(* any time.  They run C code without the interpreter lock, so they can    *)
(* have entered a function object between any two Python statements.       *)
(***************************************************************************)
EXTENDS Naturals, FiniteSets

CONSTANTS
  Lst,          \* Listener objects
  Ent,          \* entities
  Event,        \* callback names: "data_available", "data_on_readers", ...
  Fn,           \* functions of the program
  DdsThreads,   \* DDS receive threads
  NoFn,         \* no function: the default method, or None
  NoListener,   \* None where a Listener is expected
  NoEnt,        \* no entity
  MaxSets       \* bound: function objects made per listener and callback

ASSUME ListenersAssumption ==
  /\ NoFn \notin Fn /\ NoListener \notin Lst /\ NoEnt \notin Ent
  /\ "data_available" \in Event
  /\ MaxSets \in Nat \ {0}

VARIABLES
  made,       \* listeners constructed
  gone,       \* listeners the collector has freed
  known,      \* listeners the program's variables reference
  owned,      \* copies that set_listener made for an entity
  attr,       \* per listener and callback: the attribute on_x
  object,     \* number of the ctypes function object in self._on_x (0: none)
  struct,     \* number the listener's C struct points to (0: unset)
  open,       \* entities constructed
  retained,   \* Entity._listener
  installed,  \* what C calls for an entity: a function object, or Unset
  task,       \* what the program thread is in the middle of
  cb          \* per DDS thread: the callback it is in

vars == <<made, gone, known, owned, attr, object, struct, open, retained,
          installed, task, cb>>

listenerVars == <<made, gone, known, owned, attr, object, struct>>
entityVars == <<open, retained, installed>>

FnOrNone == Fn \cup {NoFn}

\* A ctypes function object: the listener it belongs to and its number.
Unset == [lst |-> NoListener, num |-> 0]
FnObject == [lst : Lst, num : 1..MaxSets]

\* A function object exists until self._on_x is replaced or its listener goes.
Alive(p, ev) == object[p.lst][ev] = p.num

\* The listener's C struct, as dds_set_listener and dds_create_* copy it.
Snapshot(l) ==
  [ev \in Event |-> IF l = NoListener \/ struct[l][ev] = 0 THEN Unset
                    ELSE [lst |-> l, num |-> struct[l][ev]]]

\* The callbacks in self._set_functors.
Functors(l) == {ev \in Event : attr[l][ev] # NoFn}

\* What a callback on e runs: the attribute, read when the callback comes.
Dispatch(e) ==
  [ev \in Event |-> IF installed[e][ev] = Unset THEN NoFn
                    ELSE attr[installed[e][ev].lst][ev]]

NoTask == [op |-> "idle", ent |-> NoEnt, src |-> NoListener, dst |-> NoListener,
           todo |-> {}, goal |-> [ev \in Event |-> NoFn]]
NoCall == [step |-> "idle", ent |-> NoEnt, ev |-> "data_available", fn |-> Unset]

Idle == task = NoTask

Init ==
  /\ made = {} /\ gone = {} /\ known = {} /\ owned = {}
  /\ attr = [l \in Lst |-> [ev \in Event |-> NoFn]]
  /\ object = [l \in Lst |-> [ev \in Event |-> 0]]
  /\ struct = [l \in Lst |-> [ev \in Event |-> 0]]
  /\ open = {}
  /\ retained = [e \in Ent |-> NoListener]
  /\ installed = [e \in Ent |-> [ev \in Event |-> Unset]]
  /\ task = NoTask
  /\ cb = [d \in DdsThreads |-> NoCall]

-----------------------------------------------------------------------------
(* Listener objects. *)

\* Listener(**functors): a function object and a C field for each callback.
Construct(l, functors) ==
  /\ l \notin made
  /\ made' = made \cup {l}
  /\ attr' = [attr EXCEPT ![l] = functors]
  /\ object' = [object EXCEPT ![l] = [ev \in Event |-> IF functors[ev] = NoFn THEN 0 ELSE 1]]
  /\ struct' = [struct EXCEPT ![l] = object'[l]]

NewListener ==
  /\ Idle
  /\ \E l \in Lst, functors \in [Event -> FnOrNone] :
       /\ Construct(l, functors)
       /\ known' = known \cup {l}
  /\ UNCHANGED <<gone, owned, entityVars, task, cb>>

\* set_on_x(callable): a new function object replaces the one in self._on_x.
Set(l, ev, f) ==
  /\ object[l][ev] < MaxSets
  /\ attr' = [attr EXCEPT ![l][ev] = f]
  /\ object' = [object EXCEPT ![l][ev] = @ + 1]
  /\ struct' = [struct EXCEPT ![l][ev] = object[l][ev] + 1]

\* The C field that set_on_x(None) clears: set_on_data_on_readers(None) calls
\* the setter of data_available.
Cleared(ev) == IF ev = "data_on_readers" THEN "data_available" ELSE ev

\* set_on_x(None): the function object stays, the C field is cleared.  (Where
\* nothing was set, the final `del` raises KeyError, after all of this.)
UnsetFn(l, ev) ==
  /\ attr' = [attr EXCEPT ![l][ev] = NoFn]
  /\ struct' = [struct EXCEPT ![l][Cleared(ev)] = 0]
  /\ UNCHANGED object

SetOn ==
  /\ Idle
  /\ \E l \in known, ev \in Event :
       UnsetFn(l, ev) \/ \E f \in Fn : Set(l, ev, f)
  /\ UNCHANGED <<made, gone, known, owned, entityVars, task, cb>>

\* reset() clears the C struct and nothing else.
Reset ==
  /\ Idle
  /\ \E l \in known : struct' = [struct EXCEPT ![l] = [ev \in Event |-> 0]]
  /\ UNCHANGED <<made, gone, known, owned, attr, object, entityVars, task, cb>>

\* l.merge(k) is k.copy_to(l), one setter call after another.
BeginMerge ==
  /\ Idle
  /\ \E l \in known : \E k \in known \ {l} :
       task' = [NoTask EXCEPT !.op = "copy", !.src = k, !.dst = l, !.todo = Functors(k)]
  /\ UNCHANGED <<listenerVars, entityVars, cb>>

\* Mutant of CopyOne: what the source does not set is reset in the target.
CopyOneAll ==
  /\ task.op = "copy"
  /\ attr' = [attr EXCEPT ![task.dst] = attr[task.src]]
  /\ object' = [object EXCEPT ![task.dst] = [ev \in Event |-> MaxSets]]
  /\ struct' = [struct EXCEPT ![task.dst] = [ev \in Event |-> MaxSets]]
  /\ task' = [task EXCEPT !.todo = {}]
  /\ UNCHANGED <<made, gone, known, owned, entityVars, cb>>

\* One round of the loop in copy_to.
CopyOne ==
  /\ task.op = "copy"
  /\ \E ev \in task.todo :
       /\ Set(task.dst, ev, attr[task.src][ev])
       /\ task' = [task EXCEPT !.todo = @ \ {ev}]
  /\ UNCHANGED <<made, gone, known, owned, entityVars, cb>>

\* Mutant of EndCopy: set_listener returns without calling dds_set_listener.
EndCopyOnly ==
  /\ task.op = "copy" /\ task.todo = {}
  /\ task' = NoTask
  /\ UNCHANGED <<listenerVars, entityVars, cb>>

\* The loop ends: merge returns, set_listener goes on to dds_set_listener.
EndCopy ==
  /\ task.op = "copy" /\ task.todo = {}
  /\ task' = IF task.ent = NoEnt THEN NoTask ELSE [task EXCEPT !.op = "install"]
  /\ UNCHANGED <<listenerVars, entityVars, cb>>

\* The program forgets a listener; the collector frees it once no variable, no
\* entity and no running call references it.  Listener.__del__ frees the struct.
Drop ==
  /\ Idle
  /\ \E l \in known : known' = known \ {l}
  /\ UNCHANGED <<made, gone, owned, attr, object, struct, entityVars, task, cb>>

\* Mutant of Collect: the collector also takes what the program still holds.
CollectHeld ==
  /\ \E l \in made \ gone :
       /\ \A e \in Ent : retained[e] # l
       /\ gone' = gone \cup {l}
  /\ UNCHANGED <<made, known, owned, attr, object, struct, entityVars, task, cb>>

Collect ==
  /\ \E l \in made \ (gone \cup known) :
       /\ l \notin {task.src, task.dst}
       /\ \A e \in Ent : retained[e] # l
       /\ gone' = gone \cup {l}
       /\ attr' = [attr EXCEPT ![l] = [ev \in Event |-> NoFn]]
       /\ object' = [object EXCEPT ![l] = [ev \in Event |-> 0]]
       /\ struct' = [struct EXCEPT ![l] = [ev \in Event |-> 0]]
  /\ UNCHANGED <<made, known, owned, entityVars, task, cb>>

-----------------------------------------------------------------------------
(* Entities. *)

\* A constructor passes listener._ref to dds_create_* and retains the object.
CreateEntity ==
  /\ Idle
  /\ \E e \in Ent \ open, l \in known \cup {NoListener} :
       /\ open' = open \cup {e}
       /\ retained' = [retained EXCEPT ![e] = l]
       /\ installed' = [installed EXCEPT ![e] = Snapshot(l)]
  /\ UNCHANGED <<listenerVars, task, cb>>

\* Mutant of GetListener: it returns the entity's listener itself.
GetListenerAlias ==
  /\ Idle
  /\ \E e \in open : retained[e] # NoListener /\ known' = known \cup {retained[e]}
  /\ UNCHANGED <<made, gone, owned, attr, object, struct, entityVars, task, cb>>

\* get_listener returns a copy, or an empty Listener.
GetListener ==
  /\ Idle
  /\ \E e \in open, n \in Lst :
       /\ Construct(n, IF retained[e] = NoListener THEN [ev \in Event |-> NoFn]
                       ELSE attr[retained[e]])
       /\ known' = known \cup {n}
  /\ UNCHANGED <<gone, owned, entityVars, task, cb>>

\* set_listener(l): merge into the entity's listener, or copy l if it has none,
\* or neither if l is that listener.
SetListener ==
  /\ Idle
  /\ \E e \in open, l \in known :
       LET goal == [ev \in Event |-> IF ev \in Functors(l) THEN attr[l][ev]
                                     ELSE Dispatch(e)[ev]]
           begin(op, dst, todo) ==
             task' = [op |-> op, ent |-> e, src |-> l, dst |-> dst, todo |-> todo,
                      goal |-> goal]
       IN  \/ /\ retained[e] \notin {l, NoListener}
              /\ begin("copy", retained[e], Functors(l))
              /\ UNCHANGED <<made, owned, attr, object, struct, retained>>
           \/ /\ retained[e] = l
              /\ begin("install", l, {})
              /\ UNCHANGED <<made, owned, attr, object, struct, retained>>
           \/ /\ retained[e] = NoListener
              /\ \E n \in Lst : /\ Construct(n, attr[l])
                                /\ owned' = owned \cup {n}
                                /\ retained' = [retained EXCEPT ![e] = n]
                                /\ begin("install", n, {})
  /\ UNCHANGED <<gone, known, open, installed, cb>>

\* Mutant of RemoveListener: only the Python reference goes.
RemoveListenerPython ==
  /\ Idle
  /\ \E e \in open : retained' = [retained EXCEPT ![e] = NoListener]
  /\ UNCHANGED <<listenerVars, open, installed, task, cb>>

\* set_listener(None): the entity lets go of its listener first.
RemoveListener ==
  /\ Idle
  /\ \E e \in open :
       /\ retained' = [retained EXCEPT ![e] = NoListener]
       /\ task' = [NoTask EXCEPT !.op = "install", !.ent = e]
  /\ UNCHANGED <<listenerVars, open, installed, cb>>

\* dds_set_listener waits for the callbacks in progress on the entity and
\* copies the struct.
Install ==
  /\ task.op = "install"
  /\ \A d \in DdsThreads : cb[d].ent # task.ent
  /\ installed' = [installed EXCEPT ![task.ent] = Snapshot(task.dst)]
  /\ task' = NoTask
  /\ UNCHANGED <<listenerVars, open, retained, cb>>

-----------------------------------------------------------------------------
(* Callbacks. *)

\* C calls the function it has installed; the call waits for the interpreter.
EnterCallback(d) ==
  /\ cb[d].step = "idle"
  /\ \E e \in open, ev \in Event :
       /\ installed[e][ev] # Unset
       /\ cb' = [cb EXCEPT ![d] = [step |-> "entered", ent |-> e, ev |-> ev,
                                   fn |-> installed[e][ev]]]
  /\ UNCHANGED <<listenerVars, entityVars, task>>

\* The body of the function object calls the attribute; if it is None the call
\* raises TypeError, which ctypes prints and ignores.  The entity stays busy.
RunCallback(d) ==
  /\ cb[d].step = "entered"
  /\ cb' = [cb EXCEPT ![d] = [NoCall EXCEPT !.step = "running", !.ent = cb[d].ent]]
  /\ UNCHANGED <<listenerVars, entityVars, task>>

LeaveCallback(d) ==
  /\ cb[d].step = "running"
  /\ cb' = [cb EXCEPT ![d] = NoCall]
  /\ UNCHANGED <<listenerVars, entityVars, task>>

Next ==
  \/ NewListener \/ SetOn \/ Reset \/ BeginMerge \/ CopyOne \/ EndCopy
  \/ Drop \/ Collect
  \/ CreateEntity \/ GetListener \/ SetListener \/ RemoveListener \/ Install
  \/ \E d \in DdsThreads : EnterCallback(d) \/ RunCallback(d) \/ LeaveCallback(d)

Spec == Init /\ [][Next]_vars

-----------------------------------------------------------------------------
(* Properties. *)

TypeOK ==
  /\ made \subseteq Lst /\ gone \subseteq made /\ known \subseteq made \ gone
  /\ owned \subseteq made
  /\ attr \in [Lst -> [Event -> FnOrNone]]
  /\ object \in [Lst -> [Event -> 0..MaxSets]]
  /\ struct \in [Lst -> [Event -> 0..MaxSets]]
  /\ open \subseteq Ent
  /\ retained \in [Ent -> Lst \cup {NoListener}]
  /\ installed \in [Ent -> [Event -> FnObject \cup {Unset}]]
  /\ task \in [op : {"idle", "copy", "install"}, ent : Ent \cup {NoEnt},
               src : Lst \cup {NoListener}, dst : Lst \cup {NoListener},
               todo : SUBSET Event, goal : [Event -> FnOrNone]]
  /\ cb \in [DdsThreads -> [step : {"idle", "entered", "running"},
                            ent : Ent \cup {NoEnt}, ev : Event,
                            fn : FnObject \cup {Unset}]]

\* When no set_listener is in progress on an entity whose listener set_listener
\* made, C calls exactly the functions that listener has now, and none of them
\* has been freed: the copies in set_listener and get_listener are enough to
\* keep the program away from it.
OwnedIsInstalled ==
  \A e \in open :
    retained[e] \in owned /\ task.ent # e =>
      \A ev \in Event :
        /\ installed[e][ev] # Unset <=> ev \in Functors(retained[e])
        /\ installed[e][ev] # Unset => /\ installed[e][ev].lst = retained[e]
                                       /\ Alive(installed[e][ev], ev)

\* Outside set_listener, a callback that C has started through such a listener
\* finds its function object alive: dds_set_listener has waited for the
\* callbacks of the objects it replaced.
StartedIsAlive ==
  \A d \in DdsThreads :
    cb[d].step = "entered" /\ cb[d].fn.lst \in owned /\ task.ent # cb[d].ent
      => Alive(cb[d].fn, cb[d].ev)

\* core.py:171-174 keeps the listener so that C never calls "into freed memory":
\* a callback that C has started finds its function object alive, also while
\* set_listener is replacing it.
NoCallIntoFreed ==
  \A d \in DdsThreads :
    cb[d].step = "entered" => Alive(cb[d].fn, cb[d].ev)

\* An entity whose listener was removed, or that never had one, makes no calls:
\* set_listener(None) "will remove this entity's Listener".
RemovedIsSilent ==
  \A e \in Ent :
    retained[e] = NoListener /\ task.ent # e =>
      \A ev \in Event : installed[e][ev] = Unset

\* set_listener on an entity with a listener of its own, or none, replaces the
\* callbacks set in the argument and keeps the others ("only the fields you
\* explicitly have set on your new listener are overwritten").
MergeKeepsOthers ==
  [][\A e \in Ent :
       task.op = "install" /\ task.ent = e /\ task.src # NoListener
       /\ task' = NoTask /\ retained[e] \in owned
         => Dispatch(e)' = task.goal]_vars
=============================================================================
