------------------------------ MODULE Sertypes ------------------------------
(***************************************************************************)
(* The serialised types of clayer/pysertype.c: made from a Python class,   *)
(* of which each holds a reference, when a topic is created, replaced by   *)
(* an equal one that is registered already, and freed with the last topic  *)
(* of the type.  The registry compares and frees types under a lock of its *)
(* own, and both need the GIL, so no thread should come to that lock with  *)
(* it; a topic whose descriptor cannot be made is deleted that way.        *)
(***************************************************************************)
EXTENDS Naturals, FiniteSets

CONSTANTS
  Threads, Nobody,
  Classes, NoClass,   \* classes of one type name: the registry tells no others apart
  Refused,            \* those with an empty type information, or a type that C refuses
  Sertypes, NoSertype, \* the addresses a sertype can have
  Main, MainClass,    \* the sertype of the topic whose readers and writers live, and its class
  MaxCalls            \* bound: calls of the program

ASSUME SertypesAssumption ==
  /\ Nobody \notin Threads
  /\ NoClass \notin Classes
  /\ NoSertype \notin Sertypes
  /\ Main \in Sertypes
  /\ Refused \subseteq Classes
  /\ MainClass \in Classes \ Refused
  /\ MaxCalls \in Nat
  /\ IsFiniteSet(Threads) /\ IsFiniteSet(Sertypes)

VARIABLES
  gil,        \* who holds it between two steps
  typesLock,  \* the lock of the registry
  pc,
  mine,       \* the sertype a thread's call is about
  spare,      \* the one it passed in, when another was found
  unseen,     \* registered sertypes it still has to compare with
  class,      \* sertype -> my_py_type, NoClass when it is not allocated
  refs,       \* sertype -> its reference count
  registry,   \* the registered sertypes
  described,  \* those with a cdrstream_desc
  topics,     \* sertype -> number of live topics
  pyRefs,     \* class -> references the sertypes hold
  calls

sertypeVars == <<typesLock, mine, spare, unseen, class, refs, registry, described, topics, pyRefs>>

\* Where a thread is: "creating" and "deleting" have let go of the GIL and wait for
\* the registry, "looking", "replaced" and "freeing" hold its lock, and "created",
\* "failed" and "returning" wait for the GIL again.  "undoing" waits for the registry
\* with the GIL.
Places == {"idle", "creating", "looking", "replaced", "created", "failed", "undoing",
           "deleting", "freeing", "returning"}

Allocated == {s \in Sertypes : class[s] # NoClass}
GilFor(t) == gil \in {Nobody, t}
Go(t, place) == pc' = [pc EXCEPT ![t] = place]
CanCall(t) == pc[t] = "idle" /\ gil = Nobody /\ calls < MaxCalls

InitSertypes ==
  /\ gil = Nobody
  /\ typesLock = Nobody
  /\ pc = [t \in Threads |-> "idle"]
  /\ mine = [t \in Threads |-> NoSertype]
  /\ spare = [t \in Threads |-> NoSertype]
  /\ unseen = [t \in Threads |-> {}]
  /\ class = [s \in Sertypes |-> IF s = Main THEN MainClass ELSE NoClass]
  /\ pyRefs = [c \in Classes |-> IF c = MainClass THEN 1 ELSE 0]
  /\ refs = [s \in Sertypes |-> IF s = Main THEN 1 ELSE 0]
  /\ topics = [s \in Sertypes |-> IF s = Main THEN 1 ELSE 0]
  /\ registry = {Main}
  /\ described = {Main}
  /\ calls = 0

\* ddspy_sertype_new.
NewSertype(t, c) ==
  /\ \E s \in Sertypes \ Allocated :
       /\ class' = [class EXCEPT ![s] = c]
       /\ refs' = [refs EXCEPT ![s] = 1]
       /\ mine' = [mine EXCEPT ![t] = s]
  /\ pyRefs' = [pyRefs EXCEPT ![c] = @ + 1]
  /\ UNCHANGED <<typesLock, spare, unseen, registry, described, topics>>

\* Mutant of CreateTopic: the GIL is kept while the topic is made.
CreateTopicWithGil(t, c) ==
  /\ CanCall(t)
  /\ NewSertype(t, c)
  /\ gil' = t
  /\ Go(t, "creating")
  /\ calls' = calls + 1
CreateTopic(t, c) ==
  /\ CanCall(t)
  /\ NewSertype(t, c)
  /\ UNCHANGED gil \* taken, and let go of by Py_BEGIN_ALLOW_THREADS
  /\ Go(t, "creating")
  /\ calls' = calls + 1

\* dds_create_topic_sertype refuses the name, the participant or the policies ...
CreateFails(t) ==
  /\ pc[t] = "creating"
  /\ Go(t, "failed")
  /\ UNCHANGED <<gil, sertypeVars, calls>>

\* ... or looks for a sertype like the one it was given.
LockRegistry(t) ==
  /\ pc[t] = "creating"
  /\ typesLock = Nobody
  /\ typesLock' = t
  /\ unseen' = [unseen EXCEPT ![t] = registry]
  /\ Go(t, "looking")
  /\ UNCHANGED <<gil, mine, spare, class, refs, registry, described, topics, pyRefs, calls>>

\* sertype_equal: one class is known to be itself without the GIL, two are compared.
FindEqual(t) ==
  /\ pc[t] = "looking"
  /\ \E s \in unseen[t] :
       /\ class[s] = class[mine[t]]
       /\ refs' = [refs EXCEPT ![s] = @ + 1]
       /\ spare' = [spare EXCEPT ![t] = mine[t]]
       /\ mine' = [mine EXCEPT ![t] = s]
  /\ unseen' = [unseen EXCEPT ![t] = {}]
  /\ Go(t, "replaced")
  /\ UNCHANGED <<gil, typesLock, class, registry, described, topics, pyRefs, calls>>

Differ(t) ==
  /\ pc[t] = "looking"
  /\ GilFor(t)
  /\ \E s \in unseen[t] :
       /\ class[s] # class[mine[t]]
       /\ unseen' = [unseen EXCEPT ![t] = @ \ {s}]
  /\ UNCHANGED <<gil, typesLock, pc, mine, spare, class, refs, registry, described, topics, pyRefs, calls>>

Register(t) ==
  /\ pc[t] = "looking"
  /\ unseen[t] = {}
  /\ registry' = registry \cup {mine[t]}
  /\ typesLock' = Nobody
  /\ Go(t, "created")
  /\ UNCHANGED <<gil, mine, spare, unseen, class, refs, described, topics, pyRefs, calls>>

\* sertype_free: the class is let go of, with the GIL.
\* Mutant of Free: the class is never let go of.
FreeKeepsClass(s) ==
  /\ class' = [class EXCEPT ![s] = NoClass]
  /\ refs' = [refs EXCEPT ![s] = 0]
  /\ described' = described \ {s}
  /\ pyRefs' = pyRefs
Free(s) ==
  /\ class' = [class EXCEPT ![s] = NoClass]
  /\ refs' = [refs EXCEPT ![s] = 0]
  /\ described' = described \ {s}
  /\ pyRefs' = [pyRefs EXCEPT ![class[s]] = @ - 1]

DropSpare(t) ==
  /\ pc[t] = "replaced"
  /\ GilFor(t)
  /\ Free(spare[t])
  /\ spare' = [spare EXCEPT ![t] = NoSertype]
  /\ typesLock' = Nobody
  /\ Go(t, "created")
  /\ UNCHANGED <<gil, mine, unseen, registry, topics, calls>>

\* Py_END_ALLOW_THREADS, and init_cdrstream_descriptor.  Type information that another
\* thread has not stored yet is empty at one time and there at the next.
FinishTopic(t) ==
  /\ pc[t] = "created"
  /\ GilFor(t)
  /\ described' = described \cup {mine[t]}
  /\ topics' = [topics EXCEPT ![mine[t]] = @ + 1]
  /\ mine' = [mine EXCEPT ![t] = NoSertype]
  /\ gil' = Nobody
  /\ Go(t, "idle")
  /\ UNCHANGED <<typesLock, spare, unseen, class, refs, registry, pyRefs, calls>>

\* init_cdrstream_descriptor fails, and dds_delete is called without letting go of
\* the GIL.
RefuseTopic(t) ==
  /\ pc[t] = "created"
  /\ GilFor(t)
  /\ class[mine[t]] \in Refused
  /\ gil' = t
  /\ Go(t, "undoing")
  /\ UNCHANGED <<sertypeVars, calls>>

FailTopic(t) ==
  /\ pc[t] = "failed"
  /\ GilFor(t)
  /\ Free(mine[t])
  /\ mine' = [mine EXCEPT ![t] = NoSertype]
  /\ gil' = Nobody
  /\ Go(t, "idle")
  /\ UNCHANGED <<typesLock, spare, unseen, registry, topics, calls>>

\* dds_delete, through ctypes, which lets go of the GIL for the call.  The topic
\* with the readers and writers is theirs to keep.
DeleteTopic(t, s) ==
  /\ CanCall(t)
  /\ topics[s] > IF s = Main THEN 1 ELSE 0
  /\ topics' = [topics EXCEPT ![s] = @ - 1]
  /\ mine' = [mine EXCEPT ![t] = s]
  /\ Go(t, "deleting")
  /\ calls' = calls + 1
  /\ UNCHANGED <<gil, typesLock, spare, unseen, class, refs, registry, described, pyRefs>>

Unref(t) ==
  /\ pc[t] \in {"deleting", "undoing"}
  /\ typesLock = Nobody
  /\ refs' = [refs EXCEPT ![mine[t]] = @ - 1]
  /\ IF refs[mine[t]] = 1
     THEN /\ registry' = registry \ {mine[t]}
          /\ typesLock' = t
          /\ Go(t, "freeing")
          /\ UNCHANGED mine
     ELSE /\ mine' = [mine EXCEPT ![t] = NoSertype]
          /\ Go(t, "returning")
          /\ UNCHANGED <<registry, typesLock>>
  /\ UNCHANGED <<gil, spare, unseen, class, described, topics, pyRefs, calls>>

FreeLast(t) ==
  /\ pc[t] = "freeing"
  /\ GilFor(t)
  /\ Free(mine[t])
  /\ mine' = [mine EXCEPT ![t] = NoSertype]
  /\ typesLock' = Nobody
  /\ Go(t, "returning")
  /\ UNCHANGED <<gil, spare, unseen, registry, topics, calls>>

Return(t) ==
  /\ pc[t] = "returning"
  /\ GilFor(t)
  /\ gil' = Nobody
  /\ Go(t, "idle")
  /\ UNCHANGED <<sertypeVars, calls>>

Continue(t) ==
  \/ LockRegistry(t) \/ FindEqual(t) \/ Differ(t) \/ Register(t) \/ DropSpare(t)
  \/ FinishTopic(t) \/ RefuseTopic(t) \/ FailTopic(t) \/ Unref(t) \/ FreeLast(t) \/ Return(t)

SertypesNext ==
  \E t \in Threads :
    \/ \E c \in Classes : CreateTopic(t, c)
    \/ CreateFails(t)
    \/ \E s \in Sertypes : DeleteTopic(t, s)
    \/ Continue(t)
=============================================================================
