------------------------------- MODULE Samples -------------------------------
(***************************************************************************)
(* What a program writes, and what it reads back: the writing calls of     *)
(* pub.py and clayer/pysertype.c, the samples that come over the network,  *)
(* and read and take with their collector.  Calls of the program hold the  *)
(* GIL from start to end, so only the network, and creating and deleting   *)
(* topics, come between two steps of a read.  The instances and the cache  *)
(* of the reader belong to Cyclone and are modelled from their use.        *)
(***************************************************************************)
EXTENDS Serdata, Sertypes

CONSTANTS
  Writers,       \* DataWriters of the program -> the XCDR version they write
  Remotes,       \* writers of other processes
  TopicTypes,    \* the types the topic can have
  FirstCapacity, \* of a collector; 8 in the code
  ReadLimits     \* the N a program reads

ASSUME SamplesAssumption ==
  /\ TopicTypes \subseteq Types
  /\ \A w \in DOMAIN Writers : Writers[w] \in Versions
  /\ FirstCapacity \in Nat \ {0}
  /\ ReadLimits \subseteq Nat \ {0}

VARIABLES
  type,       \* of the topic
  instances,  \* handle -> instance
  collector,  \* of the read that is going on
  handed      \* what the last read gave to the program

sampleVars == <<type, instances, collector, handed>>
vars == <<gil, pc, sertypeVars, calls, sampleVars>>

AllWriters == DOMAIN Writers \cup Remotes
Masks == {"any", "notRead"}
NoRead == [todo |-> <<>>, items |-> <<>>, capacity |-> 0]

InitSamples ==
  /\ type \in TopicTypes
  /\ instances = <<>>
  /\ collector = NoRead
  /\ handed = <<>>

Init == InitSertypes /\ InitSamples

(***************************************************************************)
(* Instances.  Handles, and the places of samples in the cache, are the    *)
(* numbers of the calls that made them.  "about" is the key the writer     *)
(* meant, which the code does not keep: the properties compare with it.    *)
(***************************************************************************)
Abouts == Keys \cup {NoKey}
SerdataRecords == [data : Payloads, key : KeyBytes, v2 : BOOLEAN]
SampleRecords == [sd : SerdataRecords, about : Abouts, read : BOOLEAN]
IsInstance(i) ==
  /\ i = [untyped |-> i.untyped, about |-> i.about, writers |-> i.writers, samples |-> i.samples,
          invalid |-> i.invalid, alive |-> i.alive]
  /\ i.untyped \in Untyped
  /\ i.about \in Abouts
  /\ i.writers \subseteq AllWriters
  /\ i.samples = [n \in DOMAIN i.samples |-> i.samples[n]]
  /\ DOMAIN i.samples \subseteq 1 .. MaxCalls
  /\ \A n \in DOMAIN i.samples : i.samples[n] \in SampleRecords
  /\ i.invalid \in {"none", "unread", "read"}
  /\ i.alive \in BOOLEAN

NewInstance(sd, about) ==
  [untyped |-> ToUntyped(sd), about |-> about, writers |-> {}, samples |-> <<>>,
   invalid |-> "none", alive |-> TRUE]

Handles == DOMAIN instances
Found(sd) == {h \in Handles : EqKey(type, instances[h].untyped, sd)}

\* An instance nobody writes and nothing is to be read of is forgotten.
Needed(i) == i.writers # {} \/ i.samples # <<>> \/ i.invalid # "none"
Kept(insts) == [h \in {g \in DOMAIN insts : Needed(insts[g])} |-> insts[h]]

Quiet(i) == \A n \in DOMAIN i.samples : i.samples[n].read \/ \E m \in DOMAIN i.samples : m > n

\* The instance ends; when nothing unread tells, an invalid sample is to.
Ended(i) ==
  [i EXCEPT !.alive = FALSE, !.invalid = IF i.alive /\ Quiet(i) THEN "unread" ELSE @]
Added(i, sd, about, n) ==
  [i EXCEPT !.samples = [m \in DOMAIN @ \cup {n} |->
                           IF m = n THEN [sd |-> sd, about |-> about, read |-> FALSE] ELSE @[m]],
            !.invalid = "none", !.alive = TRUE]
By(i, w) == [i EXCEPT !.writers = @ \cup {w}]
Disposed(i, w) == Ended(By(i, w))
Unregistered(i, w) ==
  LET left == [i EXCEPT !.writers = @ \ {w}]
  IN  IF i.writers = {w} THEN Ended(left) ELSE left

Operations == {"write", "writeDispose", "dispose", "unregister", "register"}
KindOf(op) == IF op \in {"write", "writeDispose"} THEN "data" ELSE "key"
Apply(i, w, op, sd, about, n) ==
  CASE op = "write" -> Added(By(i, w), sd, about, n)
    [] op = "writeDispose" -> Ended(Added(By(i, w), sd, about, n))
    [] op = "dispose" -> Disposed(i, w)
    [] op = "unregister" -> Unregistered(i, w)
    [] op = "register" -> By(i, w)

Deliver(w, op, sd, about) ==
  LET n == calls + 1
      h == IF Found(sd) = {} THEN n ELSE CHOOSE x \in Found(sd) : TRUE
      old == IF Found(sd) = {} THEN NewInstance(sd, about) ELSE instances[h]
  IN  instances' = Kept([g \in Handles \cup {h} |->
                           IF g = h THEN Apply(old, w, op, sd, about, n) ELSE instances[g]])

\* A call that holds the GIL from start to end, and changes the instances only.
Call(t) ==
  /\ CanCall(t)
  /\ calls' = calls + 1
  /\ UNCHANGED <<gil, pc, sertypeVars, type, collector, handed>>

\* The whole sample or its key, in the version of the writer; C refuses a bad one.
Send(w, op, k, wellFormed) ==
  LET b == Serialize(type, Writers[w], NativeLE, KindOf(op), k, wellFormed)
  IN  IF Normalizes(b, KindOf(op))
      THEN Deliver(w, op, FromCommon(b), KeyOf(type, k))
      ELSE UNCHANGED instances

\* DataWriter.write, write_dispose and dispose.
Write(t, w, op, k, wellFormed) ==
  op \in {"write", "writeDispose", "dispose"} /\ Call(t) /\ Send(w, op, k, wellFormed)
RegisterInstance(t, w, k, wellFormed) == Call(t) /\ Send(w, "register", k, wellFormed)
UnregisterInstance(t, w, k, wellFormed) == Call(t) /\ Send(w, "unregister", k, wellFormed)

\* The same of an instance by its handle.
DisposeHandle(t, w, h) ==
  Call(t) /\ instances' = Kept([instances EXCEPT ![h] = Disposed(@, w)])
UnregisterHandle(t, w, h) ==
  Call(t) /\ instances' = Kept([instances EXCEPT ![h] = Unregistered(@, w)])

\* The thread that receives has no GIL, and waits for a read of the reader to end.
Receive(w, op, k, v, le, wellFormed, chain) ==
  /\ \A t \in Threads : pc[t] # "collecting"
  /\ calls < MaxCalls
  /\ calls' = calls + 1
  /\ LET b == FromSer(Serialize(type, v, le, KindOf(op), k, wellFormed), chain)
     IN  IF Normalizes(b, KindOf(op))
         THEN Deliver(w, op, FromCommon(b), KeyOf(type, k))
         ELSE UNCHANGED instances
  /\ UNCHANGED <<gil, pc, sertypeVars, type, collector, handed>>

(***************************************************************************)
(* read and take.                                                          *)
(***************************************************************************)
InOrder(numbers) ==
  FlattenSeq([n \in 1 .. MaxCalls |-> IF n \in numbers THEN <<n>> ELSE <<>>])

\* What there is to read, instance by instance; place 0 is the invalid sample.
InstanceItems(h, mask) ==
  LET i == instances[h]
      valid == {n \in DOMAIN i.samples : mask = "any" \/ ~i.samples[n].read}
      invalid == IF i.invalid = "unread" \/ (i.invalid = "read" /\ mask = "any") THEN <<0>> ELSE <<>>
      all == InOrder(valid) \o invalid
  IN  [n \in DOMAIN all |-> <<h, all[n]>>]
ToRead(mask, limit) ==
  LET order == InOrder(Handles)
      all == FlattenSeq([n \in DOMAIN order |-> InstanceItems(order[n], mask)])
  IN  SubSeq(all, 1, IF Len(all) < limit THEN Len(all) ELSE limit)

Handout(p) ==
  LET i == instances[p[1]]
  IN  IF p[2] = 0 THEN [valid |-> FALSE, sd |-> i.untyped, about |-> i.about]
      ELSE [valid |-> TRUE, sd |-> i.samples[p[2]].sd, about |-> i.samples[p[2]].about]

Marked(sample, picked) == [sample EXCEPT !.read = @ \/ picked]
AfterRead(h, i, picked) ==
  [i EXCEPT !.samples = [n \in DOMAIN @ |-> Marked(@[n], <<h, n>> \in picked)],
            !.invalid = IF <<h, 0>> \in picked THEN "read" ELSE @]
AfterTake(h, i, picked) ==
  [i EXCEPT !.samples = [n \in {m \in DOMAIN @ : <<h, m>> \notin picked} |-> @[n]],
            !.invalid = IF <<h, 0>> \in picked THEN "none" ELSE @]

\* ddspy_readtake: the reader stays locked, and the GIL held, until the end.
StartRead(t, mask, limit, take) ==
  /\ CanCall(t)
  /\ LET order == ToRead(mask, limit)
         picked == ToSet(order)
     IN  /\ collector' = [NoRead EXCEPT !.todo = [n \in DOMAIN order |-> Handout(order[n])]]
         /\ instances' = Kept([h \in Handles |-> IF take THEN AfterTake(h, instances[h], picked)
                                                 ELSE AfterRead(h, instances[h], picked)])
  /\ gil' = t
  /\ Go(t, "collecting")
  /\ calls' = calls + 1
  /\ handed' = <<>>
  /\ UNCHANGED <<sertypeVars, type>>

\* collector_callback_fn.
\* Mutant of Capacity: it grows when it has overflowed.
CapacityTooLate(c) ==
  IF Len(c.items) > c.capacity THEN (IF c.capacity = 0 THEN FirstCapacity ELSE 2 * c.capacity)
  ELSE c.capacity
Capacity(c) ==
  IF Len(c.items) >= c.capacity THEN (IF c.capacity = 0 THEN FirstCapacity ELSE 2 * c.capacity)
  ELSE c.capacity

Sample(x) ==
  [valid |-> x.valid, about |-> x.about,
   data |-> IF x.valid THEN x.sd.data ELSE UntypedToSample(type, x.sd)]

Collect(t) ==
  /\ pc[t] = "collecting"
  /\ collector.todo # <<>>
  /\ collector' = [todo |-> Tail(collector.todo),
                   items |-> Append(collector.items, Sample(Head(collector.todo))),
                   capacity |-> Capacity(collector)]
  /\ UNCHANGED <<gil, pc, sertypeVars, calls, type, instances, handed>>

\* readtake_post, then DataReader.read or take: a list of samples and InvalidSamples.
FinishRead(t) ==
  /\ pc[t] = "collecting"
  /\ collector.todo = <<>>
  /\ handed' = [n \in DOMAIN collector.items |->
                  [valid |-> collector.items[n].valid, about |-> collector.items[n].about,
                   value |-> Deserialize(collector.items[n].data)]]
  /\ collector' = NoRead
  /\ gil' = Nobody
  /\ Go(t, "idle")
  /\ UNCHANGED <<sertypeVars, calls, type, instances>>

CallSamples(t) ==
  \/ \E w \in DOMAIN Writers, k \in Keys, ok \in BOOLEAN :
       (\E op \in Operations : Write(t, w, op, k, ok))
         \/ RegisterInstance(t, w, k, ok) \/ UnregisterInstance(t, w, k, ok)
  \/ \E w \in DOMAIN Writers, h \in Handles : DisposeHandle(t, w, h) \/ UnregisterHandle(t, w, h)
  \/ \E mask \in Masks, limit \in ReadLimits, take \in BOOLEAN : StartRead(t, mask, limit, take)

SamplesNext ==
  \/ \E t \in Threads : CallSamples(t) \/ Collect(t) \/ FinishRead(t)
  \/ \E w \in Remotes, op \in Operations \ {"register"}, k \in Keys, v \in Versions,
        le, ok \in BOOLEAN, chain \in FragChains : Receive(w, op, k, v, le, ok, chain)

Next == (SertypesNext /\ UNCHANGED sampleVars) \/ SamplesNext

\* A thread goes on: the registry's lock and the GIL come free again and again, and
\* nothing but MaxCalls calls can come in between.
Fairness == \A t \in Threads : WF_vars(Continue(t) /\ UNCHANGED sampleVars)
                               /\ WF_vars(Collect(t) \/ FinishRead(t))
Spec == Init /\ [][Next]_vars /\ Fairness

(***************************************************************************)
(* Properties.                                                             *)
(***************************************************************************)
\* Every variable has its type, and the collector has room for what it holds: the
\* arrays of ddspy_readtake are grown before a sample is stored, never after.
TypeOK ==
  /\ gil \in Threads \cup {Nobody}
  /\ typesLock \in Threads \cup {Nobody}
  /\ pc \in [Threads -> Places \cup {"collecting"}]
  /\ mine \in [Threads -> Sertypes \cup {NoSertype}]
  /\ spare \in [Threads -> Sertypes \cup {NoSertype}]
  /\ unseen \in [Threads -> SUBSET Sertypes]
  /\ class \in [Sertypes -> Classes \cup {NoClass}]
  /\ {refs, topics} \subseteq [Sertypes -> Nat]
  /\ {registry, described} \subseteq SUBSET Sertypes
  /\ pyRefs \in [Classes -> Nat]
  /\ calls \in 0 .. MaxCalls
  /\ type \in Types
  /\ Handles \subseteq 1 .. calls
  /\ \A h \in Handles : IsInstance(instances[h])
  /\ Len(collector.items) <= collector.capacity
  /\ ToSet(collector.items) \subseteq
       [valid : BOOLEAN, about : Abouts, data : Payloads]

\* A sertype lives as long as a topic or a call that makes or deletes one needs it,
\* and no longer; a topic that was handed out is described; the class is referenced
\* once for each sertype; and no two registered sertypes are of one class.  About
\* ddspy_topic_create and sertype_free, in any order of two threads' calls.
SertypesHeld ==
  /\ \A c \in Classes : pyRefs[c] = Cardinality({s \in Sertypes : class[s] = c})
  /\ \A s \in Sertypes :
       /\ refs[s] = topics[s] + Cardinality({t \in Threads : mine[t] = s /\ pc[t] # "freeing"})
                              + Cardinality({t \in Threads : spare[t] = s})
       /\ topics[s] > 0 => s \in registry \cap described
       /\ s \in Allocated => refs[s] > 0 \/ \E t \in Threads : pc[t] = "freeing" /\ mine[t] = s
       /\ s \in registry => s \in Allocated
  /\ \A r, s \in registry : class[r] = class[s] => r = s

\* The samples of one key are one instance, whichever of the encodings, versions
\* and byte orders they were written in, and those of two keys never are.  About
\* ddspy_serdata_populate_key and serdata_eqkey.
SameInstance ==
  /\ \A g, h \in Handles : instances[g].about = instances[h].about => g = h
  /\ \A h \in Handles : \A n \in DOMAIN instances[h].samples :
       instances[h].samples[n].about = instances[h].about

\* What read and take hand over, a sample or the key of an InvalidSample, is what
\* was written, after every conversion on the way.  About serdata_from_common,
\* serdata_to_sample and serdata_typeless_to_sample.
HandedOver == \A n \in DOMAIN handed : handed[n].value = handed[n].about

\* The holder of the registry's lock, t, needs the GIL for its next step: it is freeing
\* a class, or every class it still has to compare with is another one.
NeedsGil(t) ==
  \/ pc[t] \in {"replaced", "freeing"}
  \/ pc[t] = "looking" /\ unseen[t] # {} /\ \A s \in unseen[t] : class[s] # class[mine[t]]

\* A topic is undone with the GIL while another call has the registry's lock.
Deadlocked == \E t, u \in Threads : pc[t] = "undoing" /\ typesLock = u /\ NeedsGil(u)

\* Every call of the program comes back, unless a topic that could not be described
\* meets another call in the registry: no other thread waits for the registry's lock
\* with the GIL.  About ddspy_topic_create and sertype_free.
CallsReturn == \A t \in Threads : pc[t] # "idle" ~> pc[t] = "idle" \/ Deadlocked

\* What a program is told of a topic that could not be made: the error code comes
\* back and becomes an exception.  The docstring of DDSException says so; it fails when
\* dds_delete waits, with the GIL, for a thread that waits for the GIL.
RefusalReturns == \A t \in Threads : pc[t] = "undoing" ~> pc[t] = "idle"
=============================================================================
