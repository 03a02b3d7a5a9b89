# A TLA+ model of the Cyclone DDS Python binding

The binding (`cyclonedds/`, `clayer/`) puts Python objects in front of the C
library Cyclone DDS: entities whose lifetime follows Python's reference counts,
listeners that C calls from its receive threads, blocking and asynchronous
iteration over samples, and an encoder and decoder for IDL types. The models
here cover the places where those meet: objects and native entities that are
created and destroyed by three actors, function pointers that C copies while
Python replaces them, waits that race with samples, serialised types and samples
that C threads and Python threads share, and the layers that turn types, values
and policies into bytes and back.

## Inventory

| part | state it keeps | operations | who it talks to |
|---|---|---|---|
| Entity (`core.py` 126-760, constructors in `domain`, `topic`, `sub`, `pub`, `builtin`) | `_entities` (weak dictionary handle → object), `_ref`, `_listener`, `_keepalive_entities`, `_next_condition`, `_topic_filter` | constructors, `__del__`, `get_parent` / `get_children` ..., `get_entity` | `dds_create_*`, `dds_delete`; the cyclic collector; callbacks |
| Listener (`core.py` 812-1390) | attributes `on_x`, function objects `_on_x`, `_set_functors`, the C struct | `set_on_x`, `reset`, `copy`, `copy_to`, `merge`; `set_listener`, `get_listener` of entities | C copies the struct and calls the functions from receive threads |
| Conditions, WaitSet (`core.py` 1495-1885) | `reader`, `_filter`, `attached` | `attach`, `detach`, `wait`, `wait_until`, `wait_async` | C waits; executor threads; the event loop |
| Samples (`sub.py`) | the reader's cache, in C | `read`, `take`, `read_next`, `take_next`, the iterators | `ddspy_read` / `ddspy_take`, WaitSet, conditions |
| Writing (`pub.py`) | `_use_version_2` | `write`, `dispose`, `register_instance`, `wait_for_acks` | `ddspy_write` ... |
| Serialised types (`pysertype.c` 60-930) | `ddspy_sertype` with reference counts and a cdrstream descriptor; serdata with key and hash | topic creation, the serdata operations called by receive threads | Python type objects, the interpreter lock |
| Collector (`pysertype.c` 1129-1250) | containers, sample infos, count, capacity | one callback per sample, then a list | `dds_read_with_collector` |
| Log sinks (`pysertype.c` 1937-2100, `log.py`) | callback and userdata | `set_log_sink`, `set_trace_sink` | any C thread that logs |
| CDR (`idl/_machinery.py`, `_support.py`, `_main.py`) | `Buffer` position, size, alignment; key scans | serialise, deserialise, key extraction | the C layer's cdrstream |
| Type description and type objects (`idl/_builder.py`, `_xt_builder.py`, `dynamic.py`) | type caches; the worklist of type identifiers | building machines; fetching and rebuilding remote types | `ddspy_get_typeobj` |
| Qos (`qos.py`, `qos_provider.py`) | immutable policies | merge, conversion to and from C | every constructor |
| Built-in topics (`builtin.py`) | `_next_condition` | `read`, `take` | endpoints of C discovery |
| Tools (`tools/`) | pubsub: a line handed between two threads; ddsls: tracked entities | command lines | all of the above |
| idlc back-end (`idlpy/`) | output files | generation | none at run time |

Hard behaviours, with what would be correct:

* *Lifetime.* An object may be dropped by the program, by a callback or by the
  collector, in any order, while other threads construct objects from it. A
  usable object must have its native entity; a deletion must end; the native
  entity should go with its object.
* *Callbacks.* C calls function pointers it copied earlier. They must be alive,
  belong to the listener the entity has, and find the entity.
* *Waiting.* A sample arriving between the read and the wait must not be lost,
  nobody delivers a sample that another consumer delivered, a timeout ends the
  iteration, and the event loop stays usable.
* *Locks.* `dds_delete` and `dds_set_listener` wait for callbacks; callbacks wait
  for the interpreter lock.
* *Hand-over.* Log sinks and the pubsub worker pass pairs of values between
  threads without a lock.
* *Encodings.* Alignment, growth and headers at their limits; a message read by
  another version of its type, in another encoding or byte order; keys that must
  come out the same whichever way a sample came.
* *Type identifiers.* The identifier of a recursive type depends on the order in
  which its component is met; it must not depend on what was published before.
* *Qos.* Policies cross into C and back through class attributes that all
  threads share.

`PROJECT.json` lists these as hazards, each at its line, with the properties
that cover it or the reason why none does yet.

## Modules

| module | models | lines |
|---|---|---|
| `EntityLifetime` | objects, registry, natives, references, finalization, collector, callbacks by handle | `core.py` Entity, conditions, WaitSet; the constructors |
| `LinkedLifetime` | the abstract contract: a usable entity exists natively | the docstring of Entity, by what the code keeps |
| `EntityLifetimeProofs` | theorems about `EntityLifetime` | |
| `Listeners` | listener objects, C structs, what is installed, callbacks in progress | `core.py` Listener, `get_listener`, `set_listener` |
| `ListenersProofs` | theorems about `Listeners` | |
| `SampleIteration` | readers' caches, consumers, waits, the event loop | `sub.py` iterators; `core.py` `wait`, `wait_async` |
| `SampleIterationProofs` | theorems about `SampleIteration` | |
| `XcdrBuffer` | the byte array with its position, origin and alignment | `idl/_support.py` Buffer |
| `XcdrMachines` | every encoding machine, and the machine a type gets | `idl/_machinery.py`, `idl/_builder.py` |
| `Xcdr` | one message: written, and read back | `idl/_main.py` serialize, deserialize and their key variants |
| `XcdrViews` | what a reader should see, without any encoding, which versions of a type meet and which have the same keys | |
| `XcdrProofs` | theorems about what `Xcdr` writes | |
| `XcdrReadProofs` | theorems about what it reads, and about the keys of two versions | |
| `XtBuilder` | type objects, identifiers, information and mapping of classes | `idl/_xt_builder.py` XTBuilder |
| `XtInterpreter` | classes made from type objects | `idl/_xt_builder.py` XTInterpreter, XTTypeIdScanner; `idl/_main.py` metaclasses |
| `TypeExchange` | publishing types, fetching one, making a class of it and publishing that | `fill_type_data`; `dynamic.py` |
| `TypeFetch` | the abstract contract of the gathering loop | what `get_types_for_typeid` is for |
| `TypeFetchProofs` | theorems about `TypeFetch` | |
| `QosPolicies` | each policy, and what its setter and getter make of it | `qos.py` Policy, `_CQos` |
| `QosObjects` | Qos objects, their look-up, algebra and dictionaries | `qos.py` Qos |
| `Qos` | threads that make entities, set and get their Qos | `qos.py` `qos_to_cqos`, `cqos_to_qos`; `core.py` `get_qos`, `set_qos`; `qos_provider.py` |
| `QosRegister` | the abstract contract: a register per entity | what `get_qos` and `set_qos` promise |
| `QosProofs` | theorems about `Qos` | |
| `Serdata` | payloads, keys and their conversions | `pysertype.c` serdata operations |
| `Sertypes` | serialised types, their registry and its lock | `pysertype.c` sertype operations, `ddspy_topic_create` |
| `Samples` | writing, receiving, reading and taking, on top of both | `pysertype.c` writing calls and collector; `pub.py`, `sub.py` |
| `SamplesProofs` | theorems about `Samples`: its sertypes; its keys and what is read | |
| `MCEntityLifetime`, `MCListeners`, `MCSampleIteration`, `MCXcdr`, `MCTypeExchange`, `MCQos`, `MCSamples` | instances for TLC | |

`XcdrMachines` extends `XcdrBuffer`, and `Xcdr` both; `TypeExchange` extends
`XtInterpreter`, which extends `XtBuilder`; `Qos` extends `QosObjects`, which
extends `QosPolicies`; `Samples` composes `Serdata` and `Sertypes`.
`LinkedLifetime`, `TypeFetch` and `QosRegister` are abstract specifications that
`EntityLifetime`, `TypeExchange` and `Qos` implement.

### EntityLifetime

`phase` follows one object: `unborn`, `created` (the C call has returned, the
object is not registered), `registered` (in `_entities`, the constructor still
runs), `live`, `finalizing` (its reference count reached zero), `deleting`
(inside `dds_delete`), `dead`. `refs` holds the strong references in fields,
`app` those in program variables, and a constructor's frame holds its
arguments. After every step that releases references, `Release` puts what is
no longer referenced into the finalizing thread's set `fin`: CPython runs
`__del__` inside whatever the thread was doing, hence the guards
`NotFinalizing`. `Collect` is the cyclic collector. It may take any closed set
of unreferenced objects. CPython clears the weak references to the set before
the finalizers run, so `__del__` finds `_ref not in _entities` and returns.

`CreateNative` and `Register` are separate steps because C can call a listener
as soon as `dds_create_*` has installed it. `BeginDelete` and `EndDelete` are
separate because ctypes releases the interpreter lock during `dds_delete`, which
waits for the callbacks below the entity. `EnterCallback`, `ResolveEntity`,
`LeaveFunction` and `LeaveCallback` are one callback; its argument is released
before the callback returns to C, which is how a callback can delete the entity
it was called for and wait for itself (`SelfWait`).

What an object keeps is `Keepalive`. A `BuiltinDataReader` made from a participant
keeps nothing, because its `self.subscriber` is the implicit one, which has no
Python object (`Adrift`). A condition takes any reader, that one too, as
`tools/ddsls` does (`OnAdrift`); it keeps its reader and still loses its native
with the participant. These two, WaitSet and GuardCondition are what `Tracked`
excepts: `KeepaliveSound` and the refinement of `LinkedLifetime` are about all
others, conditions on built-in readers made from a subscriber included. `WaitSet.__del__`
first detaches what is still attached and ignores what C answers; that changes
nothing the model keeps and is left out.

External, from how the code uses it: handles are never reused, `dds_delete`
takes the whole subtree, the C library refuses parents that are gone, and a
reader or writer made from a participant hangs below an implicit subscriber or
publisher that has no Python object.

One window is abstracted. CPython calls `__del__` before it clears the object's
weak references, so until `del self._entities[...]` (`core.py` 194) another
thread can still get the object from the registry and bring it back to life,
after which its native entity is deleted under it. A callback in the model can
be handed such an object (`ResolveEntity`), but it never counts as usable, and
its fields are released when `dds_delete` returns. `LookUp`, by which the program
gets objects back, is limited to phase `live`. What the invariants say is about
objects that were never brought back.

### Listeners

A listener has three layers: the attribute `on_x` (`attr`), the ctypes function
object in `_on_x` (`object`, a number per listener and callback; setting makes
the next one and so frees the previous one), and the C struct (`struct`). An
entity has the listener it retains (`retained`) and what C copied
(`installed`). `set_listener` is several steps (`SetListener`, `CopyOne` for
each functor, `EndCopy`, `Install`), since receive threads enter callbacks
between them: they run C code without the interpreter lock. `Install` waits for
the callbacks in progress. `set_on_data_on_readers(None)` clears the C field of
`data_available`, as the code does (`Cleared`). One program thread works on
listeners. Listeners inherited from parents inside C are left out.
`OwnedIsInstalled` and `MergeKeepsOthers` are limited to entities whose listener
`set_listener` made: the setters are out of the program's reach there, so neither
the wrong field of `set_on_data_on_readers(None)` nor a freed function object can
get into what C has installed.

### SampleIteration

Consumers share a reader with a history of `Depth` samples. Each is a generator
(`read_iter`, `take_iter`), a single `next` of one (`read_one`, `take_one`), an
asynchronous generator or a call of `wait_async`. `wait` is the call of
`waitset.wait` on the consumer's or the executor's thread, `loop` is the task
that occupies the event loop. Conditions are the default one (`NotRead`, any
view, alive), so a sample another consumer has read no longer matches. Time is
abstract: a wait with a timeout may expire whenever nothing matches. `None` and
0 are both "no timeout", by `timeout or ...`; the replacement,
`duration(weeks=99999)`, exceeds 64 bits and reaches C as about 163 years, which
the model takes as for ever.

Two things the consumers do are no part of what is shown. `take_one` and `read_one`
say that they take one sample "or raise a timeout" (`sub.py` 298, 328); what comes out
of the `next` they call is `StopIteration`, and the `TimeoutError` below is never
reached, so `TimeoutEnds` says that they end, not how. And a cancelled `wait_async`
is joined inside the event loop: with a timeout, the loop is given back when it is
over (`LoopGivenBack`); without one, not before a sample arrives.

### Xcdr

The encoder is a tree of machines, one for each type. `MachineFor` is the
Builder, `Serialize` and `Deserialize` have one case for each machine class, and
the buffer is passed through them as it is in the code. The recursion over types
goes through constant operators: the body of `Serialize` is `Serialized`, which
calls `Serialize` for what is inside, and `Recursion` says that the two are equal,
as a recursive definition would. `BuiltMachine`, `DefaultValue`, `Deserialized` and
`RestOfMutable` are the other bodies. `MCXcdr` ties the knots with RECURSIVE
operators; `XcdrProofs` reasons from the equations. A number is one cell at
its first position with its width and byte order, so that a read at the wrong
place, of the wrong width or in the wrong order returns `Garbled` instead of a
plausible value. Growth is kept (`ensure_size` counts from the position), with
8 bytes for a new buffer in place of 512, so that every sample makes it grow. A
program may pass a buffer that a failed encoding left behind, which is why
`Prepare` resets what the code resets. `wire` is the one message of a behaviour,
`seen` what one reader made of it. Both are chosen freely, so the run asks its
questions of every combination of type, value, version, byte order, buffer and
reader.

`Descs` holds the descriptions of the types and of everything in them, `Depth` how
deep each goes, and `ValuesOf` their values. `TypesAssumption`, `ValuesAssumption` and
`BuffersAssumption` say what the metaclasses and annotations accept: sizes of 1, 2, 4
or 8, bit bounds up to 64, distinct names and ids in a struct, types built from
less deep ones, and values within their bounds.

Two kinds of legal values raise an error when they are written, and the model does
what the code does:

* The holder of an enum with a `bit_bound` is `int(log2(bit_bound)) - 3` in a list of
  four (`_machinery.py` 622; `EnumHolder`), one byte for 9 to 15 bits, two for 17 to
  31 and four for 33 to 63. A value that needs more than that is refused by
  `struct.pack_into` (`_support.py` 129, 142): `Write` and `WriteMulti` check it
  (`InRange`) and fail with `struct.error`. In XCDR1 an enum has four bytes.
* An optional member that belongs to a key, itself or as part of a struct that does,
  trips the assertion of `OptionalMachine.serialize` (`_machinery.py` 662), unless it
  is a member of a mutable struct, which has no `OptionalMachine` for it.

`Encodable` names the types that meet neither, each with how much of a value is
written (`Extent`: all of it, or what belongs to a key under some `KeyEnabled`), and
`EncodableAssumption` says which those are: the type is `Writable`, and so are the
parts that are written (`PartsWritten`). `EncodingIsWhole` promises messages without
an error to exactly these; of the others it says that what is written without an
error is complete. An error ends a call of the code; here the first error stays in the
buffer until the message is complete, and nobody reads a message with an error.

`View` and `KeyView`, in `XcdrViews`, say what a reader should see on types and values, without
any encoding; `SampleReadBack` and `KeyReadBack` compare with them. These
operators recur over types as the machines do, and `ViewRecursion` ties them in
the same way. `Readable` holds the pairs of types that meet: those of a writer and
its readers, and of the parts that are read as each other (`PartsReadAs`, where
members go by their ids). `Alike` says what such a pair has in common.
`ReadableAssumption` says that it is so for all types C lets meet; that is a
matter of the C library's matching, so it is an assumption, and TLC evaluates it
for the types of the run. `Misses` is the one way to fail: the writer sent a
member marked `must_understand` that the reader lacks. At the top a sample of that
kind is refused; further in, `Understood` leaves such pairs out.
`Keyed` holds the pairs whose keys are made of the same members: those of `Evolved`,
and of the parts the keys are made of (`PartsInKey`), each with the `KeyEnabled`
it has there, since a struct below a key without keys of its own is a key as a whole.
`KeyedAssumption` says that such a pair has the same key members, by id, with the
same `must_understand` marks and, unless it is mutable, in the same places (`SameKey`). That is
what type compatibility in C asks of two versions, so it is an assumption of the
same kind, and TLC evaluates it too.
`LabelsAssumption` leaves out one kind of value, for which the code has a hazard
of its own: a union that may gain cases, with a label that stands for no case,
gives the reader the default label.

Left out: the short XCDR1 member headers of mutable types, which the code reads
but never writes; `cdr_key_machine_op` and `KeyScanner`, whose
results nothing uses; aliases, which the Builder replaces by what they name;
byte strings given in place of lists of octets; keyed unions whose cases are
structs. The C layer decides which types may meet: `Assignable` lets an
appendable type be read as another version in XCDR2 only.

### XTypes

`XtBuilder` walks the classes below a published class (`GatherTypes`), finds the
strongly connected components (`Kosaraju`, over every order a Python set may be
read in), numbers their members by name, hashes each component with zeros in
place of its own hash, and keeps the results in `db`, the cache
`_type_hash_db`. A hash is the hashed value itself: md5 is taken to be
injective. `XtInterpreter` goes the other way, with promises for classes that
are still being made and callbacks that fill them in; the metaclasses of
`idl/_main.py` may refuse what it makes. `TypeExchange` lets a program publish
its classes in any order, between the steps of a fetch too, and fetch one of
them. `toResolve` is the list of `get_types_for_typeid`, last in first out. The
network answers with what has been published, or not in time.

Recursive classes that are met along two paths, or below two published classes,
find their first hash in the cache, or are met from another side. `OneWay`
excludes them from `SameIdEverywhere`, `MappingClosed` and
`RebuiltIsEquivalent`: for them these do not hold, and the repository states no
rule they break. `OneBack` excludes classes with several members that lead back,
or with one inside a sequence, for which the interpreter's callbacks leave all
but the last without a type.

### Qos

A Qos object is a sorted sequence of policies; the look-up that stops at the
first larger scope, the algebra, the limits per entity and the dictionary form
are operators of `QosObjects`. Integers are cut to the width of the C type
(`Wrapped`), with widths of 5 and 7 bits in the run. `Qos` adds threads. Making
a C qos is one step: its setters pass arguments by value. Reading one is two
steps for each policy: `Call` lets C write into the class attributes `_gc_*` of
`_CQos` (`cells`), `Read` takes the answer from there, and ctypes releases the
interpreter lock in between. What C adds by default, and which policies
`dds_set_qos` accepts after creation (`LatencyBudget`, `OwnershipStrength`), is
external.

`ImplementsRegister` maps this to `QosRegister`: a call of `get_qos` returns what
its entity said at one moment of the call, and a write is one step that changes
one place. The mapping takes the moment of `dds_get_qos`. Left out: `repr`,
hashes, errors for arguments of a wrong type, strings that are never freed, and
that `fromdict` changes its argument.

### Serdata, Sertypes, Samples

A payload is what its four-byte header claims (`enc`, `le`) and a body that keeps
the version and byte order it was really written in, so that reading it by a
wrong header gives `Garbage`. The key of a serdata is always in XCDR2 and native
order, whatever the payload was in (`ExtractKey`), and comes back out in the
version of the payload (`UntypedToSample`). `FromSer` puts fragments together
that may overlap.

`Sertypes` is the life of `ddspy_sertype`. A topic brings a new one; the registry
of Cyclone finds an equal one or keeps it, under a lock of its own, and compares
with `sertype_equal`, which takes the interpreter lock (GIL) unless the classes
are identical. The order is registry first, GIL second, so a call that comes to
the registry must have let go of the GIL: `CreateTopic` does by
`Py_BEGIN_ALLOW_THREADS`, `DeleteTopic` because ctypes does. One call does not:
`init_cdrstream_descriptor` fails for an empty type information and for a type
that C refuses (the classes of `Refused`), after the topic was made, and
`RefuseTopic` then deletes it with the GIL (place `undoing`). `mine` and `spare`
are the references a call holds; `pyRefs` counts those the sertypes hold on
classes.

`Samples` is one reader of one topic with the writers of the program and of other
processes. A call of the program that writes, reads or takes holds the GIL from
start to end. Writing is one step, then; a read is several (`StartRead`, a
`Collect` for each sample, `FinishRead`), between which samples for other readers
and deletions of topics go on, while the reader is locked and `Receive` waits.
Handles and places in the cache are the numbers of the calls that made them.
`about` is a ghost: the key the writer meant, with which the properties compare.
Cyclone's instance map and reader cache are external, modelled by their use:
equal keys by `serdata_eqkey`, an invalid sample when an instance ends and
nothing unread tells, forgetting what nobody needs.

Assumed: whether a class can be described is settled when it is published, and the
description is the same each time, so that writing it again into a sertype that
was found, which receive threads are using (`pysertype.c` 860), changes nothing;
comparing two classes raises no error (918-921); allocations succeed; the classes of the run share one type name,
because the registry compares no others; there is no topic filter, so no receive
thread waits for the GIL with a reader's lock.

## Runs

| run | instance | shows |
|---|---|---|
| `lifetime` | participant, subscriber, built-in reader with a listener, query condition on it, waitset; one program and one receive thread | types; usable objects have natives; refinement of `LinkedLifetime`; callbacks get their object; deletions end |
| `lifetime_threads` | participant, topic, subscriber, reader, built-in reader, two read conditions; two program threads | the inductive invariant, with the race in `read_next` and conditions on either reader |
| `lifetime_orphan` | participant, topic, reader, read condition | violation of `NoOrphan`: natives left by the collector |
| `listeners` | two listeners, one entity, `data_available` and `data_on_readers`, two functions, two settings per callback | what `set_listener` installs is what the entity's listener has, callbacks started outside `set_listener` are alive, removal silences, merging keeps |
| `listeners_freed` | the same | violation of `NoCallIntoFreed` |
| `iteration` | a reading thread without a timeout; `take_one`, a taking task and a waiting task with one; three samples, depth two | once and in order, no lost wakeup, timeouts end, the loop is given back |
| `xcdr` | about ninety structs in which each kind of member stands after a byte and before a wide number, in three extensibilities; five versions of two types; both encodings and byte orders; a new and a used buffer | what can be encoded raises no error; numbers are aligned and all bytes sent; every sample and key reads back, by the same type or another version; normalized keys of two versions agree |
| `xtypes` | the dependency graphs with up to four edges, and the complete one, on three structs, and four programs with one of everything; two published in any order | components are the strong ones; identifiers do not depend on history; mappings are closed; fetching refines `TypeFetch`, ends, and makes an equivalent class |
| `qos` | one literal of every policy, one of every other class, and odd ones; a topic, a publisher, a reader and a profile; a thread that makes and sets, one that gets | look-up, sums and dictionaries agree; refinement of `QosRegister` |
| `qos_threads` | the same, both threads get | violation of `ReadsOwnEntity` |
| `samples` | two threads, two classes, three sertype addresses, a writer in each version, a remote one, a type with a key and one without, two ways to cut three fragments | sertypes live as long as they are needed; keys make the right instances; what is read is what was written; calls return, `Deadlocked` excepted |
| `samples_refused` | the same, two calls | violation of `RefusalReturns` |

All configurations switch deadlock checking off: objects and samples are finite
and a program may simply stop.

Bounds. The objects of `lifetime` and `lifetime_threads` together have every
keepalive edge but a writer's (which equals a reader's): topic → participant,
reader → topic and subscriber, built-in reader → subscriber, condition → reader,
waitset → attached, and the cycles through a filter, a query condition and a
built-in reader. The second condition is needed for the replacement in
`read_next`. `lifetime_threads` has no receive thread at work; callbacks are in
`lifetime`, and both together in the theorem. Threads and the two conditions are
interchangeable there (`MCSymmetry`). Every object is constructed at most
once, which handles that are never reused justify. In `listeners` two listener
objects are the argument and the entity's own; three settings would only rename
function objects. `data_available` and `data_on_readers` are the two callbacks
whose setters differ from all others. In `iteration`, three samples at depth
two make one sample replace another while somebody waits.

In `xcdr`, values are empty, short and full, and every number differs from its
neighbours; each kind of member has a byte before it and eight after it, which
is what padding and alignment depend on. Three structs are the fewest with a
component beside another, two components in a row, and a component that is met
twice; the graphs of five to eight edges add paths but no new shape. In `qos`,
one operation on objects from the literals, with the literals as the other
operand, covers every pair; two calls create an entity and change it while the
other thread reads. In `samples`, three calls suffice for creating or deleting a
topic against creating one of the same class, for a key written in two versions
and then read, and for an instance that is registered, disposed and read as an
invalid sample; a collector that starts with room for one (eight in the code)
grows twice.

What the violations show:

* `NoOrphan`: the filter of a topic is a closure that refers to the topic
  (`topic.py` 124-128). Dropped, the topic is garbage for the collector, and
  `__del__` (`core.py` 191) takes the cleared weak reference for "already
  deleted". The object is gone, the native topic stays until the participant is
  deleted. Readers whose condition refers back to them (`read_next`), query
  conditions with a filter and every `BuiltinDataReader` make such cycles too.
* `NoCallIntoFreed`: setting a callback on a listener that was passed to a
  constructor frees the function object C has installed. `set_listener` has the
  same window between `copy_to` and `dds_set_listener`, and `set_listener(None)`
  releases the Python listener before C is told. `OwnedIsInstalled` and
  `StartedIsAlive` state what does hold: an entity whose listener is a copy of
  its own is safe outside `set_listener`.
* `RefusalReturns`: a topic that cannot be described is deleted again with the
  interpreter lock held (`pysertype.c` 911). Another thread that is inside the
  registry, and needs the interpreter lock to compare or to free a sertype, never
  gets it, and neither thread goes on.
* `ReadsOwnEntity`: `get_qos` of two threads, on two entities, write into the same
  class attributes. A thread reads a policy of the other's entity, and returns a
  Qos that no entity ever had. The refinement of `QosRegister` holds as long as
  one thread at a time calls `get_qos`.

## Fairness

`lifetime` uses `FairSpec`: weak fairness for the steps inside a constructor,
a destructor or a callback, because the interpreter schedules every thread that
can run and C functions return. What the program does next, when a callback
comes and when the collector runs have none. `DeletionCompletes` excepts a
callback that deletes its own entity, which the documentation of Listener warns
about (`core.py` 815-823).

`SampleIteration` assumes that threads run and waits return when they can (weak),
and that the event loop runs ready tasks in turn (strong, because another task
can occupy the loop again and again). Samples, cancellation, stopping and
starting are free. Bodies of loops are assumed to end.

`TypeExchange` assumes that the gathering loop goes on (weak fairness of
`FetchNext` or `LookUpFails`): a look-up ends with an answer or by its timeout,
which `get_types_for_typeid` passes to C. `FetchEnds` says that the loop then ends,
for recursive types too. Making the class afterwards has no fairness.

`Samples` assumes that a thread in a call goes on (weak, `Continue` and `Collect` or
`FinishRead`): the interpreter hands the GIL around, C releases the registry's
lock, and calls are bounded, so neither lock is taken again and again for ever.
`CallsReturn` fails if a call comes to the registry with the GIL. One does, a topic
that C refuses to describe: `Deadlocked` is exactly that call meeting another one
that has the registry and needs the GIL, and `CallsReturn` excepts it.

`Xcdr` and `Qos` have safety properties only.

## Proofs

`EntityLifetimeProofs` proves for every set of objects, every assignment of
classes, any number of threads and any listeners, from `ObjAssumption` alone:

* `Lifetime`: `Spec => []LifetimeInv`
* `TypesAlways`: `Spec => []TypeOK`
* `KeepaliveAlways`: `Spec => []KeepaliveSound`
* `CallbackTheorem`: `Spec => CallbackFindsEntity`
* `Refinement`: `Spec => ImplementsContract`

`KeepaliveSound` alone is not inductive: `EndDelete` removes a whole subtree of
natives, and nothing in `KeepaliveSound` says that no usable object is in it.
`LifetimeInv` adds three facts. What a field, a program variable or a
constructor's frame references is `live` (`RefsAreLive`, `AppIsLive`,
`FramesSound`). A live object still holds its keepalive references, and these
lead from an entity to its parent, apart from implicit subscribers, where the
topic leads to the participant (`KeepaliveHeld`, with `Provenance` for the
parent's class and the ancestors). A live object is registered, so `get_entity`
finds the parent when a constructor fills `_keepalive_entities`
(`LiveIsRegistered`). Together: every ancestor of a live object is live
(lemma `AncestorsLive`, for tracked objects), an object that is being deleted is not live, so the
subtree it takes away contains no tracked live object. The proof has one lemma per
action. `Release` and `Collect` have lemmas of their own: an object that leaves
`live` is referenced by nothing that stays. `Refinement` follows action by
action from the same invariant: constructing is `Make`, finishing a constructor
is `Publish`, releasing is `LetGo` and deleting is `Reclaim`.

`TypeFetchProofs` proves of the gathering loop, for every library that may grow
while it is asked:

* `FetchForgetsNothing`: `Spec => []NothingForgotten`
* `FetchDoneIsClosed`: `Spec => []DoneIsClosed`
* `FetchNothingElse`: `Spec => []NothingElse`

`NothingForgotten` is inductive: each identifier a known type object mentions is
known or still wanted. With nothing wanted, what is known is closed. In the other
direction, a closed part of the library that holds the type holds all that is
wanted, too. Together: the loop ends with the least set that holds the type and
all its dependencies. `FetchRefines`, which TLC checks, carries this over to
`TypeExchange`, whose operators are recursive and cannot be proved about.

`ListenersProofs` proves, for any listener objects, entities, callbacks, functions
and receive threads, and any number of settings but none:

* `ListenerTypes`: `Spec => []TypeOK`
* `InstalledTheorem`: `Spec => []OwnedIsInstalled`
* `StartedTheorem`: `Spec => []StartedIsAlive`
* `SilenceTheorem`: `Spec => []RemovedIsSilent`
* `MergeTheorem`: `Spec => MergeKeepsOthers`

`OwnedIsInstalled` compares what C calls with what a listener has now, so a setter
could break it. `ListenersInv` says why none does: the program has no reference to
a listener `set_listener` made, and no two entities retain the same one
(`OwnershipSound`); the attribute, the function object and the C field of such a
copy agree (`CopiesSound`; for others `set_on_data_on_readers(None)` makes them
differ); outside `set_listener` C has installed what the retained listener says
(`InstalledSound`), and what a callback runs is still installed, because
`dds_set_listener` waits (`CallsSound`). `MergeKeepsOthers` follows from `GoalSound`:
in the middle of a copy, what has been copied and what is still to be copied make
the goal.

`SampleIterationProofs` proves, for any consumers, modes, timeouts, depth and number
of samples:

* `IterationTypes`: `Spec => []TypeOK`
* `OnceInOrderTheorem`: `Spec => []OnceInOrder`

`OnceInOrder` speaks of what was delivered and is not inductive. `DeliveredSound` adds
that every sample delivered, by whichever consumer, is older than all that can
still be (`Matching`), which rests on the cache being in the order of arrival
(`CacheSound`): what replaces, takes or marks a sample takes it away from the old
end or from `Matching`.

`SamplesProofs` proves, for any finite number of threads and of sertypes,

* `SertypesTheorem`: `Spec => []SertypesHeld`

The counts of `SertypesHeld` say nothing of who may look at a sertype. `SertypeInv`
adds that a sertype outside the registry belongs to one call and no other
(`PrivateSound`), that three places of a call hold the lock of the registry
(`CallsSound`), and that what a call looking for an equal sertype has already seen is
of another class (`LookSound`). The last one is what makes registered sertypes of
one class one: nobody else changes the registry while it is looking. The number of
threads is finite because the theorem counts them.

and, for all keys, writers, threads, sertypes, topics, bounds
and fragmentations:

* `OneInstancePerKey`: `Spec => []SameInstance`
* `ReadIsWritten`: `Spec => []HandedOver`
* `SampleTypes`: `Spec => []TypeOK`

`SameInstance` is not inductive: an instance may be found by a key that was made of
another encoding. `KeyInv` adds that the key bytes of an instance are those every
serdata of its key has: XCDR2 and native order (`KeyFor`), which the lemma
`FromPayload` proves of every version and byte order, and that each sample of an
instance reads as what was written. The lemmas from `StepsOfInstance` to
`DeliverKeeps` show that each operation leaves that alone.
`ChainsCover` is the lemma about fragments: a chain that starts at the beginning,
leaves no gap and reaches the end puts the payload together, however its fragments
overlap (that C hands over such chains is assumed of `FragChains`). It goes by
induction over the chain. `HandedOver` needs the same of what the collector still
has to do and of what it has collected (`ReadInv`).

`XcdrProofs` proves, for every type description of any depth, every value and every
sound buffer, new or used:

* `MessagesTyped`: `Spec => []TypeOK`
* `EncodingComplete`: `Spec => []EncodingIsWhole`
* `AlignmentKept`: `Spec => []NumbersAligned`

Their one hypothesis, `Recursion`, is the definition of the recursive operators. The
three are proved together (`Sent`), since each step makes a whole message, and all
the work is in the encoder. A buffer is `Sound` when its cells lie before its
position and its fields have their types; `Encoded` relates a buffer to what a machine
leaves of it: still sound, further on or at the same place, aligned
from the same origin, in XCDR2 with every number on the grid, and with `Room` for all of it
if there was room before. `Align` alone breaks `Room`, because it moves the position without
growing the buffer; each machine writes after it aligns, and `ensure_size` then
doubles until the new position fits (`GrownEnough`, an induction of its own). There is
one lemma per machine class (`EncodedArray` to `EncodedMutable`), of which those that
write a length first and fill it in later rest on `PatchEncoded`: the patch lies
before everything written after it. A normalized key sorts members by id,
`ByIdOrdered` shows that there is such an order. The lemmas `Fits...` say that the machine
the Builder gives a type encodes all its values if those inside do, `AllFit`
is the induction over `Depth`, and `HeaderPrepended` moves what was written behind the header
with the origin it is aligned from. None of this depends on errors. That `Encodable` types
raise none is a second pass over the machines: `Kept` says that a buffer has the error it
had before, `Accepts` that a machine keeps it for all its values, one lemma per machine class
(`ArrayAccepted` to `MutableAccepted`) needs the ranges and bounds of `ValuesAssumption`, and
`AllPass` is the induction, from a type and extent in `Encodable` to the parts that are written.

`XcdrReadProofs` goes on from there:

* `SamplesReadBack`: `Spec => []SampleReadBack`

It has `ViewRecursion` as a second hypothesis, and follows the encoder once more.
A reader does not see the writer's buffer but the bytes that were sent, so `Holds`
relates the two: a buffer `Holds` what was written between two states of the
writer's when it stands where the first one stood, with the same origin, alignment
and byte order, and has the same cells between there and where the second one
stands. That survives what is written later, with one exception, the lengths that
are filled in afterwards: a lemma like `BackDelimited` shows that the reader finds
the final one. Two machines are related by `ReadsBack` when the second reads whatever holds what
the first wrote of a value as the view of that value, and ends where the writer
ended; two types that meet `Agree` when their machines do, with and without
headers. There is one lemma per machine class (`BackArray`, `BackUnion`,
`BackStruct`, ...) and one per kind of type (`AgreesSimple` to `AgreesMutable`),
`AllAgree` is the induction over `Depth`, on pairs. Three places take most of the
work:

* A mutable struct is written by id, each member with a header, and read until the
  end that was announced. `MembersTaken` goes through the members that were
  written and says what the reader has after each of them (the members both know,
  as viewed), `FilledIn` that the others then get `ZeroValue`, `MembersMet` that
  each id leads to the member of that id. The length of a member is either
  announced in a header of its own or is the first number of the member itself.
  `CodesKnown` shows that in the second case the code the Builder chose agrees
  with what the machine writes.
* An appendable struct that is read by a version with more members stops where the
  bytes of its block end (`BackDelimited`), and by one with fewer jumps there.
* Defaults are computed by one set of methods and viewed by another: `AllZeroed`.

`Opened` brings it together: the header of a message tells its reader the version
and the byte order it was written with. The inductive invariant is `ReadingOK`,
which adds that a message of kind `DataSample` was made by `SerializeSample` of
one of the samples.

* `NormalizedKeysCommon`: `Spec => []NormalizedKeyIsCommon`

compares two writers: one version of the type writes the key of a value, the other
the key of that value as its reader would see it. `Twin` relates their buffers: the
same bytes from the origin on, at the same position, with the same alignment, origin
and error, whatever lay there before. Two machines are related by `Doubles` when twin
buffers stay twins, and two types by `Twins` when their machines are. As above there is one
lemma per machine class (`TwinArrays` to `TwinMutables`), one per kind of type
(`TwinsSimple` to `TwinsMutable`), and an induction over `Depth`, `AllTwins`, this
time over `Keyed`. Final and appendable structs write the members of the key in
declaration order, so they go place by place (`TwinMembers`). A mutable struct
writes them by id, and the two versions may list them in any order, between any
other members: `OrderedOnto` shows that two sorted lists of the same ids agree
position by position, `MutableMatched` that each position then holds members that are
themselves `Keyed`. `LastSent` and `SplitBefore` deal with optional members that are None: they have no
header, and the last one that is sent, which ends the block, is then not the last one listed.
The invariant is inductive by itself, since a message is written in one step; the
induction is all in the types.

`QosProofs` proves, for any Qos objects the program writes down, any property
names, entities, profiles, threads and widths of integers:

* `QosTypes`: `Spec => []TypeOK`
* `LookUpTheorem`: `Spec => []LookUpFindsAll`
* `SumsTheorem`: `Spec => []SumsAddUp`
* `DictTheorem`: `Spec => []DictReadBack`
* `RegisterTheorem`: `Spec => ImplementsRegister`, if one thread at a time calls
  `get_qos` (`OneGetter`) and policies fit (`PoliciesFit`); that the policies
  of the runs fit is an assumption of `MCQos`, which TLC evaluates

The look-up, the sums and the dictionaries are about objects that are computed with, and hold of
every sorted sequence with one policy of a scope. That every object is one, is the
invariant `QosInv`, proved as
`QosAlways`. Objects the program makes are sorted and checked; but `get_qos` only
sorts, and what it sorts has one policy of a scope because the getters ask for
each scope once: what has been found is of scopes before the one a thread is at
(`Reading`). That much holds with any number of threads in `get_qos`, though the
values they read may be of each other's entities. `PolicyInv`, proved as
`PoliciesAlways`, adds that policies have the fields of their class. On the way
through C it says that every scope a C qos sets has the number of arguments its
getter expects (`Settings`, `SettersShape`, `GettersMake`), and so does every class
attribute, also when another thread has written it, since the three policies that
share one have the same shape (`InCell`). Under the theorems are the lemmas about
the operators: a stable insertion sort keeps the policies it is given and sorts
them (`SortedKeeps`), a Qos over a base has the policies of both by scope
(`WithBaseKeeps`), the scan finds what is there (`ScanFinds`), two sorted objects
with the same policies are the same (`SamePolicies`), and an entry of a dictionary
reads back (`EntryReadBack`).

`RegisterTheorem` is the refinement. Its hypotheses are what the code leaves to the
program: the class attributes are shared, so a second thread in `get_qos` can have the
first return policies of another entity (the run `qos_threads` shows it); and ctypes
cuts an integer to the width of its C type without a word, so durations and counts
have to be in range, and so do C's defaults, which set every scope they name. The
constants of the run `qos` satisfy them. The third, `AbsentIsNoQos`, says that the
marker for no C qos is none. The proof says of every C qos which Qos it is made of
(`Made`): it sets the scopes of that Qos that have an effect, each to what its setter
passes. One lemma per layer carries this through: a setting that fits is read back as
the policy it was made from, or as nothing if it says nothing (`FaithfulSetting`, for
the 25 scopes that are no properties; `PropertiesAre`); all getters together read the
Qos back, sorted (`AllAnswersAre`); C laying one C qos over another is what `Plus` does
to the two (`MadeOver`), so a creation and a `set_qos` put into the entity what
`Overlaid` says (`Created`, `Changed`). The invariant is `RegInv`: an entity's C qos is
made of a Qos it supports; an entity under creation has none, and no other thread is at
it; a `get_qos` has read what its own C qos says of the scopes before `at` (`Heard`),
and a class attribute about to be read holds what the same thread's call put there.
`StepFaithful` proves it inductive, and `StepIsRegistered` maps the steps: `Create` and
`Set` to a write or nothing, `StartGet`, `Fetch` and `Finish` to the beginning, the
moment and the return of a `get_qos`, and `Call` and `Read` to nothing.

Each proof module begins with the facts it needs about numbers and sequences: induction over
sets of numbers in place of predicates (`SetInduction`), recursive functions step by
step (`StepByStep`), and what the operators of the community modules on sequences return. A
component's theorems then depend on that component alone.

The constants are assumed to be what the comments at their declarations say, by
the named assumptions of each module, all of which TLC evaluates in the runs:
markers such as `NoListener` are no members of the sets they mark the absence in,
bounds are numbers, threads and sertypes are finite where they are counted, chains
of fragments have no gaps (`SerdataAssumption`), and what the program, the profiles
and C's defaults write down are Qos objects of their kind (`QosAssumption`: the
constructors of Qos and of its limited subclasses raise an error for anything else).

Only model-checked: the liveness properties (liveness under fairness is out of the
prover's reach); that a key reads back (`KeyReadBack`), whose encoding leaves
members out at every level, so that the lemmas on whole values do not carry over;
and everything about
`XtBuilder` to `TypeExchange`, whose operators recur over types and are declared
RECURSIVE, which leaves the prover without its main backend.

## Not modelled

* Domain objects, status getters, statistics, `util`, `wait_for_acks`, `suspend`
  and `resume`: single C calls without Python state.
* The hash function, and the sizes of what is hashed.
* In the type layer: maps (the type builder refuses them), type objects of
  collections (it makes none), aliases inside a recursion, annotations that are
  not read back, the mypy plug-in.
* In the C layer: `readtake_next`, which nothing calls; key hashes; sample info
  other than validity; failing allocations, which end the process.
* The generated type support, the idlc back-end, the build helpers and the
  presentation of the command-line tools: no state that outlives a call.
* Log sinks, WaitSets shared by threads, built-in samples, and the pubsub and
  ddsls tools: see the plan.
* GuardCondition, WaitSet, a BuiltinDataReader made from a participant and the
  conditions on one: their natives do go away under usable objects. They are
  modelled, but `Tracked` excepts them from what is shown to hold.

## Plan

Done: `EntityLifetime` with `LinkedLifetime`; `Listeners`; `SampleIteration`; `Xcdr`;
`TypeExchange` with `TypeFetch`; `Qos` with `QosRegister`; `Serdata`, `Sertypes` and
`Samples`; proofs of every safety property of a run that the prover can reach, and of
the refinements of `LinkedLifetime` and `QosRegister`.

Next, in this order:

1. `SinkHandover`: log sinks, callback and userdata as a pair, the order of
   release and store, several logging threads.
2. WaitSets shared by threads: `attach` and `detach` with the C call between the
   index and its use.
3. `ToolWorkers`: the pubsub worker's hand-over and ddsls' tracking.
4. Built-in samples, and the lists that are fetched with a count first.
