-------------------------- MODULE SampleIteration --------------------------
(***************************************************************************)
(* Waiting for samples: DataReader.read_iter, take_iter, read_one,         *)
(* take_one, read_aiter and take_aiter (cyclonedds/sub.py), and            *)
(* WaitSet.wait and wait_async (cyclonedds/core.py).                       *)
(*                                                                         *)
(* Consumers share one reader.  Each makes a WaitSet with a read condition *)
(* and alternates between reading until nothing matches and waiting in C.  *)
(* Synchronous consumers are threads; asynchronous ones are tasks of one   *)
(* event loop, which wait on a thread of an executor of their own.         *)
(*                                                                         *)
(* The C library is external: it stores samples in the reader, reading and *)
(* taking are atomic, and a wait returns a positive number if a sample     *)
(* matches the attached condition, 0 if the time is over and none does.    *)
(***************************************************************************)
EXTENDS Naturals, FiniteSets, SequencesExt

CONSTANTS
  Consumers,    \* iterators, and callers of wait_async
  Mode,         \* per consumer: "read", "take", or "wait" for wait_async
  Async,        \* the consumers that are tasks of the event loop
  One,          \* the consumers that are read_one or take_one calls
  Timeout,      \* per consumer: a number, or NoTimeout (None)
  NoTimeout,
  Nobody,       \* the event loop runs no consumer
  MaxSamples,   \* bound: samples that arrive
  Depth         \* history depth: samples the reader keeps

ASSUME IterationAssumption ==
  /\ Nobody \notin Consumers
  /\ Async \cup One \subseteq Consumers /\ Async \cap One = {}
  /\ \A c \in Consumers : /\ Mode[c] \in {"read", "take", "wait"}
                          /\ Timeout[c] \in Nat \cup {NoTimeout}
                          /\ Mode[c] = "wait" => c \in Async
  /\ MaxSamples \in Nat /\ Depth \in Nat \ {0}

Samples == 1..MaxSamples

VARIABLES
  arrived,   \* number of samples that have arrived
  cache,     \* the reader's samples, oldest first
  seen,      \* samples in the state READ
  pc,        \* where each consumer is
  wait,      \* its call of waitset.wait: "none", "running", "triggered", "expired"
  got,       \* the samples it delivered
  loop       \* the consumer whose code occupies the event loop, or Nobody

vars == <<arrived, cache, seen, pc, wait, got, loop>>

Final == {"ended", "closed", "returned", "StopIteration", "TimeoutError", "cancelled"}
Active(c) == pc[c] \notin {"new"} \cup Final

\* A task runs when the loop is free or already runs it; a thread just runs.
CanRun(c) == c \in Async => loop \in {c, Nobody}
Keep(c) == IF c \in Async THEN c ELSE loop
Yield(c) == IF c \in Async THEN Nobody ELSE loop

\* Mutant of Forever: the timeout never reaches waitset.wait.
ForeverAlways(c) == TRUE

\* Both None and 0 count as no timeout (`timeout or ...`).
Forever(c) == Timeout[c] \in {NoTimeout, 0}

\* Mutant of Matching: the default condition lacks SampleState.NotRead.
MatchingAny == ToSet(cache)

\* The default condition: any view, instance alive, sample not read.
Matching == {s \in ToSet(cache) : s \notin seen}

Triggered == Matching # {}

Init ==
  /\ arrived = 0 /\ cache = <<>> /\ seen = {}
  /\ pc = [c \in Consumers |-> "new"]
  /\ wait = [c \in Consumers |-> "none"]
  /\ got = [c \in Consumers |-> <<>>]
  /\ loop = Nobody

-----------------------------------------------------------------------------
\* The C library stores a sample; a full history loses its oldest one.
Arrive ==
  /\ arrived < MaxSamples
  /\ arrived' = arrived + 1
  /\ cache' = Append(IF Len(cache) = Depth THEN Tail(cache) ELSE cache, arrived + 1)
  /\ UNCHANGED <<seen, pc, wait, got, loop>>

\* The first step of the generator makes the WaitSet and attaches a condition.
Start(c) ==
  /\ pc[c] = "new" /\ CanRun(c)
  /\ pc' = [pc EXCEPT ![c] = "polling"]
  /\ loop' = Keep(c)
  /\ UNCHANGED <<arrived, cache, seen, wait, got>>

\* self.read(condition=condition) or self.take(...) with N = 1 delivers the
\* oldest match.  read_one and take_one return it and drop the generator; the
\* body of an `async for` may or may not await something.
Deliver(c) ==
  /\ pc[c] = "polling" /\ Mode[c] # "wait" /\ CanRun(c)
  /\ \E n \in DOMAIN cache :
       /\ cache[n] \in Matching
       /\ \A m \in 1 .. n - 1 : cache[m] \notin Matching
       /\ got' = [got EXCEPT ![c] = Append(@, cache[n])]
       /\ IF Mode[c] = "take" THEN cache' = RemoveAt(cache, n) /\ UNCHANGED seen
                              ELSE seen' = seen \cup {cache[n]} /\ UNCHANGED cache
  /\ pc' = [pc EXCEPT ![c] = IF c \in One THEN "returned" ELSE "yielded"]
  /\ loop' \in {Keep(c), Yield(c)}
  /\ UNCHANGED <<arrived, wait>>

\* The consumer asks for the next sample, or leaves its loop.
Continue(c) ==
  /\ pc[c] = "yielded" /\ CanRun(c)
  /\ pc' = [pc EXCEPT ![c] = "polling"]
  /\ loop' = Keep(c)
  /\ UNCHANGED <<arrived, cache, seen, wait, got>>

Stop(c) ==
  /\ pc[c] = "yielded" /\ CanRun(c)
  /\ pc' = [pc EXCEPT ![c] = "closed"]
  /\ loop' = Yield(c)
  /\ UNCHANGED <<arrived, cache, seen, wait, got>>

\* Nothing matched: wait.  A task awaits the executor and frees the loop.
BeginWait(c) ==
  /\ pc[c] = "polling" /\ CanRun(c)
  /\ Mode[c] = "wait" \/ ~Triggered
  /\ pc' = [pc EXCEPT ![c] = "awaiting"]
  /\ wait' = [wait EXCEPT ![c] = "running"]
  /\ loop' = Yield(c)
  /\ UNCHANGED <<arrived, cache, seen, got>>

\* Mutant of WaitReturns: the condition was never attached.
WaitReturnsDetached(c) ==
  /\ wait[c] = "running" /\ ~Forever(c)
  /\ wait' = [wait EXCEPT ![c] = "expired"]
  /\ UNCHANGED <<arrived, cache, seen, pc, got, loop>>

\* dds_waitset_wait returns, on the consumer's or the executor's thread.
WaitReturns(c) ==
  /\ wait[c] = "running"
  /\ \/ Triggered /\ wait' = [wait EXCEPT ![c] = "triggered"]
     \/ ~Triggered /\ ~Forever(c) /\ wait' = [wait EXCEPT ![c] = "expired"]
  /\ UNCHANGED <<arrived, cache, seen, pc, got, loop>>

\* Mutant of AfterWait: the result of the wait is not looked at.
AfterWaitIgnored(c) == IF Mode[c] = "wait" THEN "ended" ELSE "polling"

\* The result of the wait: 0 ends the iteration, and `next` in read_one and
\* take_one then raises StopIteration: it never returns the None for which
\* they would raise TimeoutError.  Anything else polls again; wait_async
\* returns either.
AfterWait(c) ==
  IF Mode[c] = "wait" THEN "ended"
  ELSE IF wait[c] = "triggered" THEN "polling"
  ELSE IF c \in One THEN "StopIteration" ELSE "ended"

Resume(c) ==
  /\ pc[c] = "awaiting" /\ wait[c] \in {"triggered", "expired"} /\ CanRun(c)
  /\ pc' = [pc EXCEPT ![c] = AfterWait(c)]
  /\ loop' = IF AfterWait(c) = "polling" THEN Keep(c) ELSE Yield(c)
  /\ wait' = [wait EXCEPT ![c] = "none"]
  /\ UNCHANGED <<arrived, cache, seen, got>>

\* The awaiting task is cancelled.  CancelledError leaves the `with` block of
\* the executor, whose exit waits for the executor's thread, in the loop.
Cancel(c) ==
  /\ c \in Async /\ pc[c] = "awaiting" /\ loop = Nobody
  /\ pc' = [pc EXCEPT ![c] = "shutdown"]
  /\ loop' = c
  /\ UNCHANGED <<arrived, cache, seen, wait, got>>

FinishShutdown(c) ==
  /\ pc[c] = "shutdown" /\ wait[c] # "running"
  /\ pc' = [pc EXCEPT ![c] = "cancelled"]
  /\ wait' = [wait EXCEPT ![c] = "none"]
  /\ loop' = Nobody
  /\ UNCHANGED <<arrived, cache, seen, got>>

Next ==
  \/ Arrive
  \/ \E c \in Consumers :
       \/ Start(c) \/ Deliver(c) \/ Continue(c) \/ Stop(c) \/ BeginWait(c)
       \/ WaitReturns(c) \/ Resume(c) \/ Cancel(c) \/ FinishShutdown(c)

\* What a started consumer does of itself, once it gets to run.
Proceed(c) == Deliver(c) \/ BeginWait(c) \/ Continue(c) \/ Resume(c)

\* Threads run, a wait that can return does, bodies of loops end, and the loop
\* runs its ready tasks first in, first out (hence strong fairness: a task can
\* be kept waiting by others).  Samples, cancellations and the start of
\* consumers are up to others.
Fairness ==
  /\ \A c \in Async : SF_vars(Proceed(c))
  /\ \A c \in Consumers \ Async : WF_vars(Proceed(c))
  /\ \A c \in Consumers : WF_vars(WaitReturns(c)) /\ WF_vars(FinishShutdown(c))

Spec == Init /\ [][Next]_vars /\ Fairness

-----------------------------------------------------------------------------
(* Properties. *)

TypeOK ==
  /\ arrived \in 0..MaxSamples
  /\ cache \in BoundedSeq(Samples, Depth)
  /\ seen \subseteq Samples
  /\ pc \in [Consumers -> {"new", "polling", "yielded", "awaiting", "shutdown"} \cup Final]
  /\ wait \in [Consumers -> {"none", "running", "triggered", "expired"}]
  /\ \A c \in Consumers : got[c] \in BoundedSeq(Samples, MaxSamples)
  /\ loop \in Async \cup {Nobody}

\* Consumers that share a reader never deliver a sample twice, and each one
\* delivers in the order of arrival, whatever order they wake up in.
OnceInOrder ==
  /\ \A c \in Consumers : \A i, j \in DOMAIN got[c] : i < j => got[c][i] < got[c][j]
  /\ \A c, d \in Consumers : c # d => ToSet(got[c]) \cap ToSet(got[d]) = {}

\* No wakeup is lost between the empty read and the wait: a sample that matches
\* while somebody iterates is delivered by somebody, replaced by a newer one, or
\* left behind when the last one stopped.
SampleDelivered ==
  \A s \in Samples :
    LET waitingFor == s \in Matching /\ \E c \in Consumers : Mode[c] # "wait" /\ Active(c)
    IN  waitingFor ~> ~waitingFor

\* "Iteration will stop once the timeout you supply expires" (sub.py): with a
\* positive timeout a consumer that started comes to an end when samples stop
\* arriving.  (read_one and take_one then end in StopIteration, although they are
\* said to "raise a timeout", sub.py:298 and 328: the TimeoutError below their call
\* of next() is never raised.)
TimeoutEnds ==
  \A c \in Consumers : ~Forever(c) /\ Active(c) ~> pc[c] \in Final

\* wait_async and the asynchronous iterators are for "event-loop based
\* applications" (core.py:1831): a cancelled wait gives the loop back, provided
\* that it has a timeout.  Without one nothing but a sample ends it.
LoopGivenBack == \A c \in Async : loop = c /\ pc[c] = "shutdown" ~> loop # c
=============================================================================
