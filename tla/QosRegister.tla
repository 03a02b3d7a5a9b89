---------------------------- MODULE QosRegister ----------------------------
(***************************************************************************)
(* What get_qos and set_qos promise a program with several threads: every  *)
(* place that has a Qos is a register.  A write lays the policies a thread *)
(* holds over what the place says, in one step, or changes nothing; a call *)
(* of get_qos returns what its own place said at one moment of the call.   *)
(* What a content says, and what it is to lay one Qos over another, is     *)
(* left to Says and Over.                                                  *)
(***************************************************************************)
CONSTANTS Threads, Places,
          Absent,              \* no Qos there yet
          Says(_, _),          \* Says(e, c): the policies in content c of e
          Over(_, _, _)        \* Over(e, q, old): q laid over old, for e

VARIABLES content,   \* place -> its content, or Absent
          call,      \* thread -> the get_qos it is in
          held       \* thread -> the Qos object it has

regVars == <<content, call, held>>

Idle == [place |-> Absent, taken |-> Absent]

RegInit == call = [t \in Threads |-> Idle]

Write(t, e) ==
  /\ call[t] = Idle
  /\ content'[e] \notin {content[e], Absent}
  /\ \A f \in Places \ {e} : content'[f] = content[f]
  /\ UNCHANGED <<call, held>>
  /\ Says(e, content'[e]) = Over(e, held[t], Says(e, content[e]))

Begin(t, e) ==
  /\ call[t] = Idle
  /\ content[e] # Absent
  /\ call' = [call EXCEPT ![t].place = e]
  /\ UNCHANGED <<content, held>>

Take(t) ==
  /\ call[t].place # Absent
  /\ call[t].taken = Absent
  /\ call' = [call EXCEPT ![t].taken = content[call[t].place]]
  /\ UNCHANGED <<content, held>>

Return(t) ==
  /\ call[t].taken # Absent
  /\ call' = [call EXCEPT ![t] = Idle]
  /\ UNCHANGED content
  /\ \A u \in Threads \ {t} : held'[u] = held[u]
  /\ held'[t] = Says(call[t].place, call[t].taken)

(* Outside a call a thread does what it likes with its own object.         *)
Work(t) ==
  /\ call[t] = Idle
  /\ UNCHANGED <<content, call>>
  /\ \A u \in Threads \ {t} : held'[u] = held[u]

RegNext ==
  \E t \in Threads :
    \/ \E e \in Places : Write(t, e) \/ Begin(t, e)
    \/ Take(t)
    \/ Return(t)
    \/ Work(t)

RegSpec == RegInit /\ [][RegNext]_regVars
============================================================================
