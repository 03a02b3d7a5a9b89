-------------------------- MODULE TypeFetchProofs --------------------------
(***************************************************************************)
(* TypeFetch gathers exactly the smallest set of type objects that is      *)
(* closed and holds the type asked for.                                    *)
(***************************************************************************)
EXTENDS TypeFetch, TLAPS

(***************************************************************************)
(* The inductive invariant.  Reached generalises NothingElse to sets that  *)
(* are closed as far as the library answers, and to what is wanted.        *)
(***************************************************************************)
ClosedSoFar(s) == \A i \in s \cap DOMAIN library : library[i] \subseteq s
Reached == \A s : ClosedSoFar(s) /\ goal \subseteq s => known \cup wanted \subseteq s
FetchInv ==
  /\ NothingForgotten
  /\ Reached
  /\ status = "idle" => goal = {} /\ known = {} /\ wanted = {}
  /\ status = "done" => wanted = {}

\* A look-up moves one identifier from wanted to known and wants what its object
\* mentions: neither forgets an identifier nor reaches further.
LEMMA FetchStep ==
  ASSUME FetchInv, NEW i, Fetch(i)
  PROVE  NothingForgotten' /\ Reached'
<1>1. NothingForgotten'
  <2>1. (known \subseteq DOMAIN library)'
    BY DEF FetchInv, NothingForgotten, Fetch
  <2>2. (goal \subseteq known \cup wanted)'
    BY DEF FetchInv, NothingForgotten, Fetch
  <2>3. (\A j \in known : library[j] \subseteq known \cup wanted)'
    <3> SUFFICES ASSUME NEW j \in known'
                 PROVE  library[j] \subseteq known' \cup wanted'
      BY DEF Fetch
    <3>1. CASE j = i
      BY <3>1 DEF Fetch
    <3>2. CASE j \in known
      <4>1. library[j] \subseteq known \cup wanted
        BY <3>2 DEF FetchInv, NothingForgotten
      <4>2. known \cup wanted \subseteq known' \cup wanted'
        BY DEF Fetch
      <4> QED BY <4>1, <4>2
    <3> QED BY <3>1, <3>2 DEF Fetch
  <2> QED BY <2>1, <2>2, <2>3 DEF NothingForgotten
<1>2. Reached'
  <2> SUFFICES ASSUME NEW s, ClosedSoFar(s)', (goal \subseteq s)'
               PROVE  known' \cup wanted' \subseteq s
    BY DEF Reached
  <2>1. ClosedSoFar(s) /\ goal \subseteq s
    BY DEF ClosedSoFar, Fetch
  <2>2. known \cup wanted \subseteq s
    BY <2>1 DEF FetchInv, Reached
  <2>3. library[i] \subseteq s
    BY <2>1, <2>2 DEF ClosedSoFar, Fetch
  <2> QED BY <2>2, <2>3 DEF Fetch
<1> QED BY <1>1, <1>2

\* A set that is closed under a larger library is closed under the smaller one.
LEMMA PublishStep ==
  ASSUME FetchInv, Publish
  PROVE  NothingForgotten' /\ Reached'
<1>1. NothingForgotten'
  BY DEF FetchInv, NothingForgotten, Publish
<1>2. Reached'
  <2> SUFFICES ASSUME NEW s, ClosedSoFar(s)', (goal \subseteq s)'
               PROVE  known' \cup wanted' \subseteq s
    BY DEF Reached
  <2>1. ClosedSoFar(s) /\ goal \subseteq s
    BY DEF ClosedSoFar, Publish
  <2> QED BY <2>1 DEF FetchInv, Reached, Publish
<1> QED BY <1>1, <1>2

LEMMA FetchInvInit == Init => FetchInv
BY DEF Init, FetchInv, NothingForgotten, Reached, ClosedSoFar

LEMMA FetchInvNext == FetchInv /\ [Next]_fetchVars => FetchInv'
<1> SUFFICES ASSUME FetchInv, [Next]_fetchVars PROVE FetchInv'
  OBVIOUS
<1>1. CASE Publish
  <2>1. UNCHANGED <<status, goal, wanted, known>>
    BY <1>1 DEF Publish
  <2> QED BY <1>1, <2>1, PublishStep DEF FetchInv
<1>2. ASSUME NEW i \in goal', Start(i) PROVE FetchInv'
  BY <1>2 DEF Start, FetchInv, NothingForgotten, Reached, ClosedSoFar
<1>3. ASSUME NEW i \in wanted, Skip(i) PROVE FetchInv'
  BY <1>3 DEF Skip, FetchInv, NothingForgotten, Reached, ClosedSoFar
<1>4. ASSUME NEW i \in wanted, Fetch(i) PROVE FetchInv'
  <2>1. status' = "fetching"
    BY <1>4 DEF Fetch
  <2> QED BY <1>4, <2>1, FetchStep DEF FetchInv
<1>5. CASE GiveUp
  BY <1>5 DEF GiveUp, FetchInv, NothingForgotten, Reached, ClosedSoFar
<1>6. CASE Finish
  BY <1>6 DEF Finish, FetchInv, NothingForgotten, Reached, ClosedSoFar
<1>7. CASE UNCHANGED fetchVars
  BY <1>7 DEF fetchVars, FetchInv, NothingForgotten, Reached, ClosedSoFar
<1> QED BY <1>1, <1>2, <1>3, <1>4, <1>5, <1>6, <1>7 DEF Next

\* get_types_for_typeid never drops an identifier it was told about: each one is
\* in the type map or still in to_resolve.
THEOREM FetchForgetsNothing == Spec => []NothingForgotten
<1>1. FetchInv => NothingForgotten
  BY DEF FetchInv
<1> QED BY <1>1, FetchInvInit, FetchInvNext, PTL DEF Spec

\* When get_types_for_typeid stops asking, the type map holds the type and with
\* every type object all those it mentions: xt_to_class finds each one it needs.
THEOREM FetchDoneIsClosed == Spec => []DoneIsClosed
<1>1. FetchInv => DoneIsClosed
  BY DEF FetchInv, NothingForgotten, DoneIsClosed, Closed
<1> QED BY <1>1, FetchInvInit, FetchInvNext, PTL DEF Spec

\* get_types_for_typeid asks for nothing the type does not need: with the theorem
\* before it, the type map ends as the smallest closed one that holds the type.
THEOREM FetchNothingElse == Spec => []NothingElse
<1>1. FetchInv => NothingElse
  BY DEF FetchInv, Reached, ClosedSoFar, NothingElse, Closed
<1> QED BY <1>1, FetchInvInit, FetchInvNext, PTL DEF Spec
=============================================================================
