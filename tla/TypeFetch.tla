------------------------------ MODULE TypeFetch ------------------------------
(***************************************************************************)
(* What get_types_for_typeid of dynamic.py promises while it gathers the   *)
(* type objects for one identifier.  "library" holds, for each identifier  *)
(* some participant can answer for, the identifiers its type object        *)
(* mentions; it grows while types are published.  The order of the         *)
(* look-ups is left open, and so is how long an identifier that was asked  *)
(* for twice stays wanted.                                                 *)
(***************************************************************************)
VARIABLES library, status, goal, wanted, known

fetchVars == <<library, status, goal, wanted, known>>

Init ==
  /\ library = [i \in {} |-> {}]
  /\ status = "idle"
  /\ goal = {}                    \* at most one identifier
  /\ wanted = {}
  /\ known = {}

\* Some types are published; what could be answered before stays as it was.
Publish ==
  /\ DOMAIN library \subseteq DOMAIN library'
  /\ \A i \in DOMAIN library : library'[i] = library[i]
  /\ UNCHANGED <<status, goal, wanted, known>>

Start(i) ==
  /\ status = "idle"
  /\ status' = "fetching"
  /\ goal' = {i}
  /\ wanted' = {i}
  /\ UNCHANGED <<library, known>>

Skip(i) ==
  /\ status = "fetching"
  /\ i \in wanted \cap known
  /\ wanted' = wanted \ {i}
  /\ UNCHANGED <<library, status, goal, known>>

Fetch(i) ==
  /\ status = "fetching"
  /\ i \in (wanted \cap DOMAIN library) \ known
  /\ known' = known \cup {i}
  /\ (wanted \cup library[i]) \ {i} \subseteq wanted'
  /\ wanted' \subseteq wanted \cup library[i]
  /\ UNCHANGED <<library, status, goal>>

GiveUp ==
  /\ status = "fetching"
  /\ ~ wanted \subseteq known
  /\ status' = "failed"
  /\ UNCHANGED <<library, goal, wanted, known>>

Finish ==
  /\ status = "fetching"
  /\ wanted = {}
  /\ status' = "done"
  /\ UNCHANGED <<library, goal, wanted, known>>

Next ==
  \/ Publish
  \/ \E i \in goal' : Start(i)
  \/ \E i \in wanted : Skip(i) \/ Fetch(i)
  \/ GiveUp
  \/ Finish

Spec == Init /\ [][Next]_fetchVars

---------------------------------------------------------------------------
Closed(s) == s \subseteq DOMAIN library /\ \A i \in s : library[i] \subseteq s

\* Nothing that was heard of is forgotten: it is known or still wanted.
NothingForgotten ==
  /\ known \subseteq DOMAIN library
  /\ goal \subseteq known \cup wanted
  /\ \A i \in known : library[i] \subseteq known \cup wanted

\* When get_types_for_typeid stops asking, it has every type object the type
\* needs, so that building the class meets no unknown identifier.
DoneIsClosed == status = "done" => goal \subseteq known /\ Closed(known)

\* It asks for nothing else: what it knows lies in every closed part of the
\* library that holds the type.
NothingElse == \A s : Closed(s) /\ goal \subseteq s => known \subseteq s
=============================================================================
