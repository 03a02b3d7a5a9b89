--------------------------- MODULE LinkedLifetime ---------------------------
(***************************************************************************)
(* What cyclonedds.core.Entity promises about the lifetime of a DDS entity *)
(* ("The lifetime of the underlying DDS API object is linked to the        *)
(* lifetime of the Python entity object"), reduced to the half a program   *)
(* relies on while it works with an entity: as long as the Python object   *)
(* is usable, the native entity behind it exists.                          *)
(* EntityLifetime implements this module.                                  *)
(***************************************************************************)
CONSTANT Entity       \* the entities a program may ever make

VARIABLES usable,     \* entities with a Python object the program can use
          native      \* entities that exist in the C library

vars == <<usable, native>>

Init == usable = {} /\ native = {}

\* A native entity appears before there is an object to use it with.
Make(e) ==
  /\ e \notin native
  /\ native' = native \cup {e}
  /\ UNCHANGED usable

\* The constructor hands the object over, which may replace earlier objects.
Publish(e) ==
  /\ e \in native
  /\ e \in usable'
  /\ usable' \subseteq usable \cup {e}
  /\ UNCHANGED native

\* Objects stop being usable; what becomes of their natives is left open.
LetGo ==
  /\ usable' \subseteq usable
  /\ UNCHANGED native

\* Natives go away, never one that was still in use.
Reclaim ==
  /\ native' \subseteq native
  /\ usable' \subseteq usable
  /\ (native \ native') \cap usable = {}

Next == \/ \E e \in Entity : Make(e) \/ Publish(e)
        \/ LetGo
        \/ Reclaim

Spec == Init /\ [][Next]_vars
=============================================================================
