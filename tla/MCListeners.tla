---------------------------- MODULE MCListeners ----------------------------
(* An instance of Listeners for TLC. *)
EXTENDS Listeners, TLC

\* Listener objects are interchangeable, and so are functions.
Symmetric == Permutations(Lst) \cup Permutations(Fn)
=============================================================================
