-------------------------- MODULE MCEntityLifetime --------------------------
(* Instances of EntityLifetime for TLC. *)
EXTENDS EntityLifetime, TLC

CONSTANTS dp, tp, sb, rd, wr, nc, nd, qc, ws, gc, br

\* The class of every object an instance may use.
MCKind == (dp :> "participant") @@ (tp :> "topic") @@ (sb :> "subscriber")
          @@ (rd :> "reader") @@ (wr :> "writer") @@ (nc :> "readcondition") @@ (nd :> "readcondition")
          @@ (qc :> "querycondition") @@ (ws :> "waitset")
          @@ (gc :> "guardcondition") @@ (br :> "builtinreader")

\* Threads, and the two read conditions, are interchangeable.
MCSymmetry == Permutations(Threads) \cup Permutations({nc, nd})
=============================================================================
