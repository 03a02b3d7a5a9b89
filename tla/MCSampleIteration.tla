------------------------- MODULE MCSampleIteration -------------------------
(* Instances of SampleIteration for TLC. *)
EXTENDS SampleIteration, TLC

CONSTANTS rd, tk, one, rda, tka, wa

\* A thread reading without a timeout, a thread taking one sample, tasks that
\* read, take and wait.
MCMode == (rd :> "read") @@ (tk :> "take") @@ (one :> "take")
          @@ (rda :> "read") @@ (tka :> "take") @@ (wa :> "wait")

MCTimeout == (rd :> NoTimeout) @@ (tk :> 5) @@ (one :> 5)
             @@ (rda :> 5) @@ (tka :> 5) @@ (wa :> 5)
=============================================================================
