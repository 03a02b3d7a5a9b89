------------------------------ MODULE MCSamples ------------------------------
(* Two keys, a writer of each version, and two ways to cut three units. *)
EXTENDS Samples

CONSTANTS dw1, dw2

MCWriters == dw1 :> 1 @@ dw2 :> 2
MCSertypes == 1 .. 3
MCTopicTypes == {[keyless |-> FALSE, op |-> "DLC"], [keyless |-> TRUE, op |-> "PLC"]}
MCReadLimits == {1, 4}
MCFragChains == {<<<<0, 1>>, <<1, 3>>>>, <<<<0, 2>>, <<0, 1>>, <<1, 3>>>>}
=============================================================================
