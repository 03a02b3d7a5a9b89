---------------------------- MODULE QosPolicies ----------------------------
(***************************************************************************)
(* The policies of qos.py and what _CQos makes of each: one setter that    *)
(* turns a policy into the arguments of its dds_qset function, one getter  *)
(* that turns what its dds_qget function returns into a policy again.      *)
(*                                                                         *)
(* A scope is <<name, key>>, the key being blank but for the two property  *)
(* policies, whose __scope__ is "Property<key>".  A policy is its scope,   *)
(* the class within the scope (blank when there is one) and its fields as  *)
(* integers: truth values are 0 and 1, strings and bytes are numbered, 0   *)
(* being the empty one, and the history of DurabilityService is            *)
(* KeepAllHistory or a depth.                                              *)
(***************************************************************************)
EXTENDS Integers, Sequences, TLC

CONSTANTS Int32Bits,     \* the width of ct.c_int32 (32 in the build)
          DurationBits   \* the width of dds_duration_t (64 in the build)

ASSUME WidthAssumption == Int32Bits \in Nat \ {0} /\ DurationBits \in Nat \ {0}

(* The key of a scope without one; the class where there is only one.      *)
Blank == ""

Policy(scope, kind, args) == [scope |-> <<scope, Blank>>, kind |-> kind, args |-> args]

KeepAllHistory == -1

Truth(b) == IF b THEN 1 ELSE 0

(* ctypes cuts an integer to the width of its C type without a word.       *)
Wrapped(n, bits) ==
  LET m == n % 2^bits IN IF m >= 2^(bits - 1) THEN m - 2^bits ELSE m

Int32(n) == Wrapped(n, Int32Bits)

Duration(n) == Wrapped(n, DurationBits)

----------------------------------------------------------------------------
(* The classes of Policy: scope, class, number of fields.                  *)

DeliveryClasses ==
  {<<"Reliability", "BestEffort", 0>>, <<"Reliability", "Reliable", 1>>,
   <<"Durability", "Volatile", 0>>, <<"Durability", "TransientLocal", 0>>,
   <<"Durability", "Transient", 0>>, <<"Durability", "Persistent", 0>>,
   <<"History", "KeepAll", 0>>, <<"History", "KeepLast", 1>>,
   <<"ResourceLimits", Blank, 3>>}

OrderingClasses ==
  {<<"PresentationAccessScope", "Instance", 2>>, <<"PresentationAccessScope", "Topic", 2>>,
   <<"PresentationAccessScope", "Group", 2>>,
   <<"Lifespan", Blank, 1>>, <<"Deadline", Blank, 1>>, <<"LatencyBudget", Blank, 1>>,
   <<"Ownership", "Shared", 0>>, <<"Ownership", "Exclusive", 0>>,
   <<"OwnershipStrength", Blank, 1>>}

LifeClasses ==
  {<<"Liveliness", "Automatic", 1>>, <<"Liveliness", "ManualByParticipant", 1>>,
   <<"Liveliness", "ManualByTopic", 1>>, <<"TimeBasedFilter", Blank, 1>>,
   <<"TransportPriority", Blank, 1>>,
   <<"DestinationOrder", "ByReceptionTimestamp", 0>>,
   <<"DestinationOrder", "BySourceTimestamp", 0>>,
   <<"WriterDataLifecycle", Blank, 1>>, <<"ReaderDataLifecycle", Blank, 2>>}

ServiceClasses ==
  {<<"DurabilityService", Blank, 5>>,
   <<"IgnoreLocal", "Nothing", 0>>, <<"IgnoreLocal", "Participant", 0>>,
   <<"IgnoreLocal", "Process", 0>>,
   <<"Userdata", Blank, 1>>, <<"Topicdata", Blank, 1>>, <<"Groupdata", Blank, 1>>,
   <<"Property", Blank, 2>>, <<"BinaryProperty", Blank, 2>>}

TypeClasses ==
  {<<"TypeConsistency", "DisallowTypeCoercion", 1>>,
   <<"TypeConsistency", "AllowTypeCoercion", 5>>,
   <<"DataRepresentation", Blank, 2>>, <<"EntityName", Blank, 1>>}

(* Qos._policy_mapper; Partition takes any number of names, and only the   *)
(* property policies have a key.                                           *)
PolicyClasses ==
  DeliveryClasses \cup OrderingClasses \cup LifeClasses \cup ServiceClasses \cup TypeClasses

PropertyScopes == {"Property", "BinaryProperty"}

IsPolicy(p) ==
  /\ p.args \in Seq(Int)
  /\ p.scope[1] \in PropertyScopes \/ p.scope[2] = Blank
  /\ \/ p.scope[1] = "Partition" /\ p.kind = Blank
     \/ <<p.scope[1], p.kind, Len(p.args)>> \in PolicyClasses

----------------------------------------------------------------------------
(* Setters: the arguments each _set_p_ method passes to C.                 *)

SetReliability(p) ==
  IF p.kind = "BestEffort" THEN <<0, 0>> ELSE <<1, Duration(p.args[1])>>

SetDurability(p) ==
  CASE p.kind = "Volatile" -> <<0>>
    [] p.kind = "TransientLocal" -> <<1>>
    [] p.kind = "Transient" -> <<2>>
    [] OTHER -> <<3>>

SetHistory(p) ==
  IF p.kind = "KeepAll" THEN <<1, 0>> ELSE <<0, Int32(p.args[1])>>

SetResourceLimits(p) == [i \in 1..3 |-> Int32(p.args[i])]

SetPresentation(p) ==
  LET kind == CASE p.kind = "Instance" -> 0
                [] p.kind = "Topic" -> 1
                [] OTHER -> 2
  IN <<kind, p.args[1], p.args[2]>>

SetLifespan(p) == <<Duration(p.args[1])>>

SetDeadline(p) == <<Duration(p.args[1])>>

SetLatencyBudget(p) == <<Duration(p.args[1])>>

SetOwnership(p) == IF p.kind = "Shared" THEN <<0>> ELSE <<1>>

SetOwnershipStrength(p) == <<Int32(p.args[1])>>

SetLiveliness(p) ==
  LET kind == CASE p.kind = "Automatic" -> 0
                [] p.kind = "ManualByParticipant" -> 1
                [] OTHER -> 2
  IN <<kind, Duration(p.args[1])>>

SetTimeBasedFilter(p) == <<Duration(p.args[1])>>

SetPartition(p) == p.args

SetTransportPriority(p) == <<Int32(p.args[1])>>

SetDestinationOrder(p) == IF p.kind = "ByReceptionTimestamp" THEN <<0>> ELSE <<1>>

SetWriterDataLifecycle(p) == p.args

(* Mutant of SetReaderDataLifecycle: the two delays change places.         *)
SetReaderDataLifecycle_Swapped(p) == <<Duration(p.args[2]), Duration(p.args[1])>>

SetReaderDataLifecycle(p) == <<Duration(p.args[1]), Duration(p.args[2])>>

SetDurabilityService(p) ==
  LET all == p.args[2] = KeepAllHistory
  IN <<Duration(p.args[1]), IF all THEN 1 ELSE 0, IF all THEN 0 ELSE Int32(p.args[2]),
       Int32(p.args[3]), Int32(p.args[4]), Int32(p.args[5])>>

SetIgnoreLocal(p) ==
  CASE p.kind = "Nothing" -> <<0>>
    [] p.kind = "Participant" -> <<1>>
    [] OTHER -> <<2>>

SetUserdata(p) == p.args

SetTopicdata(p) == p.args

SetGroupdata(p) == p.args

SetProperty(p) == p.args

SetBinaryProperty(p) == p.args

SetTypeConsistency(p) ==
  IF p.kind = "DisallowTypeCoercion" THEN <<0, 0, 0, 0, 0, p.args[1]>> ELSE <<1>> \o p.args

SetDataRepresentation(p) ==
  (IF p.args[1] = 1 THEN <<0>> ELSE << >>) \o (IF p.args[2] = 1 THEN <<2>> ELSE << >>)

SetEntityName(p) == p.args

(* A DataRepresentation with neither version calls no setter at all.       *)
HasEffect(p) == ~(p.scope[1] = "DataRepresentation" /\ SetDataRepresentation(p) = << >>)

----------------------------------------------------------------------------
(* Getters: the policy made of what C returned, or << >> for none.         *)

GetReliability(c) ==
  <<IF c[1] = 0 THEN Policy("Reliability", "BestEffort", << >>)
    ELSE Policy("Reliability", "Reliable", <<c[2]>>)>>

GetDurability(c) ==
  LET kind == CASE c[1] = 0 -> "Volatile"
                [] c[1] = 1 -> "TransientLocal"
                [] c[1] = 2 -> "Transient"
                [] OTHER -> "Persistent"
  IN <<Policy("Durability", kind, << >>)>>

GetHistory(c) ==
  <<IF c[1] = 1 THEN Policy("History", "KeepAll", << >>)
    ELSE Policy("History", "KeepLast", <<c[2]>>)>>

GetResourceLimits(c) == <<Policy("ResourceLimits", Blank, c)>>

GetPresentation(c) ==
  LET kind == CASE c[1] = 0 -> "Instance"
                [] c[1] = 1 -> "Topic"
                [] OTHER -> "Group"
  IN <<Policy("PresentationAccessScope", kind, <<c[2], c[3]>>)>>

GetLifespan(c) == <<Policy("Lifespan", Blank, c)>>

GetDeadline(c) == <<Policy("Deadline", Blank, c)>>

GetLatencyBudget(c) == <<Policy("LatencyBudget", Blank, c)>>

GetOwnership(c) ==
  <<Policy("Ownership", IF c[1] = 0 THEN "Shared" ELSE "Exclusive", << >>)>>

GetOwnershipStrength(c) == <<Policy("OwnershipStrength", Blank, c)>>

GetLiveliness(c) ==
  LET kind == CASE c[1] = 0 -> "Automatic"
                [] c[1] = 1 -> "ManualByParticipant"
                [] OTHER -> "ManualByTopic"
  IN <<Policy("Liveliness", kind, <<c[2]>>)>>

GetTimeBasedFilter(c) == <<Policy("TimeBasedFilter", Blank, c)>>

GetPartition(c) == IF Len(c) = 0 THEN << >> ELSE <<Policy("Partition", Blank, c)>>

GetTransportPriority(c) == <<Policy("TransportPriority", Blank, c)>>

GetDestinationOrder(c) ==
  <<Policy("DestinationOrder",
           IF c[1] = 0 THEN "ByReceptionTimestamp" ELSE "BySourceTimestamp", << >>)>>

GetWriterDataLifecycle(c) == <<Policy("WriterDataLifecycle", Blank, c)>>

GetReaderDataLifecycle(c) == <<Policy("ReaderDataLifecycle", Blank, c)>>

GetDurabilityService(c) ==
  LET history == IF c[2] = 0 THEN c[3] ELSE KeepAllHistory
  IN <<Policy("DurabilityService", Blank, <<c[1], history, c[4], c[5], c[6]>>)>>

GetIgnoreLocal(c) ==
  LET kind == CASE c[1] = 0 -> "Nothing"
                [] c[1] = 1 -> "Participant"
                [] OTHER -> "Process"
  IN <<Policy("IgnoreLocal", kind, << >>)>>

(* Empty data is taken for no data.                                        *)
GetUserdata(c) == IF c[1] = 0 THEN << >> ELSE <<Policy("Userdata", Blank, c)>>

GetTopicdata(c) == IF c[1] = 0 THEN << >> ELSE <<Policy("Topicdata", Blank, c)>>

GetGroupdata(c) == IF c[1] = 0 THEN << >> ELSE <<Policy("Groupdata", Blank, c)>>

GetProperty(key, c) == [scope |-> <<"Property", key>>, kind |-> Blank, args |-> c]

GetBinaryProperty(key, c) == [scope |-> <<"BinaryProperty", key>>, kind |-> Blank, args |-> c]

GetTypeConsistency(c) ==
  <<IF c[1] = 0 THEN Policy("TypeConsistency", "DisallowTypeCoercion", <<c[6]>>)
    ELSE Policy("TypeConsistency", "AllowTypeCoercion", Tail(c))>>

GetDataRepresentation(c) ==
  LET has(id) == Truth(\E i \in DOMAIN c : c[i] = id)
  IN <<Policy("DataRepresentation", Blank, <<has(0), has(2)>>)>>

GetEntityName(c) == <<Policy("EntityName", Blank, c)>>
============================================================================
