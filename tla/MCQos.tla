------------------------------- MODULE MCQos -------------------------------
(* Qos objects with every class of policy, for one reader, one writer and  *)
(* the profile of a reader.                                                *)
EXTENDS Qos

Keys == <<"k1", "k2">>

PropertyOf(name, key, value, propagate) ==
  [scope |-> <<name, key>>, kind |-> Blank, args |-> <<value, propagate>>]

Longest == 2^(DurationBits - 1) - 1     \* DDS_INFINITY

Largest == 2^(Int32Bits - 1) - 1

(* One policy of every scope.                                              *)
OneOfEach == Sorted(<<
  Policy("Reliability", "Reliable", <<Longest>>),
  Policy("Durability", "Persistent", << >>),
  Policy("History", "KeepLast", <<Largest>>),
  Policy("ResourceLimits", Blank, <<-1, 5, Largest>>),
  Policy("PresentationAccessScope", "Group", <<1, 0>>),
  Policy("Lifespan", Blank, <<Longest>>),
  Policy("Deadline", Blank, <<3>>),
  Policy("LatencyBudget", Blank, <<1>>),
  Policy("Ownership", "Exclusive", << >>),
  Policy("OwnershipStrength", Blank, <<2>>),
  Policy("Liveliness", "ManualByTopic", <<6>>),
  Policy("TimeBasedFilter", Blank, <<7>>),
  Policy("Partition", Blank, <<2, 1>>),
  Policy("TransportPriority", Blank, <<-Largest>>),
  Policy("DestinationOrder", "BySourceTimestamp", << >>),
  Policy("WriterDataLifecycle", Blank, <<0>>),
  Policy("ReaderDataLifecycle", Blank, <<8, Longest>>),
  Policy("DurabilityService", Blank, <<9, KeepAllHistory, 1, 2, 3>>),
  Policy("IgnoreLocal", "Process", << >>),
  Policy("Userdata", Blank, <<1>>),
  Policy("Groupdata", Blank, <<2>>),
  Policy("Topicdata", Blank, <<3>>),
  PropertyOf("Property", "k1", 4, 1),
  PropertyOf("Property", "k2", 5, 0),
  PropertyOf("BinaryProperty", "k1", 6, 1),
  Policy("TypeConsistency", "AllowTypeCoercion", <<1, 0, 1, 1, 0>>),
  Policy("DataRepresentation", Blank, <<1, 1>>),
  Policy("EntityName", Blank, <<7>>)>>)

(* Another class of the scopes that have several, and what an empty or     *)
(* partial value does.                                                     *)
OtherClasses == Sorted(<<
  Policy("Reliability", "BestEffort", << >>),
  Policy("Durability", "TransientLocal", << >>),
  Policy("History", "KeepAll", << >>),
  Policy("Ownership", "Shared", << >>),
  Policy("Liveliness", "ManualByParticipant", <<2>>),
  Policy("DestinationOrder", "ByReceptionTimestamp", << >>),
  Policy("DurabilityService", Blank, <<1, 4, 1, 2, 3>>),
  Policy("IgnoreLocal", "Nothing", << >>),
  Policy("Partition", Blank, << >>),
  Policy("Userdata", Blank, <<0>>),
  Policy("Groupdata", Blank, <<0>>),
  PropertyOf("BinaryProperty", "k2", 0, 0),
  Policy("TypeConsistency", "DisallowTypeCoercion", <<1>>),
  Policy("DataRepresentation", Blank, <<0, 1>>),
  Policy("EntityName", Blank, <<0>>)>>)

SomeClasses == Sorted(<<
  Policy("Durability", "Transient", << >>),
  Policy("Liveliness", "Automatic", <<1>>),
  Policy("IgnoreLocal", "Participant", << >>),
  Policy("DataRepresentation", Blank, <<0, 0>>)>>)

(* What can be changed after creation.                                     *)
Changes == Sorted(<<
  Policy("LatencyBudget", Blank, <<1>>),
  Policy("OwnershipStrength", Blank, <<2>>)>>)

Budget == <<Policy("LatencyBudget", Blank, <<5>>)>>

MCLiterals == {OneOfEach, OtherClasses, SomeClasses, Changes}

FewLiterals == {Budget}

MCKind ==
  [topic |-> "Topic", publisher |-> "Publisher",
   reader |-> "DataReader", writer |-> "DataWriter", profile |-> "Subscriber"]

MCDefaults == [k \in DOMAIN SupportedScopes |->
  IF k \in {"DataReader", "DataWriter"}
    THEN <<Policy("Durability", "Volatile", << >>),
           Policy("History", "KeepLast", <<1>>),
           Policy("LatencyBudget", Blank, <<0>>)>>
    ELSE << >>]

MCInFile == [profile |-> Sorted(<<
  Policy("PresentationAccessScope", "Instance", <<0, 1>>),
  Policy("Partition", Blank, <<3>>),
  Policy("Deadline", Blank, <<1>>)>>)]

(* The register is proved for policies that fit: these do.                 *)
ASSUME FittingAssumption == PoliciesFit
============================================================================
