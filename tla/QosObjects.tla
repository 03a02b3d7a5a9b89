---------------------------- MODULE QosObjects -----------------------------
(***************************************************************************)
(* Qos of qos.py: an immutable sequence of policies sorted by scope, built *)
(* from policies and a base, looked up by a scan that stops at the first   *)
(* larger scope, added, subtracted, narrowed to what an entity supports,   *)
(* and written as a dictionary and read back.                              *)
(***************************************************************************)
EXTENDS QosPolicies, SequencesExt

CONSTANT PropertyKeys    \* the property names in use, in alphabetical order

NoPolicy == [scope |-> <<Blank, Blank>>, kind |-> Blank, args |-> << >>]

(* The order of the scope names as strings.                                *)
ScopeNames ==
  <<"BinaryProperty", "DataRepresentation", "Deadline", "DestinationOrder", "Durability",
    "DurabilityService", "EntityName", "Groupdata", "History", "IgnoreLocal",
    "LatencyBudget", "Lifespan", "Liveliness", "Ownership", "OwnershipStrength",
    "Partition", "PresentationAccessScope", "Property", "ReaderDataLifecycle",
    "Reliability", "ResourceLimits", "TimeBasedFilter", "Topicdata",
    "TransportPriority", "TypeConsistency", "Userdata", "WriterDataLifecycle">>

Ranks(names) ==
  [n \in {names[i] : i \in DOMAIN names} |-> CHOOSE i \in DOMAIN names : names[i] = n]

ScopeRank == Ranks(ScopeNames)

KeyRank == Ranks(<<Blank>> \o PropertyKeys)

Before(s, t) ==
  \/ ScopeRank[s[1]] < ScopeRank[t[1]]
  \/ s[1] = t[1] /\ KeyRank[s[2]] < KeyRank[t[2]]

(* The first of some places in q, or one past its end.                     *)
First(q, places) == IF places = {} THEN Len(q) + 1 ELSE Min(places)

(* What q has in some places, in their order.                              *)
Chosen(q, places) ==
  FlattenSeq([i \in DOMAIN q |-> IF i \in places THEN <<q[i]>> ELSE << >>])

(* sorted(policies, key=...) is stable: a policy goes before the first one *)
(* of a larger scope.                                                      *)
Inserted(q, p) ==
  InsertAt(q, First(q, {i \in DOMAIN q : Before(p.scope, q[i].scope)}), p)

Sorted(ps) ==
  LET sorted[n \in 0..Len(ps)] == IF n = 0 THEN << >> ELSE Inserted(sorted[n - 1], ps[n])
  IN sorted[Len(ps)]

(* The policies of base whose scope is not given anew come after those     *)
(* given.                                                                  *)
WithBase(ps, base) ==
  ps \o Chosen(base, {j \in DOMAIN base : \A i \in DOMAIN ps : ps[i].scope # base[j].scope})

----------------------------------------------------------------------------
(* What each entity supports.                                              *)

Everywhere == {"EntityName", "BinaryProperty", "Property", "IgnoreLocal"}

AllEndpoints ==
  Everywhere \cup {"Deadline", "DestinationOrder", "Durability", "History",
    "LatencyBudget", "Liveliness", "Ownership", "Reliability", "ResourceLimits",
    "TypeConsistency", "DataRepresentation"}

SupportedScopes ==
  [DomainParticipant |-> Everywhere \cup {"Userdata"},
   Topic |-> AllEndpoints \cup {"DurabilityService", "Lifespan", "Topicdata",
                                "TransportPriority"},
   Publisher |-> Everywhere \cup {"Groupdata", "Partition", "PresentationAccessScope"},
   Subscriber |-> Everywhere \cup {"Groupdata", "Partition", "PresentationAccessScope"},
   DataWriter |-> AllEndpoints \cup {"DurabilityService", "Lifespan", "OwnershipStrength",
                                     "TransportPriority", "Userdata", "WriterDataLifecycle"},
   DataReader |-> AllEndpoints \cup {"ReaderDataLifecycle", "TimeBasedFilter", "Userdata"}]

(* A plain Qos takes any policy.                                           *)
Supports(class, scope) ==
  scope[1] \in IF class = "Qos" THEN DOMAIN ScopeRank
                                ELSE SupportedScopes[class]

(* _assert_consistency, on sorted policies: neighbours differ in scope and *)
(* a limited Qos has only what its entity supports.                        *)
Consistent(class, ps) ==
  /\ \A i \in 2..Len(ps) : ps[i - 1].scope # ps[i].scope
  /\ \A i \in DOMAIN ps : Supports(class, ps[i].scope)

(* A Qos object of a class: sorted, with one policy of a scope.            *)
Scopes == (DOMAIN ScopeRank) \X (DOMAIN KeyRank)

IsQos(class, q) ==
  /\ q \in Seq(ToSet(q))
  /\ \A i \in DOMAIN q : IsPolicy(q[i]) /\ q[i].scope \in Scopes /\ Supports(class, q[i].scope)
  /\ \A i \in 2..Len(q) : Before(q[i - 1].scope, q[i].scope)

(* Mutant of Narrowed: what the entity does not support stays.             *)
Narrowed_All(class, q) == q

Narrowed(class, q) == Chosen(q, {i \in DOMAIN q : Supports(class, q[i].scope)})

----------------------------------------------------------------------------
(* Mutant of Scanned: the scan ends at the first policy of another scope.  *)
Scanned_Eager(q, scope) ==
  SubSeq(q, 1, First(q, {i \in DOMAIN q : q[i].scope # scope}) - 1)

(* The scan of __getitem__ and __contains__ ends at the first policy of a  *)
(* larger scope.                                                           *)
Scanned(q, scope) ==
  SubSeq(q, 1, First(q, {i \in DOMAIN q : Before(scope, q[i].scope)}) - 1)

LookUp(q, scope) ==
  LET s == Scanned(q, scope)
      hit == First(s, {i \in DOMAIN s : s[i].scope = scope})
  IN IF hit > Len(s) THEN NoPolicy ELSE s[hit]

(* A class is contained when its scope is; a policy when an equal one is.  *)
ContainsScope(q, scope) == LookUp(q, scope) # NoPolicy

Equal(p, r) == p.scope = r.scope /\ p.kind = r.kind /\ p.args = r.args

ContainsPolicy(q, p) ==
  LET s == Scanned(q, p.scope) IN \E i \in DOMAIN s : Equal(s[i], p)

SameQos(q, r) == Len(q) = Len(r) /\ \A i \in DOMAIN q : Equal(q[i], r[i])

(* Mutant of Plus: the policies of the left operand win.                   *)
Plus_LeftWins(q, r) == Sorted(WithBase(q, r))

Plus(q, r) == Sorted(WithBase(r, q))

CanSubtract(q, r) == \A i \in DOMAIN r : ContainsPolicy(q, r[i])

Minus(q, r) == Chosen(q, {i \in DOMAIN q : ~ContainsPolicy(r, q[i])})

----------------------------------------------------------------------------
(* asdict and fromdict: a dictionary, in the order it was filled, from     *)
(* scopes to the class, under "kind", and the fields; bytes are text in    *)
(* base 64, here a negative number, and the history of DurabilityService   *)
(* is a dictionary of its own, empty for KeepAll.                          *)

Base64(n) == -1 - n

Unbase64(n) == -1 - n

HasBytes == {"Userdata", "Topicdata", "Groupdata", "BinaryProperty"}

AsDict(q) ==
  [i \in DOMAIN q |->
     LET p == q[i]
         service == p.scope[1] = "DurabilityService"
         text == IF p.scope[1] \in HasBytes THEN [p.args EXCEPT ![1] = Base64(@)] ELSE p.args
     IN [key |-> p.scope, kind |-> p.kind,
         fields |-> IF service THEN [text EXCEPT ![2] = 0] ELSE text,
         history |-> IF service /\ p.args[2] # KeepAllHistory THEN <<p.args[2]>> ELSE << >>]]

(* Mutant of HistoryOf: an empty history is taken for KeepLast(0).         *)
HistoryOf_NoKeepAll(h) == IF h = << >> THEN 0 ELSE h[1]

HistoryOf(h) == IF h = << >> THEN KeepAllHistory ELSE h[1]

(* The branches of fromdict, by the name of the entry.                     *)
FromEntry(v) ==
  LET s == v.key
      fields ==
        CASE s[1] = "DurabilityService" -> [v.fields EXCEPT ![2] = HistoryOf(v.history)]
          [] s[1] \in {"Userdata", "Topicdata", "Groupdata"} ->
               [v.fields EXCEPT ![1] = Unbase64(@)]
          [] s[1] = "BinaryProperty" -> [v.fields EXCEPT ![1] = Unbase64(@)]
          [] OTHER -> v.fields
  IN [scope |-> s, kind |-> v.kind, args |-> fields]

FromDict(d) == Sorted([i \in DOMAIN d |-> FromEntry(d[i])])
============================================================================
