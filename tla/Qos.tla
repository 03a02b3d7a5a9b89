-------------------------------- MODULE Qos --------------------------------
(***************************************************************************)
(* Threads that compute with Qos objects, create entities, and call        *)
(* set_qos and get_qos.  The getters of _CQos are class methods that let   *)
(* C write its answer into class attributes (_gc_reliability, ...) and     *)
(* read them afterwards.  The C call gives up the interpreter lock, so     *)
(* another thread can run between the two: Call and Read are steps of      *)
(* their own.                                                              *)
(***************************************************************************)
EXTENDS QosObjects

CONSTANTS Threads,
          Getters,     \* the threads that call get_qos
          Makers,      \* the threads that make Qos objects and entities
          Entities,    \* what the program creates
          Profiles,    \* what a QosProvider finds in its file
          Kind,        \* entity or profile -> what it is for
          Defaults,    \* entity kind -> the policies C adds
          InFile,      \* profile -> its policies
          Changeable,  \* scope names dds_set_qos accepts after creation
          Literals,    \* the policies the program writes down
          MaxObjects,  \* bound: operations on Qos objects
          MaxCalls,    \* bound: calls that create an entity or set its Qos
          Absent, NoQos

ASSUME QosAssumption ==
  /\ \A l \in Literals : IsQos("Qos", l)
  /\ \A e \in Profiles : IsQos("Qos", InFile[e])
  /\ \A e \in Entities : IsQos(Kind[e], Defaults[Kind[e]])
  /\ PropertyKeys \in Seq(ToSet(PropertyKeys)) /\ IsInjective(PropertyKeys)
  /\ Blank \notin ToSet(PropertyKeys)
  /\ Absent \notin Entities \cup Profiles

VARIABLES held,     \* thread -> the Qos object it works with and its class
          pc,       \* thread -> what it is doing
          place,    \* thread -> the entity or profile it does it to
          cq,       \* thread -> the C qos it made, or NoQos
          at,       \* thread -> index in AllScopes
          found,    \* thread -> the policies read so far
          cells,    \* the class attributes, by the scope they serve
          native,   \* entity or profile -> the C qos it has, or Absent
          objects,  \* counts operations on Qos objects
          calls     \* counts creations and calls of set_qos

vars == <<held, pc, place, cq, at, found, cells, native, objects, calls>>

Places == Entities \cup Profiles

(* _CQos._all_scopes                                                       *)
AllScopes ==
  <<"Reliability", "Durability", "History", "ResourceLimits", "PresentationAccessScope",
    "Lifespan", "Deadline", "LatencyBudget", "Ownership", "OwnershipStrength",
    "Liveliness", "TimeBasedFilter", "Partition", "TransportPriority",
    "DestinationOrder", "WriterDataLifecycle", "ReaderDataLifecycle",
    "DurabilityService", "IgnoreLocal", "Userdata", "Groupdata", "Topicdata",
    "Property", "BinaryProperty", "TypeConsistency", "DataRepresentation",
    "EntityName">>

----------------------------------------------------------------------------
(* The dispatch on the scope of qos_to_cqos and cqos_to_qos.               *)

ToC(p) ==
  LET s == p.scope[1]
  IN CASE s = "Reliability" -> SetReliability(p)
       [] s = "Durability" -> SetDurability(p)
       [] s = "History" -> SetHistory(p)
       [] s = "ResourceLimits" -> SetResourceLimits(p)
       [] s = "PresentationAccessScope" -> SetPresentation(p)
       [] s = "Lifespan" -> SetLifespan(p)
       [] s = "Deadline" -> SetDeadline(p)
       [] s = "LatencyBudget" -> SetLatencyBudget(p)
       [] s = "Ownership" -> SetOwnership(p)
       [] s = "OwnershipStrength" -> SetOwnershipStrength(p)
       [] s = "Liveliness" -> SetLiveliness(p)
       [] s = "TimeBasedFilter" -> SetTimeBasedFilter(p)
       [] s = "Partition" -> SetPartition(p)
       [] s = "TransportPriority" -> SetTransportPriority(p)
       [] s = "DestinationOrder" -> SetDestinationOrder(p)
       [] s = "WriterDataLifecycle" -> SetWriterDataLifecycle(p)
       [] s = "ReaderDataLifecycle" -> SetReaderDataLifecycle(p)
       [] s = "DurabilityService" -> SetDurabilityService(p)
       [] s = "IgnoreLocal" -> SetIgnoreLocal(p)
       [] s = "Userdata" -> SetUserdata(p)
       [] s = "Groupdata" -> SetGroupdata(p)
       [] s = "Topicdata" -> SetTopicdata(p)
       [] s = "Property" -> SetProperty(p)
       [] s = "BinaryProperty" -> SetBinaryProperty(p)
       [] s = "TypeConsistency" -> SetTypeConsistency(p)
       [] s = "DataRepresentation" -> SetDataRepresentation(p)
       [] s = "EntityName" -> SetEntityName(p)

FromC(s, c) ==
  CASE s = "Reliability" -> GetReliability(c)
    [] s = "Durability" -> GetDurability(c)
    [] s = "History" -> GetHistory(c)
    [] s = "ResourceLimits" -> GetResourceLimits(c)
    [] s = "PresentationAccessScope" -> GetPresentation(c)
    [] s = "Lifespan" -> GetLifespan(c)
    [] s = "Deadline" -> GetDeadline(c)
    [] s = "LatencyBudget" -> GetLatencyBudget(c)
    [] s = "Ownership" -> GetOwnership(c)
    [] s = "OwnershipStrength" -> GetOwnershipStrength(c)
    [] s = "Liveliness" -> GetLiveliness(c)
    [] s = "TimeBasedFilter" -> GetTimeBasedFilter(c)
    [] s = "Partition" -> GetPartition(c)
    [] s = "TransportPriority" -> GetTransportPriority(c)
    [] s = "DestinationOrder" -> GetDestinationOrder(c)
    [] s = "WriterDataLifecycle" -> GetWriterDataLifecycle(c)
    [] s = "ReaderDataLifecycle" -> GetReaderDataLifecycle(c)
    [] s = "DurabilityService" -> GetDurabilityService(c)
    [] s = "IgnoreLocal" -> GetIgnoreLocal(c)
    [] s = "Userdata" -> GetUserdata(c)
    [] s = "Groupdata" -> GetGroupdata(c)
    [] s = "Topicdata" -> GetTopicdata(c)
    [] s = "TypeConsistency" -> GetTypeConsistency(c)
    [] s = "DataRepresentation" -> GetDataRepresentation(c)
    [] s = "EntityName" -> GetEntityName(c)

(* A C qos: the scopes that are set, with the arguments they were set to.  *)
QosToC(q) ==
  LET set == Chosen(q, {i \in DOMAIN q : HasEffect(q[i])})
  IN [s \in {set[i].scope : i \in DOMAIN set} |->
        ToC(set[CHOOSE i \in DOMAIN set : set[i].scope = s])]

(* The getters that keep what C returns in variables of their own.         *)
OwnVariables == {"Property", "BinaryProperty", "DataRepresentation"}

(* The class attributes a getter uses; the three kinds of data share one   *)
(* pair.                                                                   *)
Cells(s) == IF s \in {"Userdata", "Groupdata", "Topicdata"} THEN "data" ELSE s

(* The next getter that finds its scope set: those before it find nothing  *)
(* and leave everything as it is.                                          *)
Answers(c, s) == \E scope \in DOMAIN c : scope[1] = s

NextScope(c, i) ==
  LET answered == {j \in i..Len(AllScopes) : Answers(c, AllScopes[j])}
  IN IF answered = {} THEN Len(AllScopes) + 1 ELSE Min(answered)

(* What the property getters make of the names C lists.                    *)
Properties(s, c) ==
  LET keys == Chosen(PropertyKeys, {i \in DOMAIN PropertyKeys : <<s, PropertyKeys[i]>> \in DOMAIN c})
  IN [i \in DOMAIN keys |->
        IF s = "Property" THEN GetProperty(keys[i], c[<<s, keys[i]>>])
                          ELSE GetBinaryProperty(keys[i], c[<<s, keys[i]>>])]

----------------------------------------------------------------------------
Init ==
  /\ held = [t \in Threads |-> [class |-> "Qos", policies |-> << >>]]
  /\ pc = [t \in Threads |-> "idle"]
  /\ place = [t \in Threads |-> Absent]
  /\ cq = [t \in Threads |-> NoQos]
  /\ at = [t \in Threads |-> 0]
  /\ found = [t \in Threads |-> << >>]
  /\ cells = [s \in {} |-> << >>]
  /\ native = [e \in Places |-> IF e \in Entities THEN Absent ELSE QosToC(InFile[e])]
  /\ objects = 0
  /\ calls = 0

Classes == {"Qos"} \cup {Kind[e] : e \in Places}

MayWork(t) == t \in Makers /\ pc[t] = "idle" /\ objects < MaxObjects

(* Operations on Qos objects, which are immutable: the thread goes on with *)
(* the result.  An operation that raises ValueError has none.              *)
Result(t, class, ps) ==
  /\ objects' = objects + 1
  /\ held' = [held EXCEPT ![t] = [class |-> class, policies |-> ps]]
  /\ UNCHANGED <<pc, place, cq, at, found, cells, native, calls>>

(* What the program can take for an operand.                               *)
Operands(t) == Literals \cup {<< >>, held[t].policies}

(* A Qos or a limited Qos made of policies, with or without a base.        *)
Construct(t, l, base) ==
  /\ MayWork(t)
  /\ LET ps == Sorted(WithBase(l, base))
     IN \E class \in Classes : Consistent(class, ps) /\ Result(t, class, ps)

Subtract(t, q, l) ==
  /\ MayWork(t)
  /\ CanSubtract(q, l)
  /\ Result(t, "Qos", Minus(q, l))

Narrow(t, q, class) ==
  MayWork(t) /\ Result(t, class, Narrowed(class, q))

(* A constructor makes a C qos of a Qos that has policies, and passes none *)
(* for an empty one.                                                       *)
StartCreate(t, e) ==
  /\ t \in Makers /\ pc[t] = "idle"
  /\ native[e] = Absent
  /\ \A u \in Threads : place[u] # e
  /\ calls < MaxCalls
  /\ held[t].class \in {"Qos", Kind[e]}
  /\ pc' = [pc EXCEPT ![t] = "creating"]
  /\ place' = [place EXCEPT ![t] = e]
  /\ cq' = [cq EXCEPT ![t] = QosToC(held[t].policies)]
  /\ calls' = calls + 1
  /\ UNCHANGED <<held, at, found, cells, native, objects>>

Done(t) ==
  /\ pc' = [pc EXCEPT ![t] = "idle"]
  /\ place' = [place EXCEPT ![t] = Absent]
  /\ cq' = [cq EXCEPT ![t] = NoQos]

(* What c sets goes over what d has.                                       *)
SetOver(c, d) == [s \in DOMAIN c \cup DOMAIN d |-> IF s \in DOMAIN c THEN c[s] ELSE d[s]]

(* dds_create_...: what the entity supports of the qos, over the defaults. *)
Given(e, c) == [s \in {s \in DOMAIN c : Supports(Kind[e], s)} |-> c[s]]

Create(t) ==
  LET e == place[t]
  IN /\ pc[t] = "creating"
     /\ native' = [native EXCEPT ![e] = SetOver(Given(e, cq[t]), QosToC(Defaults[Kind[e]]))]
     /\ Done(t)
     /\ UNCHANGED <<held, at, found, cells, objects, calls>>

StartSet(t, e) ==
  /\ t \in Makers /\ pc[t] = "idle"
  /\ native[e] # Absent
  /\ calls < MaxCalls
  /\ pc' = [pc EXCEPT ![t] = "setting"]
  /\ place' = [place EXCEPT ![t] = e]
  /\ cq' = [cq EXCEPT ![t] = QosToC(held[t].policies)]
  /\ calls' = calls + 1
  /\ UNCHANGED <<held, at, found, cells, native, objects>>

(* dds_set_qos refuses a qos with a policy that can no longer change, and  *)
(* set_qos raises DDSException after destroying the C qos.                 *)
Set(t) ==
  LET e == place[t]
      may == \A s \in DOMAIN cq[t] : s[1] \in Changeable /\ Supports(Kind[e], s)
  IN /\ pc[t] = "setting"
     /\ native' = IF may THEN [native EXCEPT ![e] = SetOver(cq[t], @)] ELSE native
     /\ Done(t)
     /\ UNCHANGED <<held, at, found, cells, objects, calls>>

(* get_qos, and the look-up of a profile                                   *)
StartGet(t, e) ==
  /\ t \in Getters /\ pc[t] = "idle"
  /\ native[e] # Absent
  /\ pc' = [pc EXCEPT ![t] = "fetching"]
  /\ place' = [place EXCEPT ![t] = e]
  /\ UNCHANGED <<held, cq, at, found, cells, native, objects, calls>>

Fetch(t) ==
  /\ pc[t] = "fetching"
  /\ cq' = [cq EXCEPT ![t] = native[place[t]]]
  /\ pc' = [pc EXCEPT ![t] = "calling"]
  /\ at' = [at EXCEPT ![t] = NextScope(native[place[t]], 1)]
  /\ found' = [found EXCEPT ![t] = << >>]
  /\ UNCHANGED <<held, place, cells, native, objects, calls>>

(* The C call of one getter.                                               *)
Call(t) ==
  LET c == cq[t]
      s == AllScopes[at[t]]
      shared == s \notin OwnVariables
      own == IF s = "DataRepresentation" THEN FromC(s, c[<<s, Blank>>]) ELSE Properties(s, c)
  IN /\ pc[t] = "calling"
     /\ at[t] <= Len(AllScopes)
     /\ IF shared
          THEN /\ cells' = SetOver([k \in {Cells(s)} |-> c[<<s, Blank>>]], cells)
               /\ pc' = [pc EXCEPT ![t] = "reading"]
               /\ UNCHANGED <<at, found>>
          ELSE /\ found' = [found EXCEPT ![t] = @ \o own]
               /\ at' = [at EXCEPT ![t] = NextScope(c, @ + 1)]
               /\ UNCHANGED <<pc, cells>>
     /\ UNCHANGED <<held, place, cq, native, objects, calls>>

Read(t) ==
  LET s == AllScopes[at[t]]
  IN /\ pc[t] = "reading"
     /\ found' = [found EXCEPT ![t] = @ \o FromC(s, cells[Cells(s)])]
     /\ pc' = [pc EXCEPT ![t] = "calling"]
     /\ at' = [at EXCEPT ![t] = NextScope(cq[t], @ + 1)]
     /\ UNCHANGED <<held, place, cq, cells, native, objects, calls>>

(* cqos_to_qos sorts what it found; a profile is narrowed to its kind.     *)
Finish(t) ==
  LET q == Sorted(found[t])
      profile == place[t] \in Profiles
  IN /\ pc[t] = "calling"
     /\ at[t] > Len(AllScopes)
     /\ held' = [held EXCEPT ![t] =
           IF profile THEN [class |-> Kind[place[t]], policies |-> Narrowed(Kind[place[t]], q)]
                      ELSE [class |-> "Qos", policies |-> q]]
     /\ found' = [found EXCEPT ![t] = << >>]
     /\ at' = [at EXCEPT ![t] = 0]
     /\ Done(t)
     /\ UNCHANGED <<cells, native, objects, calls>>

Next ==
  \E t \in Threads :
    \/ \E l \in Literals, base \in Operands(t) : Construct(t, l, base)
    \/ \E l \in Literals, q \in Operands(t) : Subtract(t, q, l)
    \/ \E q \in Operands(t), class \in Classes : Narrow(t, q, class)
    \/ \E e \in Entities : StartCreate(t, e) \/ StartSet(t, e)
    \/ Create(t)
    \/ Set(t)
    \/ \E e \in Places : StartGet(t, e)
    \/ Fetch(t)
    \/ Call(t)
    \/ Read(t)
    \/ Finish(t)

Spec == Init /\ [][Next]_vars

----------------------------------------------------------------------------
(* What a C qos says: its scopes in the order of their names, each read    *)
(* with no one in between; before there is one, the defaults.              *)
Answer(s, c) ==
  IF s \in PropertyScopes THEN Properties(s, c)
  ELSE IF <<s, Blank>> \in DOMAIN c THEN FromC(s, c[<<s, Blank>>])
  ELSE << >>

AllAnswers(c) == FlattenSeq([i \in DOMAIN ScopeNames |-> Answer(ScopeNames[i], c)])

Says(e, c) == IF c = Absent THEN Defaults[Kind[e]] ELSE Narrowed(Kind[e], AllAnswers(c))

(* To lay a Qos over another goes by scope.  A policy that says nothing    *)
(* takes away what was there; a DataRepresentation of no version leaves it.*)
SaysNothing(p) ==
  \/ p.scope[1] = "Partition" /\ p.args = << >>
  \/ p.scope[1] \in {"Userdata", "Topicdata", "Groupdata"} /\ p.args = <<0>>

NoVersion(p) == p.scope[1] = "DataRepresentation" /\ p.args = <<0, 0>>

Overlaid(e, q, old) ==
  LET supported == Narrowed(Kind[e], q)
      new == Chosen(supported, {i \in DOMAIN supported : ~NoVersion(supported[i])})
      sum == Plus(old, new)
  IN Chosen(sum, {i \in DOMAIN sum : ~SaysNothing(sum[i])})

(* The register this implements: get_qos takes its value in Fetch.         *)
InGet ==
  [t \in Threads |->
     IF pc[t] \in {"fetching", "calling", "reading"}
       THEN [place |-> place[t], taken |-> IF pc[t] = "fetching" THEN Absent ELSE cq[t]]
       ELSE [place |-> Absent, taken |-> Absent]]

Policies == [t \in Threads |-> held[t].policies]

Register == INSTANCE QosRegister WITH
  Over <- Overlaid, content <- native, call <- InGet, held <- Policies

(* ctypes cuts an integer to its width.  The policies of a program fit     *)
(* when their integers are in range and the flags of a DataRepresentation  *)
(* are truth values, in what the program writes down, in its files and in  *)
(* the defaults.                                                           *)
InRange(s, a) ==
  /\ s \in {"Reliability", "Liveliness", "Lifespan", "Deadline", "LatencyBudget",
            "TimeBasedFilter", "ReaderDataLifecycle"} => \A i \in DOMAIN a : Duration(a[i]) = a[i]
  /\ s \in {"History", "ResourceLimits", "OwnershipStrength", "TransportPriority"} =>
       \A i \in DOMAIN a : Int32(a[i]) = a[i]
  /\ s = "DurabilityService" =>
       Duration(a[1]) = a[1] /\ \A i \in 2 .. 5 : Int32(a[i]) = a[i]
  /\ s = "DataRepresentation" => \A i \in DOMAIN a : a[i] \in {0, 1}

Fits(p) ==
  /\ IsPolicy(p) /\ p = [scope |-> p.scope, kind |-> p.kind, args |-> p.args]
  /\ p.scope \in Scopes
  /\ p.scope[1] \in PropertyScopes => p.scope[2] \in ToSet(PropertyKeys)
  /\ InRange(p.scope[1], p.args)

AllFit(q) == \A x \in ToSet(q) : Fits(x)

PoliciesFit ==
  /\ \A l \in Literals : AllFit(l)
  /\ \A e \in Profiles : AllFit(InFile[e])
  /\ \A e \in Entities : AllFit(Defaults[Kind[e]]) /\ \A x \in ToSet(Defaults[Kind[e]]) : HasEffect(x)

(* Types: threads hold Qos objects, sorted, without two policies of a      *)
(* scope and within what their class supports.                             *)
TypeOK ==
  /\ \A t \in Threads : IsQos(held[t].class, held[t].policies)
  /\ pc \in [Threads -> {"idle", "creating", "setting", "fetching", "calling", "reading"}]
  /\ place \in [Threads -> Places \cup {Absent}]
  /\ at \in [Threads -> 0..(Len(AllScopes) + 1)]
  /\ \A t \in Threads : \A i \in DOMAIN found[t] : IsPolicy(found[t][i])

(* What can be said of objects is checked where no call is under way: the  *)
(* calls leave the objects alone.                                          *)
AllIdle == \A t \in Threads : pc[t] = "idle"

(* The scan of qos[...] and of "in", which stops at the first larger scope *)
(* (qos.py:765-793), finds a policy whenever one of that scope is there.   *)
LookUpFindsAll ==
  AllIdle => \A t \in Threads, l \in Literals : \A i \in DOMAIN l :
    LET q == held[t].policies
        p == l[i]
        same == {j \in DOMAIN q : q[j].scope = p.scope}
    IN /\ ContainsScope(q, p.scope) <=> same # {}
       /\ \A j \in same : Equal(LookUp(q, p.scope), q[j])
       /\ ContainsPolicy(q, p) <=> \E j \in same : Equal(q[j], p)

(* A Qos made from the dictionary of a Qos equals it (qos.py:815-895).     *)
DictReadBack ==
  AllIdle => \A t \in Threads : SameQos(FromDict(AsDict(held[t].policies)), held[t].policies)

(* Addition lets the right operand win and keeps the rest of the left one; *)
(* what was added can be subtracted; a Qos minus itself is empty and plus  *)
(* itself is the same (qos.py:897-903, tests/test_qos.py:79-80).           *)
SumsAddUp ==
  AllIdle => \A t \in Threads :
    LET q == held[t].policies
    IN /\ SameQos(Plus(q, q), q)
       /\ SameQos(Minus(q, q), << >>)
       /\ \A r \in Literals :
            LET sum == Plus(q, r)
                rest == Chosen(q, {j \in DOMAIN q : \A i \in DOMAIN r : r[i].scope # q[j].scope})
            IN CanSubtract(sum, r) /\ SameQos(Minus(sum, r), rest)

(* get_qos and set_qos implement one register per entity (core.py:418-465, *)
(* qos.py:1077-1097), as long as one thread at a time calls get_qos.       *)
ImplementsRegister == Register!RegSpec

(* Every policy a get_qos has read so far is one of the entity it was      *)
(* called for: "Get the Qos associated with this entity" (core.py:419).    *)
ReadsOwnEntity ==
  \A t \in Threads : cq[t] # NoQos /\ pc[t] \in {"calling", "reading"} =>
    \A i \in DOMAIN found[t] :
      Supports(Kind[place[t]], found[t][i].scope) =>
        \E j \in DOMAIN Says(place[t], cq[t]) :
          Equal(found[t][i], Says(place[t], cq[t])[j])
============================================================================
